------------------------------- MODULE Parrot -------------------------------
(***************************************************************************)
(* The parrot (internal/dmr/parrot.go, parrot_redis.go and the branch for  *)
(* destination 9990 of packet_handler.go:208-256): the frames of one       *)
(* transmission are recorded in a Redis list; its terminator starts a      *)
(* goroutine that reads the list, erases it, and sends the frames back at  *)
(* intervals of 60ms, with one more goroutine per frame that tracks the    *)
(* play-back as a call.  Those goroutines share the loop's variables.      *)
(***************************************************************************)
EXTENDS Naturals, FiniteSets, Sequences, SequencesExt

CONSTANTS
    Frames,    \* frames of the transmission; the last one is its terminator
    Faults,    \* what may go wrong, a subset of Hazards
    MaxRunning \* bound: tracking goroutines alive at once (1: none outlasts 60ms)

Hazards == {"lose", "reorder", "duplicate", "crash"}

ASSUME ParrotAssumption ==
    /\ Frames \in Nat \ {0}
    /\ Faults \subseteq Hazards
    /\ MaxRunning \in Nat \ {0}

VARIABLES
    sent,      \* frames that the hotspot has sent
    net,       \* frames on their way to the handler
    heard,     \* heard[a]: the frame that arrived a-th
    started,   \* the key parrot:stream:<id> exists
    list,      \* parrot:stream:<id>:packets, as arrival numbers
    expiry,    \* the list has a time to live
    player,    \* player[p]: the goroutine of the p-th terminator handled
    track,     \* track[p][j]: the tracking goroutine of p's j-th frame
    played,    \* arrivals that have been sent back
    fault      \* one of the Faults has happened

redis == <<started, list, expiry>>
air   == <<sent, net, heard, fault>>
vars  == <<air, redis, player, track, played>>

\* One frame is duplicated at most: arrivals, and terminators among them.
Arrivals == 1..(Frames + 1)
Players  == 1..2

\* The locals of a play-back: len and got of getStream; j counts the frames begun,
\* begun is the flag `started` of the loop; ended: EndCall has been called.
Player == [pc    : {"idle", "measure", "fetch", "play", "done"},
           len   : 0..(Frames + 1),
           got   : Seq(Arrivals),
           j     : 0..(Frames + 1),
           begun : BOOLEAN,
           ended : BOOLEAN]

NoPlayer == [pc |-> "idle", len |-> 0, got |-> <<>>, j |-> 0,
             begun |-> FALSE, ended |-> FALSE]

IsTerm(f) == f = Frames

\* The tracking goroutines that are alive.
Tracked == {t \in Players \X Arrivals : track[t[1]][t[2]] \notin {"none", "over"}}

----------------------------------------------------------------------------
(* The hotspot and the network. *)

Transmit ==
    /\ sent < Frames
    /\ sent' = sent + 1
    /\ net' = Append(net, sent + 1)
    /\ UNCHANGED <<heard, redis, player, track, played, fault>>

Lose(i) ==
    /\ "lose" \in Faults
    /\ net' = RemoveAt(net, i)
    /\ fault' = TRUE
    /\ UNCHANGED <<sent, heard, redis, player, track, played>>

----------------------------------------------------------------------------
(* The handler, one packet at a time. *)

\* RecordPacket's RPush; its mutant is an LPush.
PushFront(a) == <<a>> \o list

Push(a) == Append(list, a)

\* The stream is started if it is not; an RPush to no list makes one that
\* does not expire.
Record(a) ==
    /\ started' = TRUE
    /\ list' = Push(a)
    /\ expiry' = (expiry /\ list # <<>>)
    /\ UNCHANGED player

\* Mutant of StopStream: the stream is stopped and nobody plays it.
StopSilently(a) ==
    /\ started' = FALSE
    /\ list' = Push(a)
    /\ expiry' = TRUE
    /\ UNCHANGED player

\* A terminator is recorded, the stream stopped and its play-back begun.
StopStream(a) ==
    /\ started' = FALSE
    /\ list' = Push(a)
    /\ expiry' = TRUE
    /\ \E p \in Players :
        /\ player[p].pc = "idle" /\ \A q \in 1..(p - 1) : player[q].pc # "idle"
        /\ player' = [player EXCEPT ![p].pc = "measure"]

Handle(f) ==
    /\ heard' = Append(heard, f)
    /\ IF IsTerm(f) THEN StopStream(Len(heard) + 1) ELSE Record(Len(heard) + 1)
    /\ UNCHANGED <<sent, track, played>>

\* A frame is handled; it stays on its way if it will arrive once more.
Deliver(i) ==
    /\ i = 1 \/ "reorder" \in Faults
    /\ Handle(net[i])
    /\ \/ net' = RemoveAt(net, i) /\ fault' = (fault \/ i > 1)
       \/ /\ "duplicate" \in Faults
          /\ Len(heard) + Len(net) <= sent
          /\ net' = net /\ fault' = TRUE

\* Five minutes without a packet of the stream, which the hotspot has ended.
ExpireStream ==
    /\ started /\ sent = Frames /\ net = <<>>
    /\ started' = FALSE
    /\ UNCHANGED <<air, list, expiry, player, track, played>>

\* Five minutes after StopStream, when a play-back has long read the list.
ExpireList ==
    /\ expiry /\ sent = Frames /\ net = <<>>
    /\ \A p \in Players : player[p].pc \notin {"measure", "fetch"}
    /\ list' = <<>>
    /\ expiry' = FALSE
    /\ UNCHANGED <<air, started, player, track, played>>

----------------------------------------------------------------------------
(* The play-back: getStream ... *)

\* (and its mutant, an index behind the last one)
MeasureBehind(p) ==
    /\ player[p].pc = "measure"
    /\ player' = [player EXCEPT ![p].pc = "fetch", ![p].len = Len(list) + 1]
    /\ UNCHANGED <<air, redis, track, played>>

Measure(p) ==
    /\ player[p].pc = "measure"
    /\ player' = [player EXCEPT ![p].pc = "fetch", ![p].len = Len(list)]
    /\ UNCHANGED <<air, redis, track, played>>

\* LIndex, or its error when another play-back has erased the list.
Fetch(p) ==
    /\ player[p].pc = "fetch" /\ Len(player[p].got) < player[p].len
    /\ LET k == Len(player[p].got) + 1
       IN IF k <= Len(list)
          THEN player' = [player EXCEPT ![p].got = Append(@, list[k])]
          ELSE player' = [player EXCEPT ![p].pc = "done", ![p].got = <<>>]
    /\ UNCHANGED <<air, redis, track, played>>

Erase(p) ==
    /\ player[p].pc = "fetch" /\ Len(player[p].got) = player[p].len
    /\ list' = <<>>
    /\ expiry' = FALSE
    /\ player' = [player EXCEPT ![p].pc = "play"]
    /\ UNCHANGED <<air, started, track, played>>

\* ... and, three seconds later, a frame every 60ms: sendPacket, which sends
\* nothing when the session of the repeater is gone, and a goroutine.
Play(p) ==
    /\ player[p].pc = "play" /\ player[p].j < Len(player[p].got)
    /\ Cardinality(Tracked) < MaxRunning
    /\ LET j == player[p].j + 1
       IN /\ player' = [player EXCEPT ![p].j = j]
          /\ track' = [track EXCEPT ![p][j] = "ready"]
          /\ \/ played' = played \cup {player[p].got[j]} /\ UNCHANGED fault
             \/ "lose" \in Faults /\ fault' = TRUE /\ UNCHANGED played
    /\ UNCHANGED <<sent, net, heard, redis>>

Finish(p) ==
    /\ player[p].pc = "play" /\ player[p].j = Len(player[p].got)
    /\ player' = [player EXCEPT ![p].pc = "done"]
    /\ UNCHANGED <<air, redis, track, played>>

----------------------------------------------------------------------------
(* The tracking goroutines, packet_handler.go:228-237.  What StartCall,    *)
(* ProcessCallPacket and EndCall do is CallTracker's; a play-back shorter  *)
(* than 100ms, which EndCall takes for a key-up, is its KeyUp.             *)

To(p, j, label) == track' = [track EXCEPT ![p][j] = label]

\* Two goroutines that overlap may both find the flag unset, and start two calls.
Look(p, j) ==
    /\ track[p][j] = "ready"
    /\ To(p, j, IF player[p].begun THEN "process" ELSE "start")
    /\ UNCHANGED <<air, redis, player, played>>

StartCall(p, j) ==
    /\ track[p][j] = "start"
    /\ To(p, j, "process")
    /\ player' = [player EXCEPT ![p].begun = TRUE]
    /\ UNCHANGED <<air, redis, played>>

\* Mutant of Process: an index behind the last one.
ProcessBehind(p, j) ==
    /\ track[p][j] = "process"
    /\ To(p, j, IF player[p].j = Len(player[p].got) + 1 THEN "end" ELSE "over")
    /\ UNCHANGED <<air, redis, player, played>>

\* ProcessCallPacket, and the test of j, which the loop may have moved on.
Process(p, j) ==
    /\ track[p][j] = "process"
    /\ To(p, j, IF player[p].j = Len(player[p].got) THEN "end" ELSE "over")
    /\ UNCHANGED <<air, redis, player, played>>

EndCall(p, j) ==
    /\ track[p][j] = "end"
    /\ To(p, j, "over")
    /\ player' = [player EXCEPT ![p].ended = TRUE]
    /\ UNCHANGED <<air, redis, played>>

\* The process dies and is restarted; Redis keeps what it has.
Crash ==
    /\ "crash" \in Faults
    /\ player' = [p \in Players |->
                    IF player[p].pc = "idle" THEN player[p]
                    ELSE [NoPlayer EXCEPT !.pc = "done"]]
    /\ track' = [p \in Players |-> [j \in Arrivals |-> "none"]]
    /\ fault' = TRUE
    /\ UNCHANGED <<sent, net, heard, redis, played>>

----------------------------------------------------------------------------
Init ==
    /\ sent = 0
    /\ net = <<>> /\ heard = <<>>
    /\ started = FALSE /\ list = <<>> /\ expiry = FALSE
    /\ player = [p \in Players |-> NoPlayer]
    /\ track = [p \in Players |-> [j \in Arrivals |-> "none"]]
    /\ played = {} /\ fault = FALSE

Tracking(p, j) == Look(p, j) \/ StartCall(p, j) \/ Process(p, j) \/ EndCall(p, j)
Playing(p)     == Measure(p) \/ Fetch(p) \/ Erase(p) \/ Play(p) \/ Finish(p)

Next ==
    \/ Transmit
    \/ \E i \in 1..Len(net) : Lose(i) \/ Deliver(i)
    \/ ExpireStream \/ ExpireList \/ Crash
    \/ \E p \in Players : Playing(p) \/ \E j \in Arrivals : Tracking(p, j)

\* A transmission ends with a terminator, the handler works its packets off,
\* and the Go scheduler runs every goroutine.
Fairness ==
    /\ WF_vars(Transmit)
    /\ WF_vars(\E i \in 1..Len(net) : Deliver(i))
    /\ \A p \in Players : WF_vars(Playing(p))
    /\ \A p \in Players, j \in Arrivals : WF_vars(Tracking(p, j))

Spec == Init /\ [][Next]_vars /\ Fairness

----------------------------------------------------------------------------
(* Properties. *)

\* The keys, the goroutines and their locals have their types, and the list
\* of packets holds what arrived and nothing else (parrot_redis.go:47-55).
TypeOK ==
    /\ sent \in 0..Frames
    /\ \A i \in 1..Len(net) : net[i] \in 1..Frames
    /\ \A i \in 1..Len(heard) : heard[i] \in 1..Frames
    /\ started \in BOOLEAN /\ expiry \in BOOLEAN /\ fault \in BOOLEAN
    /\ \A i \in 1..Len(list) : list[i] \in 1..Len(heard)
    /\ \A p \in Players :
        /\ player[p] \in Player
        /\ player[p].len <= Len(heard) /\ Len(player[p].got) <= player[p].len
        /\ player[p].j <= Len(player[p].got)
    /\ played \subseteq 1..Len(heard)

\* However the reads of getStream (parrot_redis.go:62-92) interleave with
\* frames that are still recorded and with another play-back that erases the
\* list, a play-back holds frames in the order of their arrival, each once.
RepeatsInOrder ==
    \A p \in Players : \A i, k \in 1..Len(player[p].got) :
        i < k => player[p].got[i] < player[p].got[k]

\* A play-back that has sent a frame and whose goroutines are through has
\* called EndCall, although they all test a j that moves under them
\* (packet_handler.go:234).
EndIsCalled ==
    \A p \in Players :
        (/\ player[p].pc = "done" /\ player[p].got # <<>>
         /\ \A j \in Arrivals : track[p][j] \in {"none", "over"})
            => player[p].ended

\* Every frame recorded is sent back ("stores packets and repeats them back to
\* the repeater", parrot.go:11), unless a fault has come in between.  (A lost
\* terminator alone leaves the recording where it is, without an expiry.)
EveryFrameRepeated ==
    \A a \in Arrivals : (Len(heard) >= a) ~> (a \in played \/ fault)
=============================================================================
