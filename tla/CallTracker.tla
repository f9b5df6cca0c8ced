---------------------------- MODULE CallTracker ----------------------------
(***************************************************************************)
(* The call tracker (internal/dmr/call_tracker.go) as the DMRD handler     *)
(* drives it: one goroutine per voice packet (packet_handler.go:195), one  *)
(* goroutine per timer that fires, no lock around the two maps and a crash *)
(* of the process on a nil timer or on a concurrent map access that the Go *)
(* runtime detects.  The packet counts are those of FrameLoss and left out *)
(* here; a stream stands for the fields that identify a call.              *)
(***************************************************************************)
EXTENDS Naturals, FiniteSets

CONSTANTS
    Packets,     \* voice packets that arrive (each one a goroutine)
    Streams,     \* transmissions the packets may belong to
    MaxCalls,    \* bound: calls created
    MaxRunning,  \* bound: packet goroutines at work at once
    MaxAtWork    \* bound: goroutines at work at once, those of timers included

ASSUME TrackerAssumption ==
    /\ IsFiniteSet(Packets) /\ Streams # {}
    /\ MaxCalls \in Nat /\ MaxRunning \in Nat /\ MaxAtWork \in Nat

Calls == 1..MaxCalls

ASSUME PacketsAreNotCalls == Packets \cap Calls = {}

VARIABLES
    db,         \* db[c]: row of call c; "none", "active", "ended", "deleted"
    inFlight,   \* keys of CallTracker.InFlightCalls
    entered,    \* keys of CallTracker.CallEndTimers
    timer,      \* timer[c]: the timer of call c itself; "none", "armed", "spent"
    armedAt,    \* armedAt[c]: calls created when the timer was last (re)set
    active,     \* active[c]: field Active of the call in memory
    young,      \* young[c]: less than 100ms since StartTime
    stream,     \* stream[c]: the stream call c was started for
    pc,         \* pc[p]: where goroutine p is
    packet,     \* packet[p]: the stream of the packet goroutine p works for
    cur,        \* cur[p]: call that goroutine p holds a pointer to
    todo,       \* todo[p]: calls EndCall's loop has still to visit
    crashed,    \* the process has died and been restarted
    contended   \* history: calls whose timer two goroutines have had in hand to end them

calls == <<db, inFlight, entered, timer, armedAt, active, young, stream>>
vars  == <<calls, pc, packet, cur, todo, crashed, contended>>

\* The timer of call c runs its handler in a goroutine of its own.
Timers  == Calls
Procs   == Packets \cup Timers
NoCall  == 0

\* StartCall, updateCall, EndCall's loop, and what EndCall does to one call.
Starting == {"insert", "arm", "enter"}
Updating == {"refresh", "reset", "update"}
Ending   == {"find", "stop", "delete", "judge", "discard", "save", "leave"}
Running  == {"check", "start", "recheck", "process", "end"}
                \cup Starting \cup Updating \cup Ending

----------------------------------------------------------------------------
(* Helpers. *)

\* Mutant of Created: off by one.
CreatedNext == Cardinality({c \in Calls : db[c] # "none"}) + 1

\* The calls are numbered in the order of their rows.
Created == Cardinality({c \in Calls : db[c] # "none"})

\* The calls that goroutine p takes for those of its packet.
Matching(p) == {c \in inFlight : active[c] /\ stream[c] = packet[p]}

AtWork(S) == {q \in S : pc[q] \in Running}

Goto(p, label) == pc' = [pc EXCEPT ![p] = label]

\* After ProcessCallPacket a terminator ends the call, another packet is done (it
\* makes no difference before which of them the packet is).
AfterProcess(p) ==
    \/ Goto(p, "end") /\ todo' = [todo EXCEPT ![p] = inFlight]
    \/ Goto(p, "done") /\ UNCHANGED todo

\* A panic in a goroutine ends the process; only the rows outlive it, and no call
\* is young after a restart.
Crash ==
    /\ crashed' = TRUE
    /\ inFlight' = {} /\ entered' = {}
    /\ timer' = [c \in Calls |-> "none"]
    /\ armedAt' = [c \in Calls |-> 0]
    /\ active' = [c \in Calls |-> FALSE]
    /\ young' = [c \in Calls |-> FALSE]
    /\ pc' = [p \in Procs |-> IF pc[p] = "idle" THEN "idle" ELSE "done"]
    /\ cur' = [p \in Procs |-> NoCall]
    /\ todo' = [p \in Procs |-> {}]
    /\ UNCHANGED <<db, stream, packet, contended>>

----------------------------------------------------------------------------
(* The packet goroutine, packet_handler.go:195-205. *)

Arrive(p, s) ==
    /\ pc[p] = "idle"
    /\ Cardinality(AtWork(Packets)) < MaxRunning /\ Cardinality(AtWork(Procs)) < MaxAtWork
    /\ Goto(p, "check")
    /\ packet' = [packet EXCEPT ![p] = s]
    /\ UNCHANGED <<calls, cur, todo, crashed, contended>>

\* Mutant of Check: no look at the calls in flight.
CheckNothing(p) ==
    /\ pc[p] = "check"
    /\ Goto(p, "start")
    /\ UNCHANGED <<calls, packet, cur, todo, crashed, contended>>

\* IsCallActive, before StartCall and again after it.
Check(p) ==
    /\ pc[p] = "check"
    /\ Goto(p, IF Matching(p) = {} THEN "start" ELSE "recheck")
    /\ UNCHANGED <<calls, packet, cur, todo, crashed, contended>>

Recheck(p) ==
    /\ pc[p] = "recheck"
    /\ Goto(p, IF Matching(p) = {} THEN "done" ELSE "process")
    /\ UNCHANGED <<calls, packet, cur, todo, crashed, contended>>

\* StartCall: the user, the repeater or the destination does not exist ...
Reject(p) ==
    /\ pc[p] = "start"
    /\ Goto(p, "recheck")
    /\ UNCHANGED <<calls, packet, cur, todo, crashed, contended>>

\* ... or the row is created, ...
Create(p, c) ==
    /\ pc[p] = "start"
    /\ db[c] = "none" /\ \A d \in 1..(c - 1) : db[d] # "none"
    /\ db' = [db EXCEPT ![c] = "active"]
    /\ active' = [active EXCEPT ![c] = TRUE]
    /\ young' = [young EXCEPT ![c] = TRUE]
    /\ stream' = [stream EXCEPT ![c] = packet[p]]
    /\ cur' = [cur EXCEPT ![p] = c]
    /\ Goto(p, "insert")
    /\ UNCHANGED <<inFlight, entered, timer, armedAt, packet, todo, crashed, contended>>

\* ... the call entered in InFlightCalls (a loop over the map that is under way
\* may or may not come across the new entry), ...
Insert(p) ==
    /\ pc[p] = "insert"
    /\ inFlight' = inFlight \cup {cur[p]}
    /\ \E S \in SUBSET {q \in Procs : pc[q] \in {"end"} \cup Ending} :
        todo' = [q \in Procs |-> IF q \in S THEN todo[q] \cup {cur[p]} ELSE todo[q]]
    /\ Goto(p, "arm")
    /\ UNCHANGED <<db, entered, timer, armedAt, active, young, stream, packet, cur,
                   crashed, contended>>

\* ... its timer set, ...
Arm(p) ==
    /\ pc[p] = "arm"
    /\ timer' = [timer EXCEPT ![cur[p]] = "armed"]
    /\ armedAt' = [armedAt EXCEPT ![cur[p]] = Created]
    /\ Goto(p, "enter")
    /\ UNCHANGED <<db, inFlight, entered, active, young, stream, packet, cur, todo,
                   crashed, contended>>

\* ... and entered in CallEndTimers.
Enter(p) ==
    /\ pc[p] = "enter"
    /\ entered' = entered \cup {cur[p]}
    /\ cur' = [cur EXCEPT ![p] = NoCall]
    /\ Goto(p, "recheck")
    /\ UNCHANGED <<db, inFlight, timer, armedAt, active, young, stream, packet, todo,
                   crashed, contended>>

\* ProcessCallPacket takes the first match in map order ...
Process(p) ==
    /\ pc[p] = "process"
    /\ \/ /\ Matching(p) = {}
          /\ AfterProcess(p)
          /\ UNCHANGED cur
       \/ \E c \in Matching(p) :
            /\ cur' = [cur EXCEPT ![p] = c]
            /\ Goto(p, "refresh")
            /\ UNCHANGED todo
    /\ UNCHANGED <<calls, packet, crashed, contended>>

\* The timer of the call is looked up in CallEndTimers, by updateCall to set it
\* anew and by EndCall to stop it ...
LookUp(p) ==
    LET c == cur[p]
    IN  /\ pc[p] \in {"refresh", "find"} /\ c \in entered
        /\ Goto(p, IF pc[p] = "find" THEN "stop" ELSE "reset")
        /\ contended' =
            IF pc[p] = "find" /\ \E q \in Procs : cur[q] = c /\ pc[q] \in {"stop", "delete"}
            THEN contended \cup {c} ELSE contended
        /\ UNCHANGED <<calls, packet, cur, todo, crashed>>

\* ... and is a nil pointer if it is not there.
Panic(p) ==
    /\ pc[p] \in {"refresh", "find"} /\ cur[p] \notin entered
    /\ Crash

\* Mutant of Reset: the timer is stopped and not set again.
ResetStops(p) ==
    /\ pc[p] = "reset"
    /\ timer' = [timer EXCEPT ![cur[p]] = "spent"]
    /\ Goto(p, "update")
    /\ UNCHANGED <<db, inFlight, entered, armedAt, active, young, stream, packet, cur, todo,
                   crashed, contended>>

\* ... and updateCall sets its timer anew, which EndCall may have stopped and taken
\* out of the map by now, ...
Reset(p) ==
    /\ pc[p] = "reset"
    /\ timer' = [timer EXCEPT ![cur[p]] = "armed"]
    /\ armedAt' = [armedAt EXCEPT ![cur[p]] = Created]
    /\ Goto(p, "update")
    /\ UNCHANGED <<db, inFlight, entered, active, young, stream, packet, cur, todo,
                   crashed, contended>>

\* Mutant of Update: the row is saved with every packet.
UpdateSaves(p) ==
    /\ pc[p] = "update"
    /\ active' = [active EXCEPT ![cur[p]] = TRUE]
    /\ db' = [db EXCEPT ![cur[p]] = "active"]
    /\ cur' = [cur EXCEPT ![p] = NoCall]
    /\ AfterProcess(p)
    /\ UNCHANGED <<inFlight, entered, timer, armedAt, young, stream, packet, crashed, contended>>

\* ... and writes to the call.
Update(p) ==
    /\ pc[p] = "update"
    /\ active' = [active EXCEPT ![cur[p]] = TRUE]
    /\ cur' = [cur EXCEPT ![p] = NoCall]
    /\ AfterProcess(p)
    /\ UNCHANGED <<db, inFlight, entered, timer, armedAt, young, stream, packet, crashed, contended>>

----------------------------------------------------------------------------
(* EndCall, in the goroutine of a terminator or of a timer. *)

\* The timer of call c fires: endCallHandler with the packet that started c.  Two
\* seconds have passed since it was set, so no call that was there then is young.
Fire(c) ==
    /\ timer[c] = "armed"
    /\ \A d \in 1..armedAt[c] : ~young[d]
    /\ pc[c] \in {"idle", "done"} /\ Cardinality(AtWork(Procs)) < MaxAtWork
    /\ timer' = [timer EXCEPT ![c] = "spent"]
    /\ Goto(c, "end")
    /\ packet' = [packet EXCEPT ![c] = stream[c]]
    /\ todo' = [todo EXCEPT ![c] = inFlight]
    /\ UNCHANGED <<db, inFlight, entered, armedAt, active, young, stream, cur, crashed, contended>>

\* The loop over InFlightCalls takes up a call that matches, ...
Visit(p, c) ==
    /\ pc[p] = "end"
    /\ c \in todo[p] \cap inFlight
    /\ todo' = [todo EXCEPT ![p] = @ \ {c}]
    /\ IF c \in Matching(p)
       THEN cur' = [cur EXCEPT ![p] = c] /\ Goto(p, "find")
       ELSE UNCHANGED <<pc, cur>>
    /\ UNCHANGED <<calls, packet, crashed, contended>>

LeaveLoop(p) ==
    /\ pc[p] = "end"
    /\ todo[p] \cap inFlight = {}
    /\ todo' = [todo EXCEPT ![p] = {}]
    /\ Goto(p, "done")
    /\ UNCHANGED <<calls, packet, cur, crashed, contended>>

\* ... looks its timer up (LookUp), stops it ...
Stop(p) ==
    /\ pc[p] = "stop"
    /\ timer' = [timer EXCEPT ![cur[p]] = "spent"]
    /\ Goto(p, "delete")
    /\ UNCHANGED <<db, inFlight, entered, armedAt, active, young, stream, packet, cur, todo,
                   crashed, contended>>

\* ... and takes it out of the map.
Delete(p) ==
    /\ pc[p] = "delete"
    /\ entered' = entered \ {cur[p]}
    /\ Goto(p, "judge")
    /\ UNCHANGED <<db, inFlight, timer, armedAt, active, young, stream, packet, cur, todo,
                   crashed, contended>>

\* A call of less than 100ms is taken for a key-up: ...
Judge(p) ==
    /\ pc[p] = "judge" /\ young[cur[p]]
    /\ Goto(p, "discard")
    /\ UNCHANGED <<calls, packet, cur, todo, crashed, contended>>

\* Mutant of Discard: EndCall returns without deleting the row.
DiscardNothing(p) ==
    /\ pc[p] = "discard"
    /\ cur' = [cur EXCEPT ![p] = NoCall]
    /\ todo' = [todo EXCEPT ![p] = {}]
    /\ Goto(p, "done")
    /\ UNCHANGED <<calls, packet, crashed, contended>>

\* ... the row goes, and EndCall returns without touching InFlightCalls.
Discard(p) ==
    /\ pc[p] = "discard"
    /\ db' = [db EXCEPT ![cur[p]] = "deleted"]
    /\ cur' = [cur EXCEPT ![p] = NoCall]
    /\ todo' = [todo EXCEPT ![p] = {}]
    /\ Goto(p, "done")
    /\ UNCHANGED <<inFlight, entered, timer, armedAt, active, young, stream, packet,
                   crashed, contended>>

\* The others are closed: Active is cleared, ...
Deactivate(p) ==
    /\ pc[p] = "judge" /\ ~young[cur[p]]
    /\ active' = [active EXCEPT ![cur[p]] = FALSE]
    /\ Goto(p, "save")
    /\ UNCHANGED <<db, inFlight, entered, timer, armedAt, young, stream, packet, cur, todo,
                   crashed, contended>>

\* ... DB.Save stores the fields as they are by now (a row that another goroutine
\* has deleted keeps its DeletedAt, which is one of them), ...
Save(p) ==
    /\ pc[p] = "save"
    /\ db' = [db EXCEPT ![cur[p]] = IF @ = "deleted" THEN @
                                   ELSE IF active[cur[p]] THEN "active" ELSE "ended"]
    /\ Goto(p, "leave")
    /\ UNCHANGED <<inFlight, entered, timer, armedAt, active, young, stream, packet, cur, todo,
                   crashed, contended>>

\* Mutant of Leave: the call is not taken out of the map.
LeaveBehind(p) ==
    /\ pc[p] = "leave"
    /\ cur' = [cur EXCEPT ![p] = NoCall]
    /\ Goto(p, "end")
    /\ UNCHANGED <<calls, packet, todo, crashed, contended>>

\* ... and the call leaves the map, and the loop goes on.
Leave(p) ==
    /\ pc[p] = "leave"
    /\ inFlight' = inFlight \ {cur[p]}
    /\ cur' = [cur EXCEPT ![p] = NoCall]
    /\ Goto(p, "end")
    /\ UNCHANGED <<db, entered, timer, armedAt, active, young, stream, packet, todo,
                   crashed, contended>>

----------------------------------------------------------------------------
(* The environment. *)

\* 100ms have passed since the call started.
Mature(c) ==
    /\ db[c] # "none" /\ young[c]
    /\ young' = [young EXCEPT ![c] = FALSE]
    /\ UNCHANGED <<db, inFlight, entered, timer, armedAt, active, stream, pc, packet, cur, todo,
                   crashed, contended>>

\* The goroutines that write one of the two maps, and those that use it.
Collides(p, q) ==
    \/ pc[p] \in {"insert", "leave"}
         /\ pc[q] \in {"insert", "leave", "check", "recheck", "process", "end"}
    \/ pc[p] \in {"enter", "delete"} /\ pc[q] \in {"enter", "delete", "refresh", "find"}

\* "fatal error: concurrent map ...": the runtime stops the process when it
\* notices that one goroutine writes a map another one is using.
MapAbort ==
    /\ \E p, q \in Procs : p # q /\ Collides(p, q)
    /\ Crash

----------------------------------------------------------------------------
Init ==
    /\ db = [c \in Calls |-> "none"]
    /\ inFlight = {} /\ entered = {}
    /\ timer = [c \in Calls |-> "none"]
    /\ armedAt = [c \in Calls |-> 0]
    /\ active = [c \in Calls |-> FALSE]
    /\ young = [c \in Calls |-> FALSE]
    /\ stream \in [Calls -> {CHOOSE s \in Streams : TRUE}]
    /\ pc = [p \in Procs |-> "idle"]
    /\ packet \in [Procs -> {CHOOSE s \in Streams : TRUE}]
    /\ cur = [p \in Procs |-> NoCall]
    /\ todo = [p \in Procs |-> {}]
    /\ crashed = FALSE
    /\ contended = {}

StartCall(p) ==
    \/ Reject(p)
    \/ \E c \in Calls : Create(p, c)
    \/ Insert(p)
    \/ Arm(p)
    \/ Enter(p)

EndCall(p) ==
    \/ \E c \in Calls : Visit(p, c)
    \/ LeaveLoop(p)
    \/ Stop(p)
    \/ Delete(p)
    \/ Judge(p)
    \/ Discard(p)
    \/ Deactivate(p)
    \/ Save(p)
    \/ Leave(p)

Step(p) ==
    \/ Check(p)
    \/ Recheck(p)
    \/ StartCall(p)
    \/ Process(p)
    \/ LookUp(p)
    \/ Panic(p)
    \/ Reset(p)
    \/ Update(p)
    \/ EndCall(p)

Next ==
    \/ \E p \in Packets, s \in Streams : Arrive(p, s)
    \/ \E p \in Procs : Step(p)
    \/ \E c \in Calls : Fire(c) \/ Mature(c)
    \/ MapAbort

\* Goroutines are scheduled and timers fire; packets need not arrive and map
\* accesses need not collide.
Fairness ==
    /\ \A p \in Procs : WF_vars(Step(p))
    /\ \A c \in Calls : WF_vars(Fire(c)) /\ WF_vars(Mature(c))

Spec     == Init /\ [][Next]_vars
FairSpec == Spec /\ Fairness

----------------------------------------------------------------------------
(* Properties. *)

\* The shape of the two maps, the rows and the goroutines' locals.
TypeOK ==
    /\ db \in [Calls -> {"none", "active", "ended", "deleted"}]
    /\ inFlight \subseteq Calls /\ entered \subseteq Calls
    /\ timer \in [Calls -> {"none", "armed", "spent"}]
    /\ armedAt \in [Calls -> 0..MaxCalls]
    /\ active \in [Calls -> BOOLEAN]
    /\ young \in [Calls -> BOOLEAN]
    /\ stream \in [Calls -> Streams]
    /\ pc \in [Procs -> Running \cup {"idle", "done"}]
    /\ packet \in [Procs -> Streams]
    /\ cur \in [Procs -> Calls \cup {NoCall}]
    /\ todo \in [Procs -> SUBSET Calls]
    /\ crashed \in BOOLEAN
    /\ contended \subseteq Calls

\* Some goroutine is at one of these labels with call c.
At(c, labels) == \E p \in Procs : cur[p] = c /\ pc[p] \in labels

KeyedUp(s) == \E d \in Calls : db[d] = "deleted" /\ stream[d] = s

\* Nothing but a timer ends a call whose terminator was lost.  So a call in
\* InFlightCalls has a timer that will fire, or one that has fired and whose
\* goroutine has still to come to it, or is being started or ended: however
\* stopping a timer, setting it anew and firing overlap, no call is left in the
\* map for good.  What a key-up has left of its stream is the exception: EndCall
\* returns there, out of its loop, whatever else it had to end.
NoForgottenCall ==
    \A c \in inFlight :
        \/ timer[c] = "armed"
        \/ pc[c] \in {"end"} \cup Ending /\ (c \in todo[c] \/ cur[c] = c)
        \/ At(c, {"arm", "delete", "judge", "discard", "save", "leave"})
        \/ KeyedUp(stream[c])

\* updateCall and EndCall of another goroutine use the timer they find in
\* CallEndTimers for a call in InFlightCalls, and a nil pointer ends the process.
\* There is none only while a goroutine is on its way to enter it or to take the
\* call out of the map too, or for good behind a key-up.
TimerlessIsInHand ==
    \A c \in inFlight \ entered :
        At(c, {"arm", "enter", "judge", "discard", "save", "leave"}) \/ db[c] = "deleted"

\* StreamID and Active identify a call (call_tracker.go:400), but two goroutines
\* that look at once both find none and both start one.  As many calls of a stream
\* are active in the map as there are packets handled at once, and not more,
\* although a late updateCall makes an ended one active again.
CallsPerStream ==
    \A s \in Streams :
        Cardinality({c \in inFlight : active[c] /\ stream[c] = s}) <= MaxRunning

\* The inductive invariant.  A goroutine holds a call where its code has a pointer
\* to one, of the stream it works for; the goroutine of a timer only ends calls, and
\* works for the stream of its own, ...
Holding == Starting \cup Updating \cup Ending

HoldsACall ==
    \A p \in Procs : IF pc[p] \in Holding
                     THEN cur[p] \in Calls /\ stream[cur[p]] = packet[p]
                     ELSE cur[p] = NoCall

TimersOnlyEnd ==
    \A c \in Timers :
        \/ pc[c] \in {"idle", "done"}
        \/ pc[c] \in {"end"} \cup Ending /\ db[c] # "none" /\ packet[c] = stream[c]

\* ... a call that has not been created is nowhere, ...
UnbornIsNowhere ==
    \A c \in Calls : db[c] = "none" =>
        /\ timer[c] = "none" /\ c \notin inFlight \cup entered \cup contended
        /\ \A p \in Procs : cur[p] # c

\* ... the goroutine that starts a call is alone with it as long as its timer is not
\* in CallEndTimers, ...
Starts(p, c) == cur[p] = c /\ pc[p] \in Starting
Closes(p, c) == cur[p] = c /\ pc[p] \in Ending \ {"find"}

StarterIsAlone ==
    \A p \in Procs, c \in Calls : Starts(p, c) =>
        /\ db[c] = "active" /\ active[c] /\ c \notin entered \cup contended
        /\ c \in inFlight <=> pc[p] # "insert"
        /\ \A q \in Procs : ~Closes(q, c) /\ (Starts(q, c) => q = p)

\* ... and goroutines that have come to its timer there end it, the only one that has
\* or several that contend for it, ...
ClosersContend ==
    \A p \in Procs, c \in Calls : Closes(p, c) =>
        /\ c \in entered => pc[p] \in {"stop", "delete"}
        /\ \A q \in Procs : Closes(q, c) => q = p \/ c \in contended
        /\ c \notin contended => c \in inFlight /\ (pc[p] # "leave" => db[c] = "active")

\* ... so that a timer that is in the map is one of a call that is.
EnteredIsLive ==
    \A c \in entered \ contended : c \in inFlight /\ db[c] = "active"

\* A call that is not active any more in the map is about to leave it.
InactiveIsLeaving == \A c \in inFlight : active[c] \/ At(c, {"save", "leave"})

TrackerInv ==
    /\ TypeOK
    /\ HoldsACall /\ TimersOnlyEnd /\ UnbornIsNowhere
    /\ StarterIsAlone /\ ClosersContend /\ EnteredIsLive /\ InactiveIsLeaving
    /\ TimerlessIsInHand /\ NoForgottenCall

\* For CallsPerStream, the calls of a stream that packet goroutines have a share in:
\* those that are active in the map or that a late updateCall will make so, those
\* that will be entered, and the packets that have decided to start one.
Claims(s) ==
    {c \in Calls : /\ stream[c] = s
                   /\ \/ c \in inFlight /\ (active[c] \/ At(c, Updating))
                      \/ At(c, {"insert"})}
    \cup {p \in Packets : pc[p] = "start" /\ packet[p] = s}

CountInv ==
    /\ Cardinality(AtWork(Packets)) <= MaxRunning
    /\ \A s \in Streams : Cardinality(Claims(s)) <= MaxRunning

\* A key-up leaves nothing behind (call_tracker.go:417-432).  (Violated: the
\* call stays in InFlightCalls, active and without a timer.)
KeyUpForgotten ==
    \A c \in Calls : db[c] = "deleted" => c \notin inFlight

\* A call that EndCall has closed is not stored as active.  (Violated: an
\* updateCall that was under way sets Active again before the row is saved.)
EndedCallsStoredEnded ==
    \A c \in Calls : db[c] = "active" /\ c \notin inFlight => crashed \/ At(c, {"insert"})

\* StreamID and Active identify a call (call_tracker.go:400).  (Violated when
\* two packets of a new stream are handled at once: both start a call.)
OneCallPerStream ==
    \A c, d \in inFlight : active[c] /\ active[d] /\ stream[c] = stream[d] => c = d

\* Where a call is in its life, for CallLife.
Phase(c) ==
    CASE c \in contended -> "contended"
      [] c \notin contended /\ db[c] = "none"    -> "unborn"
      [] c \notin contended /\ db[c] = "ended"   -> "ended"
      [] c \notin contended /\ db[c] = "deleted" -> "discarded"
      [] c \notin contended /\ db[c] = "active"  ->
            IF c \in inFlight \/ At(c, {"insert"}) THEN "live" ELSE "abandoned"

Life == INSTANCE CallLife WITH phase <- [c \in Calls |-> Phase(c)]

\* Every call is begun once and closed once, and a call that has been ended,
\* discarded or abandoned is never touched again - unless two goroutines have had
\* its timer in hand at once: both then close it, and its row may be written again.
CallsCloseOnce == Life!Init /\ [][Life!Next]_vars

\* When the packets are handled one after the other, no call stays live for ever
\* either: a lost terminator is made up for by the timer.
CallsHaveALife == Life!Spec

\* Whoever ends it, a call in InFlightCalls leaves it again, be it contended or not,
\* unless EndCall has returned at a key-up of its stream.
EveryCallLeaves ==
    \A c \in Calls : c \in inFlight ~> c \notin inFlight \/ KeyedUp(stream[c])

\* The timer ends a call that hears no more packets (call_tracker.go:138).
\* (Violated: EndCall returns out of its loop at the first key-up, before it has
\* come to the call whose timer fired.)
TimerEndsCall ==
    \A c \in Calls : c \in inFlight /\ db[c] = "active" ~> c \notin inFlight \/ db[c] # "active"
=============================================================================
