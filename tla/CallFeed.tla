------------------------------ MODULE CallFeed ------------------------------
(***************************************************************************)
(* The news of one call on its way to web clients: the publications of     *)
(* CallTracker.publishCall (internal/dmr/call_tracker.go), each in one or  *)
(* two goroutines of its own, and the WebSocket connections that subscribe *)
(* to them (internal/http/websocket/ws.go), each with a handler and one or *)
(* two goroutines that report their failure to it.                         *)
(***************************************************************************)
EXTENDS Naturals, Sequences, FiniteSets

CONSTANTS
    Users,        \* users of the web interface
    Repeaters,    \* repeaters
    OwnerOf,      \* OwnerOf[r]: the user that owns r
    Calls,        \* bound: the calls it may be
    Links,        \* bound: the links at its start
    Conns,        \* WebSocket connections
    MaxUpdates,   \* bound: packets of the call
    MaxRelinks    \* bound: changes of links

Nobody  == "nobody"     \* a client that is not logged in
Keys    == Users \cup {Nobody}
Updates == 1..MaxUpdates
Last    == MaxUpdates + 1           \* EndCall's publication
Pubs    == 1..Last

ASSUME FeedAssumption ==
    /\ MaxUpdates \in Nat /\ MaxRelinks \in Nat
    /\ Nobody \notin Users /\ Nobody \notin Repeaters
    /\ OwnerOf \in [Repeaters -> Users]

VARIABLES
    call,     \* whom the call is from and to, how far it is, whether it is Active
    heard,    \* packets of the call so far
    link,     \* link[r]: how r is linked to the call's talkgroup
    relinks,  \* changes of links, for the bound only
    pub,      \* pub[k]: the k-th publication
    conn      \* conn[c]: a connection, its goroutines and its subscription

vars == <<call, heard, link, relinks, pub, conn>>

\* The channels are "calls" (Nobody) and "calls:<user>".  The destination is a
\* talkgroup, a user or a repeater.  History: the call is revived if an update has
\* set Active after EndCall had cleared it.
Call == [from : Users, to : {"talkgroup", "user"} \cup Repeaters, group : BOOLEAN,
         state : {"live", "ending", "ended", "keyup"}, active : BOOLEAN, revived : BOOLEAN]
Link == {"none", "dynamic", "static"}

\* Of the JSON, news is what it says of Active.
Publication == [pc : {"none", "update", "read", "calls", "find", "each", "done"}, news : BOOLEAN,
                rows : [Repeaters -> Link], todo : SUBSET Repeaters, told : SUBSET Users]
NoPub  == [pc |-> "none", news |-> FALSE, rows |-> [r \in Repeaters |-> "none"],
           todo |-> {}, told |-> {}]

\* reader and writer are the goroutines of the handler; "sending": they wait for
\* someone to receive from readFailed.
Connection == [handler : {"none", "select", "returned"}, channel : Keys \cup {"echo"},
               client : {"there", "gone"}, cancelled : BOOLEAN,
               reader : {"run", "sending", "ended"}, writer : {"run", "sending", "ended"},
               queue : Seq(Pubs \X BOOLEAN), got : Seq(Pubs \X BOOLEAN)]
NoConn == [handler |-> "none", channel |-> "echo", client |-> "there", cancelled |-> FALSE,
           reader |-> "ended", writer |-> "ended", queue |-> <<>>, got |-> <<>>]

ASSUME CallsAssumption ==
    /\ Calls \subseteq {x \in Call : x.state = "live" /\ x.active /\ ~x.revived}
    /\ Links \subseteq [Repeaters -> Link]

Public == call.group /\ call.to # "user"

----------------------------------------------------------------------------
(* The call. *)

\* updateCall of a packet has found the call's timer.  (Once EndCall has deleted the
\* timer it does not find it, and the process ends: CallTracker.)
Update(k) ==
    /\ call.state = "live"
    /\ k = heard + 1
    /\ heard' = k
    /\ pub' = [pub EXCEPT ![k].pc = "update"]
    /\ UNCHANGED <<call, link, relinks, conn>>

\* It sets Active, whatever EndCall has done meanwhile; every second packet or so is
\* published.
SetActive(k) ==
    /\ pub[k].pc = "update"
    /\ call' = [call EXCEPT !.active = TRUE, !.revived = @ \/ ~call.active]
    /\ \E next \in {"read", "none"} : pub' = [pub EXCEPT ![k].pc = next]
    /\ UNCHANGED <<heard, link, relinks, conn>>

\* Mutant of End: the call is saved and published as it is.
EndActive ==
    /\ call.state = "live"
    /\ call' = [call EXCEPT !.state = "ending"]
    /\ UNCHANGED <<heard, link, relinks, pub, conn>>

\* EndCall, from the terminator or the timer, clears Active and saves the call.
End ==
    /\ call.state = "live"
    /\ call' = [call EXCEPT !.state = "ending", !.active = FALSE]
    /\ UNCHANGED <<heard, link, relinks, pub, conn>>

\* It publishes the call itself, as the call is by then.
EndPublish ==
    /\ call.state = "ending"
    /\ call' = [call EXCEPT !.state = "ended"]
    /\ pub' = [pub EXCEPT ![Last].pc = "calls", ![Last].news = call.active]
    /\ UNCHANGED <<heard, link, relinks, conn>>

\* A call of less than 100ms is deleted, and nobody is told.
KeyUp ==
    /\ call.state = "live"
    /\ call' = [call EXCEPT !.state = "keyup"]
    /\ UNCHANGED <<heard, link, relinks, pub, conn>>

\* A repeater is linked or unlinked (Subscriptions).
Relink(r, l) ==
    /\ relinks < MaxRelinks /\ link[r] # l
    /\ link' = [link EXCEPT ![r] = l]
    /\ relinks' = relinks + 1
    /\ UNCHANGED <<call, heard, pub, conn>>

----------------------------------------------------------------------------
(* publishCall. *)

\* Redis gives the news to the connections that are subscribed by now.
Tell(key, k) ==
    conn' = [c \in Conns |->
        IF conn[c].handler = "select" /\ conn[c].channel = key
        THEN [conn[c] EXCEPT !.queue = Append(@, <<k, pub[k].news>>)]
        ELSE conn[c]]

\* The goroutine of an update reads the call when it runs.
Read(k) ==
    /\ pub[k].pc = "read"
    /\ pub' = [pub EXCEPT ![k].pc = "calls", ![k].news = call.active]
    /\ UNCHANGED <<call, heard, link, relinks, conn>>

\* Mutant of Hoseline: every group call is for everybody, whoever it is to.
HoselineAll(k) ==
    /\ pub[k].pc = "calls"
    /\ pub' = [pub EXCEPT ![k].pc = "find"]
    /\ Tell(Nobody, k)
    /\ UNCHANGED <<call, heard, link, relinks>>

\* Group calls to talkgroups and repeaters are for everybody.
Hoseline(k) ==
    /\ pub[k].pc = "calls"
    /\ pub' = [pub EXCEPT ![k].pc = "find"]
    /\ IF Public THEN Tell(Nobody, k) ELSE UNCHANGED conn
    /\ UNCHANGED <<call, heard, link, relinks>>

\* Another goroutine finds the rows of all repeaters.
Find(k) ==
    /\ pub[k].pc = "find"
    /\ pub' = [pub EXCEPT ![k].pc = "each", ![k].rows = link, ![k].todo = Repeaters]
    /\ UNCHANGED <<call, heard, link, relinks, conn>>

\* WantRX of a row found without its static talkgroups, which it does not preload.
Wants(r, l) == call.to = r \/ (call.to = "talkgroup" /\ l = "dynamic")

\* The goroutine ends with the last repeater.
Visited(k, r) ==
    [pub EXCEPT ![k].todo = @ \ {r}, ![k].pc = IF pub[k].todo = {r} THEN "done" ELSE @]

\* Mutant of Each: it is the repeater that is remembered.
EachMarksRepeater(k) ==
    \E r \in pub[k].todo :
        LET u == OwnerOf[r]
            follows == Wants(r, pub[k].rows[r]) /\ r \notin pub[k].told
        IN  /\ pub[k].pc = "each"
            /\ IF follows \/ call.from = u
               THEN /\ Tell(u, k)
                    /\ pub' = [Visited(k, r) EXCEPT ![k].told = @ \cup {r}]
               ELSE pub' = Visited(k, r) /\ UNCHANGED conn
            /\ UNCHANGED <<call, heard, link, relinks>>

\* The owner of a repeater that wants the call is told once; the caller once for
\* every repeater that does not want it, and once for one that does.
Each(k) ==
    \E r \in pub[k].todo :
        LET u == OwnerOf[r]
            follows == Wants(r, pub[k].rows[r]) /\ u \notin pub[k].told
        IN  /\ pub[k].pc = "each"
            /\ IF follows \/ call.from = u
               THEN /\ Tell(u, k)
                    /\ pub' = [Visited(k, r) EXCEPT ![k].told = @ \cup {u}]
               ELSE pub' = Visited(k, r) /\ UNCHANGED conn
            /\ UNCHANGED <<call, heard, link, relinks>>

----------------------------------------------------------------------------
(* The WebSockets. *)

\* callHandler upgrades the connection, subscribes and starts its goroutines.
\* A client that is gone by then may have cancelled the request's context.
Connect(c, u, client, cancelled) ==
    /\ conn[c].handler = "none"
    /\ cancelled => client = "gone"
    /\ conn' = [conn EXCEPT ![c] = [NoConn EXCEPT
            !.handler = "select", !.channel = u, !.client = client,
            !.cancelled = cancelled, !.reader = "run", !.writer = "run"]]
    /\ UNCHANGED <<call, heard, link, relinks, pub>>

\* pingHandler and repeaterHandler have one goroutine, which reads and answers.
ConnectEcho(c, client, cancelled) ==
    /\ conn[c].handler = "none"
    /\ cancelled => client = "gone"
    /\ conn' = [conn EXCEPT ![c] = [NoConn EXCEPT
            !.handler = "select", !.client = client, !.cancelled = cancelled,
            !.reader = "run"]]
    /\ UNCHANGED <<call, heard, link, relinks, pub>>

Leave(c) ==
    /\ conn[c].handler # "none" /\ conn[c].client = "there"
    /\ conn' = [conn EXCEPT ![c].client = "gone"]
    /\ UNCHANGED <<call, heard, link, relinks, pub>>

Broken(c) == conn[c].client = "gone" \/ conn[c].handler = "returned"

\* Mutant of ReadFails: the reader ends without a word.
ReadFailsSilently(c) ==
    /\ conn[c].reader = "run" /\ Broken(c)
    /\ conn' = [conn EXCEPT ![c].reader = "ended"]
    /\ UNCHANGED <<call, heard, link, relinks, pub>>

\* ReadMessage fails when the client is gone, and when the handler has closed.
ReadFails(c) ==
    /\ conn[c].reader = "run" /\ Broken(c)
    /\ conn' = [conn EXCEPT ![c].reader = "sending"]
    /\ UNCHANGED <<call, heard, link, relinks, pub>>

\* The writer takes the next message; it notices that the client is gone sooner
\* or later, and that the connection is closed at once.
Write(c) ==
    /\ conn[c].writer = "run" /\ conn[c].queue # <<>>
    /\ \/ /\ conn[c].handler = "select"
          /\ conn' = [conn EXCEPT ![c].queue = Tail(@),
                         ![c].got = IF conn[c].client = "there"
                                    THEN Append(@, Head(conn[c].queue)) ELSE @]
       \/ /\ Broken(c)
          /\ conn' = [conn EXCEPT ![c].queue = Tail(@), ![c].writer = "sending"]
    /\ UNCHANGED <<call, heard, link, relinks, pub>>

\* A closed subscription ends the writer's loop behind the last message.
WriterEnds(c) ==
    /\ conn[c].writer = "run" /\ conn[c].queue = <<>> /\ conn[c].handler = "returned"
    /\ conn' = [conn EXCEPT ![c].writer = "ended"]
    /\ UNCHANGED <<call, heard, link, relinks, pub>>

\* Mutant of Select: returns when a goroutine has failed, and does not receive.
SelectSees(c) ==
    /\ conn[c].handler = "select"
    /\ \/ conn[c].cancelled
       \/ conn[c].reader = "sending"
       \/ conn[c].writer = "sending"
    /\ conn' = [conn EXCEPT ![c].handler = "returned"]
    /\ UNCHANGED <<call, heard, link, relinks, pub>>

\* The handler receives once and returns; its deferred calls close the
\* subscription and the connection.
Select(c) ==
    /\ conn[c].handler = "select"
    /\ \/ /\ conn[c].cancelled
          /\ conn' = [conn EXCEPT ![c].handler = "returned"]
       \/ /\ conn[c].reader = "sending"
          /\ conn' = [conn EXCEPT ![c].handler = "returned", ![c].reader = "ended"]
       \/ /\ conn[c].writer = "sending"
          /\ conn' = [conn EXCEPT ![c].handler = "returned", ![c].writer = "ended"]
    /\ UNCHANGED <<call, heard, link, relinks, pub>>

----------------------------------------------------------------------------
Init ==
    /\ call \in Calls
    /\ heard = 0
    /\ link \in Links
    /\ relinks = 0
    /\ pub = [k \in Pubs |-> NoPub]
    /\ conn = [c \in Conns |-> NoConn]

Publish(k) == Read(k) \/ Hoseline(k) \/ Find(k) \/ Each(k)

Next ==
    \/ \E k \in Updates : Update(k) \/ SetActive(k)
    \/ End
    \/ EndPublish
    \/ KeyUp
    \/ \E r \in Repeaters, l \in Link : Relink(r, l)
    \/ \E k \in Pubs : Publish(k)
    \/ \E c \in Conns :
        \/ \E client \in {"there", "gone"}, cancelled \in BOOLEAN :
            \/ \E u \in Keys : Connect(c, u, client, cancelled)
            \/ ConnectEcho(c, client, cancelled)
        \/ Leave(c)
        \/ ReadFails(c)
        \/ Write(c)
        \/ WriterEnds(c)
        \/ Select(c)

Spec == Init /\ [][Next]_vars

\* The Go scheduler runs every goroutine, and a call ends by its timer at the
\* latest.  Clients and links do as they like.
Fairness ==
    /\ WF_vars(End \/ KeyUp)
    /\ WF_vars(EndPublish)
    /\ \A k \in Updates : WF_vars(SetActive(k))
    /\ \A k \in Pubs : WF_vars(Publish(k))
    /\ \A c \in Conns :
        /\ WF_vars(ReadFails(c))
        /\ WF_vars(Write(c) \/ WriterEnds(c))
        /\ WF_vars(Select(c))

FairSpec == Spec /\ Fairness

----------------------------------------------------------------------------
(* Properties. *)

\* The call, the publications and the connections.
TypeOK ==
    /\ call \in Call
    /\ heard \in 0..MaxUpdates
    /\ link \in [Repeaters -> Link]
    /\ relinks \in 0..MaxRelinks
    /\ pub \in [Pubs -> Publication]
    /\ conn \in [Conns -> Connection]

\* Whose business a call is: everybody's, the caller's, or that of the owner of a
\* repeater that wanted it when publication k looked.
Concerned(u, k) ==
    \/ u = Nobody /\ Public
    \/ \E r \in Repeaters : OwnerOf[r] = u /\ (call.from = u \/ Wants(r, pub[k].rows[r]))

Received(c) == {conn[c].got[i] : i \in DOMAIN conn[c].got}
Waiting(c)  == {conn[c].queue[i] : i \in DOMAIN conn[c].queue}

\* A private call stays private: nobody gets to see a call that is not theirs,
\* although links change while publications and connections are under way.
OnlyConcerned ==
    \A c \in Conns : \A m \in Received(c) \cup Waiting(c) : Concerned(conn[c].channel, m[1])

\* A follower gets each publication once, however many repeaters follow.
OncePerFollower ==
    \A c \in Conns : conn[c].channel # call.from =>
        LET all == conn[c].got \o conn[c].queue
        IN  \A i, j \in DOMAIN all : all[i][1] = all[j][1] => i = j

Stuck(c) == {g \in {"reader", "writer"} : conn[c][g] = "sending"}

\* readFailed is unbuffered and received from once: of the two goroutines of a
\* connection that has closed, at most one waits for ever (ws.go:172 and 187).
AtMostOneStuck ==
    \A c \in Conns : conn[c].handler = "returned" /\ ~conn[c].cancelled =>
        Cardinality(Stuck(c)) <= 1

\* A client that goes away ends its handler, which closes the subscription.
HandlersReturn ==
    \A c \in Conns : conn[c].client = "gone" ~> conn[c].handler = "returned"

\* Who stays connected hears EndCall's publication of a call, unless it was a key-up
\* or, when the publication looked, the call was not theirs; and hears by it that the
\* call is over, unless an update has set Active again between EndCall's clearing it
\* and publishing (call_tracker.go:388, 453 and 457).
EndIsTold ==
    \A c \in Conns :
        conn[c].handler = "select" /\ call.state = "live"
            ~> \/ \E m \in Received(c) : m[1] = Last /\ (m[2] => call.revived)
               \/ Broken(c) \/ call.state = "keyup"
               \/ pub[Last].pc \in {"each", "done"} /\ ~Concerned(conn[c].channel, Last)

\* The last that a client hears of an ended call is that it has ended.  (Violated:
\* an update's goroutine has read the call before and publishes it after EndCall.)
LastWordIsTheEnd ==
    (\A k \in Pubs : pub[k].pc \in {"none", "done"}) =>
        \A c \in Conns : Len(conn[c].got) > 0 /\ call.state = "ended" =>
            ~conn[c].got[Len(conn[c].got)][2]

\* Nobody's goroutines are left behind.  (Violated: see AtMostOneStuck.)
NobodyStuck == \A c \in Conns : conn[c].handler = "returned" => Stuck(c) = {}

\* Publications are made for all repeaters that want the call
\* (call_tracker.go:229).  (Violated: the rows are found without their static
\* talkgroups.)
FollowersAreTold ==
    \A k \in Pubs : pub[k].pc = "done" /\ call.to = "talkgroup" =>
        \A r \in Repeaters : pub[k].rows[r] # "none" => OwnerOf[r] \in pub[k].told
=============================================================================
