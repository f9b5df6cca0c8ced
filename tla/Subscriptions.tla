--------------------------- MODULE Subscriptions ---------------------------
(***************************************************************************)
(* The talkgroups one repeater is linked to (the row) and those it hears   *)
(* (the map talkgroupSubscriptions and its goroutines): ListenForCalls,    *)
(* ListenForCallsOn, CancelSubscription, CancelAllSubscriptions and the    *)
(* goroutines of internal/models/repeater.go, driven by the web API        *)
(* (controllers/v1/repeaters/repeaters.go) and by voice packets            *)
(* (packet_handler.go).  Every one of them works on a copy of the row.     *)
(* The repeater and its talkgroups may be deleted and made anew.           *)
(***************************************************************************)
EXTENDS Naturals, FiniteSets

CONSTANTS
    Talkgroups, \* the IDs that talkgroups have, or will have
    Known,      \* bound: those that are in use when the server starts
    Start,      \* bound: the links the row may have when the server starts
    Choices,    \* bound: the links that POST /talkgroups may ask for
    MaxOps,     \* bound: operations
    MaxOverlaps,\* bound: operations that start before those under way have settled
    MaxSubs     \* bound: subscriptions made

VARIABLES
    row,      \* the links in the database
    stored,   \* the repeater is in the database
    used,     \* the IDs that talkgroups have, or had and may have again (POSTTalkgroup)
    made,     \* the repeater has its entry in the two maps
    reg,      \* reg[k]: the subscription registered for k, 0 if none (both maps)
    sub,      \* sub[g]: goroutine g of a subscription
    op,       \* op[n]: the n-th operation
    lis,      \* lis[n]: the goroutine of ListenForCalls(On) it has started
    leaked,   \* "read" or "write": a lock of the maps that nobody will release
    crashed,  \* the process has died
    overlaps  \* history: the operations that did not wait for the others to settle

dataVars == <<stored, used>>
vars     == <<row, dataVars, made, reg, sub, op, lis, leaked, crashed, overlaps>>

Own   == "own"     \* the repeater's private calls, under its own ID
None  == "none"    \* no dynamic talkgroup; also the call to 4000, Unlink
Slots == {1, 2}
Ops   == 1..MaxOps
Subs  == 1..MaxSubs
Zero  == "zero"    \* the ID of a talkgroup that was not found
Keys  == Talkgroups \cup {Own, Zero}

ASSUME SubscriptionsAssumption ==
    /\ {Own, None, Zero} \cap Talkgroups = {} /\ Known \subseteq Talkgroups
    /\ MaxOps \in Nat /\ MaxSubs \in Nat /\ MaxOverlaps \in Nat

\* The links of a row, or of a copy that may have Zero in it.
Links == [dyn : [Slots -> Talkgroups \cup {None, Zero}], static : [Slots -> SUBSET Talkgroups]]

ASSUME LinksAssumption ==
    /\ Start \subseteq Links /\ Choices \subseteq Links
    /\ \A r \in Start \cup Choices, s \in Slots : r.dyn[s] # Zero

Subscription == [state : {"none", "running", "cancelled", "gone"}, key : Keys, copy : Links]
Operation == [pc : {"idle", "touch", "switch", "unlink", "static", "dynamic", "save", "cancel",
                    "delete", "stop", "range", "loop", "forget", "done"},
              copy : Links, slot : Slots, key : Keys \cup {None}, got : Subs \cup {0},
              todo : SUBSET Keys, all : BOOLEAN, http : BOOLEAN]
Listener == [pc : {"idle", "check", "make", "look", "register", "done"},
             copy : Links, key : Keys, todo : SUBSET Keys]

NoLinks == [dyn |-> [s \in Slots |-> None], static |-> [s \in Slots |-> {}]]
NoSub   == [state |-> "none", key |-> Own, copy |-> NoLinks]
NoLis   == [pc |-> "idle", copy |-> NoLinks, key |-> Own, todo |-> {}]
NoOp    == [pc |-> "idle", copy |-> NoLinks, slot |-> 1, key |-> Own, got |-> 0,
            todo |-> {}, all |-> FALSE, http |-> FALSE]

----------------------------------------------------------------------------
(* Helpers. *)

LinkedTo(r) == ({r.dyn[s] : s \in Slots} \ {None}) \cup UNION {r.static[s] : s \in Slots}

\* Whether a copy of the row wants the packets of k: WantRX.
Wants(r, k) == k = Own \/ k \in LinkedTo(r)

\* subscribeTG listens, and returns at once from talkgroup 0.
Begun(k) == IF k = Zero THEN "gone" ELSE "running"

Registered == {k \in Keys : reg[k] # 0}

\* DB.Save stores the dynamic links of the copy and adds its static ones.
Saved(r) == [dyn |-> r.dyn, static |-> [s \in Slots |-> row.static[s] \cup r.static[s]]]

\* What is not in the database any more (the row, or a talkgroup of the copy) is
\* inserted.
Store(r) == row' = Saved(r) /\ stored' = TRUE /\ UNCHANGED used

Settled ==
    /\ \A n \in Ops : op[n].pc \in {"idle", "done"}
    /\ \A n \in DOMAIN lis : lis[n].pc \in {"idle", "done"}
    /\ \A g \in Subs : sub[g].state # "cancelled"

\* talkgroupSubscriptionsMutex.  A reader waits for a writer that waits.
CanWrite == leaked = "no"
WriterWaits ==
    \/ \E n \in Ops : op[n].pc = "delete"
    \/ \E n \in DOMAIN lis : lis[n].pc \in {"make", "register"}
    \/ \E g \in Subs : sub[g].state = "cancelled"
CanRead  == leaked = "no" \/ (leaked = "read" /\ ~WriterWaits)

\* The panic of operation n while it holds the lock: gin recovers from it, and
\* the lock stays; in the packet handler it ends the process.
Panic(n, lock) ==
    IF op[n].http
    THEN /\ leaked' = lock
         /\ op' = [op EXCEPT ![n].pc = "done"]
         /\ UNCHANGED crashed
    ELSE crashed' = TRUE /\ UNCHANGED <<op, leaked>>

\* Operation n begins, with these locals.
Launch(n, new) ==
    /\ op[n].pc = "idle"
    /\ \A m \in 1..(n - 1) : op[m].pc # "idle"
    /\ op' = [op EXCEPT ![n] = new]
    /\ UNCHANGED <<made, reg, sub, leaked, crashed>>

\* go ListenForCallsOn(k), and go ListenForCalls.  (The order of the loops of
\* ListenForCalls is left open, and a talkgroup linked twice is visited once.)
ListenOn(n, r, k) ==
    lis' = [lis EXCEPT ![n] = [NoLis EXCEPT !.pc = "look", !.copy = r, !.todo = {k}]]

Listen(r) == [NoLis EXCEPT !.pc = "check", !.copy = r, !.todo = {Own} \cup LinkedTo(r)]

----------------------------------------------------------------------------
(* The operations: each reads the row into its copy and works on from that. *)

\* POSTRepeaterLink, dynamic: it looks its target up by a column that talkgroups
\* do not have, and links what it has not found.  That cannot be saved (there is
\* no such talkgroup), and is listened for.
Link(n, s) ==
    /\ stored
    /\ Launch(n, [NoOp EXCEPT !.pc = "done", !.http = TRUE])
    /\ ListenOn(n, [row EXCEPT !.dyn[s] = Zero], Zero)
    /\ UNCHANGED <<row, dataVars>>

\* Static: what is not found is appended as a new talkgroup with the next ID.
LinkStatic(n, s, k) ==
    LET r == [row EXCEPT !.static[s] = @ \cup {k}]
    IN  /\ stored /\ k \notin used
        /\ Launch(n, [NoOp EXCEPT !.pc = "save", !.copy = r, !.http = TRUE])
        /\ ListenOn(n, r, k)
        /\ row' = r
        /\ used' = used \cup {k}
        /\ UNCHANGED stored

\* Mutant of Unlink: no look whether the talkgroup is linked.
UnlinkUnchecked(n, s, k) ==
    /\ Launch(n, [NoOp EXCEPT !.pc = "cancel", !.copy = [row EXCEPT !.dyn[s] = None],
                              !.key = k, !.http = TRUE])
    /\ stored
    /\ UNCHANGED <<row, dataVars, lis>>

\* POSTRepeaterUnlink, dynamic and static (deleted from the row at once).
Unlink(n, s, k) ==
    /\ stored /\ row.dyn[s] = k
    /\ Launch(n, [NoOp EXCEPT !.pc = "cancel", !.copy = [row EXCEPT !.dyn[s] = None],
                              !.key = k, !.http = TRUE])
    /\ UNCHANGED <<row, dataVars, lis>>

UnlinkStatic(n, s, k) ==
    /\ stored /\ k \in row.static[s]
    /\ row' = [row EXCEPT !.static[s] = @ \ {k}]
    /\ Launch(n, [NoOp EXCEPT !.pc = "cancel", !.copy = row', !.key = k, !.http = TRUE])
    /\ UNCHANGED <<dataVars, lis>>

\* POSTRepeaterTalkgroups: the links one after the other, then Save,
\* CancelAllSubscriptions and ListenForCalls.
Replace(n, r) ==
    /\ stored /\ LinkedTo(r) \subseteq used
    /\ Launch(n, [NoOp EXCEPT !.pc = "static", !.copy = r, !.all = TRUE, !.http = TRUE])
    /\ UNCHANGED <<row, dataVars, lis>>

\* The next of the two slots, and then the next kind of links.
Written(o, next) ==
    [o EXCEPT !.slot = IF o.slot = 1 THEN 2 ELSE 1, !.pc = IF o.slot = 1 THEN @ ELSE next]

\* Static links of a repeater that has been deleted are refused, and the request fails.
ReplaceStatic(n) ==
    LET o == op[n]
        refused == ~stored /\ o.copy.static[o.slot] # {}
    IN  /\ o.pc = "static"
        /\ row' = IF refused THEN row ELSE [row EXCEPT !.static[o.slot] = o.copy.static[o.slot]]
        /\ op' = [op EXCEPT ![n] = IF refused THEN [o EXCEPT !.pc = "done"] ELSE Written(o, "dynamic")]
        /\ UNCHANGED <<dataVars, made, reg, sub, lis, leaked, crashed>>

\* The dynamic link is a column, and the update of no row is no error.
ReplaceDynamic(n) ==
    LET o == op[n]
    IN  /\ o.pc = "dynamic"
        /\ row' = IF stored THEN [row EXCEPT !.dyn[o.slot] = o.copy.dyn[o.slot]] ELSE row
        /\ op' = [op EXCEPT ![n] = Written(o, "save")]
        /\ UNCHANGED <<dataVars, made, reg, sub, lis, leaked, crashed>>

\* DELETERepeater: the row and its links, and nothing of what listens for them.
DeleteRepeater(n) ==
    /\ stored
    /\ Launch(n, [NoOp EXCEPT !.pc = "done", !.http = TRUE])
    /\ stored' = FALSE /\ row' = NoLinks
    /\ UNCHANGED <<used, lis>>

\* POSTRepeater, and go ListenForCalls, also when the ID is taken and Create fails.
Create(n) ==
    /\ Launch(n, [NoOp EXCEPT !.pc = "done", !.http = TRUE])
    /\ row' = IF stored THEN row ELSE NoLinks
    /\ stored' = TRUE
    /\ lis' = [lis EXCEPT ![n] = Listen(NoLinks)]
    /\ UNCHANGED used

\* DELETETalkgroup finds the repeaters that are linked to it dynamically ...
DeleteTalkgroup(n, k) ==
    /\ k \in used
    /\ Launch(n, [NoOp EXCEPT !.pc = "forget", !.copy = row, !.key = k, !.http = TRUE])
    /\ UNCHANGED <<row, dataVars, lis>>

\* ... saves them without it, and deletes it with its static links.  A dynamic link
\* that was made in between fails the whole transaction.
Forget(n) ==
    LET k == op[n].key
        found == \E s \in Slots : op[n].copy.dyn[s] = k
        dyn == IF found THEN [s \in Slots |-> IF op[n].copy.dyn[s] = k THEN None
                                              ELSE op[n].copy.dyn[s]]
               ELSE row.dyn
    IN  /\ op[n].pc = "forget"
        /\ IF ~found /\ \E s \in Slots : row.dyn[s] = k
           THEN UNCHANGED <<row, stored>>
           ELSE /\ row' = [dyn |-> dyn, static |-> [s \in Slots |-> row.static[s] \ {k}]]
                /\ stored' = (stored \/ found)
        /\ op' = [op EXCEPT ![n].pc = "done"]
        /\ UNCHANGED <<used, made, reg, sub, lis, leaked, crashed>>

\* A group voice packet to k in slot s, or (k = None) a call to 4000.
Packet(n, s, k) ==
    /\ stored /\ k \in used \cup {None}
    /\ Launch(n, [NoOp EXCEPT !.pc = "touch", !.copy = row, !.slot = s, !.key = k])
    /\ UNCHANGED <<row, dataVars, lis>>

\* The handler saves the row with the time of the packet.
Touch(n) ==
    /\ op[n].pc = "touch"
    /\ Store(op[n].copy)
    /\ op' = [op EXCEPT ![n].pc = IF op[n].key = None THEN "unlink" ELSE "switch"]
    /\ UNCHANGED <<made, reg, sub, lis, leaked, crashed>>

\* Mutant of Switch: the copy that is listened for lacks the link.
SwitchStale(n) ==
    LET o == op[n]
        r == [row EXCEPT !.dyn[o.slot] = o.key]
    IN  /\ o.pc = "switch"
        /\ IF ~stored \/ row.dyn[o.slot] = o.key
           THEN op' = [op EXCEPT ![n].pc = "done"] /\ UNCHANGED lis
           ELSE /\ op' = [op EXCEPT ![n].pc = "save", ![n].copy = r]
                /\ ListenOn(n, row, o.key)
        /\ UNCHANGED <<row, dataVars, made, reg, sub, leaked, crashed>>

\* switchDynamicTalkgroup reads the row anew, if it is there.  The subscription of
\* the talkgroup it switches away from is left alone.
Switch(n) ==
    LET o == op[n]
        r == [row EXCEPT !.dyn[o.slot] = o.key]
    IN  /\ o.pc = "switch"
        /\ IF ~stored \/ row.dyn[o.slot] = o.key
           THEN op' = [op EXCEPT ![n].pc = "done"] /\ UNCHANGED lis
           ELSE /\ op' = [op EXCEPT ![n].pc = "save", ![n].copy = r]
                /\ ListenOn(n, r, o.key)
        /\ UNCHANGED <<row, dataVars, made, reg, sub, leaked, crashed>>

\* The call to 4000: the column is set to null, the link cancelled, the copy saved.
UnlinkCall(n) ==
    LET o == op[n]
        old == o.copy.dyn[o.slot]
    IN  /\ o.pc = "unlink"
        /\ IF old = None
           THEN op' = [op EXCEPT ![n].pc = "save"] /\ UNCHANGED row
           ELSE /\ row' = [row EXCEPT !.dyn[o.slot] = None]
                /\ op' = [op EXCEPT ![n] = [o EXCEPT !.pc = "cancel", !.key = old,
                                                     !.copy.dyn[o.slot] = None]]
        /\ UNCHANGED <<dataVars, made, reg, sub, lis, leaked, crashed>>

Save(n) ==
    /\ op[n].pc = "save"
    /\ Store(op[n].copy)
    /\ op' = [op EXCEPT ![n].pc = IF op[n].all THEN "range" ELSE "done"]
    /\ UNCHANGED <<made, reg, sub, lis, leaked, crashed>>

----------------------------------------------------------------------------
(* CancelSubscription, and the loop of CancelAllSubscriptions around it. *)

AfterCancel(n) == IF op[n].all THEN "loop" ELSE "save"

\* Mutants of Cancel: the copy's other links are not looked at; the goroutine is
\* cancelled before its registration is deleted.
CancelAnyway(n) ==
    /\ op[n].pc = "cancel" /\ CanRead
    /\ IF reg[op[n].key] = 0
       THEN Panic(n, "read")
       ELSE /\ op' = [op EXCEPT ![n].got = reg[op[n].key], ![n].pc = "delete"]
            /\ UNCHANGED <<leaked, crashed>>
    /\ UNCHANGED <<row, dataVars, made, reg, sub, lis>>

CancelFirst(n) ==
    /\ op[n].pc = "cancel" /\ CanRead
    /\ IF reg[op[n].key] = 0
       THEN Panic(n, "read") /\ UNCHANGED sub
       ELSE /\ op' = [op EXCEPT ![n].got = reg[op[n].key],
                        ![n].pc = IF op[n].key \in LinkedTo(op[n].copy)
                                  THEN AfterCancel(n) ELSE "delete"]
            /\ sub' = [sub EXCEPT ![reg[op[n].key]].state = "cancelled"]
            /\ UNCHANGED <<leaked, crashed>>
    /\ UNCHANGED <<row, dataVars, made, reg, lis>>

\* The second map has no mutex for what is not registered: a nil dereference.
\* What the copy still links stays (its own ID is in none of the lists).
Cancel(n) ==
    /\ op[n].pc = "cancel" /\ CanRead
    /\ IF reg[op[n].key] = 0
       THEN Panic(n, "read")
       ELSE /\ op' = [op EXCEPT ![n].got = reg[op[n].key],
                        ![n].pc = IF op[n].key \in LinkedTo(op[n].copy)
                                  THEN AfterCancel(n) ELSE "delete"]
            /\ UNCHANGED <<leaked, crashed>>
    /\ UNCHANGED <<row, dataVars, made, reg, sub, lis>>

\* Whatever is registered by now is deleted ...
Delete(n) ==
    /\ op[n].pc = "delete" /\ CanWrite
    /\ IF reg[op[n].key] = 0
       THEN Panic(n, "write") /\ UNCHANGED reg
       ELSE /\ reg' = [reg EXCEPT ![op[n].key] = 0]
            /\ op' = [op EXCEPT ![n].pc = "stop"]
            /\ UNCHANGED <<leaked, crashed>>
    /\ UNCHANGED <<row, dataVars, made, sub, lis>>

\* ... and what was registered then is cancelled.
Stop(n) ==
    /\ op[n].pc = "stop"
    /\ sub' = [sub EXCEPT ![op[n].got].state = IF @ = "gone" THEN @ ELSE "cancelled"]
    /\ op' = [op EXCEPT ![n].pc = AfterCancel(n)]
    /\ UNCHANGED <<row, dataVars, made, reg, lis, leaked, crashed>>

Range(n) ==
    /\ op[n].pc = "range" /\ CanRead
    /\ op' = [op EXCEPT ![n].pc = "loop", ![n].todo = Registered]
    /\ UNCHANGED <<row, dataVars, made, reg, sub, lis, leaked, crashed>>

\* The lock is released between finding the next key and CancelSubscription.  A key that
\* is registered meanwhile may be visited or not.  (One that stays registered is visited
\* once; to find it again would change nothing.)
Loop(n) ==
    /\ op[n].pc = "loop" /\ CanRead
    /\ \/ \E k \in Registered :
            /\ op' = [op EXCEPT ![n].pc = "cancel", ![n].key = k, ![n].todo = @ \ {k}]
            /\ UNCHANGED lis
       \/ /\ op[n].todo \cap Registered = {}
          /\ op' = [op EXCEPT ![n].pc = "done"]
          /\ lis' = [lis EXCEPT ![n] = Listen(op[n].copy)]
    /\ UNCHANGED <<row, dataVars, made, reg, sub, leaked, crashed>>

----------------------------------------------------------------------------
(* ListenForCalls and ListenForCallsOn. *)

Check(n) ==
    /\ lis[n].pc = "check" /\ CanRead
    /\ lis' = [lis EXCEPT ![n].pc = IF made THEN "look" ELSE "make"]
    /\ UNCHANGED <<row, dataVars, made, reg, sub, op, leaked, crashed>>

Make(n) ==
    /\ lis[n].pc = "make" /\ CanWrite
    /\ made' = TRUE
    /\ reg' = [k \in Keys |-> 0]
    /\ lis' = [lis EXCEPT ![n].pc = "look"]
    /\ UNCHANGED <<row, dataVars, sub, op, leaked, crashed>>

Look(n) ==
    /\ lis[n].pc = "look" /\ CanRead
    /\ IF lis[n].todo = {}
       THEN lis' = [lis EXCEPT ![n].pc = "done"]
       ELSE \E k \in lis[n].todo :
            lis' = [lis EXCEPT ![n].todo = @ \ {k}, ![n].key = k,
                               ![n].pc = IF reg[k] = 0 THEN "register" ELSE "look"]
    /\ UNCHANGED <<row, dataVars, made, reg, sub, op, leaked, crashed>>

\* The goroutine of a new subscription.
Started(l) == [state |-> Begun(l.key), key |-> l.key, copy |-> l.copy]

\* Whoever else has registered in between is overwritten.  Without an entry for
\* the repeater there is no map to write to.
Register(n) ==
    /\ lis[n].pc = "register" /\ CanWrite
    /\ \/ ~made /\ crashed' = TRUE /\ UNCHANGED <<reg, sub, lis>>
       \/ /\ made
          /\ \E g \in Subs :
                /\ sub[g].state = "none" /\ \A h \in 1..(g - 1) : sub[h].state # "none"
                /\ sub' = [sub EXCEPT ![g] = Started(lis[n])]
                /\ reg' = [reg EXCEPT ![lis[n].key] = g]
          /\ lis' = [lis EXCEPT ![n].pc = "look"]
          /\ UNCHANGED crashed
    /\ UNCHANGED <<row, dataVars, made, op, leaked>>

\* subscribeTG and subscribeRepeater notice that their context is cancelled, and
\* delete the registration of their key, whosever it is.  (They publish every
\* packet they want, and their own copy of the row wants them all: CopyWants.)
Cleanup(g) ==
    /\ sub[g].state = "cancelled" /\ CanWrite
    /\ reg' = [reg EXCEPT ![sub[g].key] = 0]
    /\ sub' = [sub EXCEPT ![g].state = "gone"]
    /\ UNCHANGED <<row, dataVars, made, op, lis, leaked, crashed>>

----------------------------------------------------------------------------
\* main starts the DMR server, and then a ListenForCalls for the repeater, if it
\* is registered.
Init ==
    /\ stored \in BOOLEAN
    /\ row \in IF stored THEN Start ELSE {NoLinks}
    /\ used = Known
    /\ made = FALSE
    /\ reg = [k \in Keys |-> 0]
    /\ sub = [g \in Subs |-> NoSub]
    /\ op = [n \in Ops |-> NoOp]
    /\ lis = [n \in 0..MaxOps |-> IF n = 0 /\ stored THEN Listen(row) ELSE NoLis]
    /\ leaked = "no"
    /\ crashed = FALSE
    /\ overlaps = 0

Request(n) ==
    \/ \E s \in Slots, k \in Talkgroups :
        LinkStatic(n, s, k) \/ Unlink(n, s, k) \/ UnlinkStatic(n, s, k)
    \/ \E s \in Slots : Link(n, s)
    \/ \E r \in Choices : Replace(n, r)
    \/ \E s \in Slots, k \in Talkgroups \cup {None} : Packet(n, s, k)
    \/ DeleteRepeater(n) \/ Create(n)
    \/ \E k \in Talkgroups : DeleteTalkgroup(n, k)

Step(n) ==
    \/ Touch(n)
    \/ Switch(n)
    \/ UnlinkCall(n)
    \/ ReplaceStatic(n)
    \/ ReplaceDynamic(n)
    \/ Save(n)
    \/ Forget(n)
    \/ Cancel(n)
    \/ Delete(n)
    \/ Stop(n)
    \/ Range(n)
    \/ Loop(n)

Subscribe(n) ==
    \/ Check(n)
    \/ Make(n)
    \/ Look(n)
    \/ Register(n)

\* HTTP handlers and packet handlers wait for nobody.
Overlap ==
    /\ overlaps' = IF Settled THEN overlaps ELSE overlaps + 1
    /\ overlaps' <= MaxOverlaps

Continue ==
    \/ \E n \in Ops : Step(n)
    \/ \E n \in DOMAIN lis : Subscribe(n)
    \/ \E g \in Subs : Cleanup(g)

Next ==
    /\ ~crashed
    /\ \/ (\E n \in Ops : Request(n)) /\ Overlap
       \/ Continue /\ UNCHANGED overlaps

Spec == Init /\ [][Next]_vars

----------------------------------------------------------------------------
(* Properties. *)

\* The talkgroup an operation is about, where it is used.
Keyed(o) ==
    /\ o.pc = "touch" => o.key \in Talkgroups \cup {None}
    /\ o.pc \in {"switch", "forget"} => o.key \in Talkgroups
    /\ o.pc \in {"cancel", "delete", "stop"} => o.key # None

\* The row, the maps and the locals of the goroutines, ...
LinkTypes ==
    /\ row \in Links
    /\ made \in BOOLEAN /\ crashed \in BOOLEAN /\ leaked \in {"no", "read", "write"}
    /\ reg \in [Keys -> Subs \cup {0}]
    /\ sub \in [Subs -> Subscription]
    /\ op \in [Ops -> Operation]
    /\ lis \in [0..MaxOps -> Listener]
    /\ \A n \in Ops : Keyed(op[n])

\* ... and what is in the database.
DataTypes == stored \in BOOLEAN /\ used \subseteq Talkgroups /\ overlaps \in 0..MaxOverlaps

TypeOK == LinkTypes /\ DataTypes

\* What is registered is being listened to.  ListenForCalls skips what it finds
\* registered, so a registration whose goroutine has been cancelled would leave
\* the repeater deaf to a talkgroup that it is linked to, be it one that was made
\* under the ID of a deleted one, or a repeater registered anew.
RegisteredIsLive ==
    \A k \in Registered : sub[reg[k]].state = Begun(k) /\ sub[reg[k]].key = k

\* A subscription's own copy of the row always wants what it subscribes to, so
\* that it never ends by itself, however the row changes: it has to be cancelled.
CopyWants ==
    \A g \in Subs : sub[g].state = "running" => Wants(sub[g].copy, sub[g].key)

\* Why: a goroutine that is about to be cancelled was registered and is not any
\* more, and nothing is listened for that the copy does not link.
CancelsItsOwn ==
    \A n \in Ops : op[n].pc \in {"delete", "stop"} =>
        /\ op[n].got \in Subs
        /\ sub[op[n].got].state # "none" /\ sub[op[n].got].key = op[n].key
        /\ op[n].pc = "stop" => reg[op[n].key] # op[n].got

ListensForWanted ==
    \A n \in 0..MaxOps :
        /\ lis[n].pc = "register" => Wants(lis[n].copy, lis[n].key)
        /\ \A k \in lis[n].todo : Wants(lis[n].copy, k)

SubscriptionsInv ==
    LinkTypes /\ RegisteredIsLive /\ CopyWants /\ CancelsItsOwn /\ ListensForWanted

\* Somebody listens to k.
Audible(k) == \E g \in Subs : sub[g].state = "running" /\ sub[g].key = k

\* While no operation has overlapped another: once the last has settled, every
\* talkgroup the row links, and the repeater's own ID, is listened to.
LinkedIsHeard ==
    overlaps = 0 /\ Settled /\ stored => \A k \in {Own} \cup LinkedTo(row) : Audible(k)

\* CancelSubscription panics at what it finds unregistered (repeater.go:64), with the lock
\* of the maps held.  That takes operations that overlap: no sequence of links, unlinks,
\* switches, deletions and registrations anew comes to it.
PanicNeedsOverlap == crashed \/ leaked # "no" => overlaps > 0

\* What the two come to without that condition.  (Violated: a talkgroup is unlinked before
\* the goroutine of ListenForCalls has registered it; the handler of a packet saves its
\* copy of the row, and with it a link that is being unlinked.)
NoPanic == ~crashed /\ leaked = "no"
LinkedIsHeardAnyway ==
    NoPanic /\ Settled /\ stored => \A k \in {Own} \cup LinkedTo(row) : Audible(k)

\* POSTRepeaterLink links what it has found, a valid talkgroup (repeaters.go:318).
\* (Violated: it never finds one, and talkgroup 0 is subscribed to.)
TargetIsValid == reg[Zero] = 0

\* A repeater that has been deleted hears nothing (repeaters.go:70).  (Violated:
\* its subscriptions go on, and are those of whoever registers its ID next.)
DeletedIsSilent ==
    Settled /\ ~stored => \A g \in Subs : sub[g].state # "running"

\* A subscription that is not wanted any more is unsubscribed (repeater.go:343).
\* (Violated: switching the dynamic talkgroup leaves the old one subscribed.)
UnlinkedIsSilent ==
    Settled => \A g \in Subs : sub[g].state = "running" => Wants(row, sub[g].key)

\* A packet is published once to a repeater that wants it (repeater.go:131).
\* (Violated: a cancelled subscription deletes the registration of its successor,
\* which is then subscribed again.)
OneSubscriber ==
    \A g, h \in Subs :
        sub[g].state = "running" /\ sub[h].state = "running" /\ sub[g].key = sub[h].key
            => g = h
=============================================================================
