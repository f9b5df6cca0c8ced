------------------------- MODULE SubscriptionsProof -------------------------
(***************************************************************************)
(* For any talkgroups, any links to start from and to ask for, and any     *)
(* number of operations under way at once: what is registered is being     *)
(* listened to, and a subscription's copy of the row wants its talkgroup.  *)
(* And until one operation has overlapped another, for any number of them: *)
(* nothing panics, and what the row links is heard once they have settled. *)
(***************************************************************************)
EXTENDS Subscriptions, TLAPS

\* The labels of an operation, and those at which it cancels something.
Labels == {"idle", "touch", "switch", "unlink", "static", "dynamic", "save", "cancel",
           "delete", "stop", "range", "loop", "forget", "done"}

----------------------------------------------------------------------------
(* The data. *)

\* Assigning one dynamic talkgroup or one list of static ones keeps the type of the row.
LEMMA LinkUpdates ==
    ASSUME NEW r \in Links, NEW s \in Slots
    PROVE  /\ \A k \in Talkgroups \cup {None, Zero} : [r EXCEPT !.dyn[s] = k] \in Links
           /\ \A T \in SUBSET Talkgroups : [r EXCEPT !.static[s] = T] \in Links
           /\ r.dyn[s] \in Talkgroups \cup {None, Zero}
           /\ r.static[s] \subseteq Talkgroups
BY DEF Links

\* A row links talkgroups, and a copy perhaps what was not found: neither None nor
\* the own ID.
LEMMA LinkedTalkgroups ==
    ASSUME NEW r \in Links
    PROVE  LinkedTo(r) \subseteq Talkgroups \cup {Zero}
BY DEF Links, LinkedTo

\* A row that has just been linked to k wants its packets.
LEMMA LinksWanted ==
    ASSUME NEW r \in Links, NEW s \in Slots
    PROVE  /\ \A k \in Talkgroups \cup {Zero} : Wants([r EXCEPT !.dyn[s] = k], k)
           /\ \A k \in Talkgroups : Wants([r EXCEPT !.static[s] = @ \cup {k}], k)
<1> SUFFICES ASSUME NEW k \in Talkgroups \cup {Zero}
             PROVE  /\ Wants([r EXCEPT !.dyn[s] = k], k)
                    /\ k \in Talkgroups => Wants([r EXCEPT !.static[s] = @ \cup {k}], k)
  OBVIOUS
<1>1. k # None
  BY SubscriptionsAssumption DEF None, Zero
<1>2. [r EXCEPT !.dyn[s] = k].dyn[s] = k
  BY DEF Links
<1>3. k \in [r EXCEPT !.static[s] = @ \cup {k}].static[s]
  BY DEF Links
<1>4. QED BY <1>1, <1>2, <1>3 DEF Wants, LinkedTo

\* Linking to k keeps the type of the row.
LEMMA LinksTyped ==
    ASSUME NEW r \in Links, NEW s \in Slots, NEW k \in Talkgroups
    PROVE  /\ [r EXCEPT !.dyn[s] = k] \in Links
           /\ [r EXCEPT !.static[s] = @ \cup {k}] \in Links
<1>1. [r EXCEPT !.dyn[s] = k] \in Links
  BY LinkUpdates
<1>2. [r EXCEPT !.static[s] = @ \cup {k}] \in Links
  <2>1. r.static[s] \cup {k} \in SUBSET Talkgroups
    BY LinkUpdates
  <2>2. [r EXCEPT !.static[s] = r.static[s] \cup {k}] \in Links
    BY <2>1, LinkUpdates
  <2>3. QED BY <2>2
<1>3. QED BY <1>1, <1>2

\* What DB.Save writes is a row.
LEMMA SavedLinks ==
    ASSUME LinkTypes, NEW r \in Links
    PROVE  Saved(r) \in Links
BY DEF LinkTypes, Saved, Links

\* The empty row is a row.
LEMMA NoLinksTyped == NoLinks \in Links
BY DEF NoLinks, Links

----------------------------------------------------------------------------
(* The goroutines' locals. *)

\* The fields of an operation.
LEMMA OperationFields ==
    ASSUME NEW o \in Operation
    PROVE  /\ o.pc \in Labels /\ o.copy \in Links /\ o.slot \in Slots
           /\ o.key \in Keys \cup {None} /\ o.got \in Subs \cup {0}
           /\ o.todo \subseteq Keys /\ o.all \in BOOLEAN
BY DEF Operation, Labels

\* Moving on keeps the rest of an operation.
LEMMA OperationUpdates ==
    ASSUME NEW o \in Operation, NEW c \in Labels
    PROVE  /\ [o EXCEPT !.pc = c] \in Operation
           /\ [o EXCEPT !.pc = c].pc = c
           /\ [o EXCEPT !.pc = c].key = o.key
           /\ [o EXCEPT !.pc = c].got = o.got
BY DEF Operation, Labels

\* What an operation starts with.
LEMMA SaveOperation ==
    ASSUME NEW r \in Links, NEW h \in BOOLEAN
    PROVE  /\ [NoOp EXCEPT !.pc = "save", !.copy = r, !.http = h] \in Operation
           /\ [NoOp EXCEPT !.pc = "save", !.copy = r, !.http = h].pc = "save"
BY NoLinksTyped DEF Operation, NoOp, Slots, Keys

\* POST /talkgroups starts with its static links.
LEMMA ReplaceOperation ==
    ASSUME NEW r \in Links
    PROVE  /\ [NoOp EXCEPT !.pc = "static", !.copy = r, !.all = TRUE, !.http = TRUE] \in Operation
           /\ [NoOp EXCEPT !.pc = "static", !.copy = r, !.all = TRUE, !.http = TRUE].pc = "static"
BY NoLinksTyped DEF Operation, NoOp, Slots, Keys

\* The web API's unlink starts at its CancelSubscription.
LEMMA CancelOperation ==
    ASSUME NEW r \in Links, NEW k \in Talkgroups
    PROVE  /\ [NoOp EXCEPT !.pc = "cancel", !.copy = r, !.key = k, !.http = TRUE] \in Operation
           /\ [NoOp EXCEPT !.pc = "cancel", !.copy = r, !.key = k, !.http = TRUE].pc = "cancel"
           /\ [NoOp EXCEPT !.pc = "cancel", !.copy = r, !.key = k, !.http = TRUE].key = k
BY NoLinksTyped DEF Operation, NoOp, Slots, Keys

\* What a request leaves that is over once it has answered.
Done == [NoOp EXCEPT !.pc = "done", !.http = TRUE]

LEMMA DoneOperation == Done \in Operation /\ Done.pc = "done" /\ Keyed(Done)
BY NoLinksTyped DEF Done, Operation, NoOp, Slots, Keys, Keyed

\* ListenForCallsOn starts with one talkgroup.
LEMMA ListenerLooks ==
    ASSUME NEW r \in Links, NEW T \in SUBSET Keys
    PROVE  /\ [NoLis EXCEPT !.pc = "look", !.copy = r, !.todo = T] \in Listener
           /\ [NoLis EXCEPT !.pc = "look", !.copy = r, !.todo = T].pc = "look"
           /\ [NoLis EXCEPT !.pc = "look", !.copy = r, !.todo = T].copy = r
           /\ [NoLis EXCEPT !.pc = "look", !.copy = r, !.todo = T].todo = T
BY NoLinksTyped DEF Listener, NoLis, Keys

\* ListenForCalls starts with the links of its copy and the own ID.
LEMMA ListenerChecks ==
    ASSUME NEW r \in Links
    PROVE  /\ Listen(r) \in Listener /\ Listen(r).pc = "check" /\ Listen(r).copy = r
           /\ Listen(r).todo = {Own} \cup LinkedTo(r)
<1> DEFINE T == {Own} \cup LinkedTo(r)
<1>1. T \in SUBSET Keys
  BY LinkedTalkgroups DEF Keys
<1>2. Listen(r) = [NoLis EXCEPT !.pc = "check", !.copy = r, !.todo = T]
  BY DEF Listen
<1> HIDE DEF T
<1>3. /\ Listen(r) \in Listener /\ Listen(r).pc = "check" /\ Listen(r).copy = r
      /\ Listen(r).todo = T
  BY <1>1, <1>2, NoLinksTyped DEF Listener, NoLis, Keys
<1>4. QED BY <1>3 DEF T

----------------------------------------------------------------------------
(* Steps that leave the maps and the subscriptions alone. *)

\* What the other goroutines listen for does not change with one of them.
LEMMA ListenersKept ==
    ASSUME SubscriptionsInv, NEW n \in 0..MaxOps, NEW l \in Listener,
           \/ lis' = lis
           \/ /\ lis' = [lis EXCEPT ![n] = l]
              /\ l.pc = "register" => Wants(l.copy, l.key)
              /\ \A k \in l.todo : Wants(l.copy, k)
    PROVE  lis' \in [0..MaxOps -> Listener] /\ ListensForWanted'
<1>1. lis \in [0..MaxOps -> Listener] /\ ListensForWanted
  BY DEF SubscriptionsInv, LinkTypes
<1>2. CASE lis' = lis
  BY <1>1, <1>2 DEF ListensForWanted, Wants
<1>3. CASE /\ lis' = [lis EXCEPT ![n] = l]
           /\ l.pc = "register" => Wants(l.copy, l.key)
           /\ \A k \in l.todo : Wants(l.copy, k)
  <2>1. lis' \in [0..MaxOps -> Listener]
    BY <1>1, <1>3
  <2>2. \A m \in 0..MaxOps : lis'[m] = IF m = n THEN l ELSE lis[m]
    BY <1>1, <1>3
  <2>3. QED BY <1>1, <1>3, <2>1, <2>2 DEF ListensForWanted, Wants
<1>4. QED BY <1>2, <1>3

\* go ListenForCallsOn(k), of a copy that wants k.
LEMMA ListenOnKept ==
    ASSUME SubscriptionsInv, NEW n \in 0..MaxOps, NEW r \in Links, NEW k \in Keys,
           Wants(r, k), ListenOn(n, r, k)
    PROVE  lis' \in [0..MaxOps -> Listener] /\ ListensForWanted'
<1> DEFINE T == {k}
           l == [NoLis EXCEPT !.pc = "look", !.copy = r, !.todo = T]
<1>1. T \in SUBSET Keys /\ \A m \in T : m = k
  OBVIOUS
<1>2. lis' = [lis EXCEPT ![n] = l]
  BY DEF ListenOn
<1> HIDE DEF T
<1>3. l \in Listener /\ l.pc = "look" /\ l.copy = r /\ l.todo = T
  BY <1>1, ListenerLooks
<1> HIDE DEF l
<1>4. \A m \in l.todo : Wants(l.copy, m)
  BY <1>1, <1>3
<1>5. QED BY <1>2, <1>3, <1>4, ListenersKept

\* A step of an operation that leaves the maps and the subscriptions alone.
LEMMA PlainStep ==
    ASSUME SubscriptionsInv, NEW n \in Ops, NEW new \in Operation,
           op' = [op EXCEPT ![n] = new],
           new.pc # "stop",
           Keyed(new),
           new.pc = "delete" =>
               new.got \in Subs /\ sub[new.got].state # "none" /\ sub[new.got].key = new.key,
           UNCHANGED <<made, reg, sub>>,
           row' \in Links, leaked' \in {"no", "read", "write"}, crashed' \in BOOLEAN,
           lis' \in [0..MaxOps -> Listener], ListensForWanted'
    PROVE  SubscriptionsInv'
<1>1. op \in [Ops -> Operation]
  BY DEF SubscriptionsInv, LinkTypes
<1>2. op' \in [Ops -> Operation] /\ \A m \in Ops : op'[m] = IF m = n THEN new ELSE op[m]
  BY <1>1
<1>3. LinkTypes'
  <2>1. \A m \in Ops : Keyed(op'[m])
    BY <1>2 DEF SubscriptionsInv, LinkTypes
  <2>2. made' \in BOOLEAN /\ reg' \in [Keys -> Subs \cup {0}] /\ sub' \in [Subs -> Subscription]
    BY DEF SubscriptionsInv, LinkTypes
  <2>3. row' \in Links /\ leaked' \in {"no", "read", "write"}
    OBVIOUS
  <2>4. crashed' \in BOOLEAN
    OBVIOUS
  <2>5. lis' \in [0..MaxOps -> Listener]
    OBVIOUS
  <2>6. op' \in [Ops -> Operation]
    BY <1>2
  <2>7. QED BY <2>1, <2>2, <2>3, <2>4, <2>5, <2>6 DEF LinkTypes
<1>4. CancelsItsOwn'
  <2> SUFFICES ASSUME NEW m \in Ops, op'[m].pc \in {"delete", "stop"}
               PROVE  /\ op'[m].got \in Subs
                      /\ sub'[op'[m].got].state # "none" /\ sub'[op'[m].got].key = op'[m].key
                      /\ op'[m].pc = "stop" => reg'[op'[m].key] # op'[m].got
    BY DEF CancelsItsOwn
  <2>1. CASE m = n
    BY <1>2, <2>1
  <2>2. CASE m # n
    BY <1>2, <2>2 DEF SubscriptionsInv, CancelsItsOwn
  <2>3. QED BY <2>1, <2>2
<1>5. RegisteredIsLive' /\ CopyWants'
  BY DEF SubscriptionsInv, RegisteredIsLive, CopyWants, Registered, Wants
<1>6. QED BY <1>3, <1>4, <1>5 DEF SubscriptionsInv

\* An operation starts.
LEMMA RequestPreserves ==
    ASSUME SubscriptionsInv, NEW n \in Ops, Request(n)
    PROVE  SubscriptionsInv'
<1>1. /\ row \in Links /\ n \in 0..MaxOps
      /\ leaked \in {"no", "read", "write"} /\ crashed \in BOOLEAN
  BY DEF SubscriptionsInv, LinkTypes, Ops
<1>2. ASSUME NEW r \in Links, NEW k \in Keys, Wants(r, k), ListenOn(n, r, k)
      PROVE  lis' \in [0..MaxOps -> Listener] /\ ListensForWanted'
  BY <1>1, <1>2, ListenOnKept
<1>3. lis' = lis => lis' \in [0..MaxOps -> Listener] /\ ListensForWanted'
  BY DEF SubscriptionsInv, LinkTypes, ListensForWanted, Wants
<1>4. ASSUME NEW s \in Slots, Link(n, s)
      PROVE  SubscriptionsInv'
  <2> DEFINE r == [row EXCEPT !.dyn[s] = Zero]
  <2>1. r \in Links /\ Wants(r, Zero) /\ Zero \in Keys
    BY <1>1, LinkUpdates, LinksWanted DEF Keys
  <2>2. lis' \in [0..MaxOps -> Listener] /\ ListensForWanted'
    BY <1>2, <1>4, <2>1 DEF Link
  <2>3. op' = [op EXCEPT ![n] = Done] /\ UNCHANGED <<row, made, reg, sub, leaked, crashed>>
    BY <1>4 DEF Link, Launch, Done
  <2>4. QED BY <1>1, <2>2, <2>3, DoneOperation, PlainStep
<1>5. ASSUME NEW s \in Slots, NEW k \in Talkgroups, LinkStatic(n, s, k)
      PROVE  SubscriptionsInv'
  <2> DEFINE r == [row EXCEPT !.static[s] = @ \cup {k}]
  <2>1. r \in Links /\ Wants(r, k) /\ k \in Keys
    <3>1. r \in Links
      BY <1>1, LinksTyped
    <3>2. Wants(r, k)
      BY <1>1, LinksWanted
    <3>3. QED BY <3>1, <3>2 DEF Keys
  <2>2. lis' \in [0..MaxOps -> Listener] /\ ListensForWanted'
    BY <1>2, <1>5, <2>1 DEF LinkStatic
  <2> DEFINE new == [NoOp EXCEPT !.pc = "save", !.copy = r, !.http = TRUE]
  <2>3. new \in Operation /\ new.pc = "save" /\ Keyed(new)
    BY <2>1, SaveOperation DEF Keyed
  <2>4. op' = [op EXCEPT ![n] = new] /\ UNCHANGED <<made, reg, sub, leaked, crashed>>
    BY <1>5 DEF LinkStatic, Launch
  <2>5. row' \in Links
    BY <1>1, <1>5, <2>1 DEF LinkStatic
  <2>6. QED BY <1>1, <2>2, <2>3, <2>4, <2>5, PlainStep
<1>6. ASSUME NEW s \in Slots, NEW k \in Talkgroups, Unlink(n, s, k)
      PROVE  SubscriptionsInv'
  <2>1. [row EXCEPT !.dyn[s] = None] \in Links /\ k \in Keys
    BY <1>1, LinkUpdates DEF Keys
  <2> DEFINE new == [NoOp EXCEPT !.pc = "cancel", !.copy = [row EXCEPT !.dyn[s] = None],
                                 !.key = k, !.http = TRUE]
  <2>2. new \in Operation /\ new.pc = "cancel" /\ Keyed(new)
    BY <2>1, CancelOperation, SubscriptionsAssumption DEF Keyed
  <2>3. op' = [op EXCEPT ![n] = new] /\ UNCHANGED <<row, lis, made, reg, sub, leaked, crashed>>
    BY <1>6 DEF Unlink, Launch
  <2>4. QED BY <1>1, <1>3, <2>1, <2>2, <2>3, PlainStep
<1>7. ASSUME NEW s \in Slots, NEW k \in Talkgroups, UnlinkStatic(n, s, k)
      PROVE  SubscriptionsInv'
  <2>1. row' \in Links /\ k \in Keys
    BY <1>1, <1>7, LinkUpdates DEF UnlinkStatic, Keys
  <2> DEFINE new == [NoOp EXCEPT !.pc = "cancel", !.copy = row', !.key = k, !.http = TRUE]
  <2>2. new \in Operation /\ new.pc = "cancel" /\ Keyed(new)
    BY <2>1, CancelOperation, SubscriptionsAssumption DEF Keyed
  <2>3. op' = [op EXCEPT ![n] = new] /\ UNCHANGED <<lis, made, reg, sub, leaked, crashed>>
    BY <1>7 DEF UnlinkStatic, Launch
  <2>4. QED BY <1>1, <1>3, <2>1, <2>2, <2>3, PlainStep
<1>8. ASSUME NEW r \in Choices, Replace(n, r)
      PROVE  SubscriptionsInv'
  <2> DEFINE new == [NoOp EXCEPT !.pc = "static", !.copy = r, !.all = TRUE, !.http = TRUE]
  <2>1. r \in Links
    BY LinksAssumption
  <2>2. new \in Operation /\ new.pc = "static" /\ Keyed(new)
    BY <2>1, ReplaceOperation DEF Keyed
  <2>3. op' = [op EXCEPT ![n] = new] /\ UNCHANGED <<row, lis, made, reg, sub, leaked, crashed>>
    BY <1>8 DEF Replace, Launch
  <2> HIDE DEF new
  <2>4. QED BY <1>1, <1>3, <2>1, <2>2, <2>3, PlainStep
<1>9. ASSUME NEW s \in Slots, NEW k \in Talkgroups \cup {None}, Packet(n, s, k)
      PROVE  SubscriptionsInv'
  <2> DEFINE new == [NoOp EXCEPT !.pc = "touch", !.copy = row, !.slot = s, !.key = k]
  <2>0. new \in Operation /\ new.pc = "touch" /\ new.key = k
    BY <1>1, NoLinksTyped DEF Operation, NoOp, Slots, Keys
  <2>1. Keyed(new)
    BY <2>0 DEF Keyed
  <2>2. op' = [op EXCEPT ![n] = new] /\ UNCHANGED <<row, lis, made, reg, sub, leaked, crashed>>
    BY <1>9 DEF Packet, Launch
  <2> HIDE DEF new
  <2>3. QED BY <1>1, <1>3, <2>0, <2>1, <2>2, PlainStep
<1>10. CASE DeleteRepeater(n)
  <2>1. /\ op' = [op EXCEPT ![n] = Done] /\ row' = NoLinks
        /\ UNCHANGED <<lis, made, reg, sub, leaked, crashed>>
    BY <1>10 DEF DeleteRepeater, Launch, Done
  <2>2. QED BY <1>1, <1>3, <2>1, DoneOperation, NoLinksTyped, PlainStep
<1>11. CASE Create(n)
  <2>1. /\ op' = [op EXCEPT ![n] = Done] /\ row' \in {row, NoLinks}
        /\ lis' = [lis EXCEPT ![n] = Listen(NoLinks)]
        /\ UNCHANGED <<made, reg, sub, leaked, crashed>>
    BY <1>11 DEF Create, Launch, Done
  <2> DEFINE l == Listen(NoLinks)
  <2>2. l \in Listener /\ l.pc # "register" /\ \A k \in l.todo : Wants(l.copy, k)
    BY NoLinksTyped, ListenerChecks DEF Wants
  <2>3. lis' \in [0..MaxOps -> Listener] /\ ListensForWanted'
    BY <1>1, <2>1, <2>2, ListenersKept
  <2>4. row' \in Links
    BY <1>1, <2>1, NoLinksTyped
  <2>5. QED BY <1>1, <2>1, <2>3, <2>4, DoneOperation, PlainStep
<1>12. ASSUME NEW k \in Talkgroups, DeleteTalkgroup(n, k)
       PROVE  SubscriptionsInv'
  <2> DEFINE new == [NoOp EXCEPT !.pc = "forget", !.copy = row, !.key = k, !.http = TRUE]
  <2>1. new \in Operation /\ new.pc = "forget" /\ new.key = k
    BY <1>1, NoLinksTyped DEF Operation, NoOp, Slots, Keys
  <2>2. Keyed(new)
    BY <2>1 DEF Keyed
  <2>3. op' = [op EXCEPT ![n] = new] /\ UNCHANGED <<row, lis, made, reg, sub, leaked, crashed>>
    BY <1>12 DEF DeleteTalkgroup, Launch
  <2> HIDE DEF new
  <2>4. QED BY <1>1, <1>3, <2>1, <2>2, <2>3, PlainStep
<1>13. QED BY <1>4, <1>5, <1>6, <1>7, <1>8, <1>9, <1>10, <1>11, <1>12 DEF Request

----------------------------------------------------------------------------
(* The steps of an operation. *)

\* The locals of an operation after each kind of assignment.
LEMMA OperationCopies ==
    ASSUME NEW o \in Operation, NEW r \in Links
    PROVE  /\ [o EXCEPT !.pc = "save", !.copy = r] \in Operation
           /\ [o EXCEPT !.pc = "save", !.copy = r].pc = "save"
BY DEF Operation

\* The loop over the map starts.
LEMMA OperationRanges ==
    ASSUME NEW o \in Operation, NEW T \in SUBSET Keys
    PROVE  /\ [o EXCEPT !.pc = "loop", !.todo = T] \in Operation
           /\ [o EXCEPT !.pc = "loop", !.todo = T].pc = "loop"
BY DEF Operation

\* What an operation and its surroundings look like before a step of its own.
LEMMA Before ==
    ASSUME SubscriptionsInv, NEW n \in Ops
    PROVE  /\ op \in [Ops -> Operation] /\ op[n] \in Operation
           /\ op[n].copy \in Links /\ op[n].slot \in Slots
           /\ op[n].key \in Keys \cup {None} /\ Keyed(op[n])
           /\ row \in Links /\ n \in 0..MaxOps
           /\ leaked \in {"no", "read", "write"} /\ crashed \in BOOLEAN
           /\ lis' = lis => lis' \in [0..MaxOps -> Listener] /\ ListensForWanted'
<1>1. op \in [Ops -> Operation] /\ op[n] \in Operation /\ Keyed(op[n])
  BY DEF SubscriptionsInv, LinkTypes
<1>2. lis' = lis => lis' \in [0..MaxOps -> Listener] /\ ListensForWanted'
  BY DEF SubscriptionsInv, LinkTypes, ListensForWanted, Wants
<1>3. /\ row \in Links /\ n \in 0..MaxOps
      /\ leaked \in {"no", "read", "write"} /\ crashed \in BOOLEAN
  BY DEF SubscriptionsInv, LinkTypes, Ops
<1>4. QED BY <1>1, <1>2, <1>3, OperationFields

\* A panic leaves the maps as they are.
LEMMA PanicPreserves ==
    ASSUME SubscriptionsInv, NEW n \in Ops, NEW lock \in {"read", "write"}, Panic(n, lock),
           UNCHANGED <<row, made, reg, sub, lis>>
    PROVE  SubscriptionsInv'
<1>1. CASE op[n].http
  <2> DEFINE new == [op[n] EXCEPT !.pc = "done"]
  <2>1. new \in Operation /\ new.pc = "done" /\ Keyed(new)
    BY Before, OperationUpdates DEF Labels, Keyed
  <2>2. op' = [op EXCEPT ![n] = new] /\ leaked' = lock /\ crashed' = crashed
    BY <1>1 DEF Panic
  <2> HIDE DEF new
  <2>3. QED BY <2>1, <2>2, Before, PlainStep
<1>2. CASE ~op[n].http
  <2>1. crashed' = TRUE /\ UNCHANGED <<op, leaked>>
    BY <1>2 DEF Panic
  <2>2. LinkTypes'
    BY <2>1 DEF SubscriptionsInv, LinkTypes
  <2>3. RegisteredIsLive' /\ CopyWants' /\ CancelsItsOwn' /\ ListensForWanted'
    BY <2>1 DEF SubscriptionsInv, RegisteredIsLive, Registered, CopyWants, CancelsItsOwn,
                ListensForWanted, Wants
  <2>4. QED BY <2>2, <2>3 DEF SubscriptionsInv
<1>3. QED BY <1>1, <1>2

\* The handler of voice packets saves its copy.
LEMMA TouchPreserves ==
    ASSUME SubscriptionsInv, NEW n \in Ops, Touch(n)
    PROVE  SubscriptionsInv'
<1> DEFINE c == IF op[n].key = None THEN "unlink" ELSE "switch"
<1> DEFINE new == [op[n] EXCEPT !.pc = c]
<1>1. c \in Labels /\ c \in {"unlink", "switch"}
  BY DEF Labels
<1>2. new \in Operation /\ new.pc = c /\ new.key = op[n].key
  BY <1>1, Before, OperationUpdates
<1>3. Keyed(new)
  BY <1>1, <1>2, Before DEF Keyed, Keys, Touch
<1>4. row' \in Links
  BY Before, SavedLinks DEF Touch, Store, SubscriptionsInv
<1>5. op' = [op EXCEPT ![n] = new] /\ UNCHANGED <<made, reg, sub, lis, leaked, crashed>>
  BY DEF Touch
<1>6. new.pc \in {"unlink", "switch"}
  BY <1>1, <1>2
<1> HIDE DEF c, new
<1>7. QED BY <1>2, <1>3, <1>4, <1>5, <1>6, Before, PlainStep

\* switchDynamicTalkgroup.
LEMMA SwitchPreserves ==
    ASSUME SubscriptionsInv, NEW n \in Ops, Switch(n)
    PROVE  SubscriptionsInv'
<1> DEFINE r == [row EXCEPT !.dyn[op[n].slot] = op[n].key]
<1>1. CASE ~stored \/ row.dyn[op[n].slot] = op[n].key
  <2> DEFINE new == [op[n] EXCEPT !.pc = "done"]
  <2>1. new \in Operation /\ new.pc = "done" /\ Keyed(new)
    BY Before, OperationUpdates DEF Labels, Keyed
  <2>2. op' = [op EXCEPT ![n] = new] /\ UNCHANGED <<row, made, reg, sub, lis, leaked, crashed>>
    BY <1>1 DEF Switch
  <2> HIDE DEF new
  <2>3. QED BY <2>1, <2>2, Before, PlainStep
<1>2. CASE ~(~stored \/ row.dyn[op[n].slot] = op[n].key)
  <2>1. op[n].key \in Talkgroups /\ op[n].key \in Keys
    BY Before DEF Switch, Keyed, Keys
  <2>2. r \in Links /\ Wants(r, op[n].key)
    BY <2>1, Before, LinkUpdates, LinksWanted
  <2>3. ListenOn(n, r, op[n].key)
    BY <1>2 DEF Switch
  <2>4. lis' \in [0..MaxOps -> Listener] /\ ListensForWanted'
    BY <2>1, <2>2, <2>3, Before, ListenOnKept
  <2> DEFINE new == [op[n] EXCEPT !.pc = "save", !.copy = r]
  <2>5. new \in Operation /\ new.pc = "save" /\ Keyed(new)
    BY <2>2, Before, OperationCopies DEF Keyed
  <2>6. op' = [op EXCEPT ![n] = new] /\ UNCHANGED <<row, made, reg, sub, leaked, crashed>>
    BY <1>2 DEF Switch
  <2> HIDE DEF new
  <2>7. QED BY <2>4, <2>5, <2>6, Before, PlainStep
<1>3. QED BY <1>1, <1>2

\* The call to 4000.
LEMMA UnlinkCallPreserves ==
    ASSUME SubscriptionsInv, NEW n \in Ops, UnlinkCall(n)
    PROVE  SubscriptionsInv'
<1> DEFINE old == op[n].copy.dyn[op[n].slot]
<1>1. CASE old = None
  <2> DEFINE new == [op[n] EXCEPT !.pc = "save"]
  <2>1. op[n] \in Operation /\ "save" \in Labels
    BY Before DEF Labels
  <2>2. new \in Operation /\ new.pc = "save"
    BY <2>1, OperationUpdates
  <2>3. op' = [op EXCEPT ![n] = new] /\ UNCHANGED <<row, made, reg, sub, lis, leaked, crashed>>
    BY <1>1 DEF UnlinkCall
  <2> HIDE DEF new
  <2>4. Keyed(new)
    BY <2>2 DEF Keyed
  <2>5. QED BY <2>2, <2>3, <2>4, Before, PlainStep
<1>2. CASE old # None
  <2> DEFINE r == [op[n].copy EXCEPT !.dyn[op[n].slot] = None]
  <2>1. /\ r \in Links /\ old \in Keys /\ None \in Talkgroups \cup {None, Zero}
        /\ [row EXCEPT !.dyn[op[n].slot] = None] \in Links
    BY <1>2, Before, LinkUpdates DEF Keys
  <2> DEFINE new == [op[n] EXCEPT !.pc = "cancel", !.key = old,
                              !.copy.dyn[op[n].slot] = None]
  <2>2. new \in Operation /\ new.pc = "cancel" /\ new.key = old
    <3>1. new = [op[n] EXCEPT !.pc = "cancel", !.key = old, !.copy = r]
      BY Before DEF Operation
    <3>2. op[n] \in Operation
      BY Before
    <3> HIDE DEF r, old
    <3>3. QED BY <2>1, <3>1, <3>2 DEF new, Operation
  <2>3. Keyed(new)
    BY <1>2, <2>2 DEF Keyed
  <2>4. op' = [op EXCEPT ![n] = new]
    BY <1>2 DEF UnlinkCall
  <2>5. row' \in Links /\ UNCHANGED <<made, reg, sub, lis, leaked, crashed>>
    BY <1>2, <2>1 DEF UnlinkCall
  <2> HIDE DEF new
  <2>6. QED BY <2>2, <2>3, <2>4, <2>5, Before, PlainStep
<1>3. QED BY <1>1, <1>2

\* POST /talkgroups goes on to the next of its links.
LEMMA WrittenFields ==
    ASSUME NEW o \in Operation, NEW c \in {"dynamic", "save"}
    PROVE  /\ Written(o, c) \in Operation
           /\ o.slot = 1 => Written(o, c).slot = 2 /\ Written(o, c).pc = o.pc
           /\ o.slot # 1 => Written(o, c).slot = 1 /\ Written(o, c).pc = c
           /\ Written(o, c).copy = o.copy /\ Written(o, c).all = o.all
           /\ Written(o, c).key = o.key
BY DEF Written, Operation, Slots

LEMMA ReplaceStaticPreserves ==
    ASSUME SubscriptionsInv, NEW n \in Ops, ReplaceStatic(n)
    PROVE  SubscriptionsInv'
<1>1. /\ op[n].pc = "static" /\ UNCHANGED <<made, reg, sub, lis, leaked, crashed>>
      /\ \E new \in {[op[n] EXCEPT !.pc = "done"], Written(op[n], "dynamic")} :
            op' = [op EXCEPT ![n] = new]
  BY DEF ReplaceStatic
<1>2. PICK new \in {[op[n] EXCEPT !.pc = "done"], Written(op[n], "dynamic")} :
            op' = [op EXCEPT ![n] = new]
  BY <1>1
<1>3. new \in Operation /\ new.pc \in {"static", "dynamic", "done"}
  <2>1. CASE new = [op[n] EXCEPT !.pc = "done"]
    BY <2>1, Before, OperationUpdates DEF Labels
  <2>2. CASE new = Written(op[n], "dynamic")
    BY <1>1, <2>2, Before, WrittenFields
  <2>3. QED BY <2>1, <2>2
<1>4. row' \in Links
  <2>1. op[n].copy.static[op[n].slot] \in SUBSET Talkgroups
    BY Before, LinkUpdates
  <2>2. QED BY <2>1, Before, LinkUpdates DEF ReplaceStatic
<1>5. Keyed(new)
  BY <1>3 DEF Keyed
<1>6. QED BY <1>1, <1>2, <1>3, <1>4, <1>5, Before, PlainStep

LEMMA ReplaceDynamicPreserves ==
    ASSUME SubscriptionsInv, NEW n \in Ops, ReplaceDynamic(n)
    PROVE  SubscriptionsInv'
<1> DEFINE new == Written(op[n], "save")
<1>1. /\ op[n].pc = "dynamic" /\ UNCHANGED <<made, reg, sub, lis, leaked, crashed>>
      /\ op' = [op EXCEPT ![n] = new]
  BY DEF ReplaceDynamic
<1>2. new \in Operation /\ new.pc \in {"dynamic", "save"}
  BY <1>1, Before, WrittenFields
<1>3. row' \in Links
  <2>1. op[n].copy.dyn[op[n].slot] \in Talkgroups \cup {None, Zero}
    BY Before, LinkUpdates
  <2>2. QED BY <2>1, Before, LinkUpdates DEF ReplaceDynamic
<1>4. Keyed(new)
  BY <1>2 DEF Keyed
<1> HIDE DEF new
<1>5. QED BY <1>1, <1>2, <1>3, <1>4, Before, PlainStep

\* The copy is saved at the end.
LEMMA SavePreserves ==
    ASSUME SubscriptionsInv, NEW n \in Ops, Save(n)
    PROVE  SubscriptionsInv'
<1> DEFINE c == IF op[n].all THEN "range" ELSE "done"
<1> DEFINE new == [op[n] EXCEPT !.pc = c]
<1>1. c \in Labels /\ c \in {"range", "done"}
  BY DEF Labels
<1>2. new \in Operation /\ new.pc \in {"range", "done"}
  BY <1>1, Before, OperationUpdates
<1>3. Keyed(new)
  BY <1>2 DEF Keyed
<1>4. row' \in Links
  BY Before, SavedLinks DEF Save, Store, SubscriptionsInv
<1>5. op' = [op EXCEPT ![n] = new] /\ UNCHANGED <<made, reg, sub, lis, leaked, crashed>>
  BY DEF Save
<1> HIDE DEF c, new
<1>6. QED BY <1>2, <1>3, <1>4, <1>5, Before, PlainStep

\* CancelSubscription finds the subscription it will cancel: it is the one registered.
LEMMA CancelPreserves ==
    ASSUME SubscriptionsInv, NEW n \in Ops, Cancel(n)
    PROVE  SubscriptionsInv'
<1> DEFINE k == op[n].key
<1>1. k \in Keys /\ reg[k] \in Subs \cup {0} /\ UNCHANGED <<row, made, reg, sub, lis>>
  BY Before DEF Cancel, Keyed, SubscriptionsInv, LinkTypes
<1>2. CASE reg[k] = 0
  BY <1>2, PanicPreserves, <1>1 DEF Cancel
<1>3. CASE reg[k] # 0
  <2> DEFINE c == IF k \in LinkedTo(op[n].copy) THEN AfterCancel(n) ELSE "delete"
  <2> DEFINE new == [op[n] EXCEPT !.got = reg[k], !.pc = c]
  <2>1. c \in {"loop", "save", "delete"} /\ c \in Labels
    BY DEF AfterCancel, Labels
  <2>2. new \in Operation /\ new.pc = c /\ new.got = reg[k] /\ new.key = k
    <3>1. op[n] \in Operation
      BY Before
    <3> HIDE DEF c
    <3>2. QED BY <1>1, <2>1, <3>1 DEF Operation, Labels
  <2>3. Keyed(new)
    BY <1>1, <2>1, <2>2, SubscriptionsAssumption DEF Keyed, Keys, Own, None, Zero
  <2>4. reg[k] \in Subs /\ sub[reg[k]].state # "none" /\ sub[reg[k]].key = k
    BY <1>1, <1>3 DEF SubscriptionsInv, RegisteredIsLive, Registered, Begun
  <2>5. op' = [op EXCEPT ![n] = new] /\ UNCHANGED <<leaked, crashed>>
    BY <1>3 DEF Cancel
  <2> HIDE DEF c, new, k
  <2>6. QED BY <1>1, <2>1, <2>2, <2>3, <2>4, <2>5, Before, PlainStep
<1>4. QED BY <1>2, <1>3

\* Deleting the registration of whatever has succeeded the subscription that is to
\* be cancelled harms neither.
LEMMA DeletePreserves ==
    ASSUME SubscriptionsInv, NEW n \in Ops, Delete(n)
    PROVE  SubscriptionsInv'
<1> DEFINE k == op[n].key
<1>1. k \in Keys /\ reg[k] \in Subs \cup {0} /\ UNCHANGED <<row, made, sub, lis>>
  BY Before DEF Delete, Keyed, SubscriptionsInv, LinkTypes
<1>2. CASE reg[k] = 0
  BY <1>1, <1>2, PanicPreserves DEF Delete
<1>3. CASE reg[k] # 0
  <2> DEFINE new == [op[n] EXCEPT !.pc = "stop"]
  <2>1. new \in Operation /\ new.pc = "stop" /\ new.key = k /\ new.got = op[n].got
    BY Before, OperationUpdates DEF Labels
  <2>2. Keyed(new)
    BY <1>1, <2>1, SubscriptionsAssumption DEF Keyed, Keys, Own, None, Zero
  <2>3. /\ op' = [op EXCEPT ![n] = new] /\ reg' = [reg EXCEPT ![k] = 0]
        /\ UNCHANGED <<leaked, crashed>>
    BY <1>3 DEF Delete
  <2>4. /\ op' \in [Ops -> Operation]
        /\ \A m \in Ops : op'[m] = IF m = n THEN new ELSE op[m]
    BY <2>1, <2>3, Before
  <2>5. /\ reg' \in [Keys -> Subs \cup {0}]
        /\ \A j \in Keys : reg'[j] = IF j = k THEN 0 ELSE reg[j]
    BY <1>1, <2>3 DEF SubscriptionsInv, LinkTypes
  <2> HIDE DEF new
  <2>6. LinkTypes'
    <3>1. \A m \in Ops : Keyed(op'[m])
      BY <2>2, <2>4 DEF SubscriptionsInv, LinkTypes
    <3>2. /\ row' \in Links /\ made' \in BOOLEAN /\ sub' \in [Subs -> Subscription]
          /\ lis' \in [0..MaxOps -> Listener]
      BY <1>1 DEF SubscriptionsInv, LinkTypes
    <3>3. crashed' \in BOOLEAN /\ leaked' \in {"no", "read", "write"}
      BY <2>3, Before
    <3>4. QED BY <2>4, <2>5, <3>1, <3>2, <3>3 DEF LinkTypes
  <2>7. RegisteredIsLive'
    BY <1>1, <2>5 DEF SubscriptionsInv, RegisteredIsLive, Registered
  <2>8. CancelsItsOwn'
    <3> SUFFICES ASSUME NEW m \in Ops, op'[m].pc \in {"delete", "stop"}
                 PROVE  /\ op'[m].got \in Subs
                        /\ sub'[op'[m].got].state # "none"
                        /\ sub'[op'[m].got].key = op'[m].key
                        /\ op'[m].pc = "stop" => reg'[op'[m].key] # op'[m].got
      BY DEF CancelsItsOwn
    <3>1. op[m].pc \in {"delete", "stop"} /\ op'[m].got = op[m].got /\ op'[m].key = op[m].key
      BY <2>1, <2>4 DEF Delete
    <3>2. op[m].got \in Subs /\ op[m].got # 0 /\ op[m].key \in Keys
      BY <3>1 DEF SubscriptionsInv, CancelsItsOwn, LinkTypes, Keyed, Subs, Operation
    <3>3. CASE m = n
      BY <1>1, <2>5, <3>1, <3>2, <3>3 DEF SubscriptionsInv, CancelsItsOwn
    <3>4. CASE m # n
      BY <1>1, <2>4, <2>5, <3>1, <3>2, <3>4 DEF SubscriptionsInv, CancelsItsOwn
    <3>5. QED BY <3>3, <3>4
  <2>9. CopyWants' /\ ListensForWanted'
    BY <1>1 DEF SubscriptionsInv, CopyWants, ListensForWanted, Wants
  <2>10. QED BY <2>6, <2>7, <2>8, <2>9 DEF SubscriptionsInv
<1>4. QED BY <1>2, <1>3

\* What is cancelled is registered no more: its registration, under the key of the
\* operation, was deleted before.
LEMMA StopPreserves ==
    ASSUME SubscriptionsInv, NEW n \in Ops, Stop(n)
    PROVE  SubscriptionsInv'
<1> DEFINE g == op[n].got
<1> DEFINE c == AfterCancel(n)
<1> DEFINE new == [op[n] EXCEPT !.pc = c]
<1>1. /\ g \in Subs /\ sub[g].state # "none" /\ sub[g].key = op[n].key
      /\ reg[op[n].key] # g
  BY DEF SubscriptionsInv, CancelsItsOwn, Stop
<1>2. c \in {"loop", "save"} /\ c \in Labels
  BY DEF AfterCancel, Labels
<1>3. new \in Operation /\ new.pc = c
  BY <1>2, Before, OperationUpdates
<1>4. op' = [op EXCEPT ![n] = new] /\ UNCHANGED <<row, made, reg, lis, leaked, crashed>>
  BY DEF Stop
<1>5. op' \in [Ops -> Operation] /\ \A m \in Ops : op'[m] = IF m = n THEN new ELSE op[m]
  BY <1>3, <1>4, Before
<1> DEFINE s == IF sub[g].state = "gone" THEN "gone" ELSE "cancelled"
<1>6. sub' = [sub EXCEPT ![g] = [sub[g] EXCEPT !.state = s]]
  BY DEF Stop
<1>7. sub \in [Subs -> Subscription]
  BY DEF SubscriptionsInv, LinkTypes
<1>8. /\ sub' \in [Subs -> Subscription]
      /\ \A h \in Subs : /\ sub'[h].key = sub[h].key /\ sub'[h].copy = sub[h].copy
                         /\ sub'[h].state = IF h = g THEN s ELSE sub[h].state
  BY <1>1, <1>6, <1>7 DEF Subscription
<1> HIDE DEF c, new
<1>9. LinkTypes'
  <2>1. \A m \in Ops : Keyed(op'[m])
    BY <1>2, <1>3, <1>5 DEF SubscriptionsInv, LinkTypes, Keyed
  <2>2. /\ row' \in Links /\ made' \in BOOLEAN /\ reg' \in [Keys -> Subs \cup {0}]
        /\ lis' \in [0..MaxOps -> Listener]
    BY <1>4 DEF SubscriptionsInv, LinkTypes
  <2>3. crashed' \in BOOLEAN /\ leaked' \in {"no", "read", "write"}
    BY <1>4, Before
  <2>4. QED BY <1>5, <1>8, <2>1, <2>2, <2>3 DEF LinkTypes
<1>10. RegisteredIsLive'
  <2> SUFFICES ASSUME NEW k \in Keys, reg[k] # 0
               PROVE  sub'[reg[k]].state = Begun(k) /\ sub'[reg[k]].key = k
    BY <1>4 DEF RegisteredIsLive, Registered
  <2>1. sub[reg[k]].state = Begun(k) /\ sub[reg[k]].key = k /\ reg[k] \in Subs
    BY DEF SubscriptionsInv, RegisteredIsLive, Registered, LinkTypes
  <2>2. reg[k] # g
    BY <1>1, <2>1
  <2>3. QED BY <1>8, <2>1, <2>2
<1>11. CopyWants'
  BY <1>1, <1>8 DEF SubscriptionsInv, CopyWants, Wants
<1>12. CancelsItsOwn'
  <2> SUFFICES ASSUME NEW m \in Ops, op'[m].pc \in {"delete", "stop"}
               PROVE  /\ op'[m].got \in Subs
                      /\ sub'[op'[m].got].state # "none"
                      /\ sub'[op'[m].got].key = op'[m].key
                      /\ op'[m].pc = "stop" => reg'[op'[m].key] # op'[m].got
    BY DEF CancelsItsOwn
  <2>1. m # n /\ op'[m] = op[m]
    BY <1>2, <1>3, <1>5
  <2>2. QED BY <1>4, <1>8, <2>1 DEF SubscriptionsInv, CancelsItsOwn
<1>13. ListensForWanted'
  BY <1>4 DEF SubscriptionsInv, ListensForWanted, Wants
<1>14. QED BY <1>9, <1>10, <1>11, <1>12, <1>13 DEF SubscriptionsInv

\* CancelAllSubscriptions ranges over the map,
LEMMA RangePreserves ==
    ASSUME SubscriptionsInv, NEW n \in Ops, Range(n)
    PROVE  SubscriptionsInv'
<1> DEFINE new == [op[n] EXCEPT !.pc = "loop", !.todo = Registered]
<1>1. Registered \in SUBSET Keys
  BY DEF Registered
<1>2. new \in Operation /\ new.pc = "loop"
  BY <1>1, Before, OperationRanges
<1>3. Keyed(new)
  BY <1>2 DEF Keyed
<1>4. op' = [op EXCEPT ![n] = new] /\ UNCHANGED <<row, made, reg, sub, lis, leaked, crashed>>
  BY DEF Range
<1> HIDE DEF new
<1>5. QED BY <1>2, <1>3, <1>4, Before, PlainStep

\* and cancels one key after the other.
LEMMA LoopPreserves ==
    ASSUME SubscriptionsInv, NEW n \in Ops, Loop(n)
    PROVE  SubscriptionsInv'
<1>1. UNCHANGED <<row, made, reg, sub, leaked, crashed>>
  BY DEF Loop
<1>2. ASSUME NEW k \in Registered, lis' = lis,
             op' = [op EXCEPT ![n].pc = "cancel", ![n].key = k, ![n].todo = @ \ {k}]
      PROVE  SubscriptionsInv'
  <2> DEFINE T == op[n].todo \ {k}
  <2> DEFINE new == [op[n] EXCEPT !.pc = "cancel", !.key = k, !.todo = T]
  <2>1. k \in Keys /\ T \in SUBSET Keys
    BY Before, OperationFields DEF Registered
  <2>2. op' = [op EXCEPT ![n] = new]
    BY <1>2, Before
  <2> HIDE DEF T
  <2>3. new \in Operation /\ new.pc = "cancel" /\ new.key = k
    <3>1. op[n] \in Operation
      BY Before
    <3>2. QED BY <2>1, <3>1 DEF Operation
  <2>4. Keyed(new)
    BY <2>1, <2>3, SubscriptionsAssumption DEF Keyed, Keys, Own, None, Zero
  <2> HIDE DEF new
  <2>5. QED BY <1>1, <1>2, <2>2, <2>3, <2>4, Before, PlainStep
<1>3. ASSUME op' = [op EXCEPT ![n].pc = "done"], lis' = [lis EXCEPT ![n] = Listen(op[n].copy)]
      PROVE  SubscriptionsInv'
  <2> DEFINE new == [op[n] EXCEPT !.pc = "done"]
  <2>1. new \in Operation /\ new.pc = "done" /\ Keyed(new)
    BY Before, OperationUpdates DEF Labels, Keyed
  <2> DEFINE l == Listen(op[n].copy)
  <2>2. /\ l \in Listener /\ l.pc # "register"
        /\ \A k \in l.todo : Wants(l.copy, k)
    BY Before, ListenerChecks DEF Wants
  <2>3. lis' \in [0..MaxOps -> Listener] /\ ListensForWanted'
    BY <1>3, <2>2, Before, ListenersKept
  <2>4. op' = [op EXCEPT ![n] = new]
    BY <1>3
  <2> HIDE DEF new
  <2>5. QED BY <1>1, <2>1, <2>3, <2>4, Before, PlainStep
<1>4. QED BY <1>2, <1>3 DEF Loop

\* A talkgroup is deleted: the maps are left alone.
LEMMA ForgetPreserves ==
    ASSUME SubscriptionsInv, NEW n \in Ops, Forget(n)
    PROVE  SubscriptionsInv'
<1> DEFINE k == op[n].key
           new == [op[n] EXCEPT !.pc = "done"]
<1>1. new \in Operation /\ new.pc = "done" /\ Keyed(new)
  BY Before, OperationUpdates DEF Labels, Keyed
<1>2. op' = [op EXCEPT ![n] = new] /\ UNCHANGED <<made, reg, sub, lis, leaked, crashed>>
  BY DEF Forget
<1>3. row' \in Links
  <2>1. CASE row' = row
    BY <2>1, Before
  <2>2. ASSUME NEW dyn \in [Slots -> Talkgroups \cup {None, Zero}],
               row' = [dyn |-> dyn, static |-> [s \in Slots |-> row.static[s] \ {k}]]
        PROVE  row' \in Links
    BY <2>2, Before DEF Links
  <2>3. /\ op[n].copy.dyn \in [Slots -> Talkgroups \cup {None, Zero}]
        /\ row.dyn \in [Slots -> Talkgroups \cup {None, Zero}]
    BY Before DEF Links
  <2> DEFINE kept == [s \in Slots |-> IF op[n].copy.dyn[s] = k THEN None ELSE op[n].copy.dyn[s]]
  <2>4. kept \in [Slots -> Talkgroups \cup {None, Zero}]
    BY <2>3
  <2>5. \/ row' = row
        \/ row' = [dyn |-> kept, static |-> [s \in Slots |-> row.static[s] \ {k}]]
        \/ row' = [dyn |-> row.dyn, static |-> [s \in Slots |-> row.static[s] \ {k}]]
    BY DEF Forget
  <2> HIDE DEF kept, k
  <2>6. QED BY <2>1, <2>2, <2>3, <2>4, <2>5
<1> HIDE DEF new
<1>4. QED BY <1>1, <1>2, <1>3, Before, PlainStep

\* Any step of an operation.
LEMMA StepPreserves ==
    ASSUME SubscriptionsInv, NEW n \in Ops, Step(n)
    PROVE  SubscriptionsInv'
BY TouchPreserves, SwitchPreserves, UnlinkCallPreserves, ReplaceStaticPreserves,
   ReplaceDynamicPreserves, SavePreserves, CancelPreserves, DeletePreserves, StopPreserves,
   RangePreserves, LoopPreserves, ForgetPreserves DEF Step

----------------------------------------------------------------------------
(* The goroutines that listen. *)

\* A step of a goroutine that only moves on.
LEMMA ListenStep ==
    ASSUME SubscriptionsInv, NEW n \in 0..MaxOps, NEW l \in Listener,
           lis' = [lis EXCEPT ![n] = l],
           l.pc = "register" => Wants(l.copy, l.key),
           \A k \in l.todo : Wants(l.copy, k),
           UNCHANGED <<row, made, reg, sub, op, leaked>>, crashed' \in BOOLEAN
    PROVE  SubscriptionsInv'
<1>1. lis' \in [0..MaxOps -> Listener] /\ ListensForWanted'
  BY ListenersKept
<1>2. LinkTypes'
  BY <1>1 DEF SubscriptionsInv, LinkTypes
<1>3. RegisteredIsLive' /\ CopyWants' /\ CancelsItsOwn'
  BY DEF SubscriptionsInv, RegisteredIsLive, Registered, CopyWants, CancelsItsOwn, Wants
<1>4. QED BY <1>1, <1>2, <1>3 DEF SubscriptionsInv

\* What a goroutine has before its step.
LEMMA BeforeListening ==
    ASSUME SubscriptionsInv, NEW n \in 0..MaxOps
    PROVE  /\ lis[n] \in Listener /\ lis[n].copy \in Links /\ lis[n].key \in Keys
           /\ lis[n].todo \in SUBSET Keys /\ crashed \in BOOLEAN
           /\ lis[n].pc = "register" => Wants(lis[n].copy, lis[n].key)
           /\ \A k \in lis[n].todo : Wants(lis[n].copy, k)
<1>1. lis[n] \in Listener /\ crashed \in BOOLEAN
  BY DEF SubscriptionsInv, LinkTypes
<1>2. /\ lis[n].pc = "register" => Wants(lis[n].copy, lis[n].key)
      /\ \A k \in lis[n].todo : Wants(lis[n].copy, k)
  BY DEF SubscriptionsInv, ListensForWanted
<1>3. QED BY <1>1, <1>2 DEF Listener

\* Moving on keeps a goroutine's copy, key and what is left to do.
LEMMA ListenerMoves ==
    ASSUME NEW l \in Listener, NEW c \in {"make", "look", "done"}
    PROVE  /\ [l EXCEPT !.pc = c] \in Listener /\ [l EXCEPT !.pc = c].pc = c
           /\ [l EXCEPT !.pc = c].copy = l.copy /\ [l EXCEPT !.pc = c].todo = l.todo
BY DEF Listener

\* ListenForCalls looks for the entry of its repeater.
LEMMA CheckPreserves ==
    ASSUME SubscriptionsInv, NEW n \in 0..MaxOps, Check(n)
    PROVE  SubscriptionsInv'
<1> DEFINE c == IF made THEN "look" ELSE "make"
<1> DEFINE l == [lis[n] EXCEPT !.pc = c]
<1>1. c \in {"make", "look", "done"} /\ c # "register"
  OBVIOUS
<1>2. lis' = [lis EXCEPT ![n] = l] /\ UNCHANGED <<row, made, reg, sub, op, leaked, crashed>>
  BY DEF Check
<1> HIDE DEF c
<1>3. l \in Listener /\ l.pc # "register" /\ l.copy = lis[n].copy /\ l.todo = lis[n].todo
  <2>1. lis[n] \in Listener
    BY BeforeListening
  <2>2. QED BY <1>1, <2>1, ListenerMoves
<1> HIDE DEF l
<1>4. \A k \in l.todo : Wants(l.copy, k)
  BY <1>3, BeforeListening
<1>5. QED BY <1>2, <1>3, <1>4, BeforeListening, ListenStep

\* A listener takes up the next key.
LEMMA LookPreserves ==
    ASSUME SubscriptionsInv, NEW n \in 0..MaxOps, Look(n)
    PROVE  SubscriptionsInv'
<1>1. UNCHANGED <<row, made, reg, sub, op, leaked, crashed>>
  BY DEF Look
<1>2. CASE lis[n].todo = {}
  <2> DEFINE l == [lis[n] EXCEPT !.pc = "done"]
  <2>1. l \in Listener /\ l.pc # "register" /\ l.copy = lis[n].copy /\ l.todo = {}
    BY <1>2, BeforeListening, ListenerMoves
  <2>2. lis' = [lis EXCEPT ![n] = l]
    BY <1>2 DEF Look
  <2> HIDE DEF l
  <2>3. QED BY <1>1, <2>1, <2>2, BeforeListening, ListenStep
<1>3. CASE lis[n].todo # {}
  <2>1. PICK k \in lis[n].todo :
            lis' = [lis EXCEPT ![n].todo = @ \ {k}, ![n].key = k,
                               ![n].pc = IF reg[k] = 0 THEN "register" ELSE "look"]
    BY <1>3 DEF Look
  <2> DEFINE c == IF reg[k] = 0 THEN "register" ELSE "look"
  <2> DEFINE T == lis[n].todo \ {k}
  <2> DEFINE l == [lis[n] EXCEPT !.todo = T, !.key = k, !.pc = c]
  <2>2. k \in Keys /\ T \in SUBSET Keys /\ c \in {"register", "look"} /\ lis[n] \in Listener
    BY BeforeListening
  <2>3. lis' = [lis EXCEPT ![n] = l]
    BY <2>1
  <2>4. Wants(lis[n].copy, k) /\ \A j \in T : Wants(lis[n].copy, j)
    BY BeforeListening
  <2>5. l \in Listener /\ l.copy = lis[n].copy /\ l.key = k /\ l.todo = T
    <3> HIDE DEF c, T
    <3>1. QED BY <2>2 DEF Listener
  <2> HIDE DEF l, c, T
  <2>6. QED BY <1>1, <2>3, <2>4, <2>5, BeforeListening, ListenStep
<1>4. QED BY <1>2, <1>3

\* ListenForCalls makes the maps anew: nothing is registered then.
LEMMA MakePreserves ==
    ASSUME SubscriptionsInv, NEW n \in 0..MaxOps, Make(n)
    PROVE  SubscriptionsInv'
<1> DEFINE l == [lis[n] EXCEPT !.pc = "look"]
<1>1. l \in Listener /\ l.pc # "register" /\ l.copy = lis[n].copy /\ l.todo = lis[n].todo
  BY BeforeListening, ListenerMoves
<1>2. lis' = [lis EXCEPT ![n] = l] /\ UNCHANGED <<row, sub, op, leaked, crashed>>
  BY DEF Make
<1> HIDE DEF l
<1>3. \A k \in l.todo : Wants(l.copy, k)
  BY <1>1, BeforeListening
<1>4. lis' \in [0..MaxOps -> Listener] /\ ListensForWanted'
  BY <1>1, <1>2, <1>3, ListenersKept
<1>5. reg' = [k \in Keys |-> 0] /\ made' = TRUE
  BY DEF Make
<1>6. LinkTypes'
  <2>1. reg' \in [Keys -> Subs \cup {0}]
    BY <1>5
  <2>2. QED BY <1>2, <1>4, <1>5, <2>1 DEF SubscriptionsInv, LinkTypes
<1>7. RegisteredIsLive'
  BY <1>5 DEF RegisteredIsLive, Registered
<1>8. CopyWants'
  BY <1>2 DEF SubscriptionsInv, CopyWants, Wants
<1>9. CancelsItsOwn'
  <2> SUFFICES ASSUME NEW m \in Ops, op[m].pc \in {"delete", "stop"}
               PROVE  /\ op[m].got \in Subs
                      /\ sub[op[m].got].state # "none" /\ sub[op[m].got].key = op[m].key
                      /\ op[m].pc = "stop" => reg'[op[m].key] # op[m].got
    BY <1>2 DEF CancelsItsOwn
  <2>1. op[m].got \in Subs /\ op[m].got # 0 /\ op[m].key \in Keys
    BY DEF SubscriptionsInv, CancelsItsOwn, LinkTypes, Keyed, Subs, Operation
  <2>2. QED BY <1>5, <2>1 DEF SubscriptionsInv, CancelsItsOwn
<1>10. QED BY <1>4, <1>6, <1>7, <1>8, <1>9 DEF SubscriptionsInv

\* The new goroutine was nobody's, so that no operation is about to cancel it, and it
\* takes the place of whatever was registered for its key.
LEMMA RegisterPreserves ==
    ASSUME SubscriptionsInv, NEW n \in 0..MaxOps, Register(n)
    PROVE  SubscriptionsInv'
<1>1. lis[n].pc = "register" /\ UNCHANGED <<row, made, op, leaked>>
  BY DEF Register
<1>2. CASE ~made /\ crashed' = TRUE /\ UNCHANGED <<reg, sub, lis>>
  <2>1. LinkTypes'
    BY <1>1, <1>2 DEF SubscriptionsInv, LinkTypes
  <2>2. RegisteredIsLive' /\ CopyWants' /\ CancelsItsOwn' /\ ListensForWanted'
    BY <1>1, <1>2 DEF SubscriptionsInv, RegisteredIsLive, Registered, CopyWants,
                      CancelsItsOwn, ListensForWanted, Wants
  <2>3. QED BY <2>1, <2>2 DEF SubscriptionsInv
<1>3. CASE ~(~made /\ crashed' = TRUE /\ UNCHANGED <<reg, sub, lis>>)
  <2> DEFINE k == lis[n].key
  <2> DEFINE c == lis[n].copy
  <2> DEFINE l == [lis[n] EXCEPT !.pc = "look"]
  <2>1. PICK g \in Subs :
          /\ sub[g].state = "none"
          /\ sub' = [sub EXCEPT ![g] = [state |-> Begun(k), key |-> k, copy |-> c]]
          /\ reg' = [reg EXCEPT ![k] = g]
    BY <1>1, <1>3 DEF Register, Started
  <2>2. lis' = [lis EXCEPT ![n] = l] /\ UNCHANGED crashed
    BY <1>1, <1>3 DEF Register
  <2>3. k \in Keys /\ c \in Links /\ Wants(c, k)
    BY <1>1, BeforeListening
  <2>4. l \in Listener /\ l.pc # "register" /\ l.copy = lis[n].copy /\ l.todo = lis[n].todo
    BY BeforeListening, ListenerMoves
  <2> HIDE DEF l
  <2>5. \A j \in l.todo : Wants(l.copy, j)
    BY <2>4, BeforeListening
  <2>6. lis' \in [0..MaxOps -> Listener] /\ ListensForWanted'
    BY <2>2, <2>4, <2>5, ListenersKept
  <2>7. /\ sub' \in [Subs -> Subscription]
        /\ \A h \in Subs : h # g => sub'[h] = sub[h]
        /\ sub'[g].state = Begun(k) /\ sub'[g].key = k /\ sub'[g].copy = c
    <3> DEFINE new == [state |-> Begun(k), key |-> k, copy |-> c]
    <3>1. new \in Subscription /\ new.state = Begun(k) /\ new.key = k /\ new.copy = c
      BY <2>3 DEF Subscription, Begun
    <3>2. sub \in [Subs -> Subscription]
      BY DEF SubscriptionsInv, LinkTypes
    <3>3. sub' = [sub EXCEPT ![g] = new]
      BY <2>1
    <3> HIDE DEF new, k, c
    <3>4. QED BY <3>1, <3>2, <3>3
  <2>8. /\ reg' \in [Keys -> Subs \cup {0}]
        /\ \A j \in Keys : reg'[j] = IF j = k THEN g ELSE reg[j]
    BY <2>1, <2>3 DEF SubscriptionsInv, LinkTypes
  <2> HIDE DEF k, c
  <2>9. LinkTypes'
    BY <1>1, <2>2, <2>6, <2>7, <2>8 DEF SubscriptionsInv, LinkTypes
  <2>10. RegisteredIsLive'
    <3> SUFFICES ASSUME NEW j \in Keys, reg'[j] # 0
                 PROVE  sub'[reg'[j]].state = Begun(j) /\ sub'[reg'[j]].key = j
      BY DEF RegisteredIsLive, Registered
    <3>1. CASE j = k
      BY <2>7, <2>8, <3>1
    <3>2. CASE j # k
      <4>1. reg'[j] = reg[j] /\ reg[j] \in Subs
        BY <2>8, <3>2 DEF SubscriptionsInv, LinkTypes
      <4>2. sub[reg[j]].state = Begun(j) /\ sub[reg[j]].key = j
        BY <4>1 DEF SubscriptionsInv, RegisteredIsLive, Registered
      <4>3. QED BY <2>1, <2>7, <4>1, <4>2 DEF Begun
    <3>3. QED BY <3>1, <3>2
  <2>11. CopyWants'
    BY <2>3, <2>7 DEF SubscriptionsInv, CopyWants, Wants
  <2>12. CancelsItsOwn'
    <3> SUFFICES ASSUME NEW m \in Ops, op[m].pc \in {"delete", "stop"}
                 PROVE  /\ op[m].got \in Subs
                        /\ sub'[op[m].got].state # "none"
                        /\ sub'[op[m].got].key = op[m].key
                        /\ op[m].pc = "stop" => reg'[op[m].key] # op[m].got
      BY <1>1 DEF CancelsItsOwn
    <3>1. /\ op[m].got \in Subs
          /\ sub[op[m].got].state # "none" /\ sub[op[m].got].key = op[m].key
          /\ op[m].pc = "stop" => reg[op[m].key] # op[m].got
      BY DEF SubscriptionsInv, CancelsItsOwn
    <3>2. op[m].got # g /\ op[m].key \in Keys
      BY <2>1, <3>1 DEF SubscriptionsInv, LinkTypes, Keyed, Operation
    <3>3. QED BY <2>7, <2>8, <3>1, <3>2
  <2>13. QED BY <2>6, <2>9, <2>10, <2>11, <2>12 DEF SubscriptionsInv
<1>4. QED BY <1>2, <1>3

\* A cancelled goroutine may delete the registration of its successor, which then
\* goes on unregistered; it leaves none behind that nobody listens for.
LEMMA CleanupPreserves ==
    ASSUME SubscriptionsInv, NEW g \in Subs, Cleanup(g)
    PROVE  SubscriptionsInv'
<1> DEFINE k == sub[g].key
<1>1. /\ sub[g].state = "cancelled" /\ reg' = [reg EXCEPT ![k] = 0]
      /\ sub' = [sub EXCEPT ![g] = [sub[g] EXCEPT !.state = "gone"]]
      /\ UNCHANGED <<row, made, op, lis, leaked, crashed>>
  BY DEF Cleanup
<1>2. sub \in [Subs -> Subscription] /\ reg \in [Keys -> Subs \cup {0}]
  BY DEF SubscriptionsInv, LinkTypes
<1>3. /\ sub' \in [Subs -> Subscription]
      /\ \A h \in Subs : /\ sub'[h].key = sub[h].key /\ sub'[h].copy = sub[h].copy
                         /\ sub'[h].state = IF h = g THEN "gone" ELSE sub[h].state
  BY <1>1, <1>2 DEF Subscription
<1>4. k \in Keys
  BY <1>2 DEF Subscription
<1>5. /\ reg' \in [Keys -> Subs \cup {0}]
      /\ \A j \in Keys : reg'[j] = IF j = k THEN 0 ELSE reg[j]
  BY <1>1, <1>2, <1>4
<1> HIDE DEF k
<1>6. LinkTypes'
  BY <1>1, <1>3, <1>5 DEF SubscriptionsInv, LinkTypes
<1>7. RegisteredIsLive'
  <2> SUFFICES ASSUME NEW j \in Keys, reg'[j] # 0
               PROVE  sub'[reg'[j]].state = Begun(j) /\ sub'[reg'[j]].key = j
    BY DEF RegisteredIsLive, Registered
  <2>1. reg'[j] = reg[j] /\ reg[j] \in Subs
    BY <1>2, <1>5
  <2>2. sub[reg[j]].state = Begun(j) /\ sub[reg[j]].key = j
    BY <2>1 DEF SubscriptionsInv, RegisteredIsLive, Registered
  <2>3. QED BY <1>1, <1>3, <2>1, <2>2 DEF Begun
<1>8. CopyWants'
  BY <1>1, <1>3 DEF SubscriptionsInv, CopyWants, Wants
<1>9. CancelsItsOwn'
  <2> SUFFICES ASSUME NEW m \in Ops, op[m].pc \in {"delete", "stop"}
               PROVE  /\ op[m].got \in Subs
                      /\ sub'[op[m].got].state # "none"
                      /\ sub'[op[m].got].key = op[m].key
                      /\ op[m].pc = "stop" => reg'[op[m].key] # op[m].got
    BY <1>1 DEF CancelsItsOwn
  <2>1. /\ op[m].got \in Subs /\ op[m].got # 0 /\ op[m].key \in Keys
        /\ sub[op[m].got].state # "none" /\ sub[op[m].got].key = op[m].key
        /\ op[m].pc = "stop" => reg[op[m].key] # op[m].got
    BY DEF SubscriptionsInv, CancelsItsOwn, LinkTypes, Keyed, Subs, Operation
  <2>2. QED BY <1>3, <1>5, <2>1
<1>10. ListensForWanted'
  BY <1>1 DEF SubscriptionsInv, ListensForWanted, Wants
<1>11. QED BY <1>6, <1>7, <1>8, <1>9, <1>10 DEF SubscriptionsInv

----------------------------------------------------------------------------
(* The theorems. *)

\* The server has started.
LEMMA InitInvariant == Init => SubscriptionsInv
<1> SUFFICES ASSUME Init PROVE SubscriptionsInv
  OBVIOUS
<1>1. row \in Links
  BY LinksAssumption, NoLinksTyped DEF Init
<1>2. NoSub \in Subscription /\ NoSub.state = "none"
  BY NoLinksTyped DEF NoSub, Subscription, Keys
<1>3. NoOp \in Operation /\ NoOp.pc = "idle"
  BY NoLinksTyped DEF NoOp, Operation, Slots, Keys
<1>4. NoLis \in Listener /\ NoLis.pc = "idle" /\ NoLis.todo = {}
  BY NoLinksTyped DEF NoLis, Listener, Keys
<1>5. /\ lis \in [0..MaxOps -> Listener]
      /\ \A n \in 0..MaxOps : lis[n].pc # "register" /\ \A k \in lis[n].todo : Wants(lis[n].copy, k)
  BY <1>1, <1>4, ListenerChecks DEF Init, Wants
<1>6. LinkTypes
  <2>1. \A n \in Ops : Keyed(op[n])
    BY <1>3 DEF Init, Keyed
  <2>2. reg \in [Keys -> Subs \cup {0}] /\ sub \in [Subs -> Subscription] /\ op \in [Ops -> Operation]
    BY <1>2, <1>3 DEF Init
  <2>3. made \in BOOLEAN /\ crashed \in BOOLEAN /\ leaked \in {"no", "read", "write"}
    BY DEF Init
  <2>4. QED BY <1>1, <1>5, <2>1, <2>2, <2>3 DEF LinkTypes
<1>7. RegisteredIsLive /\ CopyWants /\ CancelsItsOwn
  BY <1>2, <1>3 DEF Init, RegisteredIsLive, Registered, CopyWants, CancelsItsOwn
<1>8. ListensForWanted
  BY <1>5 DEF ListensForWanted
<1>9. QED BY <1>6, <1>7, <1>8 DEF SubscriptionsInv

\* Any step.
LEMMA NextInvariant == SubscriptionsInv /\ [Next]_vars => SubscriptionsInv'
<1> SUFFICES ASSUME SubscriptionsInv, [Next]_vars PROVE SubscriptionsInv'
  OBVIOUS
<1>1. CASE UNCHANGED vars
  <2>1. LinkTypes'
    BY <1>1 DEF SubscriptionsInv, LinkTypes, vars
  <2>2. RegisteredIsLive' /\ CopyWants' /\ CancelsItsOwn' /\ ListensForWanted'
    BY <1>1 DEF SubscriptionsInv, RegisteredIsLive, Registered, CopyWants, CancelsItsOwn,
                ListensForWanted, Wants, vars
  <2>3. QED BY <2>1, <2>2 DEF SubscriptionsInv
<1>2. ASSUME NEW n \in Ops, Request(n) \/ Step(n) PROVE SubscriptionsInv'
  BY <1>2, RequestPreserves, StepPreserves
<1>3. DOMAIN lis = 0..MaxOps
  BY DEF SubscriptionsInv, LinkTypes
<1>4. ASSUME NEW n \in 0..MaxOps, Subscribe(n) PROVE SubscriptionsInv'
  BY <1>4, CheckPreserves, MakePreserves, LookPreserves, RegisterPreserves DEF Subscribe
<1>5. ASSUME NEW g \in Subs, Cleanup(g) PROVE SubscriptionsInv'
  BY <1>5, CleanupPreserves
<1>6. QED BY <1>1, <1>2, <1>3, <1>4, <1>5 DEF Next, Continue

\* The invariant, for every number of operations that overlap in any way.
THEOREM SubscriptionsInvariant == Spec => []SubscriptionsInv
<1>1. QED BY InitInvariant, NextInvariant, PTL DEF Spec

\* What is in the database keeps its type.
LEMMA DataStep == LinkTypes /\ DataTypes /\ [Next]_vars => DataTypes'
<1> SUFFICES ASSUME LinkTypes, DataTypes, [Next]_vars PROVE DataTypes'
  OBVIOUS
<1>1. CASE UNCHANGED vars
  BY <1>1 DEF vars, dataVars, DataTypes
<1>2. ASSUME NEW n \in Ops, Request(n) PROVE stored' \in BOOLEAN /\ used' \subseteq Talkgroups
  BY <1>2 DEF Request, Link, LinkStatic, Unlink, UnlinkStatic, Replace, Packet, DeleteRepeater,
              Create, DeleteTalkgroup, dataVars, DataTypes
<1>3. ASSUME NEW n \in Ops, Step(n) PROVE stored' \in BOOLEAN /\ used' \subseteq Talkgroups
  BY <1>3 DEF Step, Touch, Switch, UnlinkCall, ReplaceStatic, ReplaceDynamic, Save, Forget, Cancel,
              Delete, Stop, Range, Loop, Store, dataVars, DataTypes
<1>4. ASSUME NEW n \in 0..MaxOps, Subscribe(n) PROVE UNCHANGED dataVars
  BY <1>4 DEF Subscribe, Check, Make, Look, Register, dataVars
<1>5. ASSUME NEW g \in Subs, Cleanup(g) PROVE UNCHANGED dataVars
  BY <1>5 DEF Cleanup, dataVars
<1>6. DOMAIN lis = 0..MaxOps
  BY DEF LinkTypes
<1>7. Overlap => overlaps' \in 0..MaxOverlaps
  BY SubscriptionsAssumption DEF Overlap, DataTypes
<1>8. QED BY <1>1, <1>2, <1>3, <1>4, <1>5, <1>6, <1>7 DEF Next, Continue, dataVars, DataTypes

\* The row, the maps, the goroutines' locals and the database keep their types.
THEOREM SubscriptionTypes == Spec => []TypeOK
<1>1. SubscriptionsInv => LinkTypes
  BY DEF SubscriptionsInv
<1>2. Init => DataTypes
  BY SubscriptionsAssumption DEF Init, DataTypes
<1>3. LinkTypes /\ DataTypes /\ [Next]_vars => DataTypes'
  BY DataStep
<1>4. LinkTypes /\ DataTypes <=> TypeOK
  BY DEF TypeOK
<1>5. QED BY <1>1, <1>2, <1>3, <1>4, SubscriptionsInvariant, PTL DEF Spec

\* What the maps register is listened to: no operation, in whatever order it cancels
\* and others subscribe, leaves the registration of a dead goroutine behind.
THEOREM RegistrationsAreLive == Spec => []RegisteredIsLive
<1>1. SubscriptionsInv => RegisteredIsLive
  BY DEF SubscriptionsInv
<1>2. QED BY <1>1, SubscriptionsInvariant, PTL

\* No subscription ever notices by its own copy that its talkgroup is unlinked.
THEOREM CopiesWant == Spec => []CopyWants
<1>1. SubscriptionsInv => CopyWants
  BY DEF SubscriptionsInv
<1>2. QED BY <1>1, SubscriptionsInvariant, PTL
----------------------------------------------------------------------------
(* Operations one at a time.                                               *)

\* At these labels the links to come are those of the operation's copy.
Late == {"static", "dynamic", "cancel", "delete", "stop", "save", "range", "loop"}

Active(o)    == o.pc \notin {"idle", "done"}
Listening(l) == l.pc \notin {"idle", "done"}
Pends(l, k)  == Listening(l) /\ (k \in l.todo \/ (l.pc = "register" /\ l.key = k))

\* Somebody is about to listen for k, or has; the second is not enough for the own
\* ID, whose registration goes with that of a goroutine cancelled before.
Pending(k) == \E m \in 0..MaxOps : Pends(lis[m], k)
Heard(k)   == reg[k] # 0 \/ Pending(k)
OwnHeard   == Pending(Own) \/ \E g \in Subs : sub[g].state = "running" /\ sub[g].key = Own

Cancelled(k) == \E g \in Subs : sub[g].state = "cancelled" /\ sub[g].key = k

\* One operation works, and listens before it has saved, or has its row listened for.
OneAtWork ==
    /\ \A m, n \in Ops : Active(op[m]) /\ Active(op[n]) => m = n
    /\ \A m, n \in 0..MaxOps : Listening(lis[m]) /\ Listening(lis[n]) => m = n
    /\ \A n \in Ops, m \in 0..MaxOps : Active(op[n]) /\ Listening(lis[m]) =>
          m = n /\ op[n].pc = "save" /\ ~op[n].all

\* Nothing has panicked; a stored repeater has its maps, or will have before it is
\* looked for in them; a row that is not stored links nothing.
MapsOK ==
    /\ ~crashed /\ leaked = "no"
    /\ \A m \in 0..MaxOps : /\ lis[m].pc \in {"look", "register"} => made
                            /\ lis[m].pc = "make" => ~made
    /\ ~made => \A k \in Keys : reg[k] = 0
    /\ stored => made \/ \E m \in 0..MaxOps : lis[m].pc \in {"check", "make"}
    /\ ~stored => row = NoLinks
    /\ \A s \in Slots : row.dyn[s] # Zero

\* What has been replaced of the row r.
WriteOK(o, r) ==
    /\ o.all
    /\ o.pc = "static" => (o.slot = 1 \/ r.static[1] = o.copy.static[1])
    /\ o.pc = "dynamic" => r.static = o.copy.static /\ (o.slot = 1 \/ r.dyn[1] = o.copy.dyn[1])

\* An operation that has read the row has a copy of it that is as good, ...
CopyOK(o) ==
    /\ Active(o) /\ o.pc # "forget" => stored /\ made
    /\ o.pc \in {"touch", "unlink", "forget"} => o.copy = row
    /\ o.pc \in Late => \A s \in Slots : o.copy.dyn[s] # Zero
    /\ o.pc \in Late /\ o.pc \notin {"static", "dynamic"} => o.copy.static = row.static /\ (o.all => o.copy = row)
    /\ o.pc \in {"static", "dynamic"} => WriteOK(o, row)

\* ... what it cancels is registered, once, and linked no more, and its goroutine
\* has not been cancelled before.
CancelOK(o) ==
    /\ o.pc \in {"touch", "switch", "unlink", "forget", "static", "dynamic", "range"}
          \/ (o.pc = "save" /\ o.all) =>
          \A k \in Keys : ~Cancelled(k)
    /\ o.pc \in {"cancel", "delete"} => reg[o.key] # 0 /\ ~Cancelled(o.key)
    /\ o.pc \in {"delete", "stop"} => o.key \notin LinkedTo(o.copy)
    /\ o.pc \in {"cancel", "delete", "stop"} => o.all \/ o.key # Own
    /\ o.pc \in {"cancel", "delete", "stop", "loop"} /\ o.all => \A k \in Registered : ~Cancelled(k)
    /\ o.pc = "stop" => reg[o.key] = 0
    /\ o.pc \in {"touch", "switch", "unlink", "forget"} => ~o.all
    /\ o.pc \in {"range", "loop"} => o.all

\* The links r are heard, or will be when operation o is over.
LinksHeard(r, o) ==
    \A k \in LinkedTo(r) : ~Cancelled(k) /\ (Heard(k) \/ (Active(o) /\ o.all))

Hears ==
    /\ \A n \in Ops : op[n].pc \in Late => LinksHeard(op[n].copy, op[n])
    /\ (\A n \in Ops : op[n].pc \notin Late) => LinksHeard(row, NoOp)
    /\ stored => OwnHeard \/ \E n \in Ops : Active(op[n]) /\ op[n].all

OneByOneInv ==
    /\ SubscriptionsInv /\ OneAtWork /\ MapsOK /\ Hears
    /\ \A n \in Ops : CopyOK(op[n]) /\ CancelOK(op[n])

\* What OneByOneInv comes to when operation n works, or nobody does.
Silent        == \A m \in 0..MaxOps : ~Listening(lis[m])
OthersRest(n) == \A m \in Ops : m # n => ~Active(op[m])

\* The links r are heard once operation o and listener l have gone on.
Reached(r, o, l) ==
    \A k \in LinkedTo(r) :
        /\ ~Cancelled(k)
        /\ reg[k] # 0 \/ Pends(l, k) \/ (Active(o) /\ o.all)

----------------------------------------------------------------------------
(* The links of a row. *)

LEMMA InLinks ==
    ASSUME NEW r, NEW k
    PROVE  k \in LinkedTo(r) <=> \E s \in Slots : \/ k = r.dyn[s] /\ k # None
                                                  \/ k \in r.static[s]
BY DEF LinkedTo

\* Changing a row makes at most the new link, and unlinking makes none.
LEMMA LinksOfChanged ==
    ASSUME NEW r \in Links, NEW s \in Slots, NEW j
    PROVE  /\ \A k : j \in LinkedTo([r EXCEPT !.dyn[s] = k]) /\ j # k => j \in LinkedTo(r)
           /\ None \notin LinkedTo(r)
           /\ j \in LinkedTo([r EXCEPT !.dyn[s] = None]) => j \in LinkedTo(r)
           /\ \A T : j \in LinkedTo([r EXCEPT !.static[s] = T]) => j \in LinkedTo(r) \/ j \in T
           /\ r.static[s] \subseteq LinkedTo(r)
           /\ r.dyn[s] # None => r.dyn[s] \in LinkedTo(r)
<1>1. None \notin LinkedTo(r)
  BY InLinks, SubscriptionsAssumption DEF Links, None
<1>2. ASSUME NEW k PROVE  /\ [r EXCEPT !.dyn[s] = k].static = r.static
                          /\ \A t \in Slots : [r EXCEPT !.dyn[s] = k].dyn[t] = IF t = s THEN k ELSE r.dyn[t]
  BY DEF Links
<1>3. ASSUME NEW k, j \in LinkedTo([r EXCEPT !.dyn[s] = k]), j # k PROVE j \in LinkedTo(r)
  <2> DEFINE q == [r EXCEPT !.dyn[s] = k]
  <2>1. q.static = r.static /\ \A t \in Slots : q.dyn[t] = IF t = s THEN k ELSE r.dyn[t]
    BY <1>2
  <2>2. j \in LinkedTo(q)
    BY <1>3
  <2> HIDE DEF q
  <2>3. QED BY <1>3, <2>1, <2>2, InLinks
<1>4. j \in LinkedTo([r EXCEPT !.dyn[s] = None]) => j \in LinkedTo(r)
  <2> DEFINE q == [r EXCEPT !.dyn[s] = None]
  <2>1. q.static = r.static /\ \A t \in Slots : q.dyn[t] = IF t = s THEN None ELSE r.dyn[t]
    BY <1>2
  <2> HIDE DEF q
  <2>2. j \in LinkedTo(q) => j \in LinkedTo(r)
    BY <2>1, InLinks
  <2>3. QED BY <2>2 DEF q
<1>5. ASSUME NEW T, j \in LinkedTo([r EXCEPT !.static[s] = T]) PROVE j \in LinkedTo(r) \/ j \in T
  <2> DEFINE q == [r EXCEPT !.static[s] = T]
  <2>1. q.dyn = r.dyn /\ \A t \in Slots : q.static[t] = IF t = s THEN T ELSE r.static[t]
    BY DEF Links
  <2>2. j \in LinkedTo(q)
    BY <1>5
  <2> HIDE DEF q
  <2>3. QED BY <2>1, <2>2, InLinks
<1>6. r.static[s] \subseteq LinkedTo(r)
  BY InLinks
<1>7. r.dyn[s] # None => r.dyn[s] \in LinkedTo(r)
  BY InLinks
<1>8. QED BY <1>1, <1>3, <1>4, <1>5, <1>6, <1>7

LEMMA NothingLinked == LinkedTo(NoLinks) = {}
BY DEF LinkedTo, NoLinks

\* Save writes the copy, if the row has the copy's static links.
LEMMA SavedIsCopy ==
    ASSUME NEW r \in Links, row \in Links, r.static = row.static
    PROVE  Saved(r) = r
<1>1. r = [dyn |-> r.dyn, static |-> r.static] /\ r.static \in [Slots -> SUBSET Talkgroups]
  BY DEF Links
<1>2. [s \in Slots |-> row.static[s] \cup r.static[s]] = r.static
  BY <1>1
<1>3. QED BY <1>1, <1>2 DEF Saved

----------------------------------------------------------------------------
(* Who is at work. *)

\* Once everything has settled.
LEMMA NobodyWorks ==
    ASSUME OneByOneInv, Settled
    PROVE  /\ Silent /\ \A n \in Ops : OthersRest(n) /\ ~Active(op[n])
           /\ \A k : ~Cancelled(k)
           /\ stored => made /\ OwnHeard
           /\ \A k \in LinkedTo(row) : reg[k] # 0
           /\ row \in Links /\ \A s \in Slots : row.dyn[s] # Zero
           /\ ~stored => row = NoLinks
<1>1. DOMAIN lis = 0..MaxOps /\ row \in Links
  BY DEF OneByOneInv, SubscriptionsInv, LinkTypes
<1>2. Silent /\ \A n \in Ops : OthersRest(n) /\ ~Active(op[n])
  BY <1>1 DEF Settled, Silent, OthersRest, Active, Listening
<1>3. \A k : ~Cancelled(k) /\ ~Pending(k)
  BY <1>2 DEF Settled, Cancelled, Pending, Pends, Silent
<1>4. stored => made
  BY <1>2 DEF OneByOneInv, MapsOK, Silent, Listening
<1>5. LinksHeard(row, NoOp) /\ ~Active(NoOp)
  BY <1>2 DEF OneByOneInv, Hears, Active, Late, NoOp
<1>6. \A k \in LinkedTo(row) : reg[k] # 0
  BY <1>3, <1>5 DEF LinksHeard, Heard
<1>7. stored => OwnHeard
  BY <1>2 DEF OneByOneInv, Hears
<1>8. QED BY <1>1, <1>2, <1>3, <1>4, <1>6, <1>7 DEF OneByOneInv, MapsOK

\* While operation n works.
LEMMA OneWorks ==
    ASSUME OneByOneInv, NEW n \in Ops, Active(op[n])
    PROVE  /\ OthersRest(n) /\ CopyOK(op[n]) /\ CancelOK(op[n])
           /\ op[n].pc # "save" \/ op[n].all => Silent /\ \A k : ~Pending(k)
           /\ op[n].pc \in Late => LinksHeard(op[n].copy, op[n])
           /\ op[n].pc \notin Late => LinksHeard(row, NoOp)
           /\ row \in Links /\ op[n] \in Operation
<1>1. OthersRest(n)
  BY DEF OneByOneInv, OneAtWork, OthersRest
<1>2. op[n].pc # "save" \/ op[n].all => Silent
  BY DEF OneByOneInv, OneAtWork, Silent
<1>3. Silent => \A k : ~Pending(k)
  BY DEF Silent, Pending, Pends
<1>4. op[n].pc \notin Late => LinksHeard(row, NoOp)
  BY <1>1 DEF OneByOneInv, Hears, OthersRest, Active, Late
<1>5. row \in Links /\ op[n] \in Operation
  BY DEF OneByOneInv, SubscriptionsInv, LinkTypes
<1>6. QED BY <1>1, <1>2, <1>3, <1>4, <1>5 DEF OneByOneInv, Hears

\* Nobody listens, and operation n goes on as o (or begins as o, or is over), which may
\* start the listener l; the maps and the subscriptions stay.
LEMMA PlainOne ==
    ASSUME OneByOneInv, SubscriptionsInv', NEW n \in Ops, Silent, OthersRest(n),
           NEW o, op' = [op EXCEPT ![n] = o], NEW l, lis' = [lis EXCEPT ![n] = l],
           UNCHANGED <<made, reg, sub, leaked, crashed>>,
           Listening(l) => /\ l.pc \in {"look", "check"}
                           /\ Active(o) => o.pc = "save" /\ ~o.all,
           l.pc = "look" => made,
           ~Listening(l) => l.pc \in {"idle", "done"},
           stored' => made \/ l.pc = "check",
           ~stored' => row' = NoLinks,
           \A s \in Slots : row'.dyn[s] # Zero,
           Active(o) /\ o.pc # "forget" => stored' /\ made,
           o.pc \in {"touch", "unlink", "forget"} => o.copy = row',
           o.pc \in Late => \A s \in Slots : o.copy.dyn[s] # Zero,
           o.pc \in Late /\ o.pc \notin {"static", "dynamic"} => o.copy.static = row'.static /\ (o.all => o.copy = row'),
           o.pc \in {"static", "dynamic"} => WriteOK(o, row'),
           CancelOK(o),
           o.pc \in Late => Reached(o.copy, o, l),
           o.pc \notin Late => Reached(row', NoOp, l),
           stored' => OwnHeard \/ Pends(l, Own) \/ (Active(o) /\ o.all)
    PROVE  OneByOneInv'
<1>1. op'[n] = o /\ \A m \in Ops : m # n => op'[m] = op[m] /\ ~Active(op'[m])
  BY DEF OneByOneInv, SubscriptionsInv, LinkTypes, OthersRest
<1>2. lis'[n] = l /\ n \in 0..MaxOps
      /\ \A m \in 0..MaxOps : m # n => lis'[m] = lis[m] /\ ~Listening(lis'[m])
  <2>1. lis \in [0..MaxOps -> Listener] /\ n \in 0..MaxOps
    BY SubscriptionsAssumption DEF OneByOneInv, SubscriptionsInv, LinkTypes, Ops
  <2>2. QED BY <2>1 DEF Silent
<1>3. \A k : Cancelled(k)' <=> Cancelled(k)
  BY DEF Cancelled
<1>4. \A k : Pends(l, k) => Pending(k)'
  BY <1>2 DEF Pending
<1>5. OneAtWork'
  BY <1>1, <1>2 DEF OneAtWork
<1>6. MapsOK'
  <2>1. \A m \in 0..MaxOps : /\ lis'[m].pc \in {"look", "register"} => made
                             /\ lis'[m].pc # "make"
    BY <1>2 DEF Listening
  <2>2. stored' => made \/ \E m \in 0..MaxOps : lis'[m].pc \in {"check", "make"}
    BY <1>2
  <2>3. ~crashed /\ leaked = "no" /\ (~made => \A k \in Keys : reg[k] = 0)
    BY DEF OneByOneInv, MapsOK
  <2>4. QED BY <2>1, <2>2, <2>3 DEF MapsOK
<1>7. \A m \in Ops : (CopyOK(op[m]) /\ CancelOK(op[m]))'
  <2>1. CopyOK(op[n])'
    BY <1>1 DEF CopyOK
  <2>2. CancelOK(op[n])'
    BY <1>1, <1>3 DEF CancelOK, Registered
  <2>3. ASSUME NEW m \in Ops, m # n PROVE (CopyOK(op[m]) /\ CancelOK(op[m]))'
    BY <1>1, <2>3 DEF CopyOK, CancelOK, Active, Late
  <2>4. QED BY <2>1, <2>2, <2>3
<1>8. Hears'
  <2>1. ASSUME NEW m \in Ops, op'[m].pc \in Late PROVE LinksHeard(op[m].copy, op[m])'
    <3>1. m = n
      BY <1>1, <2>1 DEF Active, Late
    <3>2. Reached(o.copy, o, l) /\ op'[m] = o
      BY <1>1, <2>1, <3>1
    <3>3. QED BY <1>3, <1>4, <3>2 DEF Reached, LinksHeard, Heard
  <2>2. ASSUME \A m \in Ops : op'[m].pc \notin Late PROVE LinksHeard(row, NoOp)'
    <3>1. Reached(row', NoOp, l) /\ ~Active(NoOp)
      BY <1>1, <2>2 DEF Active, NoOp
    <3>2. QED BY <1>3, <1>4, <3>1 DEF Reached, LinksHeard, Heard
  <2>3. ASSUME stored' PROVE OwnHeard' \/ \E m \in Ops : Active(op'[m]) /\ op'[m].all
    <3>1. CASE OwnHeard
      <4>1. ~Pending(Own)
        BY DEF Silent, Pending, Pends
      <4>2. QED BY <3>1, <4>1 DEF OwnHeard
    <3>2. CASE Pends(l, Own)
      BY <1>4, <3>2 DEF OwnHeard
    <3>3. QED BY <1>1, <2>3, <3>1, <3>2
  <2>4. QED BY <2>1, <2>2, <2>3 DEF Hears
<1>9. QED BY <1>5, <1>6, <1>7, <1>8 DEF OneByOneInv

\* Without a listener of its own.
LEMMA LisStays ==
    ASSUME OneByOneInv, NEW n \in Ops, Silent, lis' = lis
    PROVE  /\ lis' = [lis EXCEPT ![n] = lis[n]] /\ ~Listening(lis[n])
           /\ lis[n].pc \in {"idle", "done"} /\ n \in 0..MaxOps
<1>1. lis \in [0..MaxOps -> Listener] /\ n \in 0..MaxOps
  BY SubscriptionsAssumption DEF OneByOneInv, SubscriptionsInv, LinkTypes, Ops
<1>2. QED BY <1>1 DEF Silent, Listening

----------------------------------------------------------------------------
(* The operations, one at a time: the requests. *)

\* What every request starts from.
LEMMA RequestFacts ==
    ASSUME OneByOneInv, Settled, NEW n \in Ops, NEW o, Launch(n, o)
    PROVE  /\ Silent /\ OthersRest(n) /\ op' = [op EXCEPT ![n] = o]
           /\ \A k : ~Cancelled(k)
           /\ UNCHANGED <<made, reg, sub, leaked, crashed>>
           /\ stored => made /\ OwnHeard
           /\ row \in Links /\ \A s \in Slots : row.dyn[s] # Zero
           /\ ~stored => row = NoLinks
           /\ \A r, p, l : LinkedTo(r) \subseteq LinkedTo(row) => Reached(r, p, l)
           /\ \A k \in LinkedTo(row) : reg[k] # 0
<1>1. op' = [op EXCEPT ![n] = o] /\ UNCHANGED <<made, reg, sub, leaked, crashed>>
  BY DEF Launch
<1>2. \A k : ~Cancelled(k)
  BY <1>1, NobodyWorks
<1>3. \A k \in LinkedTo(row) : reg[k] # 0
  BY <1>1, NobodyWorks
<1>4. ASSUME NEW r, NEW p, NEW l, LinkedTo(r) \subseteq LinkedTo(row) PROVE Reached(r, p, l)
  BY <1>2, <1>3, <1>4 DEF Reached
<1>5. QED BY <1>1, <1>2, <1>3, <1>4, NobodyWorks

LEMMA LinkOne ==
    ASSUME OneByOneInv, Settled, SubscriptionsInv', NEW n \in Ops, NEW s \in Slots, Link(n, s)
    PROVE  OneByOneInv'
<1> DEFINE T == {Zero}
           l == [NoLis EXCEPT !.pc = "look", !.copy = [row EXCEPT !.dyn[s] = Zero], !.todo = T]
<1>1. stored /\ Launch(n, Done) /\ lis' = [lis EXCEPT ![n] = l] /\ UNCHANGED <<row, stored>>
  BY DEF Link, ListenOn, Done, dataVars
<1>2. l.pc = "look"
  BY DEF NoLis
<1> HIDE DEF l
<1>3. Done.pc = "done" /\ ~Active(Done) /\ CancelOK(Done)
  BY DEF Done, NoOp, Active, CancelOK
<1>4. Reached(row, NoOp, l)
  BY <1>1, RequestFacts
<1>5. QED BY <1>1, <1>2, <1>3, <1>4, RequestFacts, PlainOne DEF Late, Listening

LEMMA LinkStaticOne ==
    ASSUME OneByOneInv, Settled, SubscriptionsInv', NEW n \in Ops, NEW s \in Slots,
           NEW k \in Talkgroups, LinkStatic(n, s, k)
    PROVE  OneByOneInv'
<1> DEFINE S == row.static[s] \cup {k}
           r == [row EXCEPT !.static[s] = S]
           T == {k}
           l == [NoLis EXCEPT !.pc = "look", !.copy = r, !.todo = T]
           o == [NoOp EXCEPT !.pc = "save", !.copy = r, !.http = TRUE]
<1>1. /\ stored /\ Launch(n, o) /\ lis' = [lis EXCEPT ![n] = l]
      /\ row' = r /\ stored' = stored
  BY DEF LinkStatic, ListenOn
<1>2. l.pc = "look" /\ l.todo = T
  BY DEF NoLis
<1>3. o.pc = "save" /\ o.copy = r /\ o.all = FALSE
  BY DEF NoOp
<1>4. row \in Links
  BY <1>1, RequestFacts
<1>5. r.dyn = row.dyn
  BY <1>4 DEF Links
<1>6. \A j \in LinkedTo(r) : j \in LinkedTo(row) \/ j = k
  BY <1>4, LinksOfChanged
<1> HIDE DEF l, o, r
<1>7. Active(o) /\ CancelOK(o)
  BY <1>3 DEF Active, CancelOK
<1>8. Reached(o.copy, o, l)
  <2>1. ASSUME NEW j \in LinkedTo(r) PROVE ~Cancelled(j) /\ (reg[j] # 0 \/ Pends(l, j))
    BY <1>1, <1>2, <1>6, RequestFacts DEF Pends, Listening
  <2>2. QED BY <1>3, <2>1 DEF Reached
<1>9. QED BY <1>1, <1>2, <1>3, <1>5, <1>7, <1>8, RequestFacts, PlainOne DEF Late, Listening

\* An unlink request of k, of a row that is then r in the copy.
LEMMA UnlinkingOne ==
    ASSUME OneByOneInv, Settled, SubscriptionsInv', NEW n \in Ops, NEW k \in Talkgroups, NEW r,
           NEW o, o = [NoOp EXCEPT !.pc = "cancel", !.copy = r, !.key = k, !.http = TRUE],
           Launch(n, o), stored, stored' = stored, lis' = lis,
           k \in LinkedTo(row), LinkedTo(r) \subseteq LinkedTo(row),
           r.static = row'.static, \A s \in Slots : r.dyn[s] # Zero /\ row'.dyn[s] # Zero
    PROVE  OneByOneInv'
<1>1. o.pc = "cancel" /\ o.copy = r /\ o.key = k /\ o.all = FALSE
  BY DEF NoOp
<1>2. k # Own /\ reg[k] # 0 /\ ~Cancelled(k)
  BY RequestFacts, SubscriptionsAssumption
<1>3. Active(o) /\ CancelOK(o)
  BY <1>1, <1>2 DEF Active, CancelOK
<1>4. Reached(o.copy, o, lis[n])
  BY <1>1, RequestFacts
<1>5. /\ Silent /\ OthersRest(n) /\ op' = [op EXCEPT ![n] = o] /\ made /\ OwnHeard
      /\ UNCHANGED <<made, reg, sub, leaked, crashed>>
  BY RequestFacts
<1>6. /\ lis' = [lis EXCEPT ![n] = lis[n]] /\ ~Listening(lis[n]) /\ lis[n].pc \in {"idle", "done"}
  BY <1>5, LisStays
<1>7. /\ o.pc \in Late /\ o.pc \notin {"touch", "unlink", "forget"} /\ ~o.all
      /\ o.copy.static = row'.static /\ \A s \in Slots : o.copy.dyn[s] # Zero
      /\ \A s \in Slots : row'.dyn[s] # Zero
  BY <1>1 DEF Late
<1>8. stored' /\ lis[n].pc # "look"
  BY <1>6
<1>9. QED BY <1>1, <1>3, <1>4, <1>5, <1>6, <1>7, <1>8, PlainOne

LEMMA UnlinkOne ==
    ASSUME OneByOneInv, Settled, SubscriptionsInv', NEW n \in Ops, NEW s \in Slots,
           NEW k \in Talkgroups, Unlink(n, s, k) \/ UnlinkStatic(n, s, k)
    PROVE  OneByOneInv'
<1>1. CASE Unlink(n, s, k)
  <2> DEFINE r == [row EXCEPT !.dyn[s] = None]
             o == [NoOp EXCEPT !.pc = "cancel", !.copy = r, !.key = k, !.http = TRUE]
  <2>1. stored /\ row.dyn[s] = k /\ Launch(n, o) /\ UNCHANGED <<row, stored, lis>>
    BY <1>1 DEF Unlink, dataVars
  <2>2. row \in Links /\ \A t \in Slots : row.dyn[t] # Zero
    BY <2>1, RequestFacts
  <2>3. k # None
    BY SubscriptionsAssumption
  <2>4. k \in LinkedTo(row) /\ LinkedTo(r) \subseteq LinkedTo(row)
    BY <2>1, <2>2, <2>3, LinksOfChanged
  <2>5. r.static = row.static /\ \A t \in Slots : r.dyn[t] # Zero
    BY <2>2 DEF Links, None, Zero
  <2> HIDE DEF r
  <2>6. QED BY <2>1, <2>2, <2>4, <2>5, UnlinkingOne
<1>2. CASE UnlinkStatic(n, s, k)
  <2> DEFINE S == row.static[s] \ {k}
             r == [row EXCEPT !.static[s] = S]
             o == [NoOp EXCEPT !.pc = "cancel", !.copy = row', !.key = k, !.http = TRUE]
  <2>1. /\ stored /\ k \in row.static[s] /\ Launch(n, o) /\ row' = r
        /\ UNCHANGED <<stored, lis>>
    BY <1>2 DEF UnlinkStatic, dataVars
  <2>2. row \in Links /\ \A t \in Slots : row.dyn[t] # Zero
    BY <2>1, RequestFacts
  <2>3. k \in LinkedTo(row) /\ row.static[s] \subseteq LinkedTo(row)
    BY <2>1, <2>2, LinksOfChanged
  <2>4. LinkedTo(r) \subseteq LinkedTo(row)
    BY <2>2, <2>3, LinksOfChanged
  <2>5. r.dyn = row.dyn
    BY <2>2 DEF Links
  <2> HIDE DEF r
  <2>6. QED BY <2>1, <2>2, <2>3, <2>4, <2>5, UnlinkingOne
<1>3. QED BY <1>1, <1>2

LEMMA ReplaceOne ==
    ASSUME OneByOneInv, Settled, SubscriptionsInv', NEW n \in Ops, NEW r \in Choices, Replace(n, r)
    PROVE  OneByOneInv'
<1> DEFINE o == [NoOp EXCEPT !.pc = "static", !.copy = r, !.all = TRUE, !.http = TRUE]
<1>1. stored /\ Launch(n, o) /\ UNCHANGED <<row, stored, lis>>
  BY DEF Replace, dataVars
<1>2. o.pc = "static" /\ o.copy = r /\ o.all = TRUE /\ o.slot = 1
  BY DEF NoOp
<1>3. \A s \in Slots : r.dyn[s] # Zero
  BY LinksAssumption
<1> HIDE DEF o
<1>4. /\ Silent /\ OthersRest(n) /\ op' = [op EXCEPT ![n] = o] /\ made /\ OwnHeard
      /\ UNCHANGED <<made, reg, sub, leaked, crashed>> /\ (\A k : ~Cancelled(k))
      /\ \A s \in Slots : row.dyn[s] # Zero
  BY <1>1, RequestFacts
<1>5. Active(o) /\ CancelOK(o) /\ Reached(o.copy, o, lis[n]) /\ WriteOK(o, row)
  BY <1>2, <1>4 DEF Active, CancelOK, Reached, WriteOK
<1>6. /\ lis' = [lis EXCEPT ![n] = lis[n]] /\ ~Listening(lis[n]) /\ lis[n].pc \in {"idle", "done"}
  BY <1>1, <1>4, LisStays
<1>7. o.pc \in Late /\ o.pc \in {"static", "dynamic"}
  BY <1>2 DEF Late
<1>8. QED BY <1>1, <1>2, <1>3, <1>4, <1>5, <1>6, <1>7, PlainOne

LEMMA DeleteRepeaterOne ==
    ASSUME OneByOneInv, Settled, SubscriptionsInv', NEW n \in Ops, DeleteRepeater(n)
    PROVE  OneByOneInv'
<1>1. Launch(n, Done) /\ stored' = FALSE /\ row' = NoLinks /\ lis' = lis
  BY DEF DeleteRepeater, Done
<1>2. Done.pc = "done" /\ ~Active(Done) /\ CancelOK(Done)
  BY DEF Done, NoOp, Active, CancelOK
<1>3. \A s \in Slots : row'.dyn[s] # Zero
  BY <1>1 DEF NoLinks, None, Zero
<1>4. Reached(row', NoOp, lis[n])
  BY <1>1, NothingLinked DEF Reached
<1>5. /\ Silent /\ OthersRest(n) /\ op' = [op EXCEPT ![n] = Done]
      /\ UNCHANGED <<made, reg, sub, leaked, crashed>>
  BY <1>1, RequestFacts
<1>6. /\ lis' = [lis EXCEPT ![n] = lis[n]] /\ ~Listening(lis[n]) /\ lis[n].pc \in {"idle", "done"}
  BY <1>1, <1>5, LisStays
<1>7. QED BY <1>1, <1>2, <1>3, <1>4, <1>5, <1>6, PlainOne DEF Late

LEMMA CreateOne ==
    ASSUME OneByOneInv, Settled, SubscriptionsInv', NEW n \in Ops, Create(n)
    PROVE  OneByOneInv'
<1> DEFINE l == Listen(NoLinks)
<1>1. /\ Launch(n, Done) /\ stored' = TRUE /\ lis' = [lis EXCEPT ![n] = l]
      /\ row' = IF stored THEN row ELSE NoLinks
  BY DEF Create, Done
<1>2. Done.pc = "done" /\ ~Active(Done) /\ CancelOK(Done)
  BY DEF Done, NoOp, Active, CancelOK
<1>3. l.pc = "check" /\ Own \in l.todo
  BY NoLinksTyped, ListenerChecks
<1> HIDE DEF l
<1>4. row' = row
  BY <1>1, RequestFacts
<1>5. /\ Reached(row', NoOp, l) /\ \A s \in Slots : row'.dyn[s] # Zero
  BY <1>1, <1>4, RequestFacts
<1>6. Pends(l, Own) /\ Listening(l)
  BY <1>3 DEF Pends, Listening
<1>7. QED BY <1>1, <1>2, <1>3, <1>5, <1>6, RequestFacts, PlainOne DEF Late

LEMMA ReadOne ==
    ASSUME OneByOneInv, Settled, SubscriptionsInv', NEW n \in Ops,
           \/ \E k \in Talkgroups : DeleteTalkgroup(n, k)
           \/ \E s \in Slots, k \in Talkgroups \cup {None} : Packet(n, s, k)
    PROVE  OneByOneInv'
<1>1. PICK o : /\ Launch(n, o) /\ UNCHANGED <<row, stored, lis>> /\ o.copy = row
               /\ o.pc \in {"touch", "forget"} /\ (o.pc = "touch" => stored)
               /\ o.all = FALSE
  <2>1. CASE \E k \in Talkgroups : DeleteTalkgroup(n, k)
    <3>1. PICK k \in Talkgroups : DeleteTalkgroup(n, k)
      BY <2>1
    <3> DEFINE o == [NoOp EXCEPT !.pc = "forget", !.copy = row, !.key = k, !.http = TRUE]
    <3>2. o.pc = "forget" /\ o.copy = row /\ o.all = FALSE
      BY DEF NoOp
    <3>3. Launch(n, o) /\ UNCHANGED <<row, stored, lis>>
      BY <3>1 DEF DeleteTalkgroup, dataVars
    <3> HIDE DEF o
    <3>4. QED BY <3>2, <3>3
  <2>2. CASE \E s \in Slots, k \in Talkgroups \cup {None} : Packet(n, s, k)
    <3>1. PICK s \in Slots, k \in Talkgroups \cup {None} : Packet(n, s, k)
      BY <2>2
    <3> DEFINE o == [NoOp EXCEPT !.pc = "touch", !.copy = row, !.slot = s, !.key = k]
    <3>2. o.pc = "touch" /\ o.copy = row /\ o.all = FALSE
      BY DEF NoOp
    <3>3. Launch(n, o) /\ stored /\ UNCHANGED <<row, stored, lis>>
      BY <3>1 DEF Packet, dataVars
    <3> HIDE DEF o
    <3>4. QED BY <3>2, <3>3
  <2>3. QED BY <2>1, <2>2
<1>2. /\ Silent /\ OthersRest(n) /\ op' = [op EXCEPT ![n] = o] /\ (stored => made /\ OwnHeard)
      /\ UNCHANGED <<made, reg, sub, leaked, crashed>> /\ (~stored => row = NoLinks)
      /\ \A s \in Slots : row.dyn[s] # Zero
  BY <1>1, RequestFacts
<1>3. CancelOK(o) /\ Reached(row, NoOp, lis[n])
  BY <1>1, RequestFacts DEF CancelOK
<1>4. /\ lis' = [lis EXCEPT ![n] = lis[n]] /\ ~Listening(lis[n]) /\ lis[n].pc \in {"idle", "done"}
  BY <1>1, <1>2, LisStays
<1>5. o.pc \notin Late
  BY <1>1 DEF Late
<1>6. QED BY <1>1, <1>2, <1>3, <1>4, <1>5, PlainOne

LEMMA RequestOne ==
    ASSUME OneByOneInv, Settled, SubscriptionsInv', NEW n \in Ops, Request(n)
    PROVE  OneByOneInv'
BY LinkOne, LinkStaticOne, UnlinkOne, ReplaceOne, DeleteRepeaterOne, CreateOne, ReadOne DEF Request

----------------------------------------------------------------------------
(* The operations, one at a time: their steps. *)

\* What a step of operation n starts from, unless it saves while its listener works.
LEMMA StepFacts ==
    ASSUME OneByOneInv, NEW n \in Ops, Active(op[n]), op[n].pc # "save" \/ op[n].all
    PROVE  /\ Silent /\ OthersRest(n) /\ CopyOK(op[n]) /\ CancelOK(op[n])
           /\ op[n].pc \notin Late => \A k \in LinkedTo(row) : ~Cancelled(k) /\ reg[k] # 0
           /\ op[n].pc \in Late =>
                 \A k \in LinkedTo(op[n].copy) : ~Cancelled(k) /\ (reg[k] # 0 \/ op[n].all)
           /\ stored => OwnHeard \/ op[n].all
           /\ \A s \in Slots : row.dyn[s] # Zero
           /\ ~stored => row = NoLinks
           /\ row \in Links /\ op[n] \in Operation /\ op[n].copy \in Links
           /\ lis[n] \in Listener /\ ~Listening(lis[n]) /\ lis[n].pc \in {"idle", "done"}
           /\ lis = [lis EXCEPT ![n] = lis[n]]
<1>1. /\ Silent /\ OthersRest(n) /\ CopyOK(op[n]) /\ CancelOK(op[n]) /\ \A k : ~Pending(k)
      /\ row \in Links /\ op[n] \in Operation
      /\ op[n].pc \in Late => LinksHeard(op[n].copy, op[n])
      /\ op[n].pc \notin Late => LinksHeard(row, NoOp)
  BY OneWorks
<1>2. op[n].pc \notin Late => \A k \in LinkedTo(row) : ~Cancelled(k) /\ reg[k] # 0
  BY <1>1 DEF LinksHeard, Heard, NoOp, Active
<1>3. op[n].pc \in Late =>
         \A k \in LinkedTo(op[n].copy) : ~Cancelled(k) /\ (reg[k] # 0 \/ op[n].all)
  BY <1>1 DEF LinksHeard, Heard
<1>4. stored => OwnHeard \/ op[n].all
  BY <1>1 DEF OneByOneInv, Hears, OthersRest
<1>5. (~stored => row = NoLinks) /\ \A s \in Slots : row.dyn[s] # Zero
  BY DEF OneByOneInv, MapsOK
<1>6. lis \in [0..MaxOps -> Listener] /\ n \in 0..MaxOps
  BY SubscriptionsAssumption DEF OneByOneInv, SubscriptionsInv, LinkTypes, Ops
<1>7. lis[n] \in Listener /\ ~Listening(lis[n]) /\ lis[n].pc \in {"idle", "done"}
      /\ lis = [lis EXCEPT ![n] = lis[n]]
  BY <1>1, <1>6 DEF Silent, Listening
<1>8. op[n].copy \in Links
  BY <1>1, OperationFields
<1>9. QED BY <1>1, <1>2, <1>3, <1>4, <1>5, <1>7, <1>8

\* The fields of an operation that moves on.
LEMMA Moved ==
    ASSUME NEW p \in Operation, NEW c
    PROVE  LET o == [p EXCEPT !.pc = c]
           IN  /\ o.pc = c /\ o.copy = p.copy /\ o.key = p.key /\ o.all = p.all
               /\ o.todo = p.todo /\ o.slot = p.slot
BY DEF Operation

LEMMA TouchOne ==
    ASSUME OneByOneInv, SubscriptionsInv', NEW n \in Ops, Touch(n)
    PROVE  OneByOneInv'
<1> DEFINE c == IF op[n].key = None THEN "unlink" ELSE "switch"
           o == [op[n] EXCEPT !.pc = c]
<1>1. /\ op[n].pc = "touch" /\ op' = [op EXCEPT ![n] = o] /\ row' = Saved(op[n].copy)
      /\ stored' = TRUE /\ UNCHANGED <<made, reg, sub, lis, leaked, crashed>>
  BY DEF Touch, Store
<1>2. Active(op[n]) /\ op[n].pc \notin Late
  BY <1>1 DEF Active, Late
<1>3. op[n].copy = row /\ row \in Links /\ stored /\ made /\ ~op[n].all /\ OwnHeard
      /\ \A k \in Keys : ~Cancelled(k)
  BY <1>1, <1>2, StepFacts DEF CopyOK, CancelOK
<1>4. row' = row
  BY <1>1, <1>3, SavedIsCopy
<1>5. o.pc \in {"unlink", "switch"} /\ o.copy = op[n].copy /\ o.all = op[n].all
  BY <1>1, <1>2, StepFacts, Moved
<1> HIDE DEF o, c
<1>6. CancelOK(o) /\ o.pc \notin Late
  BY <1>3, <1>5 DEF CancelOK, Late
<1>7. Reached(row', NoOp, lis[n])
  BY <1>1, <1>2, <1>4, StepFacts DEF Reached
<1>8. /\ Silent /\ OthersRest(n) /\ ~Listening(lis[n]) /\ lis[n].pc \in {"idle", "done"}
      /\ lis' = [lis EXCEPT ![n] = lis[n]] /\ \A s \in Slots : row'.dyn[s] # Zero
  BY <1>1, <1>2, <1>4, StepFacts
<1>9. QED BY <1>1, <1>3, <1>4, <1>5, <1>6, <1>7, <1>8, PlainOne

LEMMA SwitchOne ==
    ASSUME OneByOneInv, SubscriptionsInv', NEW n \in Ops, Switch(n)
    PROVE  OneByOneInv'
<1> DEFINE s == op[n].slot
           k == op[n].key
<1>1. op[n].pc = "switch" /\ UNCHANGED <<row, stored, made, reg, sub, leaked, crashed>>
  BY DEF Switch, dataVars
<1>2. Active(op[n]) /\ op[n].pc \notin Late
  BY <1>1 DEF Active, Late
<1>3. /\ stored /\ made /\ ~op[n].all /\ OwnHeard /\ row \in Links /\ op[n] \in Operation
      /\ \A j \in LinkedTo(row) : ~Cancelled(j) /\ reg[j] # 0
      /\ \A j \in Keys : ~Cancelled(j)
      /\ \A t \in Slots : row.dyn[t] # Zero
  BY <1>1, <1>2, StepFacts DEF CopyOK, CancelOK
<1>4. s \in Slots /\ k \in Talkgroups /\ k \in Keys /\ k # Zero
  BY <1>1, <1>3, SubscriptionsAssumption DEF OneByOneInv, SubscriptionsInv, LinkTypes, Keyed, Operation, Keys
<1>5. Silent /\ OthersRest(n) /\ ~Listening(lis[n]) /\ lis[n].pc \in {"idle", "done"}
      /\ lis = [lis EXCEPT ![n] = lis[n]]
  BY <1>1, <1>2, StepFacts
<1>6. CASE ~stored \/ row.dyn[s] = k
  <2> DEFINE o == [op[n] EXCEPT !.pc = "done"]
  <2>1. op' = [op EXCEPT ![n] = o] /\ lis' = lis
    BY <1>6 DEF Switch
  <2>2. o.pc = "done"
    BY <1>3, Moved
  <2> HIDE DEF o
  <2>3. ~Active(o) /\ CancelOK(o) /\ o.pc \notin Late /\ Reached(row', NoOp, lis[n])
    BY <1>1, <1>3, <2>2 DEF Active, CancelOK, Late, Reached
  <2>4. QED BY <1>1, <1>3, <1>5, <2>1, <2>2, <2>3, PlainOne
<1>7. CASE ~(~stored \/ row.dyn[s] = k)
  <2> DEFINE r == [row EXCEPT !.dyn[s] = k]
             o == [op[n] EXCEPT !.pc = "save", !.copy = r]
             T == {k}
             l == [NoLis EXCEPT !.pc = "look", !.copy = r, !.todo = T]
  <2>1. op' = [op EXCEPT ![n] = o] /\ lis' = [lis EXCEPT ![n] = l]
    BY <1>7 DEF Switch, ListenOn
  <2>2. o.pc = "save" /\ o.copy = r /\ o.all = op[n].all
    BY <1>3 DEF Operation
  <2>3. l.pc = "look" /\ l.todo = T
    BY DEF NoLis
  <2>4. r.static = row.static /\ \A t \in Slots : r.dyn[t] # Zero
    BY <1>3, <1>4 DEF Links
  <2>5. \A j \in LinkedTo(r) : j \in LinkedTo(row) \/ j = k
    BY <1>3, <1>4, LinksOfChanged
  <2> HIDE DEF r, o, l
  <2>6. Reached(o.copy, o, l)
    BY <1>3, <1>4, <2>2, <2>3, <2>5 DEF Reached, Pends, Listening
  <2>7. o.pc \in Late /\ CancelOK(o) /\ Listening(l) /\ ~o.all
    BY <1>3, <2>2, <2>3 DEF Late, CancelOK, Listening
  <2>8. QED BY <1>1, <1>3, <1>5, <2>1, <2>2, <2>3, <2>4, <2>6, <2>7, PlainOne
<1>8. QED BY <1>6, <1>7

LEMMA UnlinkCallOne ==
    ASSUME OneByOneInv, SubscriptionsInv', NEW n \in Ops, UnlinkCall(n)
    PROVE  OneByOneInv'
<1> DEFINE s == op[n].slot
           k == op[n].copy.dyn[s]
<1>1. op[n].pc = "unlink" /\ UNCHANGED <<stored, made, reg, sub, lis, leaked, crashed>>
  BY DEF UnlinkCall, dataVars
<1>2. Active(op[n]) /\ op[n].pc \notin Late
  BY <1>1 DEF Active, Late
<1>3. /\ stored /\ made /\ ~op[n].all /\ OwnHeard /\ row \in Links /\ op[n] \in Operation
      /\ op[n].copy = row
      /\ \A j \in LinkedTo(row) : ~Cancelled(j) /\ reg[j] # 0
      /\ \A t \in Slots : row.dyn[t] # Zero
  BY <1>1, <1>2, StepFacts DEF CopyOK, CancelOK
<1>4. s \in Slots
  BY <1>3 DEF Operation
<1>5. /\ Silent /\ OthersRest(n) /\ ~Listening(lis[n]) /\ lis[n].pc \in {"idle", "done"}
      /\ lis' = [lis EXCEPT ![n] = lis[n]]
  BY <1>1, <1>2, StepFacts
<1>6. CASE k = None
  <2> DEFINE o == [op[n] EXCEPT !.pc = "save"]
  <2>1. op' = [op EXCEPT ![n] = o] /\ row' = row
    BY <1>6 DEF UnlinkCall
  <2>2. o.pc = "save" /\ o.copy = row /\ o.all = op[n].all
    BY <1>3, Moved
  <2> HIDE DEF o
  <2>3. o.pc \in Late /\ CancelOK(o) /\ Reached(o.copy, o, lis[n])
    BY <1>3, <2>2 DEF CancelOK, Late, Reached
  <2>4. /\ o.pc \notin {"touch", "unlink", "forget"} /\ o.copy.static = row'.static /\ ~o.all
        /\ \A t \in Slots : o.copy.dyn[t] # Zero /\ row'.dyn[t] # Zero
    BY <1>3, <2>1, <2>2
  <2>5. stored' /\ lis[n].pc # "look"
    BY <1>1, <1>3, <1>5
  <2>6. QED BY <1>1, <1>3, <1>5, <2>1, <2>2, <2>3, <2>4, <2>5, PlainOne
<1>7. CASE k # None
  <2> DEFINE r == [row EXCEPT !.dyn[s] = None]
             o == [op[n] EXCEPT !.pc = "cancel", !.key = k, !.copy.dyn[s] = None]
  <2>1. op' = [op EXCEPT ![n] = o] /\ row' = r
    BY <1>7 DEF UnlinkCall
  <2>2. o.pc = "cancel" /\ o.copy = r /\ o.all = op[n].all /\ o.key = k
    BY <1>3 DEF Operation
  <2>3. r.static = row.static /\ \A t \in Slots : r.dyn[t] # Zero
    BY <1>3, <1>4 DEF Links, None, Zero
  <2>4. k \in LinkedTo(row) /\ LinkedTo(r) \subseteq LinkedTo(row)
    BY <1>3, <1>4, <1>7, LinksOfChanged
  <2>5. k # Own
    <3>1. LinkedTo(row) \subseteq Talkgroups \cup {Zero}
      BY <1>3, LinkedTalkgroups
    <3>2. QED BY <2>4, <3>1, SubscriptionsAssumption DEF Own, Zero
  <2> HIDE DEF r, o, k
  <2>6. o.pc \in Late /\ CancelOK(o) /\ Reached(o.copy, o, lis[n])
    BY <1>3, <2>2, <2>4, <2>5 DEF CancelOK, Late, Reached
  <2>7. QED BY <1>1, <1>3, <1>5, <2>1, <2>2, <2>3, <2>6, PlainOne
<1>8. QED BY <1>6, <1>7

LEMMA ForgetOne ==
    ASSUME OneByOneInv, SubscriptionsInv', NEW n \in Ops, Forget(n)
    PROVE  OneByOneInv'
<1> DEFINE k == op[n].key
           o == [op[n] EXCEPT !.pc = "done"]
           dyn == [s \in Slots |-> IF row.dyn[s] = k THEN None ELSE row.dyn[s]]
<1>1. /\ op[n].pc = "forget" /\ op' = [op EXCEPT ![n] = o]
      /\ UNCHANGED <<made, reg, sub, lis, leaked, crashed>>
  BY DEF Forget
<1>2. Active(op[n]) /\ op[n].pc \notin Late
  BY <1>1 DEF Active, Late
<1>3. /\ op[n].copy = row /\ ~op[n].all /\ row \in Links /\ op[n] \in Operation
      /\ \A j \in LinkedTo(row) : ~Cancelled(j) /\ reg[j] # 0
      /\ \A s \in Slots : row.dyn[s] # Zero
      /\ stored => OwnHeard
      /\ ~stored => row = NoLinks
  BY <1>1, <1>2, StepFacts DEF CopyOK, CancelOK
<1>4. k \in Talkgroups /\ k # None
  BY <1>1, SubscriptionsAssumption DEF OneByOneInv, SubscriptionsInv, LinkTypes, Keyed
<1>5. /\ Silent /\ OthersRest(n) /\ ~Listening(lis[n]) /\ lis[n].pc \in {"idle", "done"}
      /\ lis' = [lis EXCEPT ![n] = lis[n]]
  BY <1>1, <1>2, StepFacts
<1>6. /\ \A s \in Slots : row'.dyn[s] \in {row.dyn[s], None} /\ row'.static[s] \subseteq row.static[s]
      /\ row' \in Links
      /\ stored' <=> (stored \/ \E s \in Slots : row.dyn[s] = k)
  <2>1. row' \in Links
    BY DEF SubscriptionsInv, LinkTypes
  <2>2. row.dyn = [s \in Slots |-> row.dyn[s]]
    BY <1>3 DEF Links
  <2>3. CASE \E s \in Slots : row.dyn[s] = k
    <3>1. row' = [dyn |-> dyn, static |-> [s \in Slots |-> row.static[s] \ {k}]] /\ stored' = TRUE
      BY <1>3, <2>3 DEF Forget
    <3>2. QED BY <2>1, <2>3, <3>1
  <2>4. CASE ~\E s \in Slots : row.dyn[s] = k
    <3>1. /\ row' = [dyn |-> row.dyn, static |-> [s \in Slots |-> row.static[s] \ {k}]]
          /\ stored' <=> stored
      BY <1>3, <2>4 DEF Forget
    <3>2. QED BY <2>1, <2>4, <3>1
  <2>5. QED BY <2>3, <2>4
<1>7. LinkedTo(row') \subseteq LinkedTo(row)
  BY <1>6, InLinks
<1>8. (~stored' => row' = NoLinks) /\ (stored' => stored)
  <2>1. ASSUME ~stored PROVE row' = NoLinks /\ ~stored'
    <3>1. \A s \in Slots : row.dyn[s] = None /\ row.static[s] = {}
      BY <1>3, <2>1 DEF NoLinks
    <3>2. ~stored'
      BY <1>4, <1>6, <2>1, <3>1
    <3>3. \A s \in Slots : row'.dyn[s] = None /\ row'.static[s] = {}
      BY <1>6, <3>1
    <3>4. row' = NoLinks
      BY <1>6, <3>3 DEF Links, NoLinks
    <3>5. QED BY <3>2, <3>4
  <2>2. QED BY <1>6, <2>1
<1>9. \A s \in Slots : row'.dyn[s] # Zero
  BY <1>3, <1>6 DEF None, Zero
<1>10. o.pc = "done"
  BY <1>3, Moved
<1> HIDE DEF o
<1>11. ~Active(o) /\ CancelOK(o) /\ o.pc \notin Late /\ Reached(row', NoOp, lis[n])
  BY <1>3, <1>7, <1>10 DEF Active, CancelOK, Late, Reached
<1>12. stored' => made
  BY <1>5, <1>8 DEF OneByOneInv, MapsOK, Silent, Listening
<1>13. QED BY <1>1, <1>3, <1>5, <1>8, <1>9, <1>10, <1>11, <1>12, PlainOne

\* The row is replaced link by link.
LEMMA ReplaceStaticOne ==
    ASSUME OneByOneInv, SubscriptionsInv', NEW n \in Ops, ReplaceStatic(n)
    PROVE  OneByOneInv'
<1> DEFINE o == Written(op[n], "dynamic")
           s == op[n].slot
<1>1. op[n].pc = "static" /\ UNCHANGED <<stored, made, reg, sub, lis, leaked, crashed>>
  BY DEF ReplaceStatic, dataVars
<1>2. Active(op[n]) /\ op[n].pc \in Late /\ op[n].pc \in {"static", "dynamic"}
  BY <1>1 DEF Active, Late
<1>3. /\ Silent /\ OthersRest(n) /\ op[n] \in Operation /\ row \in Links /\ op[n].copy \in Links
      /\ ~Listening(lis[n]) /\ lis[n].pc \in {"idle", "done"} /\ lis = [lis EXCEPT ![n] = lis[n]]
      /\ CopyOK(op[n]) /\ CancelOK(op[n]) /\ \A t \in Slots : row.dyn[t] # Zero
  BY <1>1, <1>2, StepFacts
<1>4. /\ stored /\ made /\ op[n].all /\ (\A k \in Keys : ~Cancelled(k)) /\ WriteOK(op[n], row)
      /\ \A t \in Slots : op[n].copy.dyn[t] # Zero
  BY <1>1, <1>2, <1>3 DEF CopyOK, CancelOK, WriteOK
<1>5. /\ op' = [op EXCEPT ![n] = o] /\ row' = [row EXCEPT !.static[s] = op[n].copy.static[s]]
  BY <1>4 DEF ReplaceStatic
<1>6. /\ s = 1 => o.slot = 2 /\ o.pc = "static"
      /\ s # 1 => s = 2 /\ o.slot = 1 /\ o.pc = "dynamic"
      /\ o.copy = op[n].copy /\ o.all
  BY <1>1, <1>3, <1>4, WrittenFields, OperationFields DEF Slots
<1>7. WriteOK(o, row') /\ row'.dyn = row.dyn
  <2>1. /\ row'.static = [row.static EXCEPT ![s] = op[n].copy.static[s]] /\ row'.dyn = row.dyn
        /\ row.static \in [Slots -> SUBSET Talkgroups]
        /\ op[n].copy.static \in [Slots -> SUBSET Talkgroups]
    BY <1>3, <1>5 DEF Links
  <2>2. s = 2 => row'.static = op[n].copy.static
    <3> SUFFICES ASSUME s = 2 PROVE row'.static = op[n].copy.static
      OBVIOUS
    <3>1. row.static[1] = op[n].copy.static[1]
      BY <1>1, <1>4 DEF WriteOK
    <3>2. QED BY <2>1, <3>1 DEF Slots
  <2>3. s = 1 => row'.static[1] = op[n].copy.static[1]
    BY <2>1 DEF Slots
  <2>4. QED BY <1>6, <2>1, <2>2, <2>3 DEF WriteOK
<1>8. o.pc \in Late /\ o.pc \in {"static", "dynamic"} /\ Active(o)
  BY <1>6 DEF Late, Active
<1> HIDE DEF o, s
<1>9. CancelOK(o)
  BY <1>4, <1>6, <1>8 DEF CancelOK
<1>10. Reached(o.copy, o, lis[n])
  BY <1>3, <1>4, <1>6, <1>8, LinkedTalkgroups DEF Reached, Keys
<1>11. o.pc \notin {"touch", "unlink", "forget"}
  BY <1>8
<1>12. /\ lis' = [lis EXCEPT ![n] = lis[n]] /\ stored' /\ lis[n].pc # "look"
       /\ \A t \in Slots : o.copy.dyn[t] # Zero /\ row'.dyn[t] # Zero
       /\ UNCHANGED <<made, reg, sub, leaked, crashed>>
  BY <1>1, <1>3, <1>4, <1>6, <1>7
<1>13. QED BY <1>3, <1>4, <1>5, <1>6, <1>7, <1>8, <1>9, <1>10, <1>11, <1>12, PlainOne

LEMMA ReplaceDynamicOne ==
    ASSUME OneByOneInv, SubscriptionsInv', NEW n \in Ops, ReplaceDynamic(n)
    PROVE  OneByOneInv'
<1> DEFINE o == Written(op[n], "save")
           s == op[n].slot
<1>1. op[n].pc = "dynamic" /\ UNCHANGED <<stored, made, reg, sub, lis, leaked, crashed>>
  BY DEF ReplaceDynamic, dataVars
<1>2. Active(op[n]) /\ op[n].pc \in Late /\ op[n].pc \in {"static", "dynamic"}
  BY <1>1 DEF Active, Late
<1>3. /\ Silent /\ OthersRest(n) /\ op[n] \in Operation /\ row \in Links /\ op[n].copy \in Links
      /\ ~Listening(lis[n]) /\ lis[n].pc \in {"idle", "done"} /\ lis = [lis EXCEPT ![n] = lis[n]]
      /\ CopyOK(op[n]) /\ CancelOK(op[n]) /\ \A t \in Slots : row.dyn[t] # Zero
  BY <1>1, <1>2, StepFacts
<1>4. /\ stored /\ made /\ op[n].all /\ (\A k \in Keys : ~Cancelled(k)) /\ WriteOK(op[n], row)
      /\ \A t \in Slots : op[n].copy.dyn[t] # Zero
  BY <1>1, <1>2, <1>3 DEF CopyOK, CancelOK, WriteOK
<1>5. /\ op' = [op EXCEPT ![n] = o] /\ row' = [row EXCEPT !.dyn[s] = op[n].copy.dyn[s]]
  BY <1>4 DEF ReplaceDynamic
<1>6. /\ s = 1 => o.slot = 2 /\ o.pc = "dynamic"
      /\ s # 1 => s = 2 /\ o.slot = 1 /\ o.pc = "save"
      /\ o.copy = op[n].copy /\ o.all
  BY <1>1, <1>3, <1>4, WrittenFields, OperationFields DEF Slots
<1>7. /\ row'.dyn = [row.dyn EXCEPT ![s] = op[n].copy.dyn[s]] /\ row'.static = op[n].copy.static
      /\ row.dyn \in [Slots -> Talkgroups \cup {None, Zero}]
      /\ op[n].copy.dyn \in [Slots -> Talkgroups \cup {None, Zero}]
      /\ s \in Slots
  BY <1>1, <1>3, <1>4, <1>5, OperationFields DEF Links, WriteOK
<1>8. \A t \in Slots : row'.dyn[t] # Zero
  BY <1>3, <1>4, <1>7
<1>9. s = 2 => row' = op[n].copy
  <2> SUFFICES ASSUME s = 2 PROVE row' = op[n].copy
    OBVIOUS
  <2>1. row.dyn[1] = op[n].copy.dyn[1]
    BY <1>1, <1>4 DEF WriteOK
  <2>2. row'.dyn = op[n].copy.dyn
    BY <1>7, <2>1 DEF Slots
  <2>3. row' \in Links
    BY DEF SubscriptionsInv, LinkTypes
  <2>4. QED BY <1>3, <1>7, <2>2, <2>3 DEF Links
<1>10. s = 1 => row'.dyn[1] = op[n].copy.dyn[1]
  BY <1>7
<1>11. o.pc \in Late /\ Active(o)
  BY <1>6 DEF Late, Active
<1> HIDE DEF o, s
<1>12. /\ o.pc \in {"static", "dynamic"} => WriteOK(o, row')
       /\ o.pc \notin {"static", "dynamic"} => o.copy = row'
  BY <1>6, <1>7, <1>9, <1>10 DEF WriteOK
<1>13. CancelOK(o)
  BY <1>4, <1>6 DEF CancelOK
<1>14. Reached(o.copy, o, lis[n])
  BY <1>3, <1>4, <1>6, <1>11, LinkedTalkgroups DEF Reached, Keys
<1>15. o.pc \notin {"touch", "unlink", "forget"}
  BY <1>6
<1>16. /\ lis' = [lis EXCEPT ![n] = lis[n]] /\ stored' /\ lis[n].pc # "look"
       /\ \A t \in Slots : o.copy.dyn[t] # Zero /\ row'.dyn[t] # Zero
       /\ o.copy.static = row'.static
       /\ UNCHANGED <<made, reg, sub, leaked, crashed>>
  BY <1>1, <1>3, <1>4, <1>6, <1>7, <1>8
<1>17. QED BY <1>3, <1>4, <1>5, <1>6, <1>11, <1>12, <1>13, <1>14, <1>15, <1>16, PlainOne

LEMMA SaveOne ==
    ASSUME OneByOneInv, SubscriptionsInv', NEW n \in Ops, Save(n)
    PROVE  OneByOneInv'
<1> DEFINE o == [op[n] EXCEPT !.pc = IF op[n].all THEN "range" ELSE "done"]
<1>1. /\ op[n].pc = "save" /\ op' = [op EXCEPT ![n] = o] /\ row' = Saved(op[n].copy)
      /\ stored' = TRUE /\ UNCHANGED <<made, reg, sub, lis, leaked, crashed>>
  BY DEF Save, Store
<1>2. Active(op[n]) /\ op[n].pc \in Late
  BY <1>1 DEF Active, Late
<1>3. /\ op[n] \in Operation /\ row \in Links /\ CopyOK(op[n]) /\ CancelOK(op[n]) /\ OthersRest(n)
      /\ LinksHeard(op[n].copy, op[n])
  BY <1>2, OneWorks
<1>4. row' = op[n].copy /\ stored /\ made /\ \A s \in Slots : op[n].copy.dyn[s] # Zero
  <2>1. op[n].copy.static = row.static /\ op[n].copy \in Links
    BY <1>1, <1>2, <1>3, OperationFields DEF CopyOK
  <2>2. QED BY <1>1, <1>2, <1>3, <2>1, SavedIsCopy DEF CopyOK
<1>5. o.pc = (IF op[n].all THEN "range" ELSE "done") /\ o.copy = op[n].copy /\ o.all = op[n].all
  BY <1>3, Moved
<1> HIDE DEF o
<1>6. CASE op[n].all
  <2>1. /\ Silent /\ ~Listening(lis[n]) /\ lis[n].pc \in {"idle", "done"}
        /\ lis' = [lis EXCEPT ![n] = lis[n]]
    BY <1>1, <1>2, <1>6, StepFacts
  <2>2. \A k \in Keys : ~Cancelled(k)
    BY <1>1, <1>3, <1>6 DEF CancelOK
  <2>3. o.pc = "range" /\ o.all /\ Active(o) /\ o.pc \in Late /\ CancelOK(o)
    BY <1>5, <1>6, <2>2 DEF Active, Late, CancelOK
  <2>4. Reached(o.copy, o, lis[n])
    BY <1>3, <1>5, <2>3 DEF LinksHeard, Reached
  <2>5. /\ o.pc \notin {"touch", "unlink", "forget"} /\ o.copy = row'
        /\ \A t \in Slots : o.copy.dyn[t] # Zero /\ row'.dyn[t] # Zero
    BY <1>4, <1>5, <2>3
  <2>6. stored' /\ lis[n].pc # "look"
    BY <1>1, <2>1
  <2>7. QED BY <1>1, <1>3, <1>4, <2>1, <2>3, <2>4, <2>5, <2>6, PlainOne
<1>7. CASE ~op[n].all
  <2>1. o.pc = "done" /\ ~Active(o)
    BY <1>5, <1>7 DEF Active
  <2>2. op'[n] = o /\ \A m \in Ops : m # n => op'[m] = op[m]
    BY <1>1 DEF OneByOneInv, SubscriptionsInv, LinkTypes
  <2>3. \A m \in Ops : ~Active(op'[m])
    BY <1>3, <2>1, <2>2 DEF OthersRest
  <2>4. OneAtWork'
    BY <1>1, <2>3 DEF OneByOneInv, OneAtWork
  <2>5. MapsOK'
    BY <1>1, <1>4 DEF OneByOneInv, MapsOK
  <2>6. \A k : (Heard(k)' <=> Heard(k)) /\ (Cancelled(k)' <=> Cancelled(k))
    BY <1>1 DEF Heard, Pending, Cancelled
  <2>7. OwnHeard' <=> OwnHeard
    BY <1>1 DEF OwnHeard, Pending
  <2>8. OwnHeard
    BY <1>2, <1>3, <1>4, <1>7 DEF OneByOneInv, Hears, OthersRest
  <2>9. LinksHeard(row, NoOp)'
    BY <1>3, <1>4, <1>7, <2>6 DEF LinksHeard
  <2>10. Hears'
    BY <2>3, <2>7, <2>8, <2>9 DEF Hears, Active, Late
  <2>11. \A m \in Ops : (CopyOK(op[m]) /\ CancelOK(op[m]))'
    BY <2>3 DEF CopyOK, CancelOK, Active, Late
  <2>12. QED BY <2>4, <2>5, <2>10, <2>11 DEF OneByOneInv
<1>8. QED BY <1>6, <1>7

LEMMA CancelOne ==
    ASSUME OneByOneInv, SubscriptionsInv', NEW n \in Ops, Cancel(n)
    PROVE  OneByOneInv'
<1> DEFINE c == IF op[n].key \in LinkedTo(op[n].copy) THEN AfterCancel(n) ELSE "delete"
           o == [op[n] EXCEPT !.got = reg[op[n].key], !.pc = c]
<1>1. /\ op[n].pc = "cancel" /\ UNCHANGED <<row, stored, made, reg, sub, lis>>
      /\ reg[op[n].key] # 0 => op' = [op EXCEPT ![n] = o] /\ UNCHANGED <<leaked, crashed>>
  BY DEF Cancel, dataVars
<1>2. Active(op[n]) /\ op[n].pc \in Late
  BY <1>1 DEF Active, Late
<1>3. /\ op[n] \in Operation /\ CopyOK(op[n]) /\ CancelOK(op[n])
      /\ \A k \in LinkedTo(op[n].copy) : ~Cancelled(k) /\ (reg[k] # 0 \/ op[n].all)
  BY <1>1, <1>2, StepFacts
<1>4. reg[op[n].key] # 0 /\ ~Cancelled(op[n].key)
  BY <1>1, <1>3 DEF CancelOK
<1>5. c \in {"loop", "save", "delete"} /\ (c = "loop" => op[n].all) /\ (c = "save" => ~op[n].all)
      /\ (c = "delete" => op[n].key \notin LinkedTo(op[n].copy))
  BY DEF AfterCancel
<1>6. o.pc = c /\ o.copy = op[n].copy /\ o.all = op[n].all /\ o.key = op[n].key /\ o.todo = op[n].todo
  BY <1>3 DEF Operation
<1> HIDE DEF o, c
<1>7. CancelOK(o) /\ o.pc \in Late /\ Active(o)
  BY <1>1, <1>3, <1>4, <1>5, <1>6 DEF CancelOK, Late, Active
<1>8. Reached(o.copy, o, lis[n])
  BY <1>3, <1>6, <1>7 DEF Reached
<1>9. /\ o.pc \notin {"touch", "unlink", "forget"} /\ o.copy.static = row'.static
      /\ \A t \in Slots : o.copy.dyn[t] # Zero
      /\ o.all => o.copy = row'
      /\ stored /\ made
  BY <1>1, <1>2, <1>3, <1>5, <1>6 DEF CopyOK
<1>10. /\ Silent /\ OthersRest(n) /\ ~Listening(lis[n]) /\ lis[n].pc \in {"idle", "done"}
       /\ lis' = [lis EXCEPT ![n] = lis[n]]
       /\ \A t \in Slots : row'.dyn[t] # Zero
  BY <1>1, <1>2, StepFacts
<1>11. stored' /\ made /\ lis[n].pc # "look" /\ (OwnHeard \/ (Active(o) /\ o.all))
  BY <1>1, <1>2, <1>6, <1>7, <1>9, <1>10, StepFacts
<1>12. QED BY <1>1, <1>4, <1>5, <1>6, <1>7, <1>8, <1>9, <1>10, <1>11, PlainOne

LEMMA RangeOne ==
    ASSUME OneByOneInv, SubscriptionsInv', NEW n \in Ops, Range(n)
    PROVE  OneByOneInv'
<1> DEFINE o == [op[n] EXCEPT !.pc = "loop", !.todo = Registered]
<1>1. /\ op[n].pc = "range" /\ op' = [op EXCEPT ![n] = o]
      /\ UNCHANGED <<row, stored, made, reg, sub, lis, leaked, crashed>>
  BY DEF Range, dataVars
<1>2. Active(op[n]) /\ op[n].pc \in Late
  BY <1>1 DEF Active, Late
<1>3. /\ op[n] \in Operation /\ CopyOK(op[n]) /\ op[n].all
      /\ \A k \in Keys : ~Cancelled(k)
      /\ \A k \in LinkedTo(op[n].copy) : ~Cancelled(k) /\ (reg[k] # 0 \/ op[n].all)
  BY <1>1, <1>2, StepFacts DEF CancelOK
<1>4. o.pc = "loop" /\ o.copy = op[n].copy /\ o.all = op[n].all /\ o.todo = Registered
  BY <1>3 DEF Operation
<1> HIDE DEF o
<1>5. CancelOK(o) /\ o.pc \in Late /\ Active(o) /\ Reached(o.copy, o, lis[n])
  BY <1>3, <1>4 DEF CancelOK, Late, Active, Reached, Registered
<1>6. /\ o.pc \notin {"touch", "unlink", "forget"} /\ o.copy.static = row'.static
      /\ \A t \in Slots : o.copy.dyn[t] # Zero
      /\ o.copy = row' /\ stored' /\ made
  BY <1>1, <1>2, <1>3, <1>4 DEF CopyOK
<1>7. /\ Silent /\ OthersRest(n) /\ ~Listening(lis[n]) /\ lis[n].pc \in {"idle", "done"}
      /\ lis' = [lis EXCEPT ![n] = lis[n]] /\ lis[n].pc # "look"
      /\ \A t \in Slots : row'.dyn[t] # Zero
  BY <1>1, <1>2, StepFacts
<1>8. QED BY <1>1, <1>3, <1>4, <1>5, <1>6, <1>7, PlainOne

LEMMA LoopOne ==
    ASSUME OneByOneInv, SubscriptionsInv', NEW n \in Ops, Loop(n)
    PROVE  OneByOneInv'
<1>1. op[n].pc = "loop" /\ UNCHANGED <<row, stored, made, reg, sub, leaked, crashed>>
  BY DEF Loop, dataVars
<1>2. Active(op[n]) /\ op[n].pc \in Late
  BY <1>1 DEF Active, Late
<1>3. /\ op[n] \in Operation /\ CopyOK(op[n]) /\ CancelOK(op[n]) /\ op[n].all
      /\ \A k \in Registered : ~Cancelled(k)
      /\ \A k \in LinkedTo(op[n].copy) : ~Cancelled(k)
  BY <1>1, <1>2, StepFacts DEF CancelOK
<1>4. /\ op[n].copy = row /\ stored' /\ made /\ row \in Links
      /\ \A t \in Slots : row'.dyn[t] # Zero
  BY <1>1, <1>2, <1>3, StepFacts DEF CopyOK
<1>5. /\ Silent /\ OthersRest(n) /\ ~Listening(lis[n]) /\ lis[n].pc \in {"idle", "done"}
      /\ lis = [lis EXCEPT ![n] = lis[n]] /\ lis[n].pc # "look"
  BY <1>1, <1>2, StepFacts
<1>6. ASSUME NEW k \in Registered,
             op' = [op EXCEPT ![n].pc = "cancel", ![n].key = k, ![n].todo = @ \ {k}],
             lis' = lis
      PROVE  OneByOneInv'
  <2> DEFINE T == op[n].todo \ {k}
             o == [op[n] EXCEPT !.pc = "cancel", !.key = k, !.todo = T]
  <2>1. op' = [op EXCEPT ![n] = o]
    BY <1>6
  <2>2. /\ o.pc = "cancel" /\ o.copy = op[n].copy /\ o.all = op[n].all /\ o.key = k
        /\ o.todo = T
    BY <1>3 DEF Operation
  <2>3. reg[k] # 0 /\ ~Cancelled(k)
    BY <1>3, <1>6 DEF Registered
  <2> HIDE DEF o, T
  <2>4. CancelOK(o) /\ o.pc \in Late /\ Active(o) /\ Reached(o.copy, o, lis[n])
    BY <1>3, <2>2, <2>3 DEF CancelOK, Late, Active, Reached
  <2>5. /\ o.pc \notin {"touch", "unlink", "forget"} /\ o.copy = row' /\ o.all /\ o.pc \notin {"static", "dynamic"}
        /\ \A t \in Slots : o.copy.dyn[t] # Zero
    BY <1>1, <1>3, <1>4, <2>2
  <2>6. lis' = [lis EXCEPT ![n] = lis[n]]
    BY <1>5, <1>6
  <2>7. QED BY <1>1, <1>4, <1>5, <2>1, <2>4, <2>5, <2>6, PlainOne
<1>7. ASSUME op' = [op EXCEPT ![n].pc = "done"],
             lis' = [lis EXCEPT ![n] = Listen(op[n].copy)]
      PROVE  OneByOneInv'
  <2> DEFINE o == [op[n] EXCEPT !.pc = "done"]
             l == Listen(row)
  <2>1. op' = [op EXCEPT ![n] = o] /\ lis' = [lis EXCEPT ![n] = l]
    BY <1>4, <1>7
  <2>2. o.pc = "done"
    BY <1>3, Moved
  <2>3. l.pc = "check" /\ l.todo = {Own} \cup LinkedTo(row)
    BY <1>4, ListenerChecks
  <2> HIDE DEF o, l
  <2>4. ~Active(o) /\ CancelOK(o) /\ o.pc \notin Late /\ Listening(l) /\ Pends(l, Own)
    BY <2>2, <2>3 DEF Active, CancelOK, Late, Listening, Pends
  <2>5. Reached(row', NoOp, l)
    BY <1>1, <1>3, <1>4, <2>3, <2>4 DEF Reached, Pends
  <2>6. QED BY <1>1, <1>4, <1>5, <2>1, <2>2, <2>3, <2>4, <2>5, PlainOne
<1>8. QED BY <1>6, <1>7 DEF Loop

\* Operation n takes a registration or a goroutine away that its copy does not link.
LEMMA TakingAway ==
    ASSUME OneByOneInv, SubscriptionsInv', NEW n \in Ops, op[n].pc \in {"delete", "stop"},
           NEW o, op' = [op EXCEPT ![n] = o], o.pc \in {"stop", "loop", "save"}, o.copy = op[n].copy,
           o.all = op[n].all, o.pc = "save" => ~o.all,
           UNCHANGED <<row, stored, made, lis, leaked, crashed>>,
           CancelOK(op[n])',
           \A k \in LinkedTo(op[n].copy) : (~Cancelled(k))' /\ (reg[k] # 0 => reg'[k] # 0),
           OwnHeard => OwnHeard' \/ op[n].all
    PROVE  OneByOneInv'
<1>1. Active(op[n]) /\ op[n].pc \in Late /\ op[n].pc # "save"
  BY DEF Active, Late
<1>2. /\ Silent /\ OthersRest(n) /\ CopyOK(op[n])
      /\ \A k \in LinkedTo(op[n].copy) : reg[k] # 0 \/ op[n].all
      /\ stored => OwnHeard \/ op[n].all
  BY <1>1, StepFacts
<1>3. op'[n] = o /\ \A m \in Ops : m # n => op'[m] = op[m] /\ ~Active(op'[m])
  BY <1>2 DEF OneByOneInv, SubscriptionsInv, LinkTypes, OthersRest
<1>4. Active(o)
  BY DEF Active, Late
<1>5. OneAtWork'
  BY <1>2, <1>3 DEF OneAtWork, Silent
<1>6. stored /\ made
  BY <1>1, <1>2 DEF CopyOK
<1>7. MapsOK'
  BY <1>6 DEF OneByOneInv, MapsOK
<1>8. \A m \in Ops : (CopyOK(op[m]) /\ CancelOK(op[m]))'
  <2>1. CopyOK(op[n])'
    BY <1>1, <1>2, <1>3, <1>6 DEF CopyOK, Late
  <2>2. ASSUME NEW m \in Ops, m # n PROVE (CopyOK(op[m]) /\ CancelOK(op[m]))'
    BY <1>3, <2>2 DEF CopyOK, CancelOK, Active, Late
  <2>3. QED BY <2>1, <2>2
<1>9. Hears'
  <2>1. ASSUME NEW k \in LinkedTo(o.copy) PROVE (~Cancelled(k))' /\ (Heard(k)' \/ o.all)
    BY <1>2, <2>1 DEF Heard
  <2>2. LinksHeard(op[n].copy, op[n])'
    BY <1>3, <1>4, <2>1 DEF LinksHeard
  <2>3. ASSUME NEW m \in Ops, op'[m].pc \in Late PROVE m = n
    BY <1>3, <2>3 DEF Active, Late
  <2>4. OwnHeard' \/ \E m \in Ops : Active(op'[m]) /\ op'[m].all
    BY <1>2, <1>3, <1>4, <1>6
  <2>5. n \in Ops /\ op'[n].pc \in Late
    BY <1>3 DEF Late
  <2>6. QED BY <1>3, <2>2, <2>3, <2>4, <2>5 DEF Hears
<1>10. QED BY <1>5, <1>7, <1>8, <1>9 DEF OneByOneInv

LEMMA DeleteOne ==
    ASSUME OneByOneInv, SubscriptionsInv', NEW n \in Ops, Delete(n)
    PROVE  OneByOneInv'
<1> DEFINE o == [op[n] EXCEPT !.pc = "stop"]
<1>1. op[n].pc = "delete" /\ Active(op[n]) /\ op[n].pc \in Late
  BY DEF Delete, Active, Late
<1>2. op[n] \in Operation /\ CancelOK(op[n])
  BY <1>1, StepFacts
<1>3. /\ op' = [op EXCEPT ![n] = o] /\ reg' = [reg EXCEPT ![op[n].key] = 0]
      /\ UNCHANGED <<row, stored, made, sub, lis, leaked, crashed>>
  BY <1>1, <1>2 DEF Delete, CancelOK, dataVars
<1>4. /\ o.pc = "stop" /\ o.copy = op[n].copy /\ o.all = op[n].all /\ o.key = op[n].key
      /\ o.todo = op[n].todo
  BY <1>2, Moved
<1>5. op'[n] = o /\ reg \in [Keys -> Subs \cup {0}] /\ op[n].copy \in Links
  BY <1>2, <1>3, OperationFields DEF OneByOneInv, SubscriptionsInv, LinkTypes
<1> HIDE DEF o
<1>6. (\A k : Cancelled(k)' <=> Cancelled(k)) /\ (OwnHeard' <=> OwnHeard)
  BY <1>3 DEF Cancelled, OwnHeard, Pending
<1>7. CancelOK(op[n])'
  <2>1. op[n].key \in Keys
    BY <1>1, <1>2 DEF OneByOneInv, SubscriptionsInv, LinkTypes, Keyed, Operation
  <2>2. \A k \in Keys : reg'[k] = IF k = op[n].key THEN 0 ELSE reg[k]
    BY <1>3, <1>5
  <2>3. QED BY <1>1, <1>2, <1>4, <1>5, <1>6, <2>1, <2>2 DEF CancelOK, Registered
<1>8. op[n].key \notin LinkedTo(op[n].copy)
  BY <1>1, <1>2 DEF CancelOK
<1>9. \A k \in LinkedTo(op[n].copy) : (~Cancelled(k))' /\ (reg[k] # 0 => reg'[k] # 0)
  <2>1. \A k \in LinkedTo(op[n].copy) : k \in Keys /\ reg'[k] = reg[k]
    BY <1>3, <1>5, <1>8, LinkedTalkgroups DEF Keys
  <2>2. \A k \in LinkedTo(op[n].copy) : ~Cancelled(k)
    BY <1>1, StepFacts
  <2>3. QED BY <1>6, <2>1, <2>2
<1>10. QED BY <1>1, <1>3, <1>4, <1>6, <1>7, <1>9, TakingAway DEF Late

LEMMA StopOne ==
    ASSUME OneByOneInv, SubscriptionsInv', NEW n \in Ops, Stop(n)
    PROVE  OneByOneInv'
<1> DEFINE g == op[n].got
           c == AfterCancel(n)
           o == [op[n] EXCEPT !.pc = c]
<1>1. /\ op[n].pc = "stop" /\ op' = [op EXCEPT ![n] = o]
      /\ sub' = [sub EXCEPT ![g].state = IF @ = "gone" THEN @ ELSE "cancelled"]
      /\ UNCHANGED <<row, stored, made, reg, lis, leaked, crashed>>
  BY DEF Stop, dataVars
<1>2. Active(op[n]) /\ op[n].pc \in Late
  BY <1>1 DEF Active, Late
<1>3. op[n] \in Operation /\ CancelOK(op[n]) /\ Silent
      /\ \A k \in LinkedTo(op[n].copy) : ~Cancelled(k)
  BY <1>1, <1>2, StepFacts
<1>4. c = (IF op[n].all THEN "loop" ELSE "save") /\ op[n].all \in BOOLEAN
  BY <1>3 DEF AfterCancel, Operation
<1>5. /\ o.pc = c /\ o.copy = op[n].copy /\ o.all = op[n].all /\ o.key = op[n].key
      /\ o.todo = op[n].todo
  BY <1>3, Moved
<1>6. op'[n] = o
  BY <1>1 DEF OneByOneInv, SubscriptionsInv, LinkTypes
<1>7. g \in Subs /\ sub[g].key = op[n].key /\ sub \in [Subs -> Subscription]
  BY <1>1 DEF OneByOneInv, SubscriptionsInv, CancelsItsOwn, LinkTypes
<1>8. \A h \in Subs : /\ sub'[h].key = sub[h].key
                      /\ sub'[h].state = sub[h].state \/ h = g
  BY <1>1, <1>7 DEF Subscription
<1> HIDE DEF o, c, g
<1>9. \A k : Cancelled(k)' => Cancelled(k) \/ k = op[n].key
  BY <1>7, <1>8 DEF Cancelled
<1>10. op[n].key \notin LinkedTo(op[n].copy)
       /\ reg[op[n].key] = 0
       /\ IF op[n].all THEN \A k \in Registered : ~Cancelled(k) ELSE op[n].key # Own
  BY <1>1, <1>3 DEF CancelOK
<1>11. CancelOK(op[n])'
  BY <1>1, <1>4, <1>5, <1>6, <1>9, <1>10 DEF CancelOK, Registered
<1>12. \A k \in LinkedTo(op[n].copy) : (~Cancelled(k))'
  BY <1>3, <1>9, <1>10
<1>13. OwnHeard => OwnHeard' \/ op[n].all
  <2>1. ASSUME OwnHeard, ~op[n].all PROVE OwnHeard'
    <3>1. ~Pending(Own)
      BY <1>3 DEF Silent, Pending, Pends
    <3>2. PICK h \in Subs : sub[h].state = "running" /\ sub[h].key = Own
      BY <2>1, <3>1 DEF OwnHeard
    <3>3. h # g
      BY <1>7, <1>10, <2>1, <3>2
    <3>4. QED BY <1>8, <3>2, <3>3 DEF OwnHeard
  <2>2. QED BY <2>1
<1>14. o.pc \in {"loop", "save"} /\ (o.pc = "save" => ~o.all)
  BY <1>4, <1>5
<1>15. QED BY <1>1, <1>5, <1>11, <1>12, <1>13, <1>14, TakingAway

LEMMA StepOne ==
    ASSUME OneByOneInv, SubscriptionsInv', NEW n \in Ops, Step(n)
    PROVE  OneByOneInv'
BY TouchOne, SwitchOne, UnlinkCallOne, ReplaceStaticOne, ReplaceDynamicOne, SaveOne, ForgetOne,
   CancelOne, DeleteOne, StopOne, RangeOne, LoopOne DEF Step

----------------------------------------------------------------------------
(* The listeners and the subscriptions, one at a time. *)

\* Listener n goes on as l, of whose keys the maps get what it has done with.
LEMMA ListenOne ==
    ASSUME OneByOneInv, SubscriptionsInv', NEW n \in 0..MaxOps, Listening(lis[n]),
           NEW l, lis' = [lis EXCEPT ![n] = l],
           UNCHANGED <<row, stored, op, leaked, crashed>>, made => made',
           l.pc \in {"look", "register"} => made',
           l.pc = "make" => ~made',
           ~made' => \A k \in Keys : reg'[k] = 0,
           stored => made' \/ l.pc \in {"check", "make"},
           \A k : Cancelled(k)' => Cancelled(k),
           \A k \in LinkedTo(row) \cup UNION {LinkedTo(op[m].copy) : m \in Ops} :
              (reg[k] # 0 => reg'[k] # 0) /\ (Pends(lis[n], k) => reg'[k] # 0 \/ Pends(l, k)),
           OwnHeard => Pends(l, Own) \/ \E g \in Subs : sub'[g].state = "running" /\ sub'[g].key = Own
    PROVE  OneByOneInv'
<1>1. lis'[n] = l /\ \A m \in 0..MaxOps : m # n => lis'[m] = lis[m] /\ ~Listening(lis[m])
  BY DEF OneByOneInv, SubscriptionsInv, LinkTypes, OneAtWork
<1>2. OneAtWork'
  BY <1>1 DEF OneByOneInv, OneAtWork
<1>3. \A m \in Ops : Active(op[m]) => op[m].pc = "save" /\ ~op[m].all
  BY DEF OneByOneInv, OneAtWork
<1>4. MapsOK'
  <2>1. \A m \in 0..MaxOps : /\ lis'[m].pc \in {"look", "register"} => made'
                             /\ lis'[m].pc = "make" => ~made'
    BY <1>1 DEF Listening
  <2>2. stored => made' \/ \E m \in 0..MaxOps : lis'[m].pc \in {"check", "make"}
    BY <1>1
  <2>3. QED BY <2>1, <2>2 DEF OneByOneInv, MapsOK
<1>5. \A m \in Ops : (CopyOK(op[m]) /\ CancelOK(op[m]))'
  <2> SUFFICES ASSUME NEW m \in Ops PROVE (CopyOK(op[m]) /\ CancelOK(op[m]))'
    OBVIOUS
  <2>1. CopyOK(op[m])'
    BY DEF OneByOneInv, CopyOK
  <2>2. op[m].pc \in {"idle", "done"} \/ (op[m].pc = "save" /\ ~op[m].all)
    BY <1>3 DEF Active
  <2>3. CancelOK(op[m])'
    BY <2>2 DEF CancelOK
  <2>4. QED BY <2>1, <2>3
<1>6. \A k : (Pending(k) <=> Pends(lis[n], k)) /\ (Pends(l, k) => Pending(k)')
  <2>1. \A k, m : m \in 0..MaxOps /\ m # n => ~Pends(lis[m], k)
    BY <1>1 DEF Pends
  <2>2. QED BY <1>1, <2>1 DEF Pending
<1>7. ASSUME NEW r, LinkedTo(r) \subseteq LinkedTo(row) \cup UNION {LinkedTo(op[m].copy) : m \in Ops},
             NEW o, LinksHeard(r, o)
      PROVE  \A k \in LinkedTo(r) : (~Cancelled(k))' /\ (Heard(k)' \/ (Active(o) /\ o.all))
  BY <1>6, <1>7 DEF LinksHeard, Heard
<1>8. Hears'
  <2>1. ASSUME NEW m \in Ops, op[m].pc \in Late PROVE LinksHeard(op[m].copy, op[m])'
    <3>1. LinksHeard(op[m].copy, op[m])
      BY <2>1 DEF OneByOneInv, Hears
    <3>2. LinkedTo(op[m].copy) \subseteq UNION {LinkedTo(op[j].copy) : j \in Ops}
      OBVIOUS
    <3>3. QED BY <1>7, <3>1, <3>2 DEF LinksHeard
  <2>2. ASSUME \A m \in Ops : op[m].pc \notin Late PROVE LinksHeard(row, NoOp)'
    <3>1. LinksHeard(row, NoOp)
      BY <2>2 DEF OneByOneInv, Hears
    <3>2. QED BY <1>7, <3>1 DEF LinksHeard
  <2>3. OwnHeard => OwnHeard'
    BY <1>6 DEF OwnHeard
  <2>4. stored' => OwnHeard' \/ \E m \in Ops : Active(op'[m]) /\ op'[m].all
    BY <2>3 DEF OneByOneInv, Hears
  <2>5. QED BY <2>1, <2>2, <2>4 DEF Hears
<1>9. QED BY <1>2, <1>4, <1>5, <1>8 DEF OneByOneInv

\* The links that somebody may wait for are keys.
LEMMA LinksAreKeys ==
    ASSUME OneByOneInv
    PROVE  /\ LinkedTo(row) \cup UNION {LinkedTo(op[m].copy) : m \in Ops} \subseteq Keys
           /\ lis \in [0..MaxOps -> Listener] /\ sub \in [Subs -> Subscription]
           /\ reg \in [Keys -> Subs \cup {0}]
<1>1. row \in Links /\ \A m \in Ops : op[m].copy \in Links
  BY OperationFields DEF OneByOneInv, SubscriptionsInv, LinkTypes
<1>2. \A r \in Links : LinkedTo(r) \subseteq Keys
  BY LinkedTalkgroups DEF Keys
<1>3. QED BY <1>1, <1>2 DEF OneByOneInv, SubscriptionsInv, LinkTypes

LEMMA CheckOne ==
    ASSUME OneByOneInv, SubscriptionsInv', NEW n \in 0..MaxOps, Check(n)
    PROVE  OneByOneInv'
<1> DEFINE c == IF made THEN "look" ELSE "make"
           l == [lis[n] EXCEPT !.pc = c]
<1>1. /\ lis[n].pc = "check" /\ lis' = [lis EXCEPT ![n] = l]
      /\ UNCHANGED <<row, stored, made, reg, sub, op, leaked, crashed>>
  BY DEF Check, dataVars
<1>2. l.pc = c /\ l.todo = lis[n].todo
  BY LinksAreKeys DEF Listener
<1> HIDE DEF l
<1>3. Listening(lis[n]) /\ \A k : Pends(lis[n], k) => Pends(l, k)
  BY <1>1, <1>2 DEF Listening, Pends
<1>4. ~made => \A k \in Keys : reg[k] = 0
  BY DEF OneByOneInv, MapsOK
<1>5. /\ \A k : Cancelled(k)' => Cancelled(k)
      /\ OwnHeard => Pends(l, Own) \/ \E g \in Subs : sub'[g].state = "running" /\ sub'[g].key = Own
  <2>1. Pending(Own) => Pends(lis[n], Own)
    BY <1>3 DEF OneByOneInv, OneAtWork, Pending, Pends
  <2>2. QED BY <1>1, <1>3, <2>1 DEF Cancelled, OwnHeard
<1>6. l.pc \in {"look", "register"} => made'
  BY <1>1, <1>2
<1>7. (l.pc = "make" => ~made') /\ (stored => made' \/ l.pc \in {"check", "make"})
  BY <1>1, <1>2
<1>8. QED BY <1>1, <1>3, <1>4, <1>5, <1>6, <1>7, ListenOne

LEMMA MakeOne ==
    ASSUME OneByOneInv, SubscriptionsInv', NEW n \in 0..MaxOps, Make(n)
    PROVE  OneByOneInv'
<1> DEFINE l == [lis[n] EXCEPT !.pc = "look"]
<1>1. /\ lis[n].pc = "make" /\ lis' = [lis EXCEPT ![n] = l] /\ made' = TRUE
      /\ UNCHANGED <<row, stored, sub, op, leaked, crashed>>
  BY DEF Make, dataVars
<1>2. l.pc = "look" /\ l.todo = lis[n].todo
  BY LinksAreKeys DEF Listener
<1> HIDE DEF l
<1>3. Listening(lis[n]) /\ \A k : Pends(lis[n], k) => Pends(l, k)
  BY <1>1, <1>2 DEF Listening, Pends
<1>4. \A k \in Keys : reg[k] = 0
  BY <1>1 DEF OneByOneInv, MapsOK
<1>5. /\ \A k : Cancelled(k)' => Cancelled(k)
      /\ OwnHeard => Pends(l, Own) \/ \E g \in Subs : sub'[g].state = "running" /\ sub'[g].key = Own
  <2>1. Pending(Own) => Pends(lis[n], Own)
    BY <1>3 DEF OneByOneInv, OneAtWork, Pending, Pends
  <2>2. QED BY <1>1, <1>3, <2>1 DEF Cancelled, OwnHeard
<1>6. \A k \in LinkedTo(row) \cup UNION {LinkedTo(op[m].copy) : m \in Ops} :
         (reg[k] # 0 => reg'[k] # 0) /\ (Pends(lis[n], k) => reg'[k] # 0 \/ Pends(l, k))
  BY <1>3, <1>4, LinksAreKeys
<1>7. QED BY <1>1, <1>2, <1>3, <1>5, <1>6, ListenOne

LEMMA LookOne ==
    ASSUME OneByOneInv, SubscriptionsInv', NEW n \in 0..MaxOps, Look(n)
    PROVE  OneByOneInv'
<1>1. lis[n].pc = "look" /\ UNCHANGED <<row, stored, made, reg, sub, op, leaked, crashed>>
  BY DEF Look, dataVars
<1>2. made /\ Listening(lis[n]) /\ lis[n] \in Listener
  BY <1>1, LinksAreKeys DEF OneByOneInv, MapsOK, Listening
<1>3. (\A k : Cancelled(k)' => Cancelled(k)) /\ (Pending(Own) => Pends(lis[n], Own))
  BY <1>1, <1>2 DEF Cancelled, OneByOneInv, OneAtWork, Pending, Pends
<1>4. reg[Own] # 0 => \E g \in Subs : sub[g].state = "running" /\ sub[g].key = Own
  <2>1. Own \in Keys /\ reg[Own] \in Subs \cup {0} /\ Begun(Own) = "running"
    BY LinksAreKeys DEF Keys, Begun, Own, Zero
  <2>2. QED BY <2>1 DEF OneByOneInv, SubscriptionsInv, RegisteredIsLive, Registered
<1>5. ASSUME NEW l, lis' = [lis EXCEPT ![n] = l], l.pc \in {"look", "register", "done"},
             \A k : Pends(lis[n], k) => reg[k] # 0 \/ Pends(l, k)
      PROVE  OneByOneInv'
  <2>1. OwnHeard => Pends(l, Own) \/ \E g \in Subs : sub'[g].state = "running" /\ sub'[g].key = Own
    BY <1>1, <1>3, <1>4, <1>5 DEF OwnHeard
  <2>2. made' /\ l.pc # "make"
    BY <1>1, <1>2, <1>5
  <2>3. QED BY <1>1, <1>2, <1>3, <1>5, <2>1, <2>2, ListenOne
<1>6. CASE lis[n].todo = {}
  <2> DEFINE l == [lis[n] EXCEPT !.pc = "done"]
  <2>1. lis' = [lis EXCEPT ![n] = l] /\ l.pc = "done"
    BY <1>2, <1>6 DEF Look, Listener
  <2>2. \A k : ~Pends(lis[n], k)
    BY <1>1, <1>6 DEF Pends
  <2> HIDE DEF l
  <2>3. QED BY <1>5, <2>1, <2>2
<1>7. CASE lis[n].todo # {}
  <2>1. PICK k \in lis[n].todo :
            lis' = [lis EXCEPT ![n].todo = @ \ {k}, ![n].key = k,
                               ![n].pc = IF reg[k] = 0 THEN "register" ELSE "look"]
    BY <1>7 DEF Look
  <2> DEFINE c == IF reg[k] = 0 THEN "register" ELSE "look"
             T == lis[n].todo \ {k}
             l == [lis[n] EXCEPT !.todo = T, !.key = k, !.pc = c]
  <2>2. lis' = [lis EXCEPT ![n] = l]
    BY <2>1
  <2>3. l.pc = c /\ l.key = k /\ l.todo = T
    BY <1>2 DEF Listener
  <2> HIDE DEF l
  <2>4. \A j : Pends(lis[n], j) => reg[j] # 0 \/ Pends(l, j)
    BY <1>1, <2>3 DEF Pends, Listening
  <2>5. l.pc \in {"look", "register", "done"}
    BY <2>3
  <2>6. QED BY <1>5, <2>2, <2>4, <2>5
<1>8. QED BY <1>6, <1>7

LEMMA RegisterOne ==
    ASSUME OneByOneInv, SubscriptionsInv', NEW n \in 0..MaxOps, Register(n)
    PROVE  OneByOneInv'
<1> DEFINE k == lis[n].key
           l == [lis[n] EXCEPT !.pc = "look"]
<1>1. lis[n].pc = "register" /\ UNCHANGED <<row, stored, made, op, leaked>>
  BY DEF Register, dataVars
<1>2. made /\ Listening(lis[n]) /\ lis[n] \in Listener /\ k \in Keys
  BY <1>1, LinksAreKeys DEF OneByOneInv, MapsOK, Listening, Listener
<1>3. /\ lis' = [lis EXCEPT ![n] = l] /\ UNCHANGED crashed
      /\ \E g \in Subs : /\ sub[g].state = "none" /\ sub' = [sub EXCEPT ![g] = Started(lis[n])]
                         /\ reg' = [reg EXCEPT ![k] = g]
  BY <1>1, <1>2 DEF Register
<1>4. PICK g \in Subs : /\ sub[g].state = "none" /\ sub' = [sub EXCEPT ![g] = Started(lis[n])]
                        /\ reg' = [reg EXCEPT ![k] = g]
  BY <1>3
<1>5. l.pc = "look" /\ l.todo = lis[n].todo
  BY <1>2 DEF Listener
<1>6. /\ \A h \in Subs : h # g => sub'[h] = sub[h]
      /\ sub'[g].state = Begun(k) /\ sub'[g].key = k
  BY <1>4, LinksAreKeys DEF Started
<1>7. /\ \A j \in Keys : reg'[j] = IF j = k THEN g ELSE reg[j]
      /\ g # 0
  BY <1>2, <1>4, LinksAreKeys DEF Subs
<1> HIDE DEF l, k
<1>8. \A j : Cancelled(j)' => Cancelled(j)
  BY <1>6 DEF Cancelled, Begun
<1>9. \A j : Pends(lis[n], j) => j = k \/ Pends(l, j)
  BY <1>1, <1>5 DEF Pends, Listening, k
<1>10. OwnHeard => Pends(l, Own) \/ \E h \in Subs : sub'[h].state = "running" /\ sub'[h].key = Own
  <2>1. Pending(Own) => Pends(lis[n], Own)
    BY <1>2 DEF OneByOneInv, OneAtWork, Pending, Pends
  <2>2. k = Own => sub'[g].state = "running" /\ sub'[g].key = Own
    BY <1>6 DEF Begun, Own, Zero
  <2>3. (\E h \in Subs : sub[h].state = "running" /\ sub[h].key = Own)
           => \E h \in Subs : sub'[h].state = "running" /\ sub'[h].key = Own
    BY <1>4, <1>6
  <2>4. QED BY <1>9, <2>1, <2>2, <2>3 DEF OwnHeard
<1>11. \A j \in LinkedTo(row) \cup UNION {LinkedTo(op[m].copy) : m \in Ops} :
         (reg[j] # 0 => reg'[j] # 0) /\ (Pends(lis[n], j) => reg'[j] # 0 \/ Pends(l, j))
  BY <1>7, <1>9, LinksAreKeys
<1>12. made' /\ l.pc # "make"
  BY <1>1, <1>2, <1>5
<1>13. QED BY <1>1, <1>2, <1>3, <1>5, <1>8, <1>10, <1>11, <1>12, ListenOne

\* A cancelled goroutine takes away the registration of its own key only, which nobody
\* links any more and no operation is about to cancel.
LEMMA CleanupOne ==
    ASSUME OneByOneInv, SubscriptionsInv', NEW g \in Subs, Cleanup(g)
    PROVE  OneByOneInv'
<1> DEFINE k == sub[g].key
<1>1. /\ sub[g].state = "cancelled" /\ reg' = [reg EXCEPT ![k] = 0]
      /\ sub' = [sub EXCEPT ![g].state = "gone"]
      /\ UNCHANGED <<row, stored, made, op, lis, leaked, crashed>>
  BY DEF Cleanup, dataVars
<1>2. k \in Keys /\ Cancelled(k)
  BY <1>1, LinksAreKeys DEF Subscription, Cancelled
<1>3. \A h \in Subs : /\ sub'[h].key = sub[h].key
                      /\ sub'[h].state = IF h = g THEN "gone" ELSE sub[h].state
  BY <1>1, LinksAreKeys DEF Subscription
<1>4. \A j \in Keys : reg'[j] = IF j = k THEN 0 ELSE reg[j]
  BY <1>1, <1>2, LinksAreKeys
<1> HIDE DEF k
<1>5. \A j : Cancelled(j)' => Cancelled(j)
  BY <1>3 DEF Cancelled
<1>6. \A j \in Keys : ~Cancelled(j) => (Heard(j) => Heard(j)')
  BY <1>1, <1>2, <1>4 DEF Heard, Pending
<1>7. OwnHeard => OwnHeard'
  BY <1>1, <1>3 DEF OwnHeard, Pending
<1>8. OneAtWork' /\ MapsOK'
  BY <1>1, <1>4 DEF OneByOneInv, OneAtWork, MapsOK
<1>9. ASSUME NEW m \in Ops PROVE (CopyOK(op[m]) /\ CancelOK(op[m]))'
  <2>1. CopyOK(op[m])'
    BY <1>1 DEF OneByOneInv, CopyOK
  <2>2. CancelOK(op[m]) /\ (op[m].pc \in {"cancel", "delete", "stop"} => op[m].key \in Keys)
    BY DEF OneByOneInv, SubscriptionsInv, LinkTypes, Keyed, Operation
  <2>3. CancelOK(op[m])'
    BY <1>1, <1>2, <1>4, <1>5, <2>2 DEF CancelOK, Registered
  <2>4. QED BY <2>1, <2>3
<1>10. ASSUME NEW r, LinkedTo(r) \subseteq Keys, NEW o, LinksHeard(r, o)
       PROVE  \A j \in LinkedTo(r) : (~Cancelled(j))' /\ (Heard(j)' \/ (Active(o) /\ o.all))
  BY <1>5, <1>6, <1>10 DEF LinksHeard
<1>11. Hears'
  <2>1. ASSUME NEW m \in Ops, op[m].pc \in Late PROVE LinksHeard(op[m].copy, op[m])'
    <3>1. LinksHeard(op[m].copy, op[m]) /\ LinkedTo(op[m].copy) \subseteq Keys
      BY <2>1, LinksAreKeys DEF OneByOneInv, Hears
    <3>2. QED BY <1>1, <1>10, <3>1 DEF LinksHeard
  <2>2. ASSUME \A m \in Ops : op[m].pc \notin Late PROVE LinksHeard(row, NoOp)'
    <3>1. LinksHeard(row, NoOp) /\ LinkedTo(row) \subseteq Keys
      BY <2>2, LinksAreKeys DEF OneByOneInv, Hears
    <3>2. QED BY <1>1, <1>10, <3>1 DEF LinksHeard
  <2>3. stored' => OwnHeard' \/ \E m \in Ops : Active(op'[m]) /\ op'[m].all
    BY <1>1, <1>7 DEF OneByOneInv, Hears
  <2>4. QED BY <1>1, <2>1, <2>2, <2>3 DEF Hears
<1>12. QED BY <1>8, <1>9, <1>11 DEF OneByOneInv

----------------------------------------------------------------------------
(* Theorems about the time until an operation overlaps another. *)

LEMMA InitOneByOne == Init => OneByOneInv
<1> SUFFICES ASSUME Init PROVE OneByOneInv
  OBVIOUS
<1>1. SubscriptionsInv
  BY InitInvariant
<1>2. row \in Links /\ NoLis.pc = "idle" /\ NoOp.pc = "idle" /\ NoSub.state = "none"
  BY <1>1 DEF SubscriptionsInv, LinkTypes, NoLis, NoOp, NoSub
<1>3. /\ stored \in BOOLEAN /\ ~made /\ ~crashed /\ leaked = "no"
      /\ \A k \in Keys : reg[k] = 0
      /\ \A g \in Subs : sub[g].state = "none"
      /\ \A n \in Ops : op[n].pc = "idle"
      /\ ~stored => row = NoLinks
      /\ stored => row \in Start
  BY <1>2 DEF Init
<1>4. 0 \in 0..MaxOps
  BY SubscriptionsAssumption
<1>5. /\ \A m \in 0..MaxOps : Listening(lis[m]) => m = 0 /\ stored
      /\ \A m \in 0..MaxOps : lis[m].pc \in {"idle", "check"}
      /\ stored => lis[0].pc = "check" /\ lis[0].todo = {Own} \cup LinkedTo(row)
  BY <1>2, <1>4, ListenerChecks DEF Init, Listening
<1>6. OneAtWork
  BY <1>3, <1>5 DEF OneAtWork, Active
<1>7. \A s \in Slots : row.dyn[s] # Zero
  BY <1>3, LinksAssumption DEF NoLinks, None, Zero
<1>8. MapsOK
  BY <1>3, <1>4, <1>5, <1>7 DEF MapsOK
<1>9. \A k : ~Cancelled(k)
  BY <1>3 DEF Cancelled
<1>10. stored => \A k \in {Own} \cup LinkedTo(row) : Pending(k)
  BY <1>4, <1>5 DEF Pending, Pends, Listening
<1>11. LinksHeard(row, NoOp)
  BY <1>3, <1>9, <1>10, NothingLinked DEF LinksHeard, Heard
<1>12. Hears
  BY <1>3, <1>10, <1>11 DEF Hears, Late, OwnHeard
<1>13. \A n \in Ops : CopyOK(op[n]) /\ CancelOK(op[n])
  BY <1>3 DEF CopyOK, CancelOK, Active, Late
<1>14. QED BY <1>1, <1>6, <1>8, <1>12, <1>13 DEF OneByOneInv

\* As long as every operation has found the others settled.
UntilOverlap == overlaps = 0 => OneByOneInv

LEMMA NextOneByOne ==
    SubscriptionsInv /\ DataTypes /\ UntilOverlap /\ [Next]_vars => UntilOverlap'
<1> SUFFICES ASSUME SubscriptionsInv, DataTypes, overlaps = 0 => OneByOneInv, [Next]_vars,
                    overlaps' = 0
             PROVE  OneByOneInv'
  BY DEF UntilOverlap
<1>0. overlaps = 0 /\ OneByOneInv /\ (Overlap => Settled)
  BY SubscriptionsAssumption DEF DataTypes, Next, Overlap, vars
<1>1. SubscriptionsInv'
  BY NextInvariant
<1>2. CASE UNCHANGED vars
  <2>1. /\ \A k : (Heard(k)' <=> Heard(k)) /\ (Cancelled(k)' <=> Cancelled(k))
        /\ OwnHeard' <=> OwnHeard
    BY <1>0, <1>2 DEF vars, Heard, Pending, Cancelled, OwnHeard
  <2>2. \A r, o : LinksHeard(r, o)' <=> LinksHeard(r, o)
    BY <2>1 DEF LinksHeard
  <2>3. Hears'
    BY <1>0, <1>2, <2>1, <2>2 DEF vars, dataVars, OneByOneInv, Hears, LinksHeard
  <2>4. \A m \in Ops : (CopyOK(op[m]) /\ CancelOK(op[m]))'
    BY <1>0, <1>2, <2>1 DEF vars, dataVars, OneByOneInv, CopyOK, CancelOK, Registered
  <2>5. OneAtWork' /\ MapsOK'
    BY <1>0, <1>2 DEF vars, dataVars, OneByOneInv, OneAtWork, MapsOK
  <2>6. QED BY <1>1, <2>3, <2>4, <2>5 DEF OneByOneInv
<1>3. ASSUME NEW n \in Ops, Request(n) /\ Overlap PROVE OneByOneInv'
  BY <1>0, <1>1, <1>3, RequestOne
<1>4. ASSUME NEW n \in Ops, Step(n) PROVE OneByOneInv'
  BY <1>0, <1>1, <1>4, StepOne
<1>5. DOMAIN lis = 0..MaxOps
  BY <1>0, LinksAreKeys
<1>6. ASSUME NEW n \in 0..MaxOps, Subscribe(n) PROVE OneByOneInv'
  BY <1>0, <1>1, <1>6, CheckOne, MakeOne, LookOne, RegisterOne DEF Subscribe
<1>7. ASSUME NEW g \in Subs, Cleanup(g) PROVE OneByOneInv'
  BY <1>0, <1>1, <1>7, CleanupOne
<1>8. QED BY <1>2, <1>3, <1>4, <1>5, <1>6, <1>7 DEF Next, Continue

\* What holds until an operation overlaps another.
THEOREM OneByOneInvariant == Spec => []UntilOverlap
<1>1. Init => UntilOverlap
  BY InitOneByOne DEF UntilOverlap
<1>2. TypeOK => DataTypes
  BY DEF TypeOK
<1>3. QED BY <1>1, <1>2, NextOneByOne, SubscriptionsInvariant, SubscriptionTypes, PTL DEF Spec

\* However many operations, deletions and registrations anew follow one another: as long
\* as none has started before the one before it had settled, none of them finds a
\* talkgroup unregistered that it cancels, or a repeater without its maps.  A panic in the
\* life of the server needs two that overlap.
THEOREM PanicsNeedOverlap == Spec => []PanicNeedsOverlap
<1>1. UntilOverlap /\ DataTypes => PanicNeedsOverlap
  BY SubscriptionsAssumption DEF UntilOverlap, OneByOneInv, MapsOK, DataTypes, PanicNeedsOverlap
<1>2. TypeOK => DataTypes
  BY DEF TypeOK
<1>3. QED BY <1>1, <1>2, OneByOneInvariant, SubscriptionTypes, PTL

\* In the same circumstances, whenever the operations have settled a repeater hears
\* every talkgroup that it links, and its own ID.
THEOREM LinkedAreHeard == Spec => []LinkedIsHeard
<1>1. ASSUME OneByOneInv, Settled, stored, NEW k \in {Own} \cup LinkedTo(row)
      PROVE  Audible(k)
  <2>1. CASE k = Own
    <3>1. OwnHeard /\ ~Pending(Own)
      BY <1>1, NobodyWorks DEF Silent, Pending, Pends
    <3>2. QED BY <2>1, <3>1 DEF OwnHeard, Audible
  <2>2. CASE k \in LinkedTo(row)
    <3>1. reg[k] # 0 /\ k \in Keys /\ reg[k] \in Subs
      BY <1>1, <2>2, NobodyWorks, LinksAreKeys
    <3>2. k # Zero
      <4>1. row \in Links /\ \A s \in Slots : row.dyn[s] # Zero
        BY <1>1, NobodyWorks
      <4>2. QED BY <2>2, <4>1, InLinks, SubscriptionsAssumption DEF Links
    <3>3. sub[reg[k]].state = Begun(k) /\ sub[reg[k]].key = k
      BY <1>1, <3>1 DEF OneByOneInv, SubscriptionsInv, RegisteredIsLive, Registered
    <3>4. QED BY <3>1, <3>2, <3>3 DEF Begun, Audible
  <2>3. QED BY <2>1, <2>2
<1>2. UntilOverlap => LinkedIsHeard
  BY <1>1 DEF UntilOverlap, LinkedIsHeard
<1>3. QED BY <1>2, OneByOneInvariant, PTL
=============================================================================
