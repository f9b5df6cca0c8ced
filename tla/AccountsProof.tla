----------------------------- MODULE AccountsProof -----------------------------
(***************************************************************************)
(* For any members and any number of requests under way at once: whatever  *)
(* stale copies are saved, nobody has a right that was never granted, and  *)
(* the system's own users keep theirs.                                     *)
(***************************************************************************)
EXTENDS Accounts, TLAPS

----------------------------------------------------------------------------
(* The data. *)

\* What a handler assigns to an acceptable row makes a good copy.
LEMMA AssignedGood ==
    ASSUME TypeOK, NEW u \in Users, NEW what \in Requests \ {"delete"}, NEW r \in Account,
           Sane(r), Kept(u, r), Founded(u, r), Accepts(what, u, r),
           what = "demote" => u # Super,
           NEW q, q.what = what, q.on = u, q.copy = Assigned(what, r)
    PROVE  q.copy \in Account /\ GoodCopy(q)
<1>1. CASE what = "promote"
  <2>1. q.copy = [r EXCEPT !.admin = TRUE] /\ u # Parrot /\ r.approved
    BY <1>1 DEF Assigned, Accepts, MayPromote
  <2>2. /\ q.copy \in Account /\ q.copy.admin
        /\ q.copy.approved = r.approved /\ q.copy.suspended = r.suspended
    BY <2>1 DEF Account
  <2>3. QED BY <1>1, <2>1, <2>2 DEF GoodCopy, Sane, Kept, Founded, System
<1>2. CASE what = "demote"
  <2>1. q.copy = [r EXCEPT !.admin = FALSE] /\ u # Super
    BY <1>2 DEF Assigned
  <2>2. /\ q.copy \in Account /\ ~q.copy.admin
        /\ q.copy.approved = r.approved /\ q.copy.suspended = r.suspended
    BY <2>1 DEF Account
  <2>3. QED BY <1>2, <2>1, <2>2 DEF GoodCopy, Sane, Kept, Founded, System
<1>3. CASE what = "approve"
  <2>1. q.copy = [r EXCEPT !.approved = TRUE]
    BY <1>3 DEF Assigned
  <2>2. /\ q.copy \in Account /\ q.copy.approved
        /\ q.copy.admin = r.admin /\ q.copy.suspended = r.suspended
    BY <2>1 DEF Account
  <2>3. QED BY <1>3, <2>2 DEF GoodCopy, Sane, Kept, Founded
<1>4. CASE what = "suspend"
  <2>1. q.copy = [r EXCEPT !.suspended = TRUE] /\ u \notin System
    BY <1>4 DEF Assigned, Accepts, MaySuspend
  <2>2. /\ q.copy \in Account /\ q.copy.suspended
        /\ q.copy.admin = r.admin /\ q.copy.approved = r.approved
    BY <2>1 DEF Account
  <2>3. QED BY <1>4, <2>1, <2>2 DEF GoodCopy, Sane, Kept, Founded
<1>5. CASE what = "unsuspend"
  <2>1. q.copy = [r EXCEPT !.suspended = FALSE]
    BY <1>5 DEF Assigned
  <2>2. /\ q.copy \in Account /\ ~q.copy.suspended
        /\ q.copy.admin = r.admin /\ q.copy.approved = r.approved
    BY <2>1 DEF Account
  <2>3. QED BY <1>5, <2>2 DEF GoodCopy, Sane, Kept, Founded
<1>6. CASE what = "patch"
  <2>1. q.copy = r
    BY <1>6 DEF Assigned
  <2>2. QED BY <1>6, <2>1 DEF GoodCopy, Sane, Kept, Founded
<1>7. QED BY <1>1, <1>2, <1>3, <1>4, <1>5, <1>6 DEF Requests, BySuper, ByAdmin

\* A good copy is a good row once its request counts as granted.
LEMMA GoodCopyIsFounded ==
    ASSUME TypeOK, NEW q, q.on \in Users, q.what \in Requests, GoodCopy(q),
           granted' = [granted EXCEPT ![q.what] = @ \cup {q.on}]
    PROVE  Founded(q.on, q.copy)'
<1>1. \A f \in Requests : granted[f] \subseteq granted'[f]
  BY DEF TypeOK
<1>2. q.on \in granted'[q.what]
  BY DEF TypeOK
<1>3. {"promote", "approve", "suspend"} \subseteq Requests
  BY DEF Requests, BySuper, ByAdmin
<1>4. QED BY <1>1, <1>2, <1>3 DEF GoodCopy, Founded

\* A new row has no rights.
LEMMA NewIsGood ==
    ASSUME NEW u \in Members
    PROVE  New \in Account /\ Founded(u, New) /\ Sane(New) /\ Kept(u, New)
<1>1. u \notin System
  BY AccountsAssumption DEF System
<1>2. QED BY <1>1 DEF New, Account, Founded, Sane, Kept

\* A goroutine without a request holds nothing.
LEMMA NoReqIsGood == NoReq \in Request /\ NoReq.pc = "idle"
BY DEF NoReq, Request, Requests, BySuper, Users, System, New, Account

----------------------------------------------------------------------------
(* The steps. *)

\* A step that changes one request and nothing else but the count.
LEMMA RequestStep ==
    ASSUME AccountsInv, NEW p \in Procs, NEW new \in Request,
           req' = [req EXCEPT ![p] = new], begun' \in 0..MaxRequests,
           UNCHANGED <<row, session, granted>>,
           new.pc = "save" => GoodCopy(new),
           new.pc # "idle" /\ new.what \in ByAdmin => new.by \in {Super} \cup granted["promote"],
           new.pc # "idle" /\ new.what = "demote" => new.on # Super
    PROVE  AccountsInv'
<1>1. \A m \in Procs : req'[m] = IF m = p THEN new ELSE req[m]
  BY DEF AccountsInv, TypeOK
<1>2. TypeOK'
  BY DEF AccountsInv, TypeOK
<1>3. RightsAreGranted' /\ AdminsAreApproved' /\ SystemUsersKept'
  BY DEF AccountsInv, RightsAreGranted, AdminsAreApproved, SystemUsersKept, Exists, Founded,
         Sane, Kept
<1>4. AuthorityIsGranted'
  BY <1>1 DEF AccountsInv, AuthorityIsGranted
<1>5. CopiesAreGood'
  <2> SUFFICES ASSUME NEW m \in Procs, req'[m].pc = "save"
               PROVE  GoodCopy(req[m])'
    BY DEF CopiesAreGood
  <2>1. CASE m = p
    BY <1>1, <2>1 DEF GoodCopy, Sane, Kept
  <2>2. CASE m # p
    BY <1>1, <2>2 DEF AccountsInv, CopiesAreGood, GoodCopy, Sane, Kept
  <2>3. QED BY <2>1, <2>2
<1>6. DemotesOthers'
  BY <1>1 DEF AccountsInv, DemotesOthers
<1>7. QED BY <1>2, <1>3, <1>4, <1>5, <1>6 DEF AccountsInv

\* A step that writes one row, which its request may have been granted.
LEMMA RowStep ==
    ASSUME AccountsInv, NEW u \in Users, NEW r \in Account \cup {Absent},
           row' = [row EXCEPT ![u] = r], session' = session, begun' \in 0..MaxRequests,
           r # Absent => Founded(u, r)' /\ Sane(r) /\ Kept(u, r),
           granted' \in [Requests -> SUBSET Users],
           \A f \in Requests : granted[f] \subseteq granted'[f],
           granted'["promote"] \subseteq System \cup granted'["approve"],
           req' \in [Procs -> Request],
           \A p \in Procs : req'[p] = req[p] \/ req'[p].pc = "idle"
    PROVE  AccountsInv'
<1>1. {"promote", "approve", "suspend"} \subseteq Requests
  BY DEF Requests, BySuper, ByAdmin
<1>2. \A v \in Users : row'[v] = IF v = u THEN r ELSE row[v]
  BY DEF AccountsInv, TypeOK
<1>3. TypeOK'
  BY DEF AccountsInv, TypeOK
<1>4. ASSUME NEW v \in Users, Exists(v)'
      PROVE  Founded(v, row[v])' /\ Sane(row[v])'
  <2>1. CASE v = u
    BY <1>2, <1>4, <2>1 DEF Exists, Founded, Sane
  <2>2. CASE v # u
    <3>1. row'[v] = row[v] /\ Founded(v, row[v]) /\ Sane(row[v])
      BY <1>2, <1>4, <2>2 DEF AccountsInv, RightsAreGranted, AdminsAreApproved, Exists
    <3>2. QED BY <1>1, <3>1 DEF Founded, Sane
  <2>3. QED BY <2>1, <2>2
<1>5. RightsAreGranted' /\ AdminsAreApproved'
  BY <1>4 DEF RightsAreGranted, AdminsAreApproved
<1>6. SystemUsersKept'
  <2> SUFFICES ASSUME NEW v \in System, Exists(v)'
               PROVE  Kept(v, row[v])'
    BY DEF SystemUsersKept
  <2>1. v \in Users
    BY DEF Users
  <2>2. CASE v = u
    BY <1>2, <2>1, <2>2 DEF Exists, Kept
  <2>3. CASE v # u
    BY <1>2, <2>1, <2>3 DEF AccountsInv, SystemUsersKept, Exists, Kept
  <2>4. QED BY <2>2, <2>3
<1>7. AuthorityIsGranted'
  BY <1>1 DEF AccountsInv, AuthorityIsGranted
<1>8. CopiesAreGood'
  <2> SUFFICES ASSUME NEW m \in Procs, req'[m].pc = "save"
               PROVE  GoodCopy(req[m])'
    BY DEF CopiesAreGood
  <2>1. req'[m] = req[m] /\ GoodCopy(req[m])
    BY DEF AccountsInv, CopiesAreGood
  <2>2. QED BY <1>1, <2>1 DEF GoodCopy, Sane, Kept
<1>9. DemotesOthers'
  BY DEF AccountsInv, DemotesOthers
<1>10. QED BY <1>3, <1>5, <1>6, <1>7, <1>8, <1>9 DEF AccountsInv

\* What the handlers find.
LEMMA Before ==
    ASSUME AccountsInv, NEW p \in Procs
    PROVE  /\ req[p] \in Request /\ req[p].on \in Users /\ req[p].what \in Requests
           /\ begun \in 0..MaxRequests
BY DEF AccountsInv, TypeOK, Request

\* A registration gives no rights.
LEMMA RegisterPreserves ==
    ASSUME AccountsInv, NEW u \in Members, Register(u)
    PROVE  AccountsInv'
<1>1. u \in Users
  BY DEF Users
<1>2. begun' \in 0..MaxRequests
  BY AccountsAssumption DEF Register, AccountsInv, TypeOK
<1>3. New \in Account /\ Founded(u, New) /\ Sane(New) /\ Kept(u, New)
  BY NewIsGood
<1>4. UNCHANGED <<session, req, granted>> /\ row' = [row EXCEPT ![u] = New]
  BY DEF Register
<1>5. Founded(u, New)'
  BY <1>3, <1>4 DEF Founded
<1>6. /\ granted \in [Requests -> SUBSET Users] /\ req \in [Procs -> Request]
      /\ granted["promote"] \subseteq System \cup granted["approve"]
  BY DEF AccountsInv, TypeOK, AuthorityIsGranted
<1>7. QED BY <1>1, <1>2, <1>3, <1>4, <1>5, <1>6, RowStep

\* Logging in and out touches no row.
LEMMA SessionPreserves ==
    ASSUME AccountsInv, NEW u \in Users, Login(u) \/ Logout(u)
    PROVE  AccountsInv'
<1>1. UNCHANGED <<row, req, begun, granted>> /\ session' \subseteq Users
  BY DEF Login, Logout, AccountsInv, TypeOK
<1>2. QED
  BY <1>1 DEF AccountsInv, TypeOK, RightsAreGranted, AdminsAreApproved, SystemUsersKept,
              AuthorityIsGranted, CopiesAreGood, GoodCopy, DemotesOthers, Exists, Founded,
              Sane, Kept

\* A request begins with the authority of its user's row.
LEMMA BeginPreserves ==
    ASSUME AccountsInv, NEW p \in Procs, NEW what \in Requests, NEW by \in Users,
           NEW on \in Users, Begin(p, what, by, on)
    PROVE  AccountsInv'
<1> DEFINE new == [pc |-> "read", what |-> what, by |-> by, on |-> on, copy |-> New]
<1>1. new \in Request
  BY DEF Request, New, Account
<1>2. req' = [req EXCEPT ![p] = new] /\ UNCHANGED <<row, session, granted>>
  BY DEF Begin
<1>3. begun' \in 0..MaxRequests
  BY AccountsAssumption DEF Begin, AccountsInv, TypeOK
<1>4. what \in ByAdmin => by \in {Super} \cup granted["promote"]
  <2> SUFFICES ASSUME what \in ByAdmin
               PROVE  by \in {Super} \cup granted["promote"]
    OBVIOUS
  <2>1. what \notin BySuper
    BY DEF ByAdmin, BySuper
  <2>2. RequireAdmin(by)
    BY <2>1 DEF Begin, Authorised
  <2>3. QED BY <2>2 DEF RequireAdmin, Good, AccountsInv, RightsAreGranted, Founded
<1>5. what = "demote" => on # Super
  <2> SUFFICES ASSUME what = "demote"
               PROVE  on # Super
    OBVIOUS
  <2>1. what \in BySuper /\ what \notin ByAdmin /\ what \in NotToSelf
    BY DEF BySuper, ByAdmin, NotToSelf
  <2>2. by # on
    BY <2>1 DEF Begin
  <2>3. by = Super
    BY <2>1 DEF Begin, Authorised, RequireSuperAdmin
  <2>4. QED BY <2>2, <2>3
<1>6. new.pc = "read" /\ new.what = what /\ new.by = by /\ new.on = on
  OBVIOUS
<1> HIDE DEF new
<1>7. QED BY <1>1, <1>2, <1>3, <1>4, <1>5, <1>6, RequestStep

\* A goroutine lets its request go.
LEMMA EndPreserves ==
    ASSUME AccountsInv, NEW p \in Procs, End(p), UNCHANGED <<row, session, begun, granted>>
    PROVE  AccountsInv'
<1>1. begun' \in 0..MaxRequests
  BY Before
<1>2. req' = [req EXCEPT ![p] = NoReq]
  BY DEF End
<1>3. QED BY <1>1, <1>2, NoReqIsGood, RequestStep

\* A handler makes its copy of the row.
LEMMA ReadPreserves ==
    ASSUME AccountsInv, NEW p \in Procs, Read(p)
    PROVE  AccountsInv'
<1> DEFINE u == req[p].on
<1> DEFINE what == req[p].what
<1>1. u \in Users /\ what \in Requests \ {"delete"} /\ req[p].pc = "read" /\ req[p] \in Request
  BY Before DEF Read
<1>2. UNCHANGED <<row, session, begun, granted>> /\ begun' \in 0..MaxRequests
  BY Before DEF Read
<1>3. CASE Exists(u) /\ Accepts(what, u, row[u])
  <2> DEFINE new == [req[p] EXCEPT !.pc = "save", !.copy = Assigned(what, row[u])]
  <2>1. row[u] \in Account /\ Founded(u, row[u]) /\ Sane(row[u])
    BY <1>1, <1>3 DEF AccountsInv, TypeOK, RightsAreGranted, AdminsAreApproved, Exists
  <2>2. Kept(u, row[u])
    BY <1>1, <1>3 DEF AccountsInv, SystemUsersKept, Kept
  <2>3. what = "demote" => u # Super
    BY <1>1 DEF AccountsInv, DemotesOthers
  <2>4. /\ new.pc = "save" /\ new.what = what /\ new.on = u /\ new.by = req[p].by
        /\ new.copy = Assigned(what, row[u])
    BY <1>1 DEF Request
  <2>5. req' = [req EXCEPT ![p] = new]
    BY <1>3 DEF Read
  <2>6. what \in ByAdmin => req[p].by \in {Super} \cup granted["promote"]
    BY <1>1 DEF AccountsInv, AuthorityIsGranted
  <2>7. new.copy \in Account => new \in Request
    BY <1>1 DEF Request
  <2> HIDE DEF new, u, what
  <2>8. new.copy \in Account /\ GoodCopy(new)
    BY <1>1, <1>3, <2>1, <2>2, <2>3, <2>4, AssignedGood DEF AccountsInv
  <2>9. QED BY <1>2, <2>3, <2>4, <2>5, <2>6, <2>7, <2>8, RequestStep
<1>4. CASE ~(Exists(u) /\ Accepts(what, u, row[u]))
  <2>1. End(p)
    BY <1>4 DEF Read
  <2>2. QED BY <1>2, <2>1, EndPreserves
<1>5. QED BY <1>3, <1>4

\* A handler saves its copy over whatever the row is now.
LEMMA SavePreserves ==
    ASSUME AccountsInv, NEW p \in Procs, Save(p)
    PROVE  AccountsInv'
<1> SUFFICES ASSUME NEW q, q = req[p]
             PROVE  AccountsInv'
  OBVIOUS
<1>1. q.pc = "save" /\ q \in Request /\ q.on \in Users /\ q.what \in Requests /\ GoodCopy(q)
  BY Before DEF Save, AccountsInv, CopiesAreGood
<1>2. q.copy \in Account
  BY <1>1 DEF Request
<1>3. /\ row' = [row EXCEPT ![q.on] = q.copy] /\ session' = session /\ begun' \in 0..MaxRequests
      /\ granted' = [granted EXCEPT ![q.what] = @ \cup {q.on}]
      /\ req' = [req EXCEPT ![p] = NoReq]
  BY Before DEF Save, Grant, End
<1>4. req' \in [Procs -> Request] /\ \A m \in Procs : req'[m] = req[m] \/ req'[m].pc = "idle"
  BY <1>3, NoReqIsGood DEF AccountsInv, TypeOK
<1>5. /\ granted' \in [Requests -> SUBSET Users]
      /\ \A f \in Requests : granted[f] \subseteq granted'[f]
      /\ \A f \in Requests : f # q.what => granted'[f] = granted[f]
      /\ granted'[q.what] = granted[q.what] \cup {q.on}
  BY <1>1, <1>3 DEF AccountsInv, TypeOK
<1>6. {"promote", "approve"} \subseteq Requests
  BY DEF Requests, BySuper, ByAdmin
<1>7. granted'["promote"] \subseteq System \cup granted'["approve"]
  <2>1. granted["promote"] \subseteq System \cup granted["approve"]
    BY DEF AccountsInv, AuthorityIsGranted
  <2>2. q.what = "promote" => q.on \in System \cup granted["approve"]
    BY <1>1 DEF GoodCopy
  <2>3. QED BY <1>5, <1>6, <2>1, <2>2
<1>8. Founded(q.on, q.copy)'
  <2>1. TypeOK
    BY DEF AccountsInv
  <2>2. QED BY <1>1, <1>3, <2>1, GoodCopyIsFounded
<1>9. Sane(q.copy) /\ Kept(q.on, q.copy)
  BY <1>1 DEF GoodCopy
<1>10. QED BY <1>1, <1>2, <1>3, <1>4, <1>5, <1>7, <1>8, <1>9, RowStep

\* A deletion takes the row away, and no right comes of it.
LEMMA DeletePreserves ==
    ASSUME AccountsInv, NEW p \in Procs, Delete(p)
    PROVE  AccountsInv'
<1> SUFFICES ASSUME NEW q, q = req[p]
             PROVE  AccountsInv'
  OBVIOUS
<1>1. q.what = "delete" /\ q.on \in Users /\ "delete" \in Requests
  BY Before DEF Delete
<1>2. /\ row' = [row EXCEPT ![q.on] = Absent] /\ session' = session /\ begun' \in 0..MaxRequests
      /\ granted' = [granted EXCEPT !["delete"] = @ \cup {q.on}]
      /\ req' = [req EXCEPT ![p] = NoReq]
  BY Before DEF Delete, Grant, End
<1>3. req' \in [Procs -> Request] /\ \A m \in Procs : req'[m] = req[m] \/ req'[m].pc = "idle"
  BY <1>2, NoReqIsGood DEF AccountsInv, TypeOK
<1>4. /\ granted' \in [Requests -> SUBSET Users]
      /\ \A f \in Requests : granted[f] \subseteq granted'[f]
      /\ \A f \in Requests : f # "delete" => granted'[f] = granted[f]
  BY <1>1, <1>2 DEF AccountsInv, TypeOK
<1>5. granted'["promote"] \subseteq System \cup granted'["approve"]
  <2>1. {"promote", "approve"} \subseteq Requests
    BY DEF Requests, BySuper, ByAdmin
  <2>2. QED BY <1>4, <2>1 DEF AccountsInv, AuthorityIsGranted
<1>6. QED BY <1>1, <1>2, <1>3, <1>4, <1>5, RowStep

----------------------------------------------------------------------------
(* The theorems. *)

\* The seeded users are as they must be.
LEMMA InitEstablishes == Init => AccountsInv
<1> SUFFICES ASSUME Init
             PROVE  AccountsInv
  OBVIOUS
<1>1. TypeOK
  <2>1. row \in [Users -> Account \cup {Absent}]
    BY DEF Init, Account
  <2>2. req \in [Procs -> Request]
    BY NoReqIsGood DEF Init
  <2>3. begun \in 0..MaxRequests
    BY AccountsAssumption DEF Init
  <2>4. QED BY <2>1, <2>2, <2>3 DEF Init, TypeOK
<1>2. \A u \in Users : Exists(u) =>
         row[u] = [admin |-> u = Super, approved |-> TRUE, suspended |-> FALSE] /\ u \in System
  BY DEF Init, Exists, Users
<1>3. \A u \in Users : Exists(u) =>
         /\ row[u].approved /\ ~row[u].suspended
         /\ row[u].admin <=> u = Super
  <2> SUFFICES ASSUME NEW u \in Users, Exists(u)
               PROVE  row[u].approved /\ ~row[u].suspended /\ (row[u].admin <=> u = Super)
    OBVIOUS
  <2>1. row[u] = [admin |-> u = Super, approved |-> TRUE, suspended |-> FALSE]
    BY <1>2
  <2>2. row[u].approved = TRUE /\ row[u].suspended = FALSE /\ row[u].admin = (u = Super)
    BY <2>1
  <2>3. QED BY <2>2
<1>4. RightsAreGranted /\ AdminsAreApproved
  BY <1>2, <1>3 DEF RightsAreGranted, Founded, AdminsAreApproved, Sane
<1>5. SystemUsersKept
  BY <1>3 DEF SystemUsersKept, Kept, Users
<1>6. \A p \in Procs : req[p].pc = "idle"
  BY NoReqIsGood DEF Init
<1>7. AuthorityIsGranted /\ CopiesAreGood /\ DemotesOthers
  <2>1. granted["promote"] = {}
    BY DEF Init, Requests, BySuper
  <2>2. QED BY <1>6, <2>1 DEF AuthorityIsGranted, CopiesAreGood, DemotesOthers
<1>8. QED BY <1>1, <1>4, <1>5, <1>7 DEF AccountsInv

\* Every step keeps the invariant.
LEMMA NextPreserves == AccountsInv /\ [Next]_vars => AccountsInv'
<1> SUFFICES ASSUME AccountsInv, [Next]_vars
             PROVE  AccountsInv'
  OBVIOUS
<1>1. ASSUME NEW u \in Members, Register(u)
      PROVE  AccountsInv'
  BY <1>1, RegisterPreserves
<1>2. ASSUME NEW u \in Users, Login(u) \/ Logout(u)
      PROVE  AccountsInv'
  BY <1>2, SessionPreserves
<1>3. ASSUME NEW p \in Procs, NEW what \in Requests, NEW by \in Users, NEW on \in Users,
             Begin(p, what, by, on)
      PROVE  AccountsInv'
  BY <1>3, BeginPreserves
<1>4. ASSUME NEW p \in Procs, Read(p)
      PROVE  AccountsInv'
  BY <1>4, ReadPreserves
<1>5. ASSUME NEW p \in Procs, Save(p)
      PROVE  AccountsInv'
  BY <1>5, SavePreserves
<1>6. ASSUME NEW p \in Procs, Refuse(p)
      PROVE  AccountsInv'
  BY <1>6, EndPreserves DEF Refuse
<1>7. ASSUME NEW p \in Procs, Delete(p)
      PROVE  AccountsInv'
  BY <1>7, DeletePreserves
<1>8. CASE UNCHANGED vars
  BY <1>8 DEF vars, AccountsInv, TypeOK, RightsAreGranted, AdminsAreApproved, SystemUsersKept,
              AuthorityIsGranted, CopiesAreGood, GoodCopy, DemotesOthers, Exists, Founded,
              Sane, Kept
<1>9. QED BY <1>1, <1>2, <1>3, <1>4, <1>5, <1>6, <1>7, <1>8 DEF Next

\* The inductive invariant.
THEOREM AccountsInvariant == Spec => []AccountsInv
<1>1. QED BY InitEstablishes, NextPreserves, PTL DEF Spec

\* Nobody has a right that was never granted to him, whatever stale copies the
\* handlers of users.go save.
THEOREM RightsGranted == Spec => []RightsAreGranted
<1>1. AccountsInv => RightsAreGranted
  BY DEF AccountsInv
<1>2. QED BY <1>1, AccountsInvariant, PTL

\* Those who approve and suspend have been promoted after they were approved.
THEOREM AuthorityGranted == Spec => []AuthorityIsGranted
<1>1. AccountsInv => AuthorityIsGranted
  BY DEF AccountsInv
<1>2. QED BY <1>1, AccountsInvariant, PTL

\* The Parrot user and 999999 keep their rights as long as they exist.
THEOREM SystemKept == Spec => []SystemUsersKept
<1>1. AccountsInv => SystemUsersKept
  BY DEF AccountsInv
<1>2. QED BY <1>1, AccountsInvariant, PTL

\* An admin is approved, whatever stale copies the handlers save (users.go:192).
THEOREM AdminsApproved == Spec => []AdminsAreApproved
<1>1. AccountsInv => AdminsAreApproved
  BY DEF AccountsInv
<1>2. QED BY <1>1, AccountsInvariant, PTL

\* The rows, the handlers' copies and the grants keep their types.
THEOREM AccountTypes == Spec => []TypeOK
<1>1. AccountsInv => TypeOK
  BY DEF AccountsInv
<1>2. QED BY <1>1, AccountsInvariant, PTL
=============================================================================
