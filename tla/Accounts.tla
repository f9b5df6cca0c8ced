------------------------------- MODULE Accounts -------------------------------
(***************************************************************************)
(* The users' rows and what is done to them over the web API: login and    *)
(* logout (controllers/v1/auth/auth.go), the checks of middleware/auth.go  *)
(* and the handlers of controllers/v1/users/users.go.  A handler reads the *)
(* row, assigns one field of its copy and saves the whole copy, and        *)
(* requests overlap.  A row is its three rights: names, callsigns and      *)
(* passwords are left out, but that the database may refuse them.          *)
(***************************************************************************)
EXTENDS Naturals

CONSTANTS
    Members,      \* IDs of seven digits, which people may register
    Procs,        \* bound: requests under way at once
    MaxRequests   \* bound: requests

VARIABLES
    row,       \* row[u]: the row of u, or Absent
    session,   \* the users whose ID some browser's session holds
    req,       \* req[p]: the request that goroutine p handles
    begun,     \* how many requests have begun
    granted    \* granted[f]: history, the users to whom request f has been done

vars == <<row, session, req, begun, granted>>

Parrot == "9990"
Super  == "999999"
System == {Parrot, Super}
Users  == Members \cup System

ASSUME AccountsAssumption == Parrot \notin Members /\ Super \notin Members /\ MaxRequests \in Nat

Account == [admin : BOOLEAN, approved : BOOLEAN, suspended : BOOLEAN]
Absent  == [gone |-> TRUE]
New     == [admin |-> FALSE, approved |-> FALSE, suspended |-> FALSE]

Exists(u) == row[u] # Absent

BySuper  == {"promote", "demote", "delete"}
ByAdmin  == {"approve", "suspend", "unsuspend"}
Requests == BySuper \cup ByAdmin \cup {"patch"}
Request  == [pc : {"idle", "read", "save"}, what : Requests, by : Users, on : Users,
             copy : Account]
NoReq    == [pc |-> "idle", what |-> "patch", by |-> Super, on |-> Super, copy |-> New]

----------------------------------------------------------------------------
(* The middleware. *)

\* Approved and not suspended, as every check but RequireSuperAdmin asks.
Good(u) == Exists(u) /\ row[u].approved /\ ~row[u].suspended

RequireAdmin(u) == Good(u) /\ row[u].admin

\* The ID alone: the row is not looked at.
RequireSuperAdmin(u) == u = Super

RequireSelfOrAdmin(u, on) == RequireAdmin(u) \/ (Good(u) /\ u = on)

\* Mutant of Authorised: any user who is logged in may approve and suspend.
AuthorisedLoggedIn(u, what, on) ==
    CASE what \in BySuper -> RequireSuperAdmin(u)
      [] what \in ByAdmin -> Good(u)
      [] OTHER            -> RequireSelfOrAdmin(u, on)

\* Which check the route of a request has.
Authorised(u, what, on) ==
    CASE what \in BySuper -> RequireSuperAdmin(u)
      [] what \in ByAdmin -> RequireAdmin(u)
      [] OTHER            -> RequireSelfOrAdmin(u, on)

\* What may not be done to oneself.
NotToSelf == ByAdmin \cup {"demote"}

----------------------------------------------------------------------------
(* The handlers, on the copy r of the row of u. *)

\* Mutants: a lost test each.
MayPromoteUnapproved(u, r) == u # Parrot

MaySuspendSystem(u, r) == ~r.admin

\* Neither the Parrot user nor an unapproved one.
MayPromote(u, r) == u # Parrot /\ r.approved

\* No admin, not 999999 and not the Parrot user.
MaySuspend(u, r) == ~r.admin /\ u \notin System

Accepts(what, u, r) ==
    CASE what = "promote" -> MayPromote(u, r)
      [] what = "suspend" -> MaySuspend(u, r)
      [] OTHER            -> TRUE

\* Mutant of Assigned: the body of a PATCH is bound to the whole row.
AssignedByPatch(what, r) ==
    CASE what = "promote"   -> [r EXCEPT !.admin = TRUE]
      [] what = "demote"    -> [r EXCEPT !.admin = FALSE]
      [] what = "approve"   -> [r EXCEPT !.approved = TRUE]
      [] what = "suspend"   -> [r EXCEPT !.suspended = TRUE]
      [] what = "unsuspend" -> [r EXCEPT !.suspended = FALSE]
      [] OTHER              -> [r EXCEPT !.admin = r.approved]

Assigned(what, r) ==
    CASE what = "promote"   -> [r EXCEPT !.admin = TRUE]
      [] what = "demote"    -> [r EXCEPT !.admin = FALSE]
      [] what = "approve"   -> [r EXCEPT !.approved = TRUE]
      [] what = "suspend"   -> [r EXCEPT !.suspended = TRUE]
      [] what = "unsuspend" -> [r EXCEPT !.suspended = FALSE]
      [] OTHER              -> r

Grant(what, u) == granted' = [granted EXCEPT ![what] = @ \cup {u}]

----------------------------------------------------------------------------
(* The requests.  Those that are refused before they write change nothing   *)
(* and are left out, but where the refusal ends a request under way.        *)

\* POSTUser: a row with no rights, unless the ID has one (Create fails).
Register(u) ==
    /\ ~Exists(u)
    /\ begun < MaxRequests
    /\ begun' = begun + 1
    /\ row' = [row EXCEPT ![u] = New]
    /\ UNCHANGED <<session, req, granted>>

\* The Parrot user has no password.  A suspended user may log in.
Login(u) ==
    /\ u # Parrot
    /\ Exists(u) /\ row[u].approved
    /\ session' = session \cup {u}
    /\ UNCHANGED <<row, req, begun, granted>>

Logout(u) ==
    /\ u \in session
    /\ session' = session \ {u}
    /\ UNCHANGED <<row, req, begun, granted>>

\* The middleware reads the row of the user, and the handler compares the IDs.
Begin(p, what, by, on) ==
    /\ req[p].pc = "idle"
    /\ begun < MaxRequests
    /\ by \in session
    /\ Authorised(by, what, on)
    /\ what \in NotToSelf => by # on
    /\ begun' = begun + 1
    /\ req' = [req EXCEPT ![p] = [pc |-> "read", what |-> what, by |-> by, on |-> on,
                                  copy |-> New]]
    /\ UNCHANGED <<row, session, granted>>

End(p) == req' = [req EXCEPT ![p] = NoReq]

\* The handler reads the row of the other user, and works on its copy from then on.
Read(p) ==
    LET q == req[p]
    IN  /\ q.pc = "read" /\ q.what # "delete"
        /\ IF Exists(q.on) /\ Accepts(q.what, q.on, row[q.on])
           THEN req' = [req EXCEPT ![p].pc = "save", ![p].copy = Assigned(q.what, row[q.on])]
           ELSE End(p)
        /\ UNCHANGED <<row, session, begun, granted>>

\* Mutant of Save: the one column is written, and not the row.
SaveColumn(p) ==
    LET q == req[p]
    IN  /\ q.pc = "save"
        /\ row' = [row EXCEPT ![q.on] = Assigned(q.what, IF Exists(q.on) THEN row[q.on] ELSE New)]
        /\ Grant(q.what, q.on)
        /\ End(p)
        /\ UNCHANGED <<session, begun>>

\* The whole copy replaces the row.  If the row is gone it is inserted again.
Save(p) ==
    LET q == req[p]
    IN  /\ q.pc = "save"
        /\ row' = [row EXCEPT ![q.on] = q.copy]
        /\ Grant(q.what, q.on)
        /\ End(p)
        /\ UNCHANGED <<session, begun>>

\* The database refuses the copy (its name has been taken) or the deletion (a call
\* refers to the user).  No handler notices: each looks at the shared handle's error.
Refuse(p) ==
    /\ req[p].pc = "save" \/ (req[p].pc = "read" /\ req[p].what = "delete")
    /\ End(p)
    /\ UNCHANGED <<row, session, begun, granted>>

\* DeleteUser, whoever it is.  Sessions stay.
Delete(p) ==
    LET q == req[p]
    IN  /\ q.pc = "read" /\ q.what = "delete"
        /\ row' = [row EXCEPT ![q.on] = Absent]
        /\ Grant("delete", q.on)
        /\ End(p)
        /\ UNCHANGED <<session, begun>>

----------------------------------------------------------------------------
\* UsersSeeder has run; nobody has registered.
Init ==
    /\ row = [u \in Users |->
                IF u \in Members THEN Absent
                ELSE [admin |-> u = Super, approved |-> TRUE, suspended |-> FALSE]]
    /\ session = {}
    /\ req = [p \in Procs |-> NoReq]
    /\ begun = 0
    /\ granted = [what \in Requests |-> {}]

Next ==
    \/ \E u \in Members : Register(u)
    \/ \E u \in Users : Login(u) \/ Logout(u)
    \/ \E p \in Procs, what \in Requests, by, on \in Users : Begin(p, what, by, on)
    \/ \E p \in Procs : Read(p) \/ Save(p) \/ Refuse(p) \/ Delete(p)

Spec == Init /\ [][Next]_vars

----------------------------------------------------------------------------
(* Properties. *)

\* The rows, the sessions and the requests under way.
TypeOK ==
    /\ row \in [Users -> Account \cup {Absent}]
    /\ session \subseteq Users
    /\ req \in [Procs -> Request]
    /\ begun \in 0..MaxRequests
    /\ granted \in [Requests -> SUBSET Users]

\* The rights of a row or of a copy have been given by somebody's request:
\* whatever is saved over what, nobody gets a right that was never granted.
Founded(u, r) ==
    /\ r.admin => u = Super \/ u \in granted["promote"]
    /\ r.approved => u \in System \cup granted["approve"]
    /\ r.suspended => u \in granted["suspend"]

RightsAreGranted == \A u \in Users : Exists(u) => Founded(u, row[u])

\* Who approves and suspends has been made an admin, and so approved before, by
\* somebody else; and so on back to 999999.
AuthorityIsGranted ==
    /\ granted["promote"] \subseteq System \cup granted["approve"]
    /\ \A p \in Procs : req[p].pc # "idle" /\ req[p].what \in ByAdmin =>
            req[p].by \in {Super} \cup granted["promote"]

\* An admin is approved, whatever has been saved over the row: an unapproved user
\* is not promoted ("You cannot promote an unapproved user", users.go:192).
Sane(r) == r.admin => r.approved

AdminsAreApproved == \A u \in Users : Exists(u) => Sane(row[u])

\* The two users that the server itself needs keep their rights as long as they
\* exist: the Parrot user is approved and neither admin nor suspended, and
\* 999999 is an admin who can act.
Kept(u, r) == u \in System => r.approved /\ ~r.suspended /\ (r.admin <=> u = Super)

SystemUsersKept == \A u \in System : Exists(u) => Kept(u, row[u])

\* Why all that survives stale copies: what is about to be saved is as good as
\* a row, once its request counts as granted.
GoodCopy(q) ==
    /\ q.what # "delete"
    /\ Sane(q.copy) /\ Kept(q.on, q.copy)
    /\ q.copy.admin => q.on = Super \/ q.on \in granted["promote"] \/ q.what = "promote"
    /\ q.copy.approved => q.on \in System \cup granted["approve"] \/ q.what = "approve"
    /\ q.copy.suspended => q.on \in granted["suspend"] \/ q.what = "suspend"
    /\ q.what = "promote" => q.copy.approved

CopiesAreGood == \A p \in Procs : req[p].pc = "save" => GoodCopy(req[p])

\* Nobody can demote 999999, who alone may demote.
DemotesOthers ==
    \A p \in Procs : req[p].pc # "idle" /\ req[p].what = "demote" => req[p].on # Super

AccountsInv ==
    /\ TypeOK /\ RightsAreGranted /\ AuthorityIsGranted /\ AdminsAreApproved
    /\ SystemUsersKept /\ CopiesAreGood /\ DemotesOthers

\* A suspension is lifted by unsuspending or deleting the user only.
\* (Violated: a PATCH that has read the row before saves its copy afterwards.)
SuspensionSticks ==
    [][\A u \in Users : Exists(u) /\ row[u].suspended =>
            \/ row'[u] = Absent \/ row'[u].suspended
            \/ \E p \in Procs : req[p].on = u /\ req[p].what = "unsuspend"]_vars

\* Who is deleted comes back by registering only.
\* (Violated: any request under way saves its copy, which inserts the row again.)
DeletedStaysDeleted ==
    [][\A u \in Users : ~Exists(u) => row'[u] \in {Absent, New}]_vars
=============================================================================
