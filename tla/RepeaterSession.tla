-------------------------- MODULE RepeaterSession --------------------------
(***************************************************************************)
(* The login and keep-alive protocol of one repeater ID: handlePacket of   *)
(* internal/dmr/packet_handler.go, the session record of repeater_redis.go *)
(* and the deferred answers of sendCommand (server.go).  One goroutine     *)
(* handles the packets; around it Redis expires the record, the web API    *)
(* creates and deletes the repeater's row, every answer looks up its       *)
(* address in a goroutine of its own, and the network loses and reorders.  *)
(* The hotspots that claim the ID are external.                            *)
(***************************************************************************)
EXTENDS Integers, FiniteSets

CONSTANTS
    Addrs,        \* addresses (IP and port) that hotspots send from
    IpOf,         \* IpOf[a]: the IP of address a
    Configured,   \* addresses whose hotspot knows the repeater's password
    Patient,      \* hotspots only repeat a request once nothing is under way
    MaxLogins,    \* bound: logins of a registered repeater, one salt each
    MaxInFlight,  \* bound: packets on their way to the server
    MaxLosses,    \* bound: packets lost
    MaxExpiries,  \* bound: expiries of the session record
    MaxEdits      \* bound: registrations of the ID, one password each

ASSUME SessionAssumption ==
    /\ Configured \subseteq Addrs
    /\ Patient \in BOOLEAN
    /\ MaxLogins \in Nat /\ MaxInFlight \in Nat /\ MaxLosses \in Nat
    /\ MaxExpiries \in Nat /\ MaxEdits \in Nat \ {0}

VARIABLES
    rec,       \* redis "repeater:<id>"
    db,        \* password of the row in the database, NoRow if there is none
    pc,        \* the handler's next step
    msg,       \* the packet it handles
    row,       \* its copy of the row
    inbox,     \* packets on their way to the handler
    pending,   \* goroutines of sendCommand that have not looked up the record
    down,      \* datagrams on their way to a hotspot
    phase,     \* phase[a]: where the hotspot at a is in its login
    asked,     \* asked[a]: the hotspot's ping is unanswered
    salts,     \* salts drawn
    edits,     \* registrations made
    losses, expiries

server == <<rec, db, pc, msg, row, salts>>
client == <<phase, asked>>
vars   == <<server, client, inbox, pending, down, edits, losses, expiries>>

NoRow     == 0
NoSalt    == 0    \* Salt of a record made for an unknown repeater
IdPayload == -1   \* an RPTACK that carries the repeater ID and not a salt
Wrong     == -1   \* a password no row has

Salt     == 1..MaxLogins
Password == 1..MaxEdits
NoRecord == [conn |-> "none"]
Record   == [conn : {"RPTL-RECEIVED", "CHALLENGE_SENT", "WAITING_CONFIG", "YES"},
             addr : Addrs, salt : Salt \cup {NoSalt}]

Request == [cmd : {"RPTL", "RPTC", "RPTPING", "DMRD", "RPTCL"}, from : Addrs]
               \cup [cmd : {"RPTK"}, from : Addrs, salt : Salt \cup {IdPayload},
                     pw : Password \cup {Wrong}]
NoRequest == [cmd |-> "none"]
Answer  == [cmd : {"RPTACK", "MSTNAK", "MSTPONG"}, salt : Salt \cup {IdPayload}]

----------------------------------------------------------------------------
(* Helpers. *)

\* validRepeater: the IP is compared, the port is not.
Valid(m, conn) ==
    rec # NoRecord /\ IpOf[rec.addr] = IpOf[m.from] /\ rec.conn = conn

\* sendCommand starts a goroutine; the answers it can overtake are those of
\* other goroutines.
Send(cmd, payload) == pending' = pending \cup {[cmd |-> cmd, salt |-> payload]}

Nak == Send("MSTNAK", IdPayload)

\* The handler takes a packet and is done with it at once, or goes on at label.
Take(m, label) ==
    /\ pc = "idle"
    /\ m \in inbox
    /\ inbox' = inbox \ {m}
    /\ pc' = label
    /\ msg' = IF label = "idle" THEN NoRequest ELSE m
    /\ UNCHANGED <<client, down, edits, losses, expiries>>

\* The handler goes on with the packet it has, then with the next one.
Continue(label) ==
    /\ pc' = label
    /\ msg' = IF label = "idle" THEN NoRequest ELSE msg
    /\ UNCHANGED <<client, inbox, down, edits, losses, expiries>>

----------------------------------------------------------------------------
(* RPTL. *)

\* The ID is not registered: a record is made all the same, for the answer.
LoginUnknown(m) ==
    /\ m.cmd = "RPTL" /\ db = NoRow
    /\ Take(m, "idle")
    /\ rec' = [conn |-> "RPTL-RECEIVED", addr |-> m.from, salt |-> NoSalt]
    /\ Nak
    /\ UNCHANGED <<db, row, salts>>

\* Mutant of Login: no updateConnection.
LoginReceived(m) ==
    /\ m.cmd = "RPTL" /\ db # NoRow /\ salts < MaxLogins
    /\ Take(m, "idle")
    /\ salts' = salts + 1
    /\ rec' = [conn |-> "RPTL-RECEIVED", addr |-> m.from, salt |-> salts']
    /\ Send("RPTACK", salts')
    /\ UNCHANGED <<db, row>>

\* A challenge replaces whatever session there was.
Login(m) ==
    /\ m.cmd = "RPTL" /\ db # NoRow /\ salts < MaxLogins
    /\ Take(m, "idle")
    /\ salts' = salts + 1
    /\ rec' = [conn |-> "CHALLENGE_SENT", addr |-> m.from, salt |-> salts']
    /\ Send("RPTACK", salts')
    /\ UNCHANGED <<db, row>>

(* RPTK. *)

KeyRefused(m) ==
    /\ m.cmd = "RPTK" /\ (~Valid(m, "CHALLENGE_SENT") \/ db = NoRow)
    /\ Take(m, "idle")
    /\ Nak
    /\ UNCHANGED <<rec, db, row, salts>>

KeyFound(m) ==
    /\ m.cmd = "RPTK" /\ Valid(m, "CHALLENGE_SENT") /\ db # NoRow
    /\ Take(m, "keySave")
    /\ row' = db
    /\ UNCHANGED <<rec, db, pending, salts>>

\* DB.Save writes the whole row, and inserts it if it has been deleted since.
Save(here, next) ==
    /\ pc = here
    /\ db' = row
    /\ row' = NoRow
    /\ Continue(next)
    /\ UNCHANGED <<rec, salts, pending>>

KeySave ==
    /\ pc = "keySave"
    /\ db' = row
    /\ Continue("keyCompare")
    /\ UNCHANGED <<rec, row, salts, pending>>

\* Mutant of KeyCompare: the password left out of the hash.
KeyCompareNoPassword ==
    /\ pc = "keyCompare"
    /\ IF rec # NoRecord /\ msg.salt = rec.salt
       THEN rec' = [rec EXCEPT !.conn = "WAITING_CONFIG"] /\ Send("RPTACK", IdPayload)
       ELSE Nak /\ UNCHANGED rec
    /\ row' = NoRow
    /\ Continue("idle")
    /\ UNCHANGED <<db, salts>>

\* The challenge is answered if its hash is that of the record's salt and the
\* password of the handler's copy of the row.  A record that has expired since
\* is refused (the zero salt in its place matches no answer).
KeyCompare ==
    /\ pc = "keyCompare"
    /\ IF rec # NoRecord /\ msg.salt = rec.salt /\ msg.pw = row
       THEN rec' = [rec EXCEPT !.conn = "WAITING_CONFIG"] /\ Send("RPTACK", IdPayload)
       ELSE Nak /\ UNCHANGED rec
    /\ row' = NoRow
    /\ Continue("idle")
    /\ UNCHANGED <<db, salts>>

(* RPTC. *)

ConfigRefused(m) ==
    /\ m.cmd = "RPTC" /\ ~Valid(m, "WAITING_CONFIG")
    /\ Take(m, "idle")
    /\ Nak
    /\ UNCHANGED <<rec, db, row, salts>>

\* A field that does not parse: no answer.
ConfigInvalid(m) ==
    /\ m.cmd = "RPTC" /\ Valid(m, "WAITING_CONFIG") /\ ~Patient
    /\ Take(m, "idle")
    /\ UNCHANGED <<rec, db, row, salts, pending>>

\* The row is read after the answer is on its way.  (A row that is gone is read
\* as zero, and saving that is refused for its missing owner.)
ConfigAccepted(m) ==
    /\ m.cmd = "RPTC" /\ Valid(m, "WAITING_CONFIG")
    /\ rec' = [rec EXCEPT !.conn = "YES"]
    /\ Send("RPTACK", IdPayload)
    /\ row' = db
    /\ Take(m, IF db = NoRow THEN "idle" ELSE "save")
    /\ UNCHANGED <<db, salts>>

(* RPTPING. *)

PingRefused(m) ==
    /\ m.cmd = "RPTPING" /\ ~Valid(m, "YES")
    /\ Take(m, "idle")
    /\ Nak
    /\ UNCHANGED <<rec, db, row, salts>>

\* The repeater has been deleted: no answer, though the record was refreshed.
PingUnknown(m) ==
    /\ m.cmd = "RPTPING" /\ Valid(m, "YES") /\ db = NoRow
    /\ Take(m, "idle")
    /\ UNCHANGED <<rec, db, row, salts, pending>>

PingFound(m) ==
    /\ m.cmd = "RPTPING" /\ Valid(m, "YES") /\ db # NoRow
    /\ Take(m, "pingSave")
    /\ row' = db
    /\ UNCHANGED <<rec, db, pending, salts>>

PingAnswer ==
    /\ pc = "pingAnswer"
    /\ IF rec = NoRecord THEN UNCHANGED pending ELSE Send("MSTPONG", IdPayload)
    /\ Continue("idle")
    /\ UNCHANGED <<rec, db, row, salts>>

(* DMRD, DMRA and RPTO: what they do to the session and the row. *)

TrafficDropped(m) ==
    /\ m.cmd = "DMRD" /\ (~Valid(m, "YES") \/ db = NoRow)
    /\ Take(m, "idle")
    /\ UNCHANGED <<rec, db, row, salts, pending>>

TrafficFound(m) ==
    /\ m.cmd = "DMRD" /\ Valid(m, "YES") /\ db # NoRow
    /\ Take(m, "save")
    /\ row' = db
    /\ UNCHANGED <<rec, db, pending, salts>>

(* RPTCL: the length check refuses the nine bytes that the handler would read. *)

CloseIgnored(m) ==
    /\ m.cmd = "RPTCL"
    /\ Take(m, "idle")
    /\ UNCHANGED <<rec, db, row, salts, pending>>

----------------------------------------------------------------------------
(* Around the handler. *)

\* Five minutes without a packet of the session, at any moment of the handler.
Expire ==
    /\ rec # NoRecord /\ expiries < MaxExpiries
    /\ rec' = NoRecord
    /\ expiries' = expiries + 1
    /\ UNCHANGED <<db, pc, msg, row, salts, client, inbox, pending, down, edits, losses>>

\* sendCommand looks the address up when its goroutine runs; without a record
\* the answer is dropped.
Resolve(a) ==
    /\ a \in pending
    /\ pending' = pending \ {a}
    /\ down' = IF rec = NoRecord THEN down
               ELSE down \cup {[cmd |-> a.cmd, salt |-> a.salt, to |-> rec.addr]}
    /\ UNCHANGED <<server, client, inbox, edits, losses, expiries>>

\* POST /repeaters: a new password.
Register ==
    /\ db = NoRow /\ edits < MaxEdits
    /\ edits' = edits + 1
    /\ db' = edits'
    /\ UNCHANGED <<rec, pc, msg, row, salts, client, inbox, pending, down, losses, expiries>>

\* DELETE /repeaters/:id.  The session record is left alone.
DeleteRepeater ==
    /\ db # NoRow /\ edits < MaxEdits
    /\ db' = NoRow
    /\ UNCHANGED <<rec, pc, msg, row, salts, client, inbox, pending, down, edits, losses, expiries>>

Lose ==
    /\ losses < MaxLosses
    /\ losses' = losses + 1
    /\ \/ \E m \in inbox : inbox' = inbox \ {m} /\ UNCHANGED down
       \/ \E d \in down : down' = down \ {d} /\ UNCHANGED inbox
    /\ UNCHANGED <<server, client, pending, edits, expiries>>

----------------------------------------------------------------------------
(* The hotspots. *)

Quiet == inbox = {} /\ pending = {} /\ down = {} /\ pc = "idle"

Post(m) ==
    /\ Cardinality(inbox) < MaxInFlight
    /\ inbox' = inbox \cup {m}
    /\ UNCHANGED <<server, pending, edits, losses, expiries>>

\* Start, restart, or a request that has not been answered in time.
Restart(a) ==
    /\ Patient => Quiet /\ (phase[a] # "running" \/ asked[a])
    /\ Post([cmd |-> "RPTL", from |-> a])
    /\ phase' = [phase EXCEPT ![a] = "login"]
    /\ asked' = [asked EXCEPT ![a] = FALSE]
    /\ UNCHANGED down

Talk(a, cmd) ==
    /\ phase[a] = "running"
    /\ Patient => Quiet
    /\ cmd = "RPTPING" => ~asked[a]
    /\ Post([cmd |-> cmd, from |-> a])
    /\ asked' = IF cmd = "RPTPING" THEN [asked EXCEPT ![a] = TRUE] ELSE asked
    /\ UNCHANGED <<phase, down>>

\* What a hotspot answers to an RPTACK; the passwords it may have are those the
\* web API has shown.
Reply(a, d, pw) ==
    IF phase[a] = "login"
    THEN [cmd |-> "RPTK", from |-> a, salt |-> d.salt, pw |-> pw]
    ELSE [cmd |-> "RPTC", from |-> a]

Accept(a, d, pw) ==
    /\ d \in down /\ d.to = a /\ d.cmd = "RPTACK"
    /\ phase[a] \in {"login", "auth"}
    /\ pw \in IF a \in Configured /\ edits > 0 THEN {edits} ELSE {Wrong}
    /\ Post(Reply(a, d, pw))
    /\ down' = down \ {d}
    /\ phase' = [phase EXCEPT ![a] = IF @ = "login" THEN "auth" ELSE "config"]
    /\ UNCHANGED asked

Receive(a, d) ==
    /\ d \in down /\ d.to = a
    /\ d.cmd = "RPTACK" => phase[a] \notin {"login", "auth"}
    /\ down' = down \ {d}
    /\ phase' = [phase EXCEPT ![a] =
           IF d.cmd = "MSTNAK" THEN "down"
           ELSE IF d.cmd = "RPTACK" /\ @ = "config" THEN "running" ELSE @]
    /\ asked' = [asked EXCEPT ![a] = IF d.cmd = "MSTPONG" THEN FALSE ELSE @]
    /\ UNCHANGED <<server, inbox, pending, edits, losses, expiries>>

----------------------------------------------------------------------------
Init ==
    /\ rec = NoRecord
    /\ db = 1 /\ edits = 1
    /\ pc = "idle" /\ msg = NoRequest /\ row = NoRow
    /\ inbox = {} /\ pending = {} /\ down = {}
    /\ phase = [a \in Addrs |-> "down"]
    /\ asked = [a \in Addrs |-> FALSE]
    /\ salts = 0 /\ losses = 0 /\ expiries = 0

Handle ==
    \/ \E m \in inbox :
        \/ LoginUnknown(m) \/ Login(m)
        \/ KeyRefused(m) \/ KeyFound(m)
        \/ ConfigRefused(m) \/ ConfigInvalid(m) \/ ConfigAccepted(m)
        \/ PingRefused(m) \/ PingUnknown(m) \/ PingFound(m)
        \/ TrafficDropped(m) \/ TrafficFound(m)
        \/ CloseIgnored(m)
    \/ KeySave
    \/ KeyCompare
    \/ Save("save", "idle")
    \/ Save("pingSave", "pingAnswer")
    \/ PingAnswer

Hotspot(a) ==
    \/ \E d \in down : Receive(a, d) \/ \E pw \in Password \cup {Wrong} : Accept(a, d, pw)
    \/ Talk(a, "RPTPING")
    \/ Restart(a)

Next ==
    \/ Handle
    \/ \E a \in pending : Resolve(a)
    \/ \E a \in Addrs : Hotspot(a) \/ Talk(a, "DMRD") \/ Talk(a, "RPTCL")
    \/ Expire
    \/ Lose
    \/ Register
    \/ DeleteRepeater

\* The handler and the answers' goroutines run, and a hotspot's timers are not
\* put off for ever by its own traffic; the web API, expiry and loss need not
\* happen.
Fairness ==
    /\ WF_vars(Handle)
    /\ WF_vars(\E a \in pending : Resolve(a))
    /\ \A a \in Addrs : SF_vars(Hotspot(a))

Spec     == Init /\ [][Next]_vars
FairSpec == Spec /\ Fairness

----------------------------------------------------------------------------
(* Properties. *)

\* The record, the row, the handler's locals and the packets under way.
TypeOK ==
    /\ rec \in Record \cup {NoRecord}
    /\ db \in Password \cup {NoRow} /\ row \in Password \cup {NoRow}
    /\ pc \in {"idle", "save", "keySave", "keyCompare", "pingSave", "pingAnswer"}
    /\ msg \in Request \cup {NoRequest}
    /\ inbox \subseteq Request
    /\ pending \subseteq Answer
    /\ \A d \in down : [cmd |-> d.cmd, salt |-> d.salt] \in Answer /\ d.to \in Addrs
    /\ phase \in [Addrs -> {"down", "login", "auth", "config", "running"}]
    /\ asked \in [Addrs -> BOOLEAN]
    /\ salts \in 0..MaxLogins /\ edits \in 0..MaxEdits
    /\ losses \in 0..MaxLosses /\ expiries \in 0..MaxExpiries

\* A session that has passed the challenge belongs to an address whose hotspot
\* knows the password, even though the server compares IPs only, answers to the
\* address that is in the record by then, and lets anybody restart the login.
SessionsAreProven ==
    rec # NoRecord /\ rec.conn \in {"WAITING_CONFIG", "YES"} => rec.addr \in Configured

\* A deleted repeater stays deleted until it is registered again
\* (repeaters.go:83, "Repeater deleted").  (Violated: a handler that had read
\* the row saves it back.)
DeletedStaysDeleted == [][db = NoRow /\ db' # NoRow => edits' > edits]_vars

\* A repeater that wants to disconnect (const.go:19) is disconnected.
\* (Violated: the handler's length check never lets an RPTCL through.)
DisconnectHonoured ==
    [][\A m \in inbox : m.cmd = "RPTCL" /\ Valid(m, "YES") /\ m \notin inbox' /\ losses' = losses
            => rec' = NoRecord]_vars

\* Why SessionsAreProven: every salt on its way was given to one address only, so
\* that a record with that salt is a record of that address ...
Owns(s, a) == rec # NoRecord /\ rec.salt = s => rec.addr = a

\* ... and only that address's hotspot, if it has the password, can answer it.
KeyIsOwn(m) ==
    m.cmd = "RPTK" =>
        /\ m.salt <= salts
        /\ m.salt \in Salt => Owns(m.salt, m.from)
        /\ m.pw # Wrong => m.from \in Configured

SaltsHaveOwners ==
    /\ rec # NoRecord => rec.salt <= salts
    /\ \A a \in pending : a.salt <= salts
    /\ \A d \in down : d.salt <= salts /\ (d.salt \in Salt => Owns(d.salt, d.to))
    /\ \A m \in inbox : KeyIsOwn(m)
    /\ KeyIsOwn(msg)
    /\ pc \in {"keySave", "keyCompare"} => msg.cmd = "RPTK"

SessionInv == TypeOK /\ SaltsHaveOwners /\ SessionsAreProven

\* Whatever finite number of packets is lost and of records expires, a hotspot
\* with the right password ends up connected, and the server agrees.
LoginCompletes ==
    \A a \in Configured :
        <>[](phase[a] = "running" /\ rec # NoRecord /\ rec.conn = "YES" /\ rec.addr = a)
=============================================================================
