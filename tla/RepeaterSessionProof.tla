------------------------ MODULE RepeaterSessionProof ------------------------
(***************************************************************************)
(* For any number of hotspots, of IPs they share, of logins, of packets    *)
(* under way, of registrations and of lost packets: a session that has     *)
(* passed the challenge belongs to a hotspot that knows the password.      *)
(***************************************************************************)
EXTENDS RepeaterSession, TLAPS

\* What a record, a request and an answer are made of.
LEMMA RecordFields ==
    /\ \A r \in Record : r # NoRecord /\ r.addr \in Addrs /\ r.salt \in Int
    /\ \A a \in Addrs, s \in Salt \cup {NoSalt},
          c \in {"RPTL-RECEIVED", "CHALLENGE_SENT", "WAITING_CONFIG", "YES"} :
            [conn |-> c, addr |-> a, salt |-> s] \in Record
BY SessionAssumption DEF Record, NoRecord, Salt, NoSalt

\* Assigning one field of a session record keeps its type.
LEMMA RecordUpdate ==
    ASSUME NEW r \in Record, NEW c \in {"WAITING_CONFIG", "YES"}
    PROVE  /\ [r EXCEPT !.conn = c] \in Record
           /\ [r EXCEPT !.conn = c].conn = c
           /\ [r EXCEPT !.conn = c].addr = r.addr
           /\ [r EXCEPT !.conn = c].salt = r.salt
BY DEF Record

\* The fields of a request.
LEMMA RequestFields ==
    \A m \in Request :
        /\ m.from \in Addrs
        /\ m.cmd = "RPTK" => m.salt \in Int /\ m.pw \in Int
BY SessionAssumption DEF Request, Salt, IdPayload, Password, Wrong

\* The fields of an answer.
LEMMA AnswerFields ==
    /\ \A a \in Answer : a.salt \in Int
    /\ \A c \in {"RPTACK", "MSTNAK", "MSTPONG"}, s \in Salt \cup {IdPayload} :
            [cmd |-> c, salt |-> s] \in Answer
BY SessionAssumption DEF Answer, Salt, IdPayload

\* A step that leaves the owner of every earlier salt as it was, and puts no
\* answer and no key of its own under way, keeps the owners.
LEMMA OwnersKept ==
    ASSUME SessionInv,
           salts' \in Int, salts <= salts',
           rec' # NoRecord => rec'.salt <= salts',
           \A s \in Salt, a \in Addrs : s <= salts /\ Owns(s, a) => Owns(s, a)',
           \A a \in pending' : a.salt <= salts',
           down' \subseteq down, inbox' \subseteq inbox,
           msg' \in inbox \cup {msg, NoRequest},
           pc' \in {"keySave", "keyCompare"} => msg'.cmd = "RPTK"
    PROVE  SaltsHaveOwners'
<1>1. /\ salts \in Int /\ msg \in Request \cup {NoRequest} /\ inbox \subseteq Request
      /\ \A d \in down : [cmd |-> d.cmd, salt |-> d.salt] \in Answer /\ d.to \in Addrs
  BY SessionAssumption DEF SessionInv, TypeOK
<1>2. \A d \in down' : d.salt <= salts' /\ (d.salt \in Salt => Owns(d.salt, d.to)')
  <2> SUFFICES ASSUME NEW d \in down'
               PROVE  d.salt <= salts' /\ (d.salt \in Salt => Owns(d.salt, d.to)')
    OBVIOUS
  <2>1. d.to \in Addrs /\ d.salt \in Int
    BY <1>1, AnswerFields
  <2>2. d.salt <= salts /\ (d.salt \in Salt => Owns(d.salt, d.to))
    BY DEF SessionInv, SaltsHaveOwners
  <2>3. QED BY <1>1, <2>1, <2>2
<1>3. ASSUME NEW m \in Request, KeyIsOwn(m)
      PROVE  KeyIsOwn(m)'
  <2>1. m.from \in Addrs /\ (m.cmd = "RPTK" => m.salt \in Int)
    BY RequestFields
  <2>2. QED BY <1>1, <1>3, <2>1 DEF KeyIsOwn
<1>4. KeyIsOwn(NoRequest)'
  BY DEF KeyIsOwn, NoRequest
<1>5. \A m \in inbox' : KeyIsOwn(m)'
  BY <1>1, <1>3 DEF SessionInv, SaltsHaveOwners
<1>6. KeyIsOwn(msg)'
  BY <1>1, <1>3, <1>4 DEF SessionInv, SaltsHaveOwners
<1>7. QED BY <1>2, <1>5, <1>6 DEF SaltsHaveOwners

\* A packet that leaves the record alone.
LEMMA TakePreserves ==
    ASSUME SessionInv, NEW m \in inbox,
           NEW label \in {"idle", "save", "keySave", "pingSave"}, Take(m, label),
           label = "keySave" => m.cmd = "RPTK",
           UNCHANGED <<rec, db, salts>>,
           row' \in Password \cup {NoRow},
           pending' = pending \/ Nak
    PROVE  SessionInv'
<1>1. /\ pending' \subseteq Answer /\ salts \in Int
      /\ \A a \in pending' : a.salt <= salts
  <2>1. [cmd |-> "MSTNAK", salt |-> IdPayload] \in Answer
    BY AnswerFields
  <2>2. salts \in Int /\ IdPayload <= salts
    BY SessionAssumption DEF SessionInv, TypeOK, IdPayload
  <2>3. QED BY <2>1, <2>2 DEF SessionInv, TypeOK, SaltsHaveOwners, Nak, Send
<1>2. msg' \in inbox \cup {msg, NoRequest} /\ inbox' \subseteq inbox
  BY DEF Take
<1>3. TypeOK'
  BY <1>1, <1>2 DEF SessionInv, TypeOK, Take, client
<1>4. SaltsHaveOwners'
  <2>1. rec' = rec /\ down' = down /\ salts' = salts
    BY DEF Take
  <2>2. pc' \in {"keySave", "keyCompare"} => msg'.cmd = "RPTK"
    BY DEF Take
  <2>3. \A s \in Salt, a \in Addrs : Owns(s, a) => Owns(s, a)'
    BY <2>1 DEF Owns
  <2>4. rec' # NoRecord => rec'.salt <= salts'
    BY <2>1 DEF SessionInv, SaltsHaveOwners
  <2>5. QED BY <1>1, <1>2, <2>1, <2>2, <2>3, <2>4, OwnersKept
<1>5. SessionsAreProven'
  BY DEF SessionInv, SessionsAreProven
<1>6. QED BY <1>3, <1>4, <1>5 DEF SessionInv

\* A step that goes on with the packet and leaves the record alone.
LEMMA ContinuePreserves ==
    ASSUME SessionInv,
           NEW label \in {"idle", "keyCompare", "pingAnswer"}, Continue(label),
           label = "keyCompare" => pc = "keySave",
           UNCHANGED <<rec, salts>>,
           db' \in Password \cup {NoRow}, row' \in Password \cup {NoRow},
           pending' = pending \/ Nak \/ Send("MSTPONG", IdPayload)
    PROVE  SessionInv'
<1>1. /\ pending' \subseteq Answer /\ salts \in Int
      /\ \A a \in pending' : a.salt <= salts
  <2>1. /\ [cmd |-> "MSTNAK", salt |-> IdPayload] \in Answer
        /\ [cmd |-> "MSTPONG", salt |-> IdPayload] \in Answer
    BY AnswerFields
  <2>2. salts \in Int /\ IdPayload <= salts
    BY SessionAssumption DEF SessionInv, TypeOK, IdPayload
  <2>3. QED BY <2>1, <2>2 DEF SessionInv, TypeOK, SaltsHaveOwners, Nak, Send
<1>2. msg' \in inbox \cup {msg, NoRequest}
  BY DEF Continue
<1>3. TypeOK'
  BY <1>1, <1>2 DEF SessionInv, TypeOK, Continue, client
<1>4. SaltsHaveOwners'
  <2>1. rec' = rec /\ down' = down /\ salts' = salts /\ inbox' = inbox
    BY DEF Continue
  <2>2. pc' \in {"keySave", "keyCompare"} => msg'.cmd = "RPTK"
    BY DEF Continue, SessionInv, SaltsHaveOwners
  <2>3. \A s \in Salt, a \in Addrs : Owns(s, a) => Owns(s, a)'
    BY <2>1 DEF Owns
  <2>4. rec' # NoRecord => rec'.salt <= salts'
    BY <2>1 DEF SessionInv, SaltsHaveOwners
  <2>5. QED BY <1>1, <1>2, <2>1, <2>2, <2>3, <2>4, OwnersKept
<1>5. SessionsAreProven'
  BY DEF SessionInv, SessionsAreProven
<1>6. QED BY <1>3, <1>4, <1>5 DEF SessionInv

\* An RPTL: the new record's salt is the owner's of nothing that is under way.
LEMMA LoginPreserves ==
    ASSUME SessionInv, NEW m \in inbox, LoginUnknown(m) \/ Login(m)
    PROVE  SessionInv'
<1>1. /\ m \in Request /\ m.from \in Addrs
      /\ salts \in Nat /\ salts' \in 0..MaxLogins /\ salts <= salts' /\ salts' \in Int
  BY RequestFields, SessionAssumption DEF SessionInv, TypeOK, LoginUnknown, Login
<1>2. /\ rec' \in Record /\ rec'.conn \in {"RPTL-RECEIVED", "CHALLENGE_SENT"}
      /\ rec'.salt <= salts' /\ rec'.salt \in Int
      /\ rec'.salt = NoSalt \/ rec'.salt > salts
  <2>1. CASE LoginUnknown(m)
    <3>1. rec' = [conn |-> "RPTL-RECEIVED", addr |-> m.from, salt |-> NoSalt]
      BY <2>1 DEF LoginUnknown
    <3>2. rec' \in Record
      BY <1>1, <3>1, RecordFields
    <3>3. QED BY <1>1, <3>1, <3>2 DEF NoSalt
  <2>2. CASE Login(m)
    <3>1. rec' = [conn |-> "CHALLENGE_SENT", addr |-> m.from, salt |-> salts']
      BY <2>2 DEF Login
    <3>2. salts' \in Salt /\ salts' > salts
      BY <1>1, <2>2, SessionAssumption DEF Login, Salt
    <3>3. rec' \in Record
      BY <1>1, <3>1, <3>2, RecordFields
    <3>4. QED BY <1>1, <3>1, <3>2, <3>3
  <2>3. QED BY <2>1, <2>2
<1>3. pending' \subseteq Answer /\ \A a \in pending' : a.salt <= salts'
  <2>1. PICK c \in {"RPTACK", "MSTNAK"}, s \in Salt \cup {IdPayload} :
            s <= salts' /\ pending' = pending \cup {[cmd |-> c, salt |-> s]}
    <3>1. CASE LoginUnknown(m)
      <4>1. IdPayload <= salts'
        BY <1>1 DEF IdPayload
      <4>2. pending' = pending \cup {[cmd |-> "MSTNAK", salt |-> IdPayload]}
        BY <3>1 DEF LoginUnknown, Nak, Send
      <4>3. QED BY <4>1, <4>2
    <3>2. CASE Login(m)
      <4>1. salts' \in Salt /\ salts' <= salts'
        BY <1>1, <3>2, SessionAssumption DEF Login, Salt
      <4>2. pending' = pending \cup {[cmd |-> "RPTACK", salt |-> salts']}
        BY <3>2 DEF Login, Send
      <4>3. QED BY <4>1, <4>2
    <3>3. QED BY <3>1, <3>2
  <2>2. [cmd |-> c, salt |-> s] \in Answer
    BY AnswerFields
  <2>3. \A a \in pending : a.salt \in Int /\ a.salt <= salts
    BY AnswerFields DEF SessionInv, TypeOK, SaltsHaveOwners
  <2>4. QED BY <1>1, <2>1, <2>2, <2>3 DEF SessionInv, TypeOK
<1>4. /\ db' = db /\ row' = row /\ down' = down /\ inbox' \subseteq inbox
      /\ pc' = "idle" /\ msg' = NoRequest
      /\ UNCHANGED <<phase, asked, edits, losses, expiries>>
  BY DEF LoginUnknown, Login, Take, client
<1>5. TypeOK'
  BY <1>1, <1>2, <1>3, <1>4 DEF SessionInv, TypeOK
<1>6. SaltsHaveOwners'
  <2>1. \A s \in Salt, a \in Addrs : s <= salts => Owns(s, a)'
    BY <1>1, <1>2, SessionAssumption DEF Owns, Salt, NoSalt
  <2>2. QED BY <1>1, <1>2, <1>3, <1>4, <2>1, OwnersKept
<1>7. SessionsAreProven'
  BY <1>2 DEF SessionsAreProven
<1>8. QED BY <1>5, <1>6, <1>7 DEF SessionInv

\* A correct answer to the challenge: only the owner of its salt can have sent
\* it, and knows the password.
LEMMA KeyPreserves ==
    ASSUME SessionInv, KeyCompare
    PROVE  SessionInv'
<1>1. /\ pc = "keyCompare" /\ msg \in Request /\ msg.cmd = "RPTK" /\ KeyIsOwn(msg)
      /\ row \in Password \cup {NoRow}
      /\ Continue("idle") /\ UNCHANGED <<db, salts>> /\ row' = NoRow
  <2>1. NoRequest.cmd # "RPTK"
    BY DEF NoRequest
  <2>2. QED BY <2>1 DEF SessionInv, TypeOK, SaltsHaveOwners, KeyCompare
<1>2. CASE rec # NoRecord /\ msg.salt = rec.salt /\ msg.pw = row
  <2>1. /\ rec \in Record
        /\ rec' = [rec EXCEPT !.conn = "WAITING_CONFIG"]
        /\ Send("RPTACK", IdPayload)
    BY <1>2 DEF KeyCompare, SessionInv, TypeOK
  <2>2. /\ rec' \in Record /\ rec'.addr = rec.addr /\ rec'.salt = rec.salt
        /\ rec' # NoRecord /\ rec.salt \in Salt \cup {NoSalt} /\ rec.salt \in Int
    BY <2>1, RecordUpdate, RecordFields DEF Record
  <2>3. rec.addr \in Configured
    <3>1. msg.salt \in Salt
      BY <1>1, <1>2, <2>2, SessionAssumption DEF Request, Salt, NoSalt, IdPayload
    <3>2. rec.addr = msg.from
      BY <1>1, <1>2, <3>1 DEF KeyIsOwn, Owns
    <3>3. msg.pw # Wrong
      BY <1>1, <1>2 DEF Password, NoRow, Wrong
    <3>4. QED BY <1>1, <3>2, <3>3 DEF KeyIsOwn
  <2>4. /\ pending' \subseteq Answer /\ salts \in Int
        /\ \A a \in pending' : a.salt <= salts
    <3>1. [cmd |-> "RPTACK", salt |-> IdPayload] \in Answer
      BY AnswerFields
    <3>2. salts \in Int /\ IdPayload <= salts
      BY SessionAssumption DEF SessionInv, TypeOK, IdPayload
    <3>3. QED BY <2>1, <3>1, <3>2 DEF SessionInv, TypeOK, SaltsHaveOwners, Send
  <2>5. TypeOK'
    BY <1>1, <2>2, <2>4 DEF SessionInv, TypeOK, Continue, client
  <2>6. SaltsHaveOwners'
    <3>1. msg' = NoRequest /\ pc' = "idle" /\ down' = down /\ inbox' = inbox
      BY <1>1 DEF Continue
    <3>2. \A s \in Salt, a \in Addrs : Owns(s, a) => Owns(s, a)'
      BY <1>2, <2>2 DEF Owns
    <3>3. rec'.salt <= salts' /\ salts' = salts
      BY <1>1, <1>2, <2>2 DEF SessionInv, SaltsHaveOwners
    <3>4. QED BY <2>4, <3>1, <3>2, <3>3, OwnersKept
  <2>7. SessionsAreProven'
    BY <2>2, <2>3 DEF SessionsAreProven
  <2>8. QED BY <2>5, <2>6, <2>7 DEF SessionInv
<1>3. CASE ~(rec # NoRecord /\ msg.salt = rec.salt /\ msg.pw = row)
  <2>1. Nak /\ rec' = rec
    BY <1>3 DEF KeyCompare
  <2>2. db' \in Password \cup {NoRow} /\ row' \in Password \cup {NoRow}
    BY <1>1 DEF SessionInv, TypeOK
  <2>3. QED BY <1>1, <2>1, <2>2, ContinuePreserves
<1>4. QED BY <1>2, <1>3

\* An accepted configuration: the session had passed the challenge already.
LEMMA ConfigPreserves ==
    ASSUME SessionInv, NEW m \in inbox, ConfigAccepted(m)
    PROVE  SessionInv'
<1> DEFINE label == IF db = NoRow THEN "idle" ELSE "save"
<1>1. /\ rec # NoRecord /\ rec \in Record /\ rec.conn = "WAITING_CONFIG"
      /\ rec' = [rec EXCEPT !.conn = "YES"]
      /\ Send("RPTACK", IdPayload) /\ Take(m, label)
      /\ row' = db /\ db' = db /\ salts' = salts
  BY DEF ConfigAccepted, Valid, SessionInv, TypeOK
<1>2. /\ rec' \in Record /\ rec'.addr = rec.addr /\ rec'.salt = rec.salt
      /\ rec' # NoRecord
  BY <1>1, RecordUpdate, RecordFields
<1>3. /\ pending' \subseteq Answer /\ salts \in Int
      /\ \A a \in pending' : a.salt <= salts
  <2>1. [cmd |-> "RPTACK", salt |-> IdPayload] \in Answer
    BY AnswerFields
  <2>2. salts \in Int /\ IdPayload <= salts
    BY SessionAssumption DEF SessionInv, TypeOK, IdPayload
  <2>3. QED BY <1>1, <2>1, <2>2 DEF SessionInv, TypeOK, SaltsHaveOwners, Send
<1>4. /\ msg' \in {m, NoRequest} /\ inbox' \subseteq inbox /\ down' = down
      /\ pc' \in {"idle", "save"}
      /\ UNCHANGED <<phase, asked, edits, losses, expiries>>
  BY <1>1 DEF Take, client
<1>5. TypeOK'
  BY <1>1, <1>2, <1>3, <1>4 DEF SessionInv, TypeOK
<1>6. SaltsHaveOwners'
  <2>1. \A s \in Salt, a \in Addrs : Owns(s, a) => Owns(s, a)'
    BY <1>1, <1>2 DEF Owns
  <2>2. rec'.salt <= salts'
    BY <1>1, <1>2 DEF SessionInv, SaltsHaveOwners
  <2>3. QED BY <1>1, <1>3, <1>4, <2>1, <2>2, OwnersKept
<1>7. SessionsAreProven'
  BY <1>1, <1>2 DEF SessionInv, SessionsAreProven
<1>8. QED BY <1>5, <1>6, <1>7 DEF SessionInv

\* The handler of a packet, whichever branch it takes.
LEMMA HandlePreserves ==
    ASSUME SessionInv, Handle
    PROVE  SessionInv'
<1>1. db \in Password \cup {NoRow} /\ row \in Password \cup {NoRow}
  BY DEF SessionInv, TypeOK
<1>2. NoRow \in Password \cup {NoRow}
  OBVIOUS
<1>3. ASSUME NEW m \in inbox,
             \/ KeyRefused(m) \/ ConfigRefused(m) \/ ConfigInvalid(m)
             \/ PingRefused(m) \/ PingUnknown(m)
             \/ TrafficDropped(m) \/ CloseIgnored(m)
      PROVE  SessionInv'
  <2>1. /\ Take(m, "idle") /\ UNCHANGED <<rec, db, row, salts>>
        /\ pending' = pending \/ Nak
    BY <1>3 DEF KeyRefused, ConfigRefused, ConfigInvalid, PingRefused, PingUnknown,
                TrafficDropped, CloseIgnored
  <2>2. QED BY <1>1, <2>1, TakePreserves
<1>4. ASSUME NEW m \in inbox, KeyFound(m) \/ PingFound(m) \/ TrafficFound(m)
      PROVE  SessionInv'
  <2>1. CASE KeyFound(m)
    BY <1>1, <2>1, TakePreserves DEF KeyFound
  <2>2. CASE PingFound(m)
    BY <1>1, <2>2, TakePreserves DEF PingFound
  <2>3. CASE TrafficFound(m)
    BY <1>1, <2>3, TakePreserves DEF TrafficFound
  <2>4. QED BY <1>4, <2>1, <2>2, <2>3
<1>5. CASE KeySave
  BY <1>1, <1>5, ContinuePreserves DEF KeySave
<1>6. CASE Save("save", "idle") \/ Save("pingSave", "pingAnswer")
  BY <1>1, <1>2, <1>6, ContinuePreserves DEF Save
<1>7. CASE PingAnswer
  BY <1>1, <1>7, ContinuePreserves DEF PingAnswer
<1>8. QED
  BY <1>3, <1>4, <1>5, <1>6, <1>7, LoginPreserves, KeyPreserves, ConfigPreserves
  DEF Handle

\* Expiry, loss and the web API: nothing new gets under way.
LEMMA AroundPreserves ==
    ASSUME SessionInv, Expire \/ Lose \/ Register \/ DeleteRepeater
    PROVE  SessionInv'
<1>1. /\ rec' \in {rec, NoRecord} /\ UNCHANGED <<pc, msg, row, salts, client, pending>>
      /\ inbox' \subseteq inbox /\ down' \subseteq down
  BY DEF Expire, Lose, Register, DeleteRepeater, server
<1>2. /\ db' \in Password \cup {NoRow} /\ edits' \in 0..MaxEdits
      /\ losses' \in 0..MaxLosses /\ expiries' \in 0..MaxExpiries
  <2>1. CASE Expire
    BY <2>1, SessionAssumption DEF Expire, SessionInv, TypeOK
  <2>2. CASE Lose
    BY <2>2, SessionAssumption DEF Lose, server, SessionInv, TypeOK
  <2>3. CASE Register
    BY <2>3, SessionAssumption DEF Register, SessionInv, TypeOK, Password
  <2>4. CASE DeleteRepeater
    BY <2>4, SessionAssumption DEF DeleteRepeater, SessionInv, TypeOK
  <2>5. QED BY <2>1, <2>2, <2>3, <2>4
<1>3. TypeOK'
  BY <1>1, <1>2 DEF SessionInv, TypeOK, client
<1>4. SaltsHaveOwners'
  <2>1. \A s \in Salt, a \in Addrs : Owns(s, a) => Owns(s, a)'
    BY <1>1 DEF Owns
  <2>2. /\ rec' # NoRecord => rec'.salt <= salts'
        /\ \A a \in pending' : a.salt <= salts'
        /\ pc' \in {"keySave", "keyCompare"} => msg'.cmd = "RPTK"
    BY <1>1 DEF SessionInv, SaltsHaveOwners
  <2>3. salts \in Int
    BY DEF SessionInv, TypeOK
  <2>4. QED BY <1>1, <2>1, <2>2, <2>3, OwnersKept
<1>5. SessionsAreProven'
  BY <1>1 DEF SessionInv, SessionsAreProven
<1>6. QED BY <1>3, <1>4, <1>5 DEF SessionInv

\* An answer is given the address of the record: the owner of the record's salt.
LEMMA ResolvePreserves ==
    ASSUME SessionInv, NEW a \in pending, Resolve(a)
    PROVE  SessionInv'
<1>1. /\ UNCHANGED <<rec, db, pc, msg, row, salts, phase, asked>>
      /\ UNCHANGED <<inbox, edits, losses, expiries>>
      /\ pending' \subseteq pending
  BY DEF Resolve, server, client
<1>2. /\ a \in Answer /\ a.salt <= salts /\ [cmd |-> a.cmd, salt |-> a.salt] \in Answer
  BY DEF SessionInv, TypeOK, SaltsHaveOwners, Answer
<1>3. ASSUME NEW d \in down', d \notin down
      PROVE  /\ d = [cmd |-> a.cmd, salt |-> a.salt, to |-> rec.addr]
             /\ rec \in Record /\ rec.addr \in Addrs
  BY <1>3, RecordFields DEF Resolve, SessionInv, TypeOK
<1>4. TypeOK'
  <2>1. \A d \in down' : [cmd |-> d.cmd, salt |-> d.salt] \in Answer /\ d.to \in Addrs
    <3>1. ASSUME NEW d \in down', d \notin down
          PROVE  d.cmd = a.cmd /\ d.salt = a.salt /\ d.to \in Addrs
      BY <1>3, <3>1
    <3>2. QED BY <1>2, <3>1 DEF SessionInv, TypeOK
  <2>2. QED BY <1>1, <2>1 DEF SessionInv, TypeOK
<1>5. SaltsHaveOwners'
  <2>1. \A d \in down' : d.salt <= salts /\ (d.salt \in Salt => Owns(d.salt, d.to))
    BY <1>2, <1>3 DEF SessionInv, SaltsHaveOwners, Owns
  <2>2. QED BY <1>1, <2>1 DEF SessionInv, SaltsHaveOwners, Owns, KeyIsOwn
<1>6. SessionsAreProven'
  BY <1>1 DEF SessionInv, SessionsAreProven
<1>7. QED BY <1>4, <1>5, <1>6 DEF SessionInv

\* A hotspot's request, and what it makes of an answer.
LEMMA PostPreserves ==
    ASSUME SessionInv, NEW m \in Request, KeyIsOwn(m), Post(m),
           down' \subseteq down,
           phase' \in [Addrs -> {"down", "login", "auth", "config", "running"}],
           asked' \in [Addrs -> BOOLEAN]
    PROVE  SessionInv'
<1>1. /\ inbox' = inbox \cup {m}
      /\ UNCHANGED <<rec, db, pc, msg, row, salts, pending, edits, losses, expiries>>
  BY DEF Post, server
<1>2. TypeOK'
  BY <1>1 DEF SessionInv, TypeOK
<1>3. SaltsHaveOwners'
  BY <1>1 DEF SessionInv, SaltsHaveOwners, Owns, KeyIsOwn
<1>4. SessionsAreProven'
  BY <1>1 DEF SessionInv, SessionsAreProven
<1>5. QED BY <1>2, <1>3, <1>4 DEF SessionInv

\* A step of the repeater itself.
LEMMA HotspotPreserves ==
    ASSUME SessionInv, NEW a \in Addrs,
           Hotspot(a) \/ Talk(a, "DMRD") \/ Talk(a, "RPTCL")
    PROVE  SessionInv'
<1>1. /\ phase \in [Addrs -> {"down", "login", "auth", "config", "running"}]
      /\ asked \in [Addrs -> BOOLEAN]
  BY DEF SessionInv, TypeOK
<1>2. ASSUME NEW d \in down, Receive(a, d)
      PROVE  SessionInv'
  <2>1. /\ down' \subseteq down
        /\ UNCHANGED <<rec, db, pc, msg, row, salts, inbox, pending, edits, losses, expiries>>
    BY <1>2 DEF Receive, server
  <2>2. phase' \in [Addrs -> {"down", "login", "auth", "config", "running"}]
    BY <1>1, <1>2 DEF Receive
  <2>3. asked' \in [Addrs -> BOOLEAN]
    BY <1>1, <1>2 DEF Receive
  <2>4. TypeOK'
    BY <2>1, <2>2, <2>3 DEF SessionInv, TypeOK
  <2>5. SaltsHaveOwners'
    BY <2>1 DEF SessionInv, SaltsHaveOwners, Owns, KeyIsOwn
  <2>6. SessionsAreProven'
    BY <2>1 DEF SessionInv, SessionsAreProven
  <2>7. QED BY <2>4, <2>5, <2>6 DEF SessionInv
<1>3. ASSUME NEW d \in down, NEW pw \in Password \cup {Wrong}, Accept(a, d, pw)
      PROVE  SessionInv'
  <2>1. Reply(a, d, pw) \in Request /\ KeyIsOwn(Reply(a, d, pw))
    <3>1. /\ d.to = a /\ d.salt <= salts /\ d.salt \in Salt \cup {IdPayload}
          /\ d.salt \in Salt => Owns(d.salt, a)
      BY <1>3 DEF Accept, SessionInv, SaltsHaveOwners, TypeOK, Answer
    <3>2. pw # Wrong => a \in Configured
      BY <1>3 DEF Accept
    <3>3. CASE phase[a] = "login"
      BY <3>1, <3>2, <3>3 DEF Reply, Request, KeyIsOwn
    <3>4. CASE phase[a] # "login"
      BY <3>4 DEF Reply, Request, KeyIsOwn
    <3>5. QED BY <3>3, <3>4
  <2>2. /\ phase' \in [Addrs -> {"down", "login", "auth", "config", "running"}]
        /\ asked' = asked /\ down' \subseteq down /\ Post(Reply(a, d, pw))
    BY <1>1, <1>3 DEF Accept
  <2>3. QED BY <1>1, <2>1, <2>2, PostPreserves
<1>4. ASSUME NEW cmd \in {"RPTPING", "DMRD", "RPTCL"}, Talk(a, cmd)
      PROVE  SessionInv'
  <2>1. [cmd |-> cmd, from |-> a] \in Request /\ KeyIsOwn([cmd |-> cmd, from |-> a])
    BY DEF Request, KeyIsOwn
  <2>2. /\ phase' = phase /\ asked' \in [Addrs -> BOOLEAN] /\ down' = down
        /\ Post([cmd |-> cmd, from |-> a])
    BY <1>1, <1>4 DEF Talk
  <2>3. QED BY <1>1, <2>1, <2>2, PostPreserves
<1>5. CASE Restart(a)
  <2>1. [cmd |-> "RPTL", from |-> a] \in Request /\ KeyIsOwn([cmd |-> "RPTL", from |-> a])
    BY DEF Request, KeyIsOwn
  <2>2. /\ phase' \in [Addrs -> {"down", "login", "auth", "config", "running"}]
        /\ asked' \in [Addrs -> BOOLEAN] /\ down' = down
        /\ Post([cmd |-> "RPTL", from |-> a])
    BY <1>1, <1>5 DEF Restart
  <2>3. QED BY <2>1, <2>2, PostPreserves
<1>6. QED BY <1>2, <1>3, <1>4, <1>5 DEF Hotspot

\* The inductive invariant holds in every state of every behaviour.
THEOREM SessionInvariant == Spec => []SessionInv
<1>1. Init => SessionInv
  <2> SUFFICES ASSUME Init PROVE SessionInv
    OBVIOUS
  <2>1. phase \in [Addrs -> {"down", "login", "auth", "config", "running"}]
    BY DEF Init
  <2>2. asked \in [Addrs -> BOOLEAN]
    BY DEF Init
  <2>3. TypeOK
    BY <2>1, <2>2, SessionAssumption DEF Init, TypeOK, Password, NoRow
  <2>4. SaltsHaveOwners /\ SessionsAreProven
    BY DEF Init, SaltsHaveOwners, SessionsAreProven, KeyIsOwn, NoRequest
  <2>5. QED BY <2>3, <2>4 DEF SessionInv
<1>2. SessionInv /\ [Next]_vars => SessionInv'
  <2> SUFFICES ASSUME SessionInv, [Next]_vars PROVE SessionInv'
    OBVIOUS
  <2>1. CASE UNCHANGED vars
    <3>1. /\ UNCHANGED <<rec, db, pc, msg, row, salts, phase, asked>>
          /\ UNCHANGED <<inbox, pending, down, edits, losses, expiries>>
      BY <2>1 DEF vars, server, client
    <3>2. TypeOK'
      BY <3>1 DEF SessionInv, TypeOK
    <3>3. SaltsHaveOwners' /\ SessionsAreProven'
      BY <3>1 DEF SessionInv, SaltsHaveOwners, SessionsAreProven, Owns, KeyIsOwn
    <3>4. QED BY <3>2, <3>3 DEF SessionInv
  <2>2. CASE Next
    BY <2>2, HandlePreserves, AroundPreserves, ResolvePreserves, HotspotPreserves DEF Next
  <2>3. QED BY <2>1, <2>2
<1>3. QED BY <1>1, <1>2, PTL DEF Spec

\* The record, the row, the handler's locals and the packets keep their types.
THEOREM SessionTypes == Spec => []TypeOK
<1>1. SessionInv => TypeOK
  BY DEF SessionInv
<1>2. QED BY <1>1, SessionInvariant, PTL

\* A session that has passed the challenge belongs to a hotspot that knows the
\* password, for every number of hotspots, packets, logins and registrations.
THEOREM ProvenSessions == Spec => []SessionsAreProven
<1>1. SessionInv => SessionsAreProven
  BY DEF SessionInv
<1>2. QED BY <1>1, SessionInvariant, PTL
=============================================================================
