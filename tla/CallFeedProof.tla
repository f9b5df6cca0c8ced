--------------------------- MODULE CallFeedProof ---------------------------
(***************************************************************************)
(* For any users, repeaters, owners, links, connections and numbers of     *)
(* updates: the safety properties of CallFeed, that a call is shown to no  *)
(* one but those it concerns first of all.                                 *)
(***************************************************************************)
EXTENDS CallFeed, SequenceTheorems, FiniteSetTheorems, TLAPS

Message == Pubs \X BOOLEAN

All(c) == conn[c].got \o conn[c].queue

Once(s) == \A i, j \in DOMAIN s : s[i][1] = s[j][1] => i = j

\* Where a publication has told nobody yet.
Unsaid == {"none", "update", "read", "calls"}

\* Publication k has been made on the channel of u, and rightly so.
Rightly(u, k) ==
    /\ Concerned(u, k)
    /\ pub[k].pc \notin Unsaid
    /\ u # Nobody => pub[k].pc \in {"each", "done"}
    /\ u \notin {Nobody, call.from} => u \in pub[k].told

RightlyTold ==
    \A c \in Conns : \A i \in DOMAIN All(c) : Rightly(conn[c].channel, All(c)[i][1])

ToldOnce == \A c \in Conns : conn[c].channel # call.from => Once(All(c))

\* Each publication is made once: those to come have not begun.
NotBegun ==
    \A k \in Pubs : pub[k].pc # "none" =>
        \/ k \in Updates /\ k <= heard
        \/ k = Last /\ call.state \notin {"live", "ending"}

\* A handler that returned for a goroutine has released it.
OneReleased ==
    \A c \in Conns : conn[c].handler = "returned" /\ ~conn[c].cancelled =>
        conn[c].reader = "ended" \/ conn[c].writer = "ended"

FeedInv == TypeOK /\ NotBegun /\ RightlyTold /\ ToldOnce /\ OneReleased

----------------------------------------------------------------------------
(* Sequences of messages. *)

\* What has been received and what waits, end to end.
LEMMA EndToEnd ==
    ASSUME NEW S, NEW g \in Seq(S), NEW q \in Seq(S)
    PROVE  /\ g \o q \in Seq(S)
           /\ Len(g) \in Nat /\ Len(q) \in Nat
           /\ DOMAIN g = 1..Len(g) /\ DOMAIN q = 1..Len(q)
           /\ DOMAIN (g \o q) = 1..(Len(g) + Len(q)) /\ Len(g \o q) = Len(g) + Len(q)
           /\ \A i \in 1..Len(g) : (g \o q)[i] = g[i]
           /\ \A i \in 1..Len(q) : (g \o q)[Len(g) + i] = q[i]
<1>1. Len(g) \in Nat /\ Len(q) \in Nat /\ DOMAIN g = 1..Len(g) /\ DOMAIN q = 1..Len(q)
  BY LenProperties
<1>2. /\ g \o q \in Seq(S) /\ Len(g \o q) = Len(g) + Len(q)
      /\ \A i \in 1..(Len(g) + Len(q)) :
            (g \o q)[i] = IF i <= Len(g) THEN g[i] ELSE q[i - Len(g)]
  BY ConcatProperties
<1>3. DOMAIN (g \o q) = 1..(Len(g) + Len(q))
  BY <1>2, LenProperties
<1>4. \A i \in 1..Len(g) : (g \o q)[i] = g[i]
  BY <1>1, <1>2
<1>5. \A i \in 1..Len(q) : (g \o q)[Len(g) + i] = q[i]
  <2> SUFFICES ASSUME NEW i \in 1..Len(q) PROVE (g \o q)[Len(g) + i] = q[i]
    OBVIOUS
  <2>1. Len(g) + i \in 1..(Len(g) + Len(q)) /\ ~(Len(g) + i <= Len(g))
    BY <1>1
  <2>2. (g \o q)[Len(g) + i] = q[(Len(g) + i) - Len(g)]
    BY <1>2, <2>1
  <2>3. (Len(g) + i) - Len(g) = i
    BY <1>1
  <2>4. QED BY <2>2, <2>3
<1>6. QED BY <1>1, <1>2, <1>3, <1>4, <1>5

\* A message that is told comes last.
LEMMA ToldComesLast ==
    ASSUME NEW S, NEW g \in Seq(S), NEW q \in Seq(S), NEW x \in S
    PROVE  /\ Append(q, x) \in Seq(S)
           /\ g \o Append(q, x) \in Seq(S)
           /\ DOMAIN (g \o q) = 1..(Len(g) + Len(q))
           /\ DOMAIN (g \o Append(q, x)) = 1..(Len(g) + Len(q) + 1)
           /\ \A i \in DOMAIN (g \o q) : (g \o Append(q, x))[i] = (g \o q)[i]
           /\ (g \o Append(q, x))[Len(g) + Len(q) + 1] = x
<1> DEFINE p == Append(q, x)
<1>1. /\ p \in Seq(S) /\ Len(p) = Len(q) + 1 /\ p[Len(q) + 1] = x
      /\ \A i \in 1..Len(q) : p[i] = q[i]
  BY AppendProperties
<1> HIDE DEF p
<1>2. /\ Len(g) \in Nat /\ Len(q) \in Nat
      /\ DOMAIN (g \o q) = 1..(Len(g) + Len(q))
      /\ \A i \in 1..Len(g) : (g \o q)[i] = g[i]
      /\ \A i \in 1..Len(q) : (g \o q)[Len(g) + i] = q[i]
  BY EndToEnd
<1>3. /\ g \o p \in Seq(S)
      /\ DOMAIN (g \o p) = 1..(Len(g) + Len(p))
      /\ \A i \in 1..Len(g) : (g \o p)[i] = g[i]
      /\ \A i \in 1..Len(p) : (g \o p)[Len(g) + i] = p[i]
  <2>1. p \in Seq(S)
    BY <1>1
  <2>2. QED BY <2>1, EndToEnd
<1>4. DOMAIN (g \o p) = 1..(Len(g) + Len(q) + 1)
  BY <1>1, <1>2, <1>3
<1>5. ASSUME NEW i \in DOMAIN (g \o q) PROVE (g \o p)[i] = (g \o q)[i]
  <2>1. CASE i \in 1..Len(g)
    BY <1>2, <1>3, <2>1
  <2>2. CASE i \notin 1..Len(g)
    <3> DEFINE j == i - Len(g)
    <3>1. j \in 1..Len(q) /\ i = Len(g) + j
      BY <1>2, <2>2
    <3>2. j \in 1..Len(p)
      BY <1>1, <1>2, <3>1
    <3> HIDE DEF j
    <3>3. (g \o p)[i] = p[j] /\ (g \o q)[i] = q[j] /\ p[j] = q[j]
      BY <1>1, <1>2, <1>3, <3>1, <3>2
    <3>4. QED BY <3>3
  <2>3. QED BY <2>1, <2>2
<1>6. (g \o p)[Len(g) + Len(q) + 1] = x
  <2>1. Len(q) + 1 \in 1..Len(p) /\ Len(g) + (Len(q) + 1) = Len(g) + Len(q) + 1
    BY <1>1, <1>2
  <2>2. (g \o p)[Len(g) + (Len(q) + 1)] = p[Len(q) + 1]
    BY <1>3, <2>1
  <2>3. QED BY <1>1, <2>1, <2>2
<1>7. QED BY <1>1, <1>2, <1>3, <1>4, <1>5, <1>6 DEF p

\* Behind g, the messages of q move up when the first is taken.
Moved(g, i) == IF i <= Len(g) THEN i ELSE i + 1

MovesUp(g, q) ==
    /\ Len(g) \in Nat /\ Len(q) \in Nat \ {0}
    /\ DOMAIN (g \o q) = 1..(Len(g) + Len(q))
    /\ DOMAIN (g \o Tail(q)) = 1..(Len(g) + Len(q) - 1)
    /\ \A i \in DOMAIN (g \o Tail(q)) : (g \o Tail(q))[i] = (g \o q)[Moved(g, i)]

\* What the writer takes and sends, or drops, was there: every message that is
\* left had a place of its own.
LEMMA TakenWasThere ==
    ASSUME NEW S, NEW g \in Seq(S), NEW q \in Seq(S), q # <<>>
    PROVE  /\ Tail(q) \in Seq(S) /\ Append(g, Head(q)) \in Seq(S)
           /\ Append(g, Head(q)) \o Tail(q) = g \o q
           /\ MovesUp(g, q)
<1> DEFINE t == Tail(q)
           h == Append(g, Head(q))
<1>1. /\ Head(q) \in S /\ Head(q) = q[1] /\ t \in Seq(S) /\ Len(t) = Len(q) - 1
      /\ \A i \in 1..Len(t) : t[i] = q[i + 1]
  BY HeadTailProperties
<1>2. /\ h \in Seq(S) /\ Len(h) = Len(g) + 1 /\ h[Len(g) + 1] = q[1]
      /\ \A i \in 1..Len(g) : h[i] = g[i]
  BY <1>1, AppendProperties
<1> HIDE DEF t, h
<1>3. /\ g \o q \in Seq(S)
      /\ Len(g) \in Nat /\ Len(q) \in Nat
      /\ DOMAIN (g \o q) = 1..(Len(g) + Len(q)) /\ Len(g \o q) = Len(g) + Len(q)
      /\ \A i \in 1..Len(g) : (g \o q)[i] = g[i]
      /\ \A i \in 1..Len(q) : (g \o q)[Len(g) + i] = q[i]
  BY EndToEnd
<1>4. Len(q) > 0
  BY <1>3, EmptySeq
<1>5. /\ DOMAIN (g \o t) = 1..(Len(g) + Len(t))
      /\ \A i \in 1..Len(g) : (g \o t)[i] = g[i]
      /\ \A i \in 1..Len(t) : (g \o t)[Len(g) + i] = t[i]
  BY <1>1, EndToEnd
<1>6. /\ h \o t \in Seq(S)
      /\ DOMAIN (h \o t) = 1..(Len(h) + Len(t)) /\ Len(h \o t) = Len(h) + Len(t)
      /\ \A i \in 1..Len(h) : (h \o t)[i] = h[i]
      /\ \A i \in 1..Len(t) : (h \o t)[Len(h) + i] = t[i]
  <2>1. h \in Seq(S) /\ t \in Seq(S)
    BY <1>1, <1>2
  <2>2. QED BY <2>1, EndToEnd
<1>7. h \o t = g \o q
  <2>1. DOMAIN (h \o t) = DOMAIN (g \o q)
    BY <1>1, <1>2, <1>3, <1>6
  <2>2. ASSUME NEW i \in DOMAIN (g \o q) PROVE (h \o t)[i] = (g \o q)[i]
    <3>1. CASE i \in 1..Len(g)
      BY <1>2, <1>3, <1>6, <3>1
    <3>2. CASE i = Len(g) + 1
      <4>1. 1 \in 1..Len(q) /\ i \in 1..Len(h)
        BY <1>2, <1>3, <1>4, <3>2
      <4>2. (g \o q)[i] = q[1] /\ (h \o t)[i] = q[1]
        BY <1>2, <1>3, <1>6, <3>2, <4>1
      <4>3. QED BY <4>2
    <3>3. CASE i > Len(g) + 1
      <4> DEFINE j == i - (Len(g) + 1)
      <4>1. /\ j \in 1..Len(t) /\ j + 1 \in 1..Len(q)
            /\ i = Len(h) + j /\ i = Len(g) + (j + 1)
        BY <1>1, <1>2, <1>3, <3>3
      <4> HIDE DEF j
      <4>2. (h \o t)[i] = t[j] /\ (g \o q)[i] = q[j + 1] /\ t[j] = q[j + 1]
        BY <1>1, <1>3, <1>6, <4>1
      <4>3. QED BY <4>2
    <3>4. i \in 1..Len(g) \/ i = Len(g) + 1 \/ i > Len(g) + 1
      BY <1>3
    <3>5. QED BY <3>1, <3>2, <3>3, <3>4
  <2>3. Len(h \o t) = Len(g \o q) /\ 1..Len(h \o t) = DOMAIN (g \o q)
    BY <1>1, <1>2, <1>3, <1>6
  <2>4. \A i \in 1..Len(h \o t) : (h \o t)[i] = (g \o q)[i]
    BY <2>2, <2>3
  <2>5. QED BY <1>3, <1>6, <2>3, <2>4, SeqEqual, Zenon
<1>8. DOMAIN (g \o t) = 1..(Len(g) + Len(q) - 1)
  BY <1>1, <1>3, <1>5
<1>9. ASSUME NEW i \in DOMAIN (g \o t)
      PROVE  (g \o t)[i] = (g \o q)[Moved(g, i)]
  <2>1. CASE i \in 1..Len(g)
    BY <1>3, <1>5, <2>1 DEF Moved
  <2>2. CASE i \notin 1..Len(g)
    <3> DEFINE j == i - Len(g)
    <3>1. /\ j \in 1..Len(t) /\ j + 1 \in 1..Len(q) /\ Moved(g, i) = i + 1
          /\ i = Len(g) + j /\ i + 1 = Len(g) + (j + 1)
      BY <1>1, <1>3, <1>5, <2>2 DEF Moved
    <3> HIDE DEF j
    <3>2. (g \o t)[i] = t[j] /\ (g \o q)[i + 1] = q[j + 1] /\ t[j] = q[j + 1]
      BY <1>1, <1>3, <1>5, <3>1
    <3>3. QED BY <3>1, <3>2
  <2>3. QED BY <2>1, <2>2
<1>10. Len(q) \in Nat \ {0}
  BY <1>3, <1>4
<1>11. /\ t \in Seq(S) /\ h \in Seq(S) /\ h \o t = g \o q
       /\ Len(g) \in Nat /\ Len(q) \in Nat \ {0}
       /\ DOMAIN (g \o q) = 1..(Len(g) + Len(q))
       /\ DOMAIN (g \o t) = 1..(Len(g) + Len(q) - 1)
       /\ \A i \in DOMAIN (g \o t) :
            (g \o t)[i] = (g \o q)[Moved(g, i)]
  BY <1>1, <1>2, <1>3, <1>7, <1>8, <1>9, <1>10, Zenon
<1>12. QED BY <1>11, Zenon DEF t, h, MovesUp

\* In terms of Once: a message of a new publication leaves every publication
\* once, and so does taking one.
LEMMA OnceKept ==
    ASSUME NEW g \in Seq(Message), NEW q \in Seq(Message), Once(g \o q)
    PROVE  /\ \A x \in Message :
                (\A i \in DOMAIN (g \o q) : (g \o q)[i][1] # x[1]) => Once(g \o Append(q, x))
           /\ q # <<>> => Once(g \o Tail(q))
<1>1. ASSUME NEW x \in Message, \A i \in DOMAIN (g \o q) : (g \o q)[i][1] # x[1]
      PROVE  Once(g \o Append(q, x))
  <2> DEFINE s == g \o q
             z == g \o Append(q, x)
             n == Len(g) + Len(q)
  <2>1. /\ n \in Nat /\ DOMAIN s = 1..n /\ DOMAIN z = 1..(n + 1)
        /\ \A i \in DOMAIN s : z[i] = s[i]
        /\ z[n + 1] = x
    BY ToldComesLast, EndToEnd
  <2>2. Once(s) /\ \A i \in DOMAIN s : s[i][1] # x[1]
    BY <1>1
  <2> HIDE DEF s, z, n
  <2>3. \A i \in DOMAIN z : i \in DOMAIN s \/ (i = n + 1 /\ z[i] = x)
    BY <2>1
  <2>4. \A i, j \in DOMAIN z : z[i][1] = z[j][1] => i = j
    BY <2>1, <2>2, <2>3 DEF Once
  <2>5. QED BY <2>4 DEF Once, z
<1>2. ASSUME q # <<>>
      PROVE  Once(g \o Tail(q))
  <2>0. g \in Seq(Message) /\ q \in Seq(Message) /\ q # <<>>
    BY <1>2
  <2>1. MovesUp(g, q)
    BY <2>0, TakenWasThere
  <2> DEFINE s == g \o q
             z == g \o Tail(q)
             f(i) == Moved(g, i)
  <2>2. \A i \in DOMAIN z : f(i) \in DOMAIN s /\ z[i] = s[f(i)]
    BY <2>1 DEF Moved, MovesUp
  <2>3. \A i, j \in DOMAIN z : f(i) = f(j) => i = j
    BY <2>1 DEF Moved, MovesUp
  <2>4. Once(s)
    OBVIOUS
  <2> HIDE DEF s, z, f
  <2>5. \A i, j \in DOMAIN z : z[i][1] = z[j][1] => i = j
    BY <2>2, <2>3, <2>4 DEF Once
  <2>6. QED BY <2>5 DEF Once, z
<1>3. QED BY <1>1, <1>2

----------------------------------------------------------------------------
(* One publication on its way. *)

\* Rightly is about the part of the call that never changes, and about
\* publications that have begun.
LEMMA RightlyKept ==
    ASSUME TypeOK, NEW k \in Pubs, NEW u,
           call'.from = call.from, call'.to = call.to, call'.group = call.group,
           \/ pub' = pub
           \/ \E p \in Publication :
                /\ pub' = [pub EXCEPT ![k] = p]
                /\ \/ pub[k].pc \in Unsaid
                   \/ pub[k].pc = "find" /\ p.pc = "each" /\ p.told = pub[k].told
                   \/ /\ pub[k].pc = "each" /\ p.pc \in {"each", "done"}
                      /\ p.rows = pub[k].rows /\ pub[k].told \subseteq p.told
    PROVE  \A j \in Pubs : Rightly(u, j) => Rightly(u, j)'
<1>1. Public' <=> Public
  BY DEF Public
<1>2. CASE pub' = pub
  BY <1>1, <1>2 DEF Rightly, Concerned, Wants
<1>3. CASE pub' # pub
  <2>1. PICK p \in Publication :
            /\ pub' = [pub EXCEPT ![k] = p]
            /\ \/ pub[k].pc \in Unsaid
               \/ pub[k].pc = "find" /\ p.pc = "each" /\ p.told = pub[k].told
               \/ /\ pub[k].pc = "each" /\ p.pc \in {"each", "done"}
                  /\ p.rows = pub[k].rows /\ pub[k].told \subseteq p.told
    BY <1>3
  <2> SUFFICES ASSUME NEW j \in Pubs, Rightly(u, j)
               PROVE  Rightly(u, j)'
    OBVIOUS
  <2>2. CASE j # k
    <3>1. pub'[j] = pub[j]
      BY <2>1, <2>2 DEF TypeOK
    <3>2. QED BY <1>1, <3>1 DEF Rightly, Concerned, Wants
  <2>3. CASE j = k
    <3>1. pub'[j] = p
      BY <2>1, <2>3 DEF TypeOK
    <3>2. CASE pub[k].pc = "find" /\ p.pc = "each" /\ p.told = pub[k].told
      <4>1. u = Nobody /\ Concerned(u, j)
        BY <2>3, <3>2 DEF Rightly
      <4>2. \A r \in Repeaters : OwnerOf[r] # u
        BY <4>1, FeedAssumption
      <4>3. QED BY <1>1, <2>3, <3>1, <3>2, <4>1, <4>2 DEF Rightly, Concerned, Unsaid
    <3>3. CASE /\ pub[k].pc = "each" /\ p.pc \in {"each", "done"}
               /\ p.rows = pub[k].rows /\ pub[k].told \subseteq p.told
      BY <1>1, <2>3, <3>1, <3>3 DEF Rightly, Concerned, Wants, Unsaid
    <3>4. QED BY <2>1, <2>3, <3>2, <3>3 DEF Rightly, Unsaid
  <2>4. QED BY <2>2, <2>3
<1>4. QED BY <1>2, <1>3

----------------------------------------------------------------------------
(* The connections. *)

\* A connection has messages, in order.
LEMMA Messages ==
    ASSUME TypeOK, NEW c \in Conns
    PROVE  /\ conn[c] \in Connection
           /\ conn[c].got \in Seq(Message) /\ conn[c].queue \in Seq(Message)
           /\ All(c) \in Seq(Message)
           /\ \A i \in DOMAIN All(c) : All(c)[i] \in Message /\ All(c)[i][1] \in Pubs
<1>1. conn[c] \in Connection
  BY DEF TypeOK
<1>2. conn[c].got \in Seq(Message) /\ conn[c].queue \in Seq(Message)
  BY <1>1 DEF Connection, Message
<1>3. All(c) \in Seq(Message)
  BY <1>2, EndToEnd DEF All
<1>4. \A i \in DOMAIN All(c) : All(c)[i] \in Message
  BY <1>3, ElementOfSeq, LenProperties
<1>5. QED BY <1>1, <1>2, <1>3, <1>4 DEF Message

\* A connection that gets no message keeps what holds of those it has: they
\* stay, one is taken, or the connection is new.
LEMMA QuietStep ==
    ASSUME TypeOK, RightlyTold, ToldOnce,
           call'.from = call.from,
           \A u : \A j \in Pubs : Rightly(u, j) => Rightly(u, j)',
           \A c \in Conns :
              \/ All(c)' = <<>>
              \/ /\ conn'[c].channel = conn[c].channel
                 /\ \/ All(c)' = All(c)
                    \/ /\ conn[c].queue # <<>>
                       /\ All(c)' = conn[c].got \o Tail(conn[c].queue)
    PROVE  RightlyTold' /\ ToldOnce'
<1> SUFFICES ASSUME NEW c \in Conns
             PROVE  /\ \A i \in DOMAIN All(c)' : Rightly(conn[c].channel, All(c)[i][1])'
                    /\ (conn[c].channel # call.from)' => Once(All(c)')
  BY DEF RightlyTold, ToldOnce, Once
<1> DEFINE u == conn[c].channel
<1>1. /\ \A i \in DOMAIN All(c) : All(c)[i][1] \in Pubs /\ Rightly(u, All(c)[i][1])
      /\ u # call.from => Once(All(c))
  BY Messages DEF RightlyTold, ToldOnce
<1>2. CASE All(c)' = <<>>
  BY <1>2 DEF Once
<1>3. CASE conn'[c].channel = u /\ All(c)' = All(c)
  BY <1>1, <1>3
<1>4. CASE /\ conn'[c].channel = u /\ conn[c].queue # <<>>
           /\ All(c)' = conn[c].got \o Tail(conn[c].queue)
  <2> DEFINE g == conn[c].got
             q == conn[c].queue
  <2>1. g \in Seq(Message) /\ q \in Seq(Message) /\ q # <<>> /\ All(c) = g \o q
    BY <1>4, Messages DEF All
  <2> HIDE DEF g, q
  <2>2. \A i \in DOMAIN (g \o Tail(q)) : \E j \in DOMAIN (g \o q) : (g \o Tail(q))[i] = (g \o q)[j]
    <3>1. MovesUp(g, q)
      BY <2>1, TakenWasThere
    <3>2. \A i \in DOMAIN (g \o Tail(q)) :
            Moved(g, i) \in DOMAIN (g \o q)
      BY <3>1 DEF Moved, MovesUp
    <3>3. QED BY <3>1, <3>2 DEF MovesUp
  <2>3. All(c)' = g \o Tail(q)
    BY <1>4 DEF g, q
  <2>4. u # call.from => Once(All(c)')
    BY <1>1, <2>1, <2>3, OnceKept
  <2>5. ASSUME NEW i \in DOMAIN All(c)' PROVE Rightly(conn[c].channel, All(c)[i][1])'
    <3>1. PICK j \in DOMAIN All(c) : All(c)'[i] = All(c)[j]
      BY <2>1, <2>2, <2>3, <2>5
    <3>2. PICK v, k : v = conn[c].channel /\ k = All(c)[j][1]
      OBVIOUS
    <3>3. k \in Pubs /\ Rightly(v, k)
      BY <1>1, <3>2
    <3>4. Rightly(v, k)'
      BY <3>3
    <3>5. conn'[c].channel = v /\ All(c)'[i][1] = k
      BY <1>4, <3>1, <3>2
    <3>6. QED BY <3>4, <3>5
  <2>6. QED BY <1>4, <2>4, <2>5
<1>5. QED BY <1>2, <1>3, <1>4

\* Telling a channel what it had not been told.
LEMMA TellStep ==
    ASSUME TypeOK, RightlyTold, ToldOnce,
           call' = call,
           \A u : \A j \in Pubs : Rightly(u, j) => Rightly(u, j)',
           NEW key \in Keys, NEW k \in Pubs, Tell(key, k),
           Rightly(key, k)',
           key # call.from => ~Rightly(key, k)
    PROVE  /\ conn' \in [Conns -> Connection]
           /\ \A c \in Conns : /\ conn'[c].handler = conn[c].handler
                               /\ conn'[c].cancelled = conn[c].cancelled
                               /\ conn'[c].reader = conn[c].reader
                               /\ conn'[c].writer = conn[c].writer
           /\ RightlyTold' /\ ToldOnce'
<1> DEFINE x == <<k, pub[k].news>>
<1>1. x \in Message
  BY DEF TypeOK, Publication, Message
<1>2. ASSUME NEW c \in Conns
      PROVE  /\ conn'[c] \in Connection
             /\ conn'[c].handler = conn[c].handler /\ conn'[c].cancelled = conn[c].cancelled
             /\ conn'[c].reader = conn[c].reader /\ conn'[c].writer = conn[c].writer
             /\ conn'[c].channel = conn[c].channel /\ conn'[c].got = conn[c].got
             /\ \/ conn'[c].queue = conn[c].queue
                \/ conn[c].channel = key /\ conn'[c].queue = Append(conn[c].queue, x)
  <2> DEFINE p == Append(conn[c].queue, x)
  <2>1. conn[c] \in Connection /\ p \in Seq(Message)
    BY <1>1, Messages, AppendProperties
  <2>2. conn'[c] = IF conn[c].handler = "select" /\ conn[c].channel = key
                   THEN [conn[c] EXCEPT !.queue = p] ELSE conn[c]
    BY DEF Tell
  <2> HIDE DEF p
  <2>3. [conn[c] EXCEPT !.queue = p] \in Connection
    BY <2>1 DEF Connection, Message
  <2>4. QED BY <2>1, <2>2, <2>3 DEF Connection, p
<1>3. conn' \in [Conns -> Connection]
  <2>1. conn' = [c \in Conns |-> conn'[c]]
    BY DEF Tell
  <2>2. QED BY <1>2, <2>1
<1> HIDE DEF x
<1>4. ASSUME NEW c \in Conns
      PROVE  /\ \A i \in DOMAIN All(c)' : Rightly(conn[c].channel, All(c)[i][1])'
             /\ (conn[c].channel # call.from)' => Once(All(c)')
  <2> DEFINE u == conn[c].channel
             g == conn[c].got
             q == conn[c].queue
  <2>1. /\ \A i \in DOMAIN All(c) : All(c)[i][1] \in Pubs /\ Rightly(u, All(c)[i][1])
        /\ u # call.from => Once(All(c))
        /\ g \in Seq(Message) /\ q \in Seq(Message) /\ All(c) = g \o q
    BY Messages DEF RightlyTold, ToldOnce, All
  <2>2. CASE conn'[c].queue = q
    <3>1. All(c)' = All(c) /\ conn'[c].channel = u
      BY <1>2, <2>2 DEF All
    <3>2. QED BY <2>1, <3>1
  <2>3. CASE u = key /\ conn'[c].queue = Append(q, x)
    <3>1. All(c)' = g \o Append(q, x) /\ conn'[c].channel = u
      BY <1>2, <2>3 DEF All
    <3> HIDE DEF u, g, q
    <3>2. \A i \in DOMAIN (g \o Append(q, x)) :
            \/ (g \o Append(q, x))[i] = x
            \/ i \in DOMAIN (g \o q) /\ (g \o Append(q, x))[i] = (g \o q)[i]
      <4>1. /\ DOMAIN (g \o q) = 1..(Len(g) + Len(q))
            /\ DOMAIN (g \o Append(q, x)) = 1..(Len(g) + Len(q) + 1)
            /\ \A i \in DOMAIN (g \o q) : (g \o Append(q, x))[i] = (g \o q)[i]
            /\ (g \o Append(q, x))[Len(g) + Len(q) + 1] = x
            /\ Len(g) \in Nat /\ Len(q) \in Nat
        BY <1>1, <2>1, ToldComesLast, LenProperties
      <4>2. QED BY <4>1
    <3>3. x[1] = k
      BY DEF x
    <3>4. \A i \in DOMAIN All(c)' : Rightly(conn[c].channel, All(c)[i][1])'
      BY <2>1, <2>3, <3>1, <3>2, <3>3
    <3>5. u # call.from => \A i \in DOMAIN (g \o q) : (g \o q)[i][1] # x[1]
      BY <2>1, <2>3, <3>3
    <3>6. u # call.from => Once(g \o Append(q, x))
      BY <1>1, <2>1, <3>5, OnceKept
    <3>7. QED BY <3>1, <3>4, <3>6
  <2>4. QED BY <1>2, <2>2, <2>3
<1>5. RightlyTold' /\ ToldOnce'
  BY <1>4 DEF RightlyTold, ToldOnce, Once
<1>6. QED BY <1>2, <1>3, <1>5

----------------------------------------------------------------------------
(* The invariant, step by step. *)

LEMMA FeedInit ==
    ASSUME Init
    PROVE  FeedInv
<1> USE FeedAssumption, CallsAssumption
<1>1. call \in Call /\ link \in [Repeaters -> Link]
  BY DEF Init
<1>2. heard \in 0..MaxUpdates /\ relinks \in 0..MaxRelinks
  BY DEF Init
<1>3. NoPub \in Publication
  BY DEF NoPub, Publication, Link
<1>4. NoConn \in Connection
  <2>1. <<>> \in Seq(Message)
    BY EmptySeq
  <2>2. QED BY <2>1 DEF NoConn, Connection, Message
<1>5. TypeOK
  BY <1>1, <1>2, <1>3, <1>4 DEF Init, TypeOK
<1>6. NotBegun
  BY DEF Init, NotBegun, NoPub
<1>7. \A c \in Conns : conn[c].got = <<>> /\ conn[c].queue = <<>> /\ conn[c].handler = "none"
  BY DEF Init, NoConn
<1>8. \A c \in Conns : DOMAIN All(c) = {}
  <2> SUFFICES ASSUME NEW c \in Conns PROVE DOMAIN All(c) = {}
    OBVIOUS
  <2>1. All(c) = <<>> \o <<>>
    BY <1>7 DEF All
  <2>2. <<>> \in Seq(Message) /\ Len(<<>>) = 0
    BY EmptySeq
  <2>3. DOMAIN All(c) = 1..0
    BY <2>1, <2>2, EndToEnd
  <2>4. QED BY <2>3
<1>9. RightlyTold /\ ToldOnce
  BY <1>8 DEF RightlyTold, ToldOnce, Once
<1>10. OneReleased
  BY <1>7 DEF OneReleased
<1>11. QED BY <1>5, <1>6, <1>9, <1>10 DEF FeedInv

\* The call goes on, ends or is a key-up, and links change.
LEMMA CallSteps ==
    ASSUME FeedInv,
           (\E k \in Updates : Update(k) \/ SetActive(k)) \/ End \/ EndPublish \/ KeyUp
           \/ (\E r \in Repeaters, l \in Link : Relink(r, l))
    PROVE  FeedInv'
<1> USE FeedAssumption
<1>0. TypeOK /\ NotBegun /\ RightlyTold /\ ToldOnce /\ OneReleased
  BY DEF FeedInv
<1>1. /\ conn' = conn
      /\ call'.from = call.from /\ call'.to = call.to /\ call'.group = call.group
      /\ call' \in Call
  <2>1. call \in Call /\ call.active \in BOOLEAN /\ call.revived \in BOOLEAN
    BY <1>0 DEF TypeOK, Call
  <2>2. CASE \E k \in Updates : SetActive(k)
    BY <2>1, <2>2 DEF SetActive, Call
  <2>3. CASE End \/ EndPublish \/ KeyUp
    BY <2>1, <2>3 DEF End, EndPublish, KeyUp, Call
  <2>4. CASE (\E k \in Updates : Update(k)) \/ \E r \in Repeaters, l \in Link : Relink(r, l)
    BY <2>1, <2>4 DEF Update, Relink
  <2>5. QED BY <2>2, <2>3, <2>4
<1>2. Last \in Pubs /\ Updates \subseteq Pubs /\ Last \notin Updates
  BY DEF Last, Pubs, Updates
<1> DEFINE OneIsSaid ==
        \/ pub' = pub
        \/ \E k \in Pubs : \E p \in Publication :
               pub' = [pub EXCEPT ![k] = p] /\ pub[k].pc \in Unsaid
<1>3. /\ OneIsSaid
      /\ NotBegun'
      /\ heard' \in 0..MaxUpdates /\ relinks' \in 0..MaxRelinks
      /\ link' \in [Repeaters -> Link]
  <2>1. ASSUME NEW k \in Updates, Update(k)
        PROVE  OneIsSaid /\ NotBegun' /\ heard' \in 0..MaxUpdates
    <3>1. k \in Pubs /\ pub[k].pc = "none" /\ pub[k] \in Publication
      BY <1>0, <1>2, <2>1 DEF Update, NotBegun, TypeOK, Updates
    <3>2. [pub[k] EXCEPT !.pc = "update"] \in Publication
      BY <3>1 DEF Publication
    <3>3. pub' = [pub EXCEPT ![k] = [pub[k] EXCEPT !.pc = "update"]]
      BY <2>1 DEF Update
    <3>4. \A j \in Pubs : j # k => pub'[j] = pub[j]
      BY <1>0, <3>3 DEF TypeOK
    <3>5. heard' = k /\ heard \in Nat /\ k = heard + 1 /\ call' = call
      BY <1>0, <2>1 DEF Update, TypeOK
    <3>6. NotBegun'
      <4> SUFFICES ASSUME NEW j \in Pubs, pub'[j].pc # "none"
                   PROVE  \/ j \in Updates /\ j <= heard'
                          \/ j = Last /\ call'.state \notin {"live", "ending"}
        BY DEF NotBegun, Updates, Last, Pubs
      <4>1. CASE j = k
        BY <3>5, <4>1 DEF Updates
      <4>2. CASE j # k
        <5>1. \/ j \in Updates /\ j <= heard
              \/ j = Last /\ call.state \notin {"live", "ending"}
          BY <1>0, <3>4, <4>2 DEF NotBegun
        <5>2. QED BY <3>5, <5>1 DEF Updates
      <4>3. QED BY <4>1, <4>2
    <3>7. heard' \in 0..MaxUpdates
      BY <3>5 DEF Updates
    <3>8. OneIsSaid
      BY <3>1, <3>2, <3>3 DEF Unsaid
    <3>9. QED BY <3>6, <3>7, <3>8
  <2>2. ASSUME NEW k \in Updates, SetActive(k)
        PROVE  OneIsSaid /\ NotBegun'
    <3>1. /\ k \in Pubs /\ pub[k].pc = "update" /\ pub[k] \in Publication
          /\ k # Last /\ heard' = heard
      BY <1>0, <1>2, <2>2 DEF SetActive, TypeOK
    <3>2. PICK next \in {"read", "none"} :
            pub' = [pub EXCEPT ![k] = [pub[k] EXCEPT !.pc = next]]
      BY <2>2 DEF SetActive
    <3>3. [pub[k] EXCEPT !.pc = next] \in Publication
      BY <3>1 DEF Publication
    <3>4. \A j \in Pubs : j # k => pub'[j] = pub[j]
      BY <1>0, <3>2 DEF TypeOK
    <3>5. k <= heard /\ call'.state = call.state
      BY <1>0, <2>2, <3>1 DEF NotBegun, SetActive, TypeOK, Call
    <3>6. NotBegun'
      BY <1>0, <3>1, <3>4, <3>5 DEF NotBegun
    <3>7. QED BY <3>1, <3>2, <3>3, <3>6 DEF Unsaid
  <2>3. ASSUME EndPublish
        PROVE  OneIsSaid /\ NotBegun'
    <3>1. pub[Last].pc = "none" /\ pub[Last] \in Publication /\ call.active \in BOOLEAN
      BY <1>0, <1>2, <2>3 DEF EndPublish, NotBegun, TypeOK, Call
    <3>2. [pub[Last] EXCEPT !.pc = "calls", !.news = call.active] \in Publication
      BY <3>1 DEF Publication
    <3>3. pub' = [pub EXCEPT ![Last] = [pub[Last] EXCEPT !.pc = "calls", !.news = call.active]]
      BY <2>3 DEF EndPublish
    <3>4. \A j \in Pubs : j # Last => pub'[j] = pub[j]
      BY <1>0, <3>3 DEF TypeOK
    <3>5. heard' = heard /\ call'.state = "ended"
      BY <1>0, <2>3 DEF EndPublish, TypeOK, Call
    <3>6. NotBegun'
      BY <1>0, <3>4, <3>5 DEF NotBegun
    <3>7. QED BY <1>2, <3>1, <3>2, <3>3, <3>6 DEF Unsaid
  <2>4. ASSUME End \/ KeyUp
        PROVE  OneIsSaid /\ NotBegun'
    BY <1>0, <2>4 DEF End, KeyUp, NotBegun, TypeOK, Call
  <2>5. ASSUME NEW r \in Repeaters, NEW l \in Link, Relink(r, l)
        PROVE  /\ OneIsSaid /\ NotBegun'
               /\ relinks' \in 0..MaxRelinks /\ link' \in [Repeaters -> Link]
    BY <1>0, <2>5 DEF Relink, NotBegun, TypeOK
  <2>6. /\ heard' = heard \/ \E k \in Updates : Update(k)
        /\ (relinks' = relinks /\ link' = link) \/ \E r \in Repeaters, l \in Link : Relink(r, l)
    BY DEF Update, SetActive, End, EndPublish, KeyUp, Relink
  <2> HIDE DEF OneIsSaid
  <2>7. OneIsSaid /\ NotBegun'
    BY <2>1, <2>2, <2>3, <2>4, <2>5
  <2>8. heard' \in 0..MaxUpdates
    BY <1>0, <2>1, <2>6 DEF TypeOK
  <2>9. relinks' \in 0..MaxRelinks /\ link' \in [Repeaters -> Link]
    BY <1>0, <2>5, <2>6 DEF TypeOK
  <2>10. QED BY <2>7, <2>8, <2>9
<1>4. TypeOK'
  BY <1>0, <1>1, <1>3 DEF TypeOK
<1>5. \A u : \A j \in Pubs : Rightly(u, j) => Rightly(u, j)'
  BY <1>0, <1>1, <1>2, <1>3, RightlyKept
<1>6. RightlyTold' /\ ToldOnce'
  <2>1. \A c \in Conns : conn'[c].channel = conn[c].channel /\ All(c)' = All(c)
    BY <1>1 DEF All
  <2>2. QED BY <1>0, <1>1, <1>5, <2>1, QuietStep
<1>7. OneReleased'
  BY <1>0, <1>1 DEF OneReleased
<1>8. QED BY <1>3, <1>4, <1>6, <1>7 DEF FeedInv

\* A publication that has begun goes on: what this says of its own fields.
LEMMA PublicationGoesOn ==
    ASSUME FeedInv, NEW k \in Pubs, NEW p \in Publication,
           pub[k].pc # "none", pub' = [pub EXCEPT ![k] = p],
           conn' \in [Conns -> Connection],
           UNCHANGED <<call, heard, link, relinks>>
    PROVE  TypeOK' /\ NotBegun' /\ pub'[k] = p
<1>1. TypeOK /\ NotBegun
  BY DEF FeedInv
<1>2. pub' \in [Pubs -> Publication] /\ pub'[k] = p /\ \A j \in Pubs : j # k => pub'[j] = pub[j]
  BY <1>1 DEF TypeOK
<1>3. TypeOK'
  BY <1>1, <1>2 DEF TypeOK
<1>4. NotBegun'
  BY <1>1, <1>2 DEF NotBegun
<1>5. QED BY <1>2, <1>3, <1>4

\* Nobody is told by steps that read the call, that find the rows, or that pass
\* by a repeater.
LEMMA SilentPublication ==
    ASSUME FeedInv, NEW k \in Pubs, NEW p \in Publication,
           pub' = [pub EXCEPT ![k] = p],
           \/ pub[k].pc \in {"read", "calls"}
           \/ pub[k].pc = "find" /\ p.pc = "each" /\ p.told = pub[k].told
           \/ /\ pub[k].pc = "each" /\ p.pc \in {"each", "done"}
              /\ p.rows = pub[k].rows /\ pub[k].told \subseteq p.told,
           UNCHANGED <<call, heard, link, relinks, conn>>
    PROVE  FeedInv'
<1>1. TypeOK /\ NotBegun /\ RightlyTold /\ ToldOnce /\ OneReleased
  BY DEF FeedInv
<1>2. TypeOK' /\ NotBegun'
  BY <1>1, PublicationGoesOn DEF TypeOK
<1>3. \A u : \A j \in Pubs : Rightly(u, j) => Rightly(u, j)'
  BY <1>1, RightlyKept DEF Unsaid
<1>4. \A c \in Conns : conn'[c].channel = conn[c].channel /\ All(c)' = All(c)
  BY DEF All
<1>5. RightlyTold' /\ ToldOnce'
  BY <1>1, <1>3, <1>4, QuietStep
<1>6. OneReleased'
  BY <1>1 DEF OneReleased
<1>7. QED BY <1>2, <1>5, <1>6 DEF FeedInv

\* A channel is told by steps that say so.
LEMMA ToldPublication ==
    ASSUME FeedInv, NEW k \in Pubs, NEW p \in Publication, NEW key \in Keys,
           Tell(key, k), pub' = [pub EXCEPT ![k] = p],
           \/ pub[k].pc = "calls"
           \/ /\ pub[k].pc = "each" /\ p.pc \in {"each", "done"}
              /\ p.rows = pub[k].rows /\ pub[k].told \subseteq p.told,
           Rightly(key, k)',
           key # call.from => ~Rightly(key, k),
           UNCHANGED <<call, heard, link, relinks>>
    PROVE  FeedInv'
<1>1. TypeOK /\ NotBegun /\ RightlyTold /\ ToldOnce /\ OneReleased
  BY DEF FeedInv
<1>2. \A u : \A j \in Pubs : Rightly(u, j) => Rightly(u, j)'
  BY <1>1, RightlyKept DEF Unsaid
<1>3. /\ conn' \in [Conns -> Connection]
      /\ \A c \in Conns : /\ conn'[c].handler = conn[c].handler
                          /\ conn'[c].cancelled = conn[c].cancelled
                          /\ conn'[c].reader = conn[c].reader
                          /\ conn'[c].writer = conn[c].writer
      /\ RightlyTold' /\ ToldOnce'
  BY <1>1, <1>2, TellStep
<1>4. TypeOK' /\ NotBegun'
  BY <1>3, PublicationGoesOn
<1>5. OneReleased'
  BY <1>1, <1>3 DEF OneReleased
<1>6. QED BY <1>3, <1>4, <1>5 DEF FeedInv

LEMMA ReadKeeps ==
    ASSUME FeedInv, NEW k \in Pubs, Read(k)
    PROVE  FeedInv'
<1> DEFINE p == [pub[k] EXCEPT !.pc = "calls", !.news = call.active]
<1>1. pub[k] \in Publication /\ call.active \in BOOLEAN
  BY DEF FeedInv, TypeOK, Call
<1>2. p \in Publication
  BY <1>1 DEF Publication
<1>3. pub' = [pub EXCEPT ![k] = p] /\ pub[k].pc = "read" /\ UNCHANGED <<call, heard, link, relinks, conn>>
  BY DEF Read
<1>4. QED BY <1>2, <1>3, SilentPublication

LEMMA HoselineKeeps ==
    ASSUME FeedInv, NEW k \in Pubs, Hoseline(k)
    PROVE  FeedInv'
<1> DEFINE p == [pub[k] EXCEPT !.pc = "find"]
<1>1. pub[k] \in Publication /\ call \in Call
  BY DEF FeedInv, TypeOK
<1>2. p \in Publication /\ p.pc = "find"
  BY <1>1 DEF Publication
<1>3. pub' = [pub EXCEPT ![k] = p] /\ pub[k].pc = "calls" /\ UNCHANGED <<call, heard, link, relinks>>
  BY DEF Hoseline
<1>4. CASE Public
  <2>1. Tell(Nobody, k)
    BY <1>4 DEF Hoseline
  <2>2. pub'[k] = p
    BY <1>3 DEF FeedInv, TypeOK
  <2>3. Rightly(Nobody, k)'
    BY <1>2, <1>3, <1>4, <2>2 DEF Rightly, Concerned, Public, Unsaid
  <2>4. ~Rightly(Nobody, k)
    BY <1>3 DEF Rightly, Unsaid
  <2>5. QED BY <1>2, <1>3, <2>1, <2>3, <2>4, ToldPublication DEF Keys
<1>5. CASE ~Public
  BY <1>2, <1>3, <1>5, SilentPublication DEF Hoseline
<1>6. QED BY <1>4, <1>5

LEMMA FindKeeps ==
    ASSUME FeedInv, NEW k \in Pubs, Find(k)
    PROVE  FeedInv'
<1> DEFINE p == [pub[k] EXCEPT !.pc = "each", !.rows = link, !.todo = Repeaters]
<1>1. pub[k] \in Publication /\ link \in [Repeaters -> Link]
  BY DEF FeedInv, TypeOK
<1>2. p \in Publication /\ p.pc = "each" /\ p.told = pub[k].told
  BY <1>1 DEF Publication
<1>3. pub' = [pub EXCEPT ![k] = p] /\ pub[k].pc = "find" /\ UNCHANGED <<call, heard, link, relinks, conn>>
  BY DEF Find
<1>4. QED BY <1>2, <1>3, SilentPublication

LEMMA EachKeeps ==
    ASSUME FeedInv, NEW k \in Pubs, Each(k)
    PROVE  FeedInv'
<1> USE FeedAssumption
<1>1. TypeOK /\ pub[k] \in Publication
  BY DEF FeedInv, TypeOK
<1>2. PICK r \in pub[k].todo :
        LET u == OwnerOf[r]
            follows == Wants(r, pub[k].rows[r]) /\ u \notin pub[k].told
        IN  /\ pub[k].pc = "each"
            /\ IF follows \/ call.from = u
               THEN /\ Tell(u, k)
                    /\ pub' = [Visited(k, r) EXCEPT ![k].told = @ \cup {u}]
               ELSE pub' = Visited(k, r) /\ UNCHANGED conn
            /\ UNCHANGED <<call, heard, link, relinks>>
  BY DEF Each
<1>3. r \in Repeaters /\ OwnerOf[r] \in Users /\ OwnerOf[r] # Nobody
  BY <1>1 DEF Publication
<1> DEFINE u == OwnerOf[r]
           v == [pub[k] EXCEPT !.todo = @ \ {r},
                               !.pc = IF pub[k].todo = {r} THEN "done" ELSE @]
           w == [v EXCEPT !.told = @ \cup {u}]
<1>4. /\ v \in Publication /\ v.pc \in {"each", "done"}
      /\ v.rows = pub[k].rows /\ v.told = pub[k].told
  BY <1>1, <1>2 DEF Publication
<1>5. Visited(k, r) = [pub EXCEPT ![k] = v]
  BY DEF Visited
<1>6. /\ w \in Publication /\ w.pc \in {"each", "done"}
      /\ w.rows = pub[k].rows /\ w.told = pub[k].told \cup {u}
  <2> HIDE DEF v
  <2>1. v \in Publication
    BY <1>4
  <2>2. w \in Publication /\ w.pc = v.pc /\ w.rows = v.rows /\ w.told = v.told \cup {u}
    BY <2>1, <1>3 DEF Publication
  <2>3. QED BY <1>4, <2>2
<1>7. CASE pub' = Visited(k, r) /\ UNCHANGED conn
  <2> HIDE DEF v, w
  <2>1. pub' = [pub EXCEPT ![k] = v]
    BY <1>5, <1>7
  <2>2. QED BY <1>2, <1>4, <1>7, <2>1, SilentPublication
<1>8. CASE /\ (Wants(r, pub[k].rows[r]) /\ u \notin pub[k].told) \/ call.from = u
           /\ Tell(u, k)
           /\ pub' = [Visited(k, r) EXCEPT ![k].told = @ \cup {u}]
  <2>1. pub' = [pub EXCEPT ![k] = w]
    <3> HIDE DEF v
    <3>1. [[pub EXCEPT ![k] = v] EXCEPT ![k].told = @ \cup {u}] = [pub EXCEPT ![k] = w]
      BY <1>1 DEF TypeOK
    <3>2. QED BY <1>5, <1>8, <3>1
  <2> HIDE DEF v, w
  <2>2. pub'[k] = w
    BY <1>1, <2>1 DEF TypeOK
  <2>3. Rightly(u, k)'
    BY <1>2, <1>3, <1>6, <1>8, <2>2 DEF Rightly, Concerned, Wants, Unsaid
  <2>4. u # call.from => ~Rightly(u, k)
    BY <1>3, <1>8 DEF Rightly
  <2>5. u \in Keys /\ pub[k].told \subseteq w.told
    BY <1>3, <1>6 DEF Keys
  <2>6. QED BY <1>2, <1>6, <1>8, <2>1, <2>3, <2>4, <2>5, ToldPublication
<1>9. QED BY <1>2, <1>7, <1>8

\* A connection changes and is told nothing.
LEMMA ConnectionGoesOn ==
    ASSUME FeedInv, NEW c \in Conns, NEW x \in Connection,
           conn' = [conn EXCEPT ![c] = x],
           \/ x.got = <<>> /\ x.queue = <<>>
           \/ /\ x.channel = conn[c].channel
              /\ \/ x.got \o x.queue = conn[c].got \o conn[c].queue
                 \/ /\ conn[c].queue # <<>> /\ x.got = conn[c].got
                    /\ x.queue = Tail(conn[c].queue),
           x.handler = "returned" /\ ~x.cancelled => x.reader = "ended" \/ x.writer = "ended",
           UNCHANGED <<call, heard, link, relinks, pub>>
    PROVE  FeedInv'
<1>1. TypeOK /\ NotBegun /\ RightlyTold /\ ToldOnce /\ OneReleased
  BY DEF FeedInv
<1>2. /\ conn' \in [Conns -> Connection] /\ conn'[c] = x
      /\ \A d \in Conns : d # c => conn'[d] = conn[d]
  BY <1>1 DEF TypeOK
<1>3. TypeOK' /\ NotBegun'
  BY <1>1, <1>2 DEF TypeOK, NotBegun
<1>4. \A u : \A j \in Pubs : Rightly(u, j) => Rightly(u, j)'
  BY DEF Rightly, Concerned, Wants, Public
<1>5. ASSUME NEW d \in Conns
      PROVE  \/ All(d)' = <<>>
             \/ /\ conn'[d].channel = conn[d].channel
                /\ \/ All(d)' = All(d)
                   \/ /\ conn[d].queue # <<>>
                      /\ All(d)' = conn[d].got \o Tail(conn[d].queue)
  <2>1. CASE d # c
    BY <1>2, <2>1 DEF All
  <2>2. CASE d = c /\ x.got = <<>> /\ x.queue = <<>>
    <3>1. All(d)' = <<>> \o <<>>
      BY <1>2, <2>2 DEF All
    <3>2. <<>> \o <<>> = <<>>
      OBVIOUS
    <3>3. QED BY <3>1, <3>2
  <2>3. CASE d = c /\ x.channel = conn[c].channel
             /\ x.got \o x.queue = conn[c].got \o conn[c].queue
    BY <1>2, <2>3 DEF All
  <2>4. CASE /\ d = c /\ x.channel = conn[c].channel
             /\ conn[c].queue # <<>> /\ x.got = conn[c].got /\ x.queue = Tail(conn[c].queue)
    BY <1>2, <2>4 DEF All
  <2>5. QED BY <2>1, <2>2, <2>3, <2>4
<1>6. RightlyTold' /\ ToldOnce'
  BY <1>1, <1>4, <1>5, QuietStep
<1>7. OneReleased'
  BY <1>1, <1>2 DEF OneReleased
<1>8. QED BY <1>3, <1>6, <1>7 DEF FeedInv

LEMMA ConnectKeeps ==
    ASSUME FeedInv, NEW c \in Conns, NEW client \in {"there", "gone"}, NEW cancelled \in BOOLEAN,
           (\E u \in Keys : Connect(c, u, client, cancelled)) \/ ConnectEcho(c, client, cancelled)
    PROVE  FeedInv'
<1>1. PICK x : /\ conn' = [conn EXCEPT ![c] = x]
               /\ \/ \E u \in Keys : x = [NoConn EXCEPT
                        !.handler = "select", !.channel = u, !.client = client,
                        !.cancelled = cancelled, !.reader = "run", !.writer = "run"]
                  \/ x = [NoConn EXCEPT
                        !.handler = "select", !.client = client, !.cancelled = cancelled,
                        !.reader = "run"]
  BY DEF Connect, ConnectEcho
<1>2. <<>> \in Seq(Message)
  BY EmptySeq
<1>3. x \in Connection /\ x.got = <<>> /\ x.queue = <<>> /\ x.handler = "select"
  BY <1>1, <1>2 DEF NoConn, Connection, Message
<1>4. UNCHANGED <<call, heard, link, relinks, pub>>
  BY DEF Connect, ConnectEcho
<1>5. QED BY <1>1, <1>3, <1>4, ConnectionGoesOn

LEMMA ConnectionKeeps ==
    ASSUME FeedInv, NEW c \in Conns,
           Leave(c) \/ ReadFails(c) \/ Write(c) \/ WriterEnds(c) \/ Select(c)
    PROVE  FeedInv'
<1> DEFINE o == conn[c]
<1>1. /\ o \in Connection /\ o.got \in Seq(Message) /\ o.queue \in Seq(Message)
      /\ o.handler = "returned" /\ ~o.cancelled => o.reader = "ended" \/ o.writer = "ended"
  BY Messages DEF FeedInv, OneReleased
<1>2. UNCHANGED <<call, heard, link, relinks, pub>>
  BY DEF Leave, ReadFails, Write, WriterEnds, Select
<1>3. CASE Leave(c)
  <2> DEFINE x == [o EXCEPT !.client = "gone"]
  <2>1. conn' = [conn EXCEPT ![c] = x]
    BY <1>3 DEF Leave
  <2>2. /\ x \in Connection /\ x.got = o.got /\ x.queue = o.queue /\ x.channel = o.channel
        /\ x.handler = o.handler /\ x.cancelled = o.cancelled
        /\ x.reader = o.reader /\ x.writer = o.writer
    BY <1>1 DEF Connection
  <2> HIDE DEF x
  <2>3. QED BY <1>1, <1>2, <2>1, <2>2, ConnectionGoesOn
<1>4. CASE ReadFails(c)
  <2> DEFINE x == [o EXCEPT !.reader = "sending"]
  <2>1. conn' = [conn EXCEPT ![c] = x] /\ o.reader = "run"
    BY <1>4 DEF ReadFails
  <2>2. /\ x \in Connection /\ x.got = o.got /\ x.queue = o.queue /\ x.channel = o.channel
        /\ x.handler = o.handler /\ x.cancelled = o.cancelled /\ x.writer = o.writer
    BY <1>1 DEF Connection
  <2> HIDE DEF x
  <2>3. x.handler = "returned" /\ ~x.cancelled => x.writer = "ended"
    BY <1>1, <2>1, <2>2
  <2>4. QED BY <1>2, <2>1, <2>2, <2>3, ConnectionGoesOn
<1>5. CASE Write(c)
  <2>1. o.writer = "run" /\ o.queue # <<>>
    BY <1>5 DEF Write
  <2>2. /\ Tail(o.queue) \in Seq(Message) /\ Append(o.got, Head(o.queue)) \in Seq(Message)
        /\ Append(o.got, Head(o.queue)) \o Tail(o.queue) = o.got \o o.queue
    <3> DEFINE g == o.got
               q == o.queue
    <3>1. g \in Seq(Message) /\ q \in Seq(Message) /\ q # <<>>
      BY <1>1, <2>1
    <3> HIDE DEF g, q
    <3>2. /\ Tail(q) \in Seq(Message) /\ Append(g, Head(q)) \in Seq(Message)
          /\ Append(g, Head(q)) \o Tail(q) = g \o q
      BY <3>1, TakenWasThere
    <3>3. QED BY <3>2 DEF g, q
  <2>3. o.handler = "returned" /\ ~o.cancelled => o.reader = "ended"
    BY <1>1, <2>1
  <2>4. CASE /\ o.handler = "select" /\ o.client = "there"
             /\ conn' = [conn EXCEPT ![c].queue = Tail(@), ![c].got = Append(@, Head(o.queue))]
    <3> DEFINE x == [o EXCEPT !.queue = Tail(@), !.got = Append(@, Head(o.queue))]
    <3>1. conn' = [conn EXCEPT ![c] = x]
      BY <2>4
    <3>2. /\ x \in Connection /\ x.channel = o.channel /\ x.handler = "select"
          /\ x.got = Append(o.got, Head(o.queue)) /\ x.queue = Tail(o.queue)
      BY <1>1, <2>2, <2>4 DEF Connection, Message
    <3> HIDE DEF x
    <3>3. QED BY <1>2, <2>2, <3>1, <3>2, ConnectionGoesOn
  <2>5. CASE /\ o.handler = "select" /\ o.client # "there"
             /\ conn' = [conn EXCEPT ![c].queue = Tail(@), ![c].got = @]
    <3> DEFINE x == [o EXCEPT !.queue = Tail(@)]
    <3>1. conn' = [conn EXCEPT ![c] = x]
      BY <1>1, <2>5 DEF Connection
    <3>2. /\ x \in Connection /\ x.channel = o.channel /\ x.handler = "select"
          /\ x.got = o.got /\ x.queue = Tail(o.queue)
      BY <1>1, <2>2, <2>5 DEF Connection, Message
    <3> HIDE DEF x
    <3>3. QED BY <1>2, <2>1, <3>1, <3>2, ConnectionGoesOn
  <2>6. CASE conn' = [conn EXCEPT ![c].queue = Tail(@), ![c].writer = "sending"]
    <3> DEFINE x == [o EXCEPT !.queue = Tail(@), !.writer = "sending"]
    <3>1. conn' = [conn EXCEPT ![c] = x]
      BY <2>6
    <3>2. /\ x \in Connection /\ x.channel = o.channel
          /\ x.handler = o.handler /\ x.cancelled = o.cancelled /\ x.reader = o.reader
          /\ x.got = o.got /\ x.queue = Tail(o.queue)
      BY <1>1, <2>2 DEF Connection, Message
    <3> HIDE DEF x
    <3>3. QED BY <1>2, <2>1, <2>3, <3>1, <3>2, ConnectionGoesOn
  <2>7. QED BY <1>5, <2>4, <2>5, <2>6 DEF Write
<1>6. CASE WriterEnds(c)
  <2> DEFINE x == [o EXCEPT !.writer = "ended"]
  <2>1. conn' = [conn EXCEPT ![c] = x]
    BY <1>6 DEF WriterEnds
  <2>2. /\ x \in Connection /\ x.got = o.got /\ x.queue = o.queue /\ x.channel = o.channel
        /\ x.writer = "ended"
    BY <1>1 DEF Connection
  <2> HIDE DEF x
  <2>3. QED BY <1>2, <2>1, <2>2, ConnectionGoesOn
<1>7. CASE Select(c)
  <2>1. CASE /\ o.cancelled
             /\ conn' = [conn EXCEPT ![c].handler = "returned"]
    <3> DEFINE x == [o EXCEPT !.handler = "returned"]
    <3>1. conn' = [conn EXCEPT ![c] = x]
      BY <2>1
    <3>2. /\ x \in Connection /\ x.got = o.got /\ x.queue = o.queue
          /\ x.channel = o.channel /\ x.cancelled
      BY <1>1, <2>1 DEF Connection
    <3> HIDE DEF x
    <3>3. QED BY <1>2, <3>1, <3>2, ConnectionGoesOn
  <2>2. CASE /\ o.reader = "sending"
             /\ conn' = [conn EXCEPT ![c].handler = "returned", ![c].reader = "ended"]
    <3> DEFINE x == [o EXCEPT !.handler = "returned", !.reader = "ended"]
    <3>1. conn' = [conn EXCEPT ![c] = x]
      BY <2>2
    <3>2. /\ x \in Connection /\ x.got = o.got /\ x.queue = o.queue
          /\ x.channel = o.channel /\ x.reader = "ended"
      BY <1>1, <2>2 DEF Connection
    <3> HIDE DEF x
    <3>3. QED BY <1>2, <3>1, <3>2, ConnectionGoesOn
  <2>3. CASE /\ o.writer = "sending"
             /\ conn' = [conn EXCEPT ![c].handler = "returned", ![c].writer = "ended"]
    <3> DEFINE x == [o EXCEPT !.handler = "returned", !.writer = "ended"]
    <3>1. conn' = [conn EXCEPT ![c] = x]
      BY <2>3
    <3>2. /\ x \in Connection /\ x.got = o.got /\ x.queue = o.queue
          /\ x.channel = o.channel /\ x.writer = "ended"
      BY <1>1, <2>3 DEF Connection
    <3> HIDE DEF x
    <3>3. QED BY <1>2, <3>1, <3>2, ConnectionGoesOn
  <2>4. QED BY <1>7, <2>1, <2>2, <2>3 DEF Select
<1>8. QED BY <1>3, <1>4, <1>5, <1>6, <1>7

----------------------------------------------------------------------------
(* The theorems. *)

LEMMA FeedNext ==
    ASSUME FeedInv, [Next]_vars
    PROVE  FeedInv'
<1>1. CASE \/ \E k \in Updates : Update(k) \/ SetActive(k)
           \/ End
           \/ EndPublish
           \/ KeyUp
           \/ \E r \in Repeaters, l \in Link : Relink(r, l)
  BY <1>1, CallSteps
<1>2. ASSUME NEW k \in Pubs, Publish(k)
      PROVE  FeedInv'
  BY <1>2, ReadKeeps, HoselineKeeps, FindKeeps, EachKeeps DEF Publish
<1>3. ASSUME NEW c \in Conns,
             \E client \in {"there", "gone"}, cancelled \in BOOLEAN :
                \/ \E u \in Keys : Connect(c, u, client, cancelled)
                \/ ConnectEcho(c, client, cancelled)
      PROVE  FeedInv'
  BY <1>3, ConnectKeeps
<1>4. ASSUME NEW c \in Conns,
             Leave(c) \/ ReadFails(c) \/ Write(c) \/ WriterEnds(c) \/ Select(c)
      PROVE  FeedInv'
  BY <1>4, ConnectionKeeps
<1>5. CASE UNCHANGED vars
  <2>1. conn' = conn /\ pub' = pub /\ call' = call /\ heard' = heard /\ link' = link
            /\ relinks' = relinks
    BY <1>5 DEF vars
  <2>2. TypeOK' /\ NotBegun' /\ OneReleased'
    BY <2>1 DEF FeedInv, TypeOK, NotBegun, OneReleased
  <2>3. RightlyTold' /\ ToldOnce'
    <3>1. \A u : \A j \in Pubs : Rightly(u, j) => Rightly(u, j)'
      BY <2>1 DEF Rightly, Concerned, Wants, Public
    <3>2. \A c \in Conns : conn'[c].channel = conn[c].channel /\ All(c)' = All(c)
      BY <2>1 DEF All
    <3>3. QED BY <2>1, <3>1, <3>2, QuietStep DEF FeedInv
  <2>4. QED BY <2>2, <2>3 DEF FeedInv
<1>6. QED BY <1>1, <1>2, <1>3, <1>4, <1>5 DEF Next

\* What holds of every publication and every connection.
THEOREM Feed == Spec => []FeedInv
<1>1. Init => FeedInv
  BY FeedInit
<1>2. FeedInv /\ [Next]_vars => FeedInv'
  BY FeedNext
<1>3. QED BY <1>1, <1>2, PTL DEF Spec

\* The call, the publications and the connections keep their types, messages in
\* queues and at clients included.
THEOREM FeedIsTyped == Spec => []TypeOK
<1>1. FeedInv => TypeOK
  BY DEF FeedInv
<1>2. QED BY <1>1, Feed, PTL

\* Nobody gets to see a call that is not theirs, whatever links do meanwhile.
THEOREM PrivateCallsStayPrivate == Spec => []OnlyConcerned
<1>1. FeedInv => OnlyConcerned
  <2> SUFFICES ASSUME FeedInv, NEW c \in Conns, NEW m \in Received(c) \cup Waiting(c)
               PROVE  Concerned(conn[c].channel, m[1])
    BY DEF OnlyConcerned
  <2> DEFINE g == conn[c].got
             q == conn[c].queue
  <2>1. g \in Seq(Message) /\ q \in Seq(Message) /\ All(c) = g \o q
    BY Messages DEF FeedInv, All
  <2>2. (\E i \in DOMAIN g : m = g[i]) \/ (\E i \in DOMAIN q : m = q[i])
    BY DEF Received, Waiting
  <2> HIDE DEF g, q
  <2>3. /\ Len(g) \in Nat /\ Len(q) \in Nat
        /\ DOMAIN g = 1..Len(g) /\ DOMAIN q = 1..Len(q)
        /\ DOMAIN (g \o q) = 1..(Len(g) + Len(q))
        /\ \A i \in 1..Len(g) : (g \o q)[i] = g[i]
        /\ \A i \in 1..Len(q) : (g \o q)[Len(g) + i] = q[i]
    BY <2>1, EndToEnd
  <2>4. \E j \in DOMAIN All(c) : m = All(c)[j]
    <3>1. ASSUME NEW i \in DOMAIN q, m = q[i]
          PROVE  \E j \in DOMAIN All(c) : m = All(c)[j]
      <4>1. Len(g) + i \in DOMAIN (g \o q) /\ m = (g \o q)[Len(g) + i]
        BY <2>3, <3>1
      <4>2. QED BY <2>1, <4>1
    <3>2. ASSUME NEW i \in DOMAIN g, m = g[i]
          PROVE  \E j \in DOMAIN All(c) : m = All(c)[j]
      <4>1. i \in DOMAIN (g \o q) /\ m = (g \o q)[i]
        BY <2>3, <3>2
      <4>2. QED BY <2>1, <4>1
    <3>3. QED BY <2>2, <3>1, <3>2
  <2>5. QED BY <2>4 DEF FeedInv, RightlyTold, Rightly
<1>2. QED BY <1>1, Feed, PTL

\* Who follows with several repeaters gets each publication once.
THEOREM FollowersAreToldOnce == Spec => []OncePerFollower
<1>1. FeedInv => OncePerFollower
  BY DEF FeedInv, ToldOnce, Once, All, OncePerFollower
<1>2. QED BY <1>1, Feed, PTL

\* Of the goroutines of a connection that returned, one was received from.
THEOREM OneIsReleased == Spec => []AtMostOneStuck
<1>1. FeedInv => AtMostOneStuck
  <2> SUFFICES ASSUME FeedInv, NEW c \in Conns,
                      conn[c].handler = "returned", ~conn[c].cancelled
               PROVE  Cardinality(Stuck(c)) <= 1
    BY DEF AtMostOneStuck
  <2>1. conn[c].reader = "ended" \/ conn[c].writer = "ended"
    BY DEF FeedInv, OneReleased
  <2>2. PICK g : Stuck(c) \subseteq {g}
    BY <2>1 DEF Stuck
  <2>3. IsFiniteSet({g}) /\ Cardinality({g}) = 1
    BY FS_Singleton
  <2>4. Cardinality(Stuck(c)) <= Cardinality({g})
    BY <2>2, <2>3, FS_Subset
  <2>5. QED BY <2>3, <2>4
<1>2. QED BY <1>1, Feed, PTL
=============================================================================
