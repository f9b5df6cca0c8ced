---------------------------- MODULE ParrotProof ----------------------------
(***************************************************************************)
(* For any number of frames and of tracking goroutines, and whatever goes  *)
(* wrong: the parrot's variables keep their types, a play-back holds the   *)
(* frames in the order of their arrival, and it asks for the end of its    *)
(* call.                                                                   *)
(***************************************************************************)
EXTENDS Parrot, SequenceTheorems, TLAPS

\* A sequence of arrivals is in order; what has been got of a list, element by
\* element, comes before what is still to be got.
InOrder(s)     == \A i, k \in 1..Len(s) : i < k => s[i] < s[k]
Before(got, l) == \A i \in 1..Len(got), k \in 1..Len(l) : i < k => got[i] < l[k]

Busy == {"ready", "start", "process", "end"}

\* A play-back r with n arrivals heard, the list l and tracking goroutines t: ...
GotOK(r, n) ==
    /\ r \in Player
    /\ r.len <= n /\ Len(r.got) <= r.len /\ r.j <= Len(r.got)
    /\ \A i \in 1..Len(r.got) : r.got[i] <= n
    /\ r.pc \in {"idle", "measure"} => r.got = <<>>
    /\ r.pc \in {"idle", "measure", "fetch"} => r.j = 0

\* ... the list goes on from what it has got, ...
OrderOK(r, l) == InOrder(r.got) /\ (r.pc = "fetch" => Before(r.got, l))

\* ... and the goroutine of its last frame is alive until EndCall has been called.
EndOK(r, t) ==
    /\ r.pc = "done" /\ r.got # <<>> => r.j = Len(r.got)
    /\ r.pc \in {"play", "done"} /\ r.got # <<>> /\ r.j = Len(r.got) =>
          r.ended \/ t[r.j] \in Busy

PlayBackOK(r, n, l, t) == GotOK(r, n) /\ OrderOK(r, l) /\ EndOK(r, t)

\* What is on its way, what is recorded, and who is at work.
AirOK ==
    /\ sent \in 0..Frames
    /\ net \in Seq(1..Frames) /\ heard \in Seq(1..Frames)
    /\ Len(heard) + Len(net) <= sent + 1
    /\ started \in BOOLEAN /\ expiry \in BOOLEAN /\ fault \in BOOLEAN

ListOK ==
    /\ list \in Seq(1..Len(heard)) /\ Len(list) <= Len(heard)
    /\ InOrder(list)
    /\ played \subseteq 1..Len(heard)

WorkOK ==
    /\ player \in [Players -> Player]
    /\ track \in [Players -> [Arrivals -> Busy \cup {"none", "over"}]]

ParrotInv ==
    /\ AirOK /\ ListOK /\ WorkOK
    /\ \A p \in Players : PlayBackOK(player[p], Len(heard), list, track[p])

----------------------------------------------------------------------------
(* Sequences. *)

LEMMA WithoutOne ==
    ASSUME NEW S, NEW s \in Seq(S), NEW i \in 1..Len(s)
    PROVE  RemoveAt(s, i) \in Seq(S) /\ Len(RemoveAt(s, i)) = Len(s) - 1
<1> DEFINE a == SubSeq(s, 1, i - 1)
           b == SubSeq(s, i + 1, Len(s))
<1>1. Len(s) \in Nat /\ i \in Int /\ \A k \in 1..Len(s) : s[k] \in S
  BY LenProperties
<1>2. a \in Seq(S) /\ Len(a) = i - 1
  <2>1. 1 \in Int /\ i - 1 \in Int /\ \A k \in 1..(i - 1) : s[k] \in S
    BY <1>1
  <2>2. a \in Seq(S) /\ Len(a) = IF 1 <= i - 1 THEN (i - 1) - 1 + 1 ELSE 0
    BY <2>1, SubSeqProperties
  <2> HIDE DEF a
  <2>3. QED BY <1>1, <2>2
<1>3. b \in Seq(S) /\ Len(b) = Len(s) - i
  <2>1. i + 1 \in Int /\ Len(s) \in Int /\ \A k \in (i + 1)..Len(s) : s[k] \in S
    BY <1>1
  <2>2. b \in Seq(S) /\ Len(b) = IF i + 1 <= Len(s) THEN Len(s) - (i + 1) + 1 ELSE 0
    BY <2>1, SubSeqProperties
  <2> HIDE DEF b
  <2>3. QED BY <1>1, <2>2
<1>4. RemoveAt(s, i) = a \o b
  BY DEF RemoveAt
<1> HIDE DEF a, b
<1>5. a \o b \in Seq(S) /\ Len(a \o b) = Len(a) + Len(b)
  BY <1>2, <1>3, ConcatProperties
<1>6. QED BY <1>1, <1>2, <1>3, <1>4, <1>5

LEMMA WithOneMore ==
    ASSUME NEW S, NEW s \in Seq(S), NEW x \in S
    PROVE  /\ Append(s, x) \in Seq(S) /\ Len(s) \in Nat
           /\ Len(Append(s, x)) = Len(s) + 1
           /\ \A i \in 1..Len(s) : Append(s, x)[i] = s[i] /\ s[i] \in S
           /\ Append(s, x)[Len(s) + 1] = x
BY LenProperties

\* The next arrival comes after all that has been recorded.
LEMMA ArrivalComesLast ==
    ASSUME NEW n \in Nat, NEW l \in Seq(1..n), Len(l) <= n
    PROVE  /\ Append(l, n + 1) \in Seq(1..(n + 1)) /\ Len(Append(l, n + 1)) = Len(l) + 1
           /\ InOrder(l) => InOrder(Append(l, n + 1))
<1> DEFINE m == Append(l, n + 1)
<1>1. l \in Seq(1..(n + 1)) /\ n + 1 \in 1..(n + 1)
  BY SeqMonotonic
<1>2. /\ m \in Seq(1..(n + 1)) /\ Len(l) \in Nat /\ Len(m) = Len(l) + 1
      /\ \A i \in 1..Len(l) : m[i] = l[i]
      /\ m[Len(l) + 1] = n + 1
  BY <1>1, WithOneMore
<1>3. \A i \in 1..Len(l) : l[i] \in 1..n
  BY LenProperties
<1> HIDE DEF m
<1>4. ASSUME InOrder(l), NEW i \in 1..Len(m), NEW k \in 1..Len(m), i < k
      PROVE  m[i] < m[k]
  <2>1. i \in 1..Len(l) /\ (k = Len(l) + 1 \/ k \in 1..Len(l))
    <3>1. Len(l) \in Nat /\ Len(m) = Len(l) + 1
      BY <1>2
    <3>2. QED BY <1>4, <3>1
  <2>2. m[i] = l[i] /\ l[i] \in 1..n
    BY <1>2, <1>3, <2>1
  <2>3. CASE k = Len(l) + 1
    BY <1>2, <2>2, <2>3
  <2>4. CASE k \in 1..Len(l)
    <3>1. l[i] < l[k] /\ m[k] = l[k]
      BY <1>2, <1>4, <2>1, <2>4 DEF InOrder
    <3>2. QED BY <2>2, <3>1
  <2>5. QED BY <2>1, <2>3, <2>4
<1>5. InOrder(l) => InOrder(m)
  BY <1>4 DEF InOrder
<1>6. QED BY <1>2, <1>5 DEF m

----------------------------------------------------------------------------
(* One play-back. *)

\* It goes on as it was when another frame is recorded, ...
LEMMA RecordKeepsOne ==
    ASSUME NEW n \in Nat, NEW l \in Seq(1..n), NEW r, NEW t, PlayBackOK(r, n, l, t)
    PROVE  PlayBackOK(r, n + 1, Append(l, n + 1), t)
<1> DEFINE m == Append(l, n + 1)
<1>0. r.got \in Seq(Arrivals) /\ r.len \in Nat /\ Len(r.got) \in Nat
  BY LenProperties DEF PlayBackOK, GotOK, Player
<1>1. \A i \in 1..Len(r.got) : r.got[i] \in Nat /\ r.got[i] <= n
  <2>1. \A i \in 1..Len(r.got) : r.got[i] \in Arrivals
    BY <1>0, ElementOfSeq
  <2>2. QED BY <2>1, ParrotAssumption DEF PlayBackOK, GotOK, Arrivals
<1>2. GotOK(r, n + 1)
  BY <1>0, <1>1 DEF PlayBackOK, GotOK
<1>3. l \in Seq(1..(n + 1)) /\ n + 1 \in 1..(n + 1)
  BY SeqMonotonic
<1>4. /\ Len(l) \in Nat /\ Len(m) = Len(l) + 1
      /\ \A i \in 1..Len(l) : m[i] = l[i]
      /\ m[Len(l) + 1] = n + 1
  BY <1>3, WithOneMore
<1> HIDE DEF m
<1>5. ASSUME r.pc = "fetch", NEW i \in 1..Len(r.got), NEW k \in 1..Len(m), i < k
      PROVE  r.got[i] < m[k]
  <2>1. CASE k = Len(l) + 1
    BY <1>1, <1>4, <2>1
  <2>2. CASE k # Len(l) + 1
    <3>1. k \in 1..Len(l)
      BY <1>4, <2>2
    <3>2. Before(r.got, l)
      BY <1>5 DEF PlayBackOK, OrderOK
    <3>3. r.got[i] < l[k]
      BY <1>5, <3>1, <3>2, Zenon DEF Before
    <3>4. m[k] = l[k]
      BY <1>4, <3>1
    <3>5. QED BY <3>3, <3>4
  <2>3. QED BY <2>1, <2>2
<1>6. OrderOK(r, m)
  BY <1>5 DEF PlayBackOK, OrderOK, Before
<1>7. QED BY <1>2, <1>6 DEF PlayBackOK, m

\* ... and when the list is erased.
LEMMA EraseKeepsOne ==
    ASSUME NEW n, NEW l, NEW r, NEW t, PlayBackOK(r, n, l, t)
    PROVE  PlayBackOK(r, n, <<>>, t)
BY DEF PlayBackOK, OrderOK, Before

\* The play-back of a process that has been restarted is over.
LEMMA GoneIsOK ==
    ASSUME NEW n \in Nat, NEW l, NEW t
    PROVE  PlayBackOK([NoPlayer EXCEPT !.pc = "done"], n, l, t)
<1> DEFINE r == [NoPlayer EXCEPT !.pc = "done"]
<1>1. r \in Player
  <2>1. <<>> \in Seq(Arrivals) /\ 0 \in 0..(Frames + 1)
    BY ParrotAssumption
  <2>2. QED BY <2>1 DEF Player, NoPlayer
<1>2. r.pc = "done" /\ r.got = <<>> /\ r.len = 0 /\ r.j = 0
  BY DEF NoPlayer
<1> HIDE DEF r
<1>3. Len(r.got) = 0
  BY <1>2
<1>4. GotOK(r, n) /\ OrderOK(r, l) /\ EndOK(r, t)
  BY <1>1, <1>2, <1>3 DEF GotOK, OrderOK, InOrder, EndOK
<1>5. QED BY <1>4 DEF PlayBackOK, r

\* A play-back that takes a step of its own, to r and u, keeps the others.
LEMMA OnePlays ==
    ASSUME ParrotInv, NEW p \in Players, NEW r, NEW u,
           player' = [player EXCEPT ![p] = r],
           track' = [track EXCEPT ![p] = u], u \in [Arrivals -> Busy \cup {"none", "over"}],
           AirOK', ListOK', heard' = heard, list' = list \/ list' = <<>>,
           PlayBackOK(r, Len(heard), list', u)
    PROVE  ParrotInv'
<1>1. r \in Player
  BY DEF PlayBackOK, GotOK
<1>2. WorkOK'
  BY <1>1 DEF ParrotInv, WorkOK
<1>3. ASSUME NEW q \in Players
      PROVE  PlayBackOK(player'[q], Len(heard'), list', track'[q])
  <2>1. CASE q = p
    BY <2>1 DEF ParrotInv, WorkOK
  <2>2. CASE q # p
    <3>1. player'[q] = player[q] /\ track'[q] = track[q] /\ Len(heard') = Len(heard)
      BY <2>2 DEF ParrotInv, WorkOK
    <3>2. PlayBackOK(player[q], Len(heard), list, track[q])
      BY DEF ParrotInv
    <3>3. QED BY <3>1, <3>2, EraseKeepsOne
  <2>3. QED BY <2>1, <2>2
<1>4. QED BY <1>2, <1>3 DEF ParrotInv

\* The facts about p that its steps start from.
LEMMA Facts ==
    ASSUME ParrotInv, NEW p \in Players
    PROVE  /\ player[p] \in Player /\ track[p] \in [Arrivals -> Busy \cup {"none", "over"}]
           /\ PlayBackOK(player[p], Len(heard), list, track[p])
           /\ track = [track EXCEPT ![p] = track[p]]
           /\ player = [player EXCEPT ![p] = player[p]]
           /\ player[p].got \in Seq(Arrivals) /\ Len(player[p].got) \in Nat
           /\ player[p].len \in 0..(Frames + 1) /\ player[p].j \in 0..(Frames + 1)
           /\ Len(heard) \in Nat /\ Len(heard) <= Frames + 1 /\ Len(list) \in Nat
<1>1. player[p] \in Player /\ track[p] \in [Arrivals -> Busy \cup {"none", "over"}]
  BY DEF ParrotInv, WorkOK
<1>2. PlayBackOK(player[p], Len(heard), list, track[p])
  BY DEF ParrotInv
<1>3. player = [player EXCEPT ![p] = player[p]] /\ track = [track EXCEPT ![p] = track[p]]
  BY DEF ParrotInv, WorkOK
<1>4. player[p].got \in Seq(Arrivals) /\ player[p].len \in 0..(Frames + 1)
      /\ player[p].j \in 0..(Frames + 1)
  BY <1>1 DEF Player
<1>5. Len(player[p].got) \in Nat /\ Len(heard) \in Nat /\ Len(net) \in Nat /\ Len(list) \in Nat
  BY <1>4, LenProperties DEF ParrotInv, AirOK, ListOK
<1>6. Len(heard) <= Frames + 1
  BY <1>5, ParrotAssumption DEF ParrotInv, AirOK
<1>7. QED BY <1>1, <1>2, <1>3, <1>4, <1>5, <1>6

LEMMA MeasureKeeps ==
    ASSUME ParrotInv, NEW p \in Players, Measure(p)
    PROVE  ParrotInv'
<1> DEFINE r == [player[p] EXCEPT !.pc = "fetch", !.len = Len(list)]
<1>1. player[p].pc = "measure" /\ player' = [player EXCEPT ![p] = r]
      /\ UNCHANGED <<air, redis, track, played>>
  BY DEF Measure
<1>2. AirOK' /\ ListOK'
  BY <1>1 DEF ParrotInv, AirOK, ListOK, air, redis
<1>3. Len(list) <= Len(heard) /\ player[p].got = <<>> /\ player[p].j = 0
  BY <1>1 DEF ParrotInv, ListOK, PlayBackOK, GotOK
<1>4. /\ r \in Player /\ r.pc = "fetch" /\ r.len = Len(list) /\ r.got = <<>> /\ r.j = 0
  <2>1. Len(list) \in 0..(Frames + 1)
    BY <1>3, Facts, ParrotAssumption
  <2>2. player[p] \in Player
    BY Facts
  <2>3. QED BY <1>3, <2>1, <2>2 DEF Player
<1> HIDE DEF r
<1>5. PlayBackOK(r, Len(heard), list, track[p])
  <2>1. Len(r.got) = 0 /\ Len(list) \in Nat
    BY <1>4, Facts
  <2>2. GotOK(r, Len(heard)) /\ OrderOK(r, list) /\ EndOK(r, track[p])
    BY <1>3, <1>4, <2>1 DEF GotOK, OrderOK, InOrder, Before, EndOK
  <2>3. QED BY <2>2 DEF PlayBackOK
<1>6. QED BY <1>1, <1>2, <1>5, Facts, OnePlays DEF air, redis

LEMMA FetchKeeps ==
    ASSUME ParrotInv, NEW p \in Players, Fetch(p)
    PROVE  ParrotInv'
<1> DEFINE g == player[p].got
           k == Len(g) + 1
<1>1. /\ player[p].pc = "fetch" /\ Len(g) < player[p].len
      /\ UNCHANGED <<air, redis, track, played>>
      /\ IF k <= Len(list)
         THEN player' = [player EXCEPT ![p].got = Append(g, list[k])]
         ELSE player' = [player EXCEPT ![p].pc = "done", ![p].got = <<>>]
  BY DEF Fetch
<1>2. AirOK' /\ ListOK'
  BY <1>1 DEF ParrotInv, AirOK, ListOK, air, redis
<1>3. /\ player[p].j = 0 /\ player[p].len <= Len(heard) /\ InOrder(g) /\ Before(g, list)
      /\ \A i \in 1..Len(g) : g[i] <= Len(heard)
      /\ list \in Seq(1..Len(heard)) /\ InOrder(list) /\ Len(list) <= Len(heard)
  BY <1>1, Facts DEF ParrotInv, ListOK, PlayBackOK, GotOK, OrderOK
<1>4. /\ g \in Seq(Arrivals) /\ Len(g) \in Nat /\ player[p] \in Player
      /\ player[p].len \in Nat /\ Len(list) \in Nat /\ Len(heard) \in Nat
      /\ Len(heard) <= Frames + 1
  BY Facts
<1> HIDE DEF g
<1>5. CASE k <= Len(list)
  <2> DEFINE h == Append(g, list[k])
             r == [player[p] EXCEPT !.got = h]
  <2>1. k \in 1..Len(list) /\ list[k] \in 1..Len(heard) /\ list[k] \in Arrivals
    <3>1. k \in 1..Len(list)
      BY <1>4, <1>5
    <3>2. list[k] \in 1..Len(heard)
      BY <1>3, <3>1, ElementOfSeq
    <3>3. QED BY <1>4, <3>1, <3>2, ParrotAssumption DEF Arrivals
  <2>2. /\ h \in Seq(Arrivals) /\ Len(h) = Len(g) + 1
        /\ \A i \in 1..Len(g) : h[i] = g[i] /\ g[i] \in Arrivals
        /\ h[Len(g) + 1] = list[k]
    BY <1>4, <2>1, WithOneMore
  <2>3. player' = [player EXCEPT ![p] = r]
    BY <1>1, <1>5
  <2> HIDE DEF h
  <2>4. /\ r \in Player /\ r.pc = "fetch" /\ r.len = player[p].len /\ r.got = h /\ r.j = 0
    BY <1>1, <1>3, <1>4, <2>2 DEF Player
  <2> HIDE DEF r
  <2>5. GotOK(r, Len(heard))
    <3>1. \A i \in 1..Len(h) : h[i] <= Len(heard)
      <4> SUFFICES ASSUME NEW i \in 1..Len(h) PROVE h[i] <= Len(heard)
        OBVIOUS
      <4>1. CASE i = Len(g) + 1
        BY <2>1, <2>2, <4>1
      <4>2. CASE i # Len(g) + 1
        <5>1. i \in 1..Len(g)
          BY <1>4, <2>2, <4>2
        <5>2. QED BY <1>3, <2>2, <5>1
      <4>3. QED BY <4>1, <4>2
    <3>2. Len(h) <= r.len /\ r.j <= Len(h)
      BY <1>1, <1>4, <2>2, <2>4
    <3>3. QED BY <1>3, <2>4, <3>1, <3>2 DEF GotOK
  <2>6. OrderOK(r, list)
    <3>1. ASSUME NEW i \in 1..Len(h), NEW m \in 1..Len(h), i < m PROVE h[i] < h[m]
      <4>1. i \in 1..Len(g) /\ (m = Len(g) + 1 \/ m \in 1..Len(g))
        BY <1>4, <2>2, <3>1
      <4>2. h[i] = g[i]
        BY <2>2, <4>1
      <4>3. CASE m = Len(g) + 1
        <5>1. m \in 1..Len(list) /\ h[m] = list[m]
          BY <2>1, <2>2, <4>3
        <5>2. g[i] < list[m]
          BY <1>3, <3>1, <4>1, <5>1 DEF Before
        <5>3. QED BY <4>2, <5>1, <5>2
      <4>4. CASE m \in 1..Len(g)
        BY <1>3, <2>2, <3>1, <4>1, <4>2, <4>4 DEF InOrder
      <4>5. QED BY <4>1, <4>3, <4>4
    <3>2. ASSUME NEW i \in 1..Len(h), NEW m \in 1..Len(list), i < m PROVE h[i] < list[m]
      <4>1. CASE i = Len(g) + 1
        <5>1. h[i] = list[i] /\ i \in 1..Len(list)
          BY <2>1, <2>2, <4>1
        <5>2. QED BY <1>3, <3>2, <5>1 DEF InOrder
      <4>2. CASE i # Len(g) + 1
        <5>1. i \in 1..Len(g) /\ h[i] = g[i]
          BY <1>4, <2>2, <4>2
        <5>2. QED BY <1>3, <3>2, <5>1 DEF Before
      <4>3. QED BY <4>1, <4>2
    <3>3. QED BY <2>4, <3>1, <3>2 DEF OrderOK, InOrder, Before
  <2>7. EndOK(r, track[p])
    BY <2>4 DEF EndOK
  <2>8. PlayBackOK(r, Len(heard), list', track[p])
    BY <1>1, <2>5, <2>6, <2>7 DEF PlayBackOK, redis
  <2>9. QED BY <1>1, <1>2, <2>3, <2>8, Facts, OnePlays DEF air, redis
<1>6. CASE ~(k <= Len(list))
  <2> DEFINE r == [player[p] EXCEPT !.pc = "done", !.got = <<>>]
  <2>1. player' = [player EXCEPT ![p] = r]
    BY <1>1, <1>6
  <2>2. /\ r \in Player /\ r.pc = "done" /\ r.len = player[p].len /\ r.got = <<>> /\ r.j = 0
    <3>1. <<>> \in Seq(Arrivals)
      BY EmptySeq
    <3>2. QED BY <1>3, <1>4, <3>1 DEF Player
  <2> HIDE DEF r
  <2>3. Len(r.got) = 0
    BY <2>2
  <2>4. GotOK(r, Len(heard)) /\ OrderOK(r, list) /\ EndOK(r, track[p])
    BY <1>3, <1>4, <2>2, <2>3 DEF GotOK, OrderOK, InOrder, EndOK
  <2>5. PlayBackOK(r, Len(heard), list', track[p])
    BY <1>1, <2>4 DEF PlayBackOK, redis
  <2>6. QED BY <1>1, <1>2, <2>1, <2>5, Facts, OnePlays DEF air, redis
<1>7. QED BY <1>5, <1>6

LEMMA EraseKeeps ==
    ASSUME ParrotInv, NEW p \in Players, Erase(p)
    PROVE  ParrotInv'
<1> DEFINE r == [player[p] EXCEPT !.pc = "play"]
<1>1. /\ player[p].pc = "fetch" /\ player' = [player EXCEPT ![p] = r]
      /\ list' = <<>> /\ expiry' = FALSE
      /\ UNCHANGED <<air, started, track, played>>
  BY DEF Erase
<1>2. AirOK' /\ ListOK'
  <2>1. <<>> \in Seq(1..Len(heard)) /\ Len(<<>>) = 0 /\ Len(heard) \in Nat
    BY EmptySeq, Facts
  <2>2. AirOK'
    BY <1>1 DEF ParrotInv, AirOK, air
  <2>3. heard' = heard /\ played' = played /\ Len(list') = 0 /\ 1..0 = {}
    BY <1>1, <2>1 DEF air
  <2>4. InOrder(list')
    BY <2>3 DEF InOrder
  <2>5. QED BY <1>1, <2>1, <2>2, <2>3, <2>4 DEF ParrotInv, ListOK
<1>3. /\ r \in Player /\ r.pc = "play" /\ r.got = player[p].got
      /\ r.len = player[p].len /\ r.j = player[p].j
  BY Facts DEF Player
<1>4. player[p].j = 0 /\ PlayBackOK(player[p], Len(heard), list, track[p])
  BY <1>1, Facts DEF PlayBackOK, GotOK
<1> HIDE DEF r
<1>5. r.got # <<>> => r.j # Len(r.got)
  BY <1>3, <1>4, Facts, EmptySeq
<1>6. PlayBackOK(r, Len(heard), list', track[p])
  BY <1>3, <1>4, <1>5 DEF PlayBackOK, GotOK, OrderOK, EndOK
<1>7. QED BY <1>1, <1>2, <1>6, Facts, OnePlays DEF air

LEMMA PlayKeeps ==
    ASSUME ParrotInv, NEW p \in Players, Play(p)
    PROVE  ParrotInv'
<1> DEFINE j == player[p].j + 1
           r == [player[p] EXCEPT !.j = j]
           u == [track[p] EXCEPT ![j] = "ready"]
<1>1. /\ player[p].pc = "play" /\ player[p].j < Len(player[p].got)
      /\ player' = [player EXCEPT ![p] = r] /\ track' = [track EXCEPT ![p] = u]
      /\ \/ played' = played \cup {player[p].got[j]} /\ UNCHANGED fault
         \/ fault' = TRUE /\ UNCHANGED played
      /\ UNCHANGED <<sent, net, heard, redis>>
  BY DEF Play
<1>2. PlayBackOK(player[p], Len(heard), list, track[p]) /\ player[p].got \in Seq(Arrivals)
  BY Facts
<1>3. /\ j \in 1..Len(player[p].got) /\ j \in Arrivals /\ j \in 0..(Frames + 1)
      /\ j <= Len(player[p].got)
  <2>1. Len(player[p].got) <= Frames + 1
    BY <1>2, Facts, ParrotAssumption DEF PlayBackOK, GotOK
  <2>2. QED BY <1>1, <2>1, Facts, ParrotAssumption DEF Arrivals
<1>4. player[p].got[j] \in 1..Len(heard)
  <2>1. player[p].got[j] \in Arrivals /\ player[p].got[j] <= Len(heard)
    BY <1>2, <1>3, ElementOfSeq DEF PlayBackOK, GotOK
  <2>2. QED BY <2>1, Facts, ParrotAssumption DEF Arrivals
<1>5. AirOK' /\ ListOK'
  BY <1>1, <1>4 DEF ParrotInv, AirOK, ListOK, redis
<1>6. /\ r \in Player /\ r.pc = "play" /\ r.got = player[p].got
      /\ r.len = player[p].len /\ r.j = j
  BY <1>1, <1>3, Facts DEF Player
<1>7. u \in [Arrivals -> Busy \cup {"none", "over"}] /\ u[j] \in Busy
  BY <1>3, Facts DEF Busy
<1> HIDE DEF r, u
<1>8. PlayBackOK(r, Len(heard), list', u)
  BY <1>1, <1>2, <1>3, <1>6, <1>7 DEF PlayBackOK, GotOK, OrderOK, EndOK, redis
<1>9. QED BY <1>1, <1>5, <1>7, <1>8, OnePlays DEF redis

LEMMA FinishKeeps ==
    ASSUME ParrotInv, NEW p \in Players, Finish(p)
    PROVE  ParrotInv'
<1> DEFINE r == [player[p] EXCEPT !.pc = "done"]
<1>1. /\ player[p].pc = "play" /\ player[p].j = Len(player[p].got)
      /\ player' = [player EXCEPT ![p] = r]
      /\ UNCHANGED <<air, redis, track, played>>
  BY DEF Finish
<1>2. AirOK' /\ ListOK'
  BY <1>1 DEF ParrotInv, AirOK, ListOK, air, redis
<1>3. /\ r \in Player /\ r.pc = "done" /\ r.got = player[p].got /\ r.len = player[p].len
      /\ r.j = player[p].j /\ r.ended = player[p].ended
  BY Facts DEF Player
<1>4. PlayBackOK(player[p], Len(heard), list, track[p])
  BY Facts
<1> HIDE DEF r
<1>5. PlayBackOK(r, Len(heard), list', track[p])
  BY <1>1, <1>3, <1>4 DEF PlayBackOK, GotOK, OrderOK, EndOK, redis
<1>6. QED BY <1>1, <1>2, <1>5, Facts, OnePlays DEF air, redis

----------------------------------------------------------------------------
(* The tracking goroutines. *)

\* A tracking goroutine of r goes on to label x: it may be over only when another
\* frame is the last one begun, or when it has called EndCall.
LEMMA TrackKeepsOne ==
    ASSUME NEW n, NEW l, NEW r, NEW t \in [Arrivals -> Busy \cup {"none", "over"}],
           PlayBackOK(r, n, l, t),
           NEW q \in Player, q.pc = r.pc, q.len = r.len, q.got = r.got, q.j = r.j,
           r.ended => q.ended,
           NEW j \in Arrivals, NEW x,
           x \in Busy \/ q.ended \/ r.j # Len(r.got)
    PROVE  PlayBackOK(q, n, l, [t EXCEPT ![j] = x])
<1>1. GotOK(q, n) /\ OrderOK(q, l)
  BY DEF PlayBackOK, GotOK, OrderOK
<1>2. EndOK(q, [t EXCEPT ![j] = x])
  BY DEF PlayBackOK, EndOK
<1>3. QED BY <1>1, <1>2 DEF PlayBackOK

LEMMA TrackingKeeps ==
    ASSUME ParrotInv, NEW p \in Players, NEW j \in Arrivals,
           NEW x \in Busy \cup {"over"}, To(p, j, x), NEW q \in Player,
           player' = [player EXCEPT ![p] = q],
           q.pc = player[p].pc, q.len = player[p].len, q.got = player[p].got,
           q.j = player[p].j, player[p].ended => q.ended,
           x \in Busy \/ q.ended \/ player[p].j # Len(player[p].got),
           UNCHANGED <<air, redis, played>>
    PROVE  ParrotInv'
<1> DEFINE u == [track[p] EXCEPT ![j] = x]
<1>1. track' = [track EXCEPT ![p] = u]
  BY DEF To
<1>2. u \in [Arrivals -> Busy \cup {"none", "over"}]
  BY Facts
<1>3. PlayBackOK(q, Len(heard), list, u)
  BY Facts, TrackKeepsOne
<1>4. AirOK' /\ ListOK'
  BY DEF ParrotInv, AirOK, ListOK, air, redis
<1> HIDE DEF u
<1>5. QED BY <1>1, <1>2, <1>3, <1>4, OnePlays DEF air, redis

LEMMA TrackKeeps ==
    ASSUME ParrotInv, NEW p \in Players, NEW j \in Arrivals, Tracking(p, j)
    PROVE  ParrotInv'
<1>0. player[p] \in Player /\ player = [player EXCEPT ![p] = player[p]]
  BY Facts
<1>1. CASE Look(p, j)
  <2> DEFINE x == IF player[p].begun THEN "process" ELSE "start"
  <2>1. x \in Busy /\ To(p, j, x) /\ UNCHANGED <<air, redis, player, played>>
    BY <1>1 DEF Look, Busy
  <2> HIDE DEF x
  <2>2. QED BY <1>0, <2>1, TrackingKeeps
<1>2. CASE StartCall(p, j)
  <2> DEFINE q == [player[p] EXCEPT !.begun = TRUE]
  <2>1. /\ "process" \in Busy /\ To(p, j, "process") /\ player' = [player EXCEPT ![p] = q]
        /\ UNCHANGED <<air, redis, played>>
    BY <1>2 DEF StartCall, Busy
  <2>2. /\ q \in Player /\ q.pc = player[p].pc /\ q.len = player[p].len
        /\ q.got = player[p].got /\ q.j = player[p].j /\ q.ended = player[p].ended
    BY <1>0 DEF Player
  <2> HIDE DEF q
  <2>3. QED BY <2>1, <2>2, TrackingKeeps
<1>3. CASE Process(p, j)
  <2> DEFINE x == IF player[p].j = Len(player[p].got) THEN "end" ELSE "over"
  <2>1. /\ x \in Busy \cup {"over"} /\ (x \in Busy \/ player[p].j # Len(player[p].got))
        /\ To(p, j, x) /\ UNCHANGED <<air, redis, player, played>>
    BY <1>3 DEF Process, Busy
  <2> HIDE DEF x
  <2>2. QED BY <1>0, <2>1, TrackingKeeps
<1>4. CASE EndCall(p, j)
  <2> DEFINE q == [player[p] EXCEPT !.ended = TRUE]
  <2>1. /\ To(p, j, "over") /\ player' = [player EXCEPT ![p] = q]
        /\ UNCHANGED <<air, redis, played>>
    BY <1>4 DEF EndCall
  <2>2. /\ q \in Player /\ q.pc = player[p].pc /\ q.len = player[p].len
        /\ q.got = player[p].got /\ q.j = player[p].j /\ q.ended = TRUE
    BY <1>0 DEF Player
  <2> HIDE DEF q
  <2>3. QED BY <2>1, <2>2, TrackingKeeps
<1>5. QED BY <1>1, <1>2, <1>3, <1>4 DEF Tracking

----------------------------------------------------------------------------
(* The hotspot, the network and the handler. *)

\* What changes neither a play-back nor what has arrived keeps all of them.
LEMMA PlayersStay ==
    ASSUME ParrotInv, AirOK', ListOK', UNCHANGED <<player, track, heard>>,
           list' = list \/ list' = <<>>
    PROVE  ParrotInv'
<1>1. ASSUME NEW p \in Players
      PROVE  PlayBackOK(player'[p], Len(heard'), list', track'[p])
  <2>1. PlayBackOK(player[p], Len(heard), list, track[p])
    BY DEF ParrotInv
  <2>2. QED BY <2>1, EraseKeepsOne
<1>2. QED BY <1>1 DEF ParrotInv, WorkOK

LEMMA TransmitKeeps ==
    ASSUME ParrotInv, Transmit
    PROVE  ParrotInv'
<1>1. /\ sent < Frames /\ sent' = sent + 1 /\ net' = Append(net, sent + 1)
      /\ UNCHANGED <<heard, redis, player, track, played, fault>>
  BY DEF Transmit
<1>2. sent \in 0..Frames /\ net \in Seq(1..Frames) /\ Len(heard) \in Nat
      /\ Len(heard) + Len(net) <= sent + 1
  BY LenProperties DEF ParrotInv, AirOK
<1>3. sent + 1 \in 1..Frames
  BY <1>1, <1>2, ParrotAssumption
<1>4. net' \in Seq(1..Frames) /\ Len(net') = Len(net) + 1 /\ Len(net) \in Nat
  BY <1>1, <1>2, <1>3, WithOneMore
<1>5. Len(heard') + Len(net') <= sent' + 1 /\ sent' \in 0..Frames
  BY <1>1, <1>2, <1>3, <1>4
<1>6. AirOK' /\ ListOK'
  BY <1>1, <1>4, <1>5 DEF ParrotInv, AirOK, ListOK, redis
<1>7. QED BY <1>1, <1>6, PlayersStay DEF redis

LEMMA LoseKeeps ==
    ASSUME ParrotInv, NEW i \in 1..Len(net), Lose(i)
    PROVE  ParrotInv'
<1>1. /\ net' = RemoveAt(net, i) /\ fault' = TRUE
      /\ UNCHANGED <<sent, heard, redis, player, track, played>>
  BY DEF Lose
<1>2. net \in Seq(1..Frames) /\ Len(heard) \in Nat /\ Len(net) \in Nat /\ sent \in Nat
      /\ Len(heard) + Len(net) <= sent + 1
  BY LenProperties DEF ParrotInv, AirOK
<1>3. net' \in Seq(1..Frames) /\ Len(net') = Len(net) - 1
  BY <1>1, <1>2, WithoutOne
<1>4. Len(heard') + Len(net') <= sent' + 1
  BY <1>1, <1>2, <1>3
<1>5. AirOK' /\ ListOK'
  BY <1>1, <1>3, <1>4 DEF ParrotInv, AirOK, ListOK, redis
<1>6. QED BY <1>1, <1>5, PlayersStay DEF redis

\* The next arrival a is recorded; player changes at most from idle to measure.
LEMMA RecordKeeps ==
    ASSUME ParrotInv, AirOK', NEW f \in 1..Frames, heard' = Append(heard, f),
           list' = Push(Len(heard) + 1), UNCHANGED <<track, played>>,
           player' \in [Players -> Player],
           \A p \in Players :
              \/ player'[p] = player[p]
              \/ player[p].pc = "idle" /\ player'[p] = [player[p] EXCEPT !.pc = "measure"]
    PROVE  ParrotInv'
<1> DEFINE n == Len(heard)
<1>1. /\ heard \in Seq(1..Frames) /\ list \in Seq(1..n) /\ Len(list) <= n /\ InOrder(list)
      /\ played \subseteq 1..n
  BY DEF ParrotInv, AirOK, ListOK
<1>2. Len(heard') = n + 1 /\ n \in Nat
  BY <1>1, WithOneMore
<1>3. list' = Append(list, n + 1)
  BY DEF Push
<1> HIDE DEF n
<1>4. ListOK'
  <2>1. list' \in Seq(1..(n + 1)) /\ Len(list') = Len(list) + 1 /\ InOrder(list')
    BY <1>1, <1>2, <1>3, ArrivalComesLast
  <2>2. Len(list) \in Nat
    BY <1>1, LenProperties
  <2>3. Len(list') <= Len(heard') /\ 1..n \subseteq 1..(n + 1)
    BY <1>1, <1>2, <2>1, <2>2
  <2>4. played' \subseteq 1..Len(heard')
    BY <1>1, <1>2, <2>3
  <2>5. QED BY <1>2, <2>1, <2>3, <2>4 DEF ListOK
<1>5. ASSUME NEW p \in Players
      PROVE  PlayBackOK(player'[p], Len(heard'), list', track'[p])
  <2>1. PlayBackOK(player[p], n, list, track[p]) /\ player[p] \in Player
    BY Facts DEF n
  <2>2. PlayBackOK(player[p], n + 1, list', track[p])
    <3>1. PlayBackOK(player[p], n + 1, Append(list, n + 1), track[p])
      BY <1>1, <1>2, <2>1, RecordKeepsOne, Zenon
    <3>2. QED BY <1>3, <3>1
  <2>3. CASE player'[p] = player[p]
    BY <1>2, <2>2, <2>3
  <2>4. CASE player[p].pc = "idle" /\ player'[p] = [player[p] EXCEPT !.pc = "measure"]
    <3> DEFINE r == [player[p] EXCEPT !.pc = "measure"]
    <3>1. /\ r \in Player /\ r.pc = "measure" /\ r.len = player[p].len
          /\ r.got = player[p].got /\ r.j = player[p].j
      BY <2>1 DEF Player
    <3> HIDE DEF r
    <3>2. GotOK(r, n + 1) /\ OrderOK(r, list') /\ EndOK(r, track[p])
      BY <2>2, <2>4, <3>1 DEF PlayBackOK, GotOK, OrderOK, EndOK
    <3>3. player'[p] = r
      BY <2>4 DEF r
    <3>4. QED BY <1>2, <3>2, <3>3 DEF PlayBackOK
  <2>5. QED BY <2>3, <2>4
<1>6. WorkOK'
  BY DEF ParrotInv, WorkOK
<1>7. QED BY <1>4, <1>5, <1>6 DEF ParrotInv

LEMMA DeliverKeeps ==
    ASSUME ParrotInv, NEW i \in 1..Len(net), Deliver(i)
    PROVE  ParrotInv'
<1> DEFINE f == net[i]
           a == Len(heard) + 1
<1>1. /\ heard' = Append(heard, f) /\ (StopStream(a) \/ Record(a))
      /\ UNCHANGED <<sent, track, played>>
      /\ \/ net' = RemoveAt(net, i) /\ fault' = (fault \/ i > 1)
         \/ Len(heard) + Len(net) <= sent /\ net' = net /\ fault' = TRUE
  BY DEF Deliver, Handle
<1>2. /\ sent \in 0..Frames /\ net \in Seq(1..Frames) /\ heard \in Seq(1..Frames)
      /\ Len(heard) + Len(net) <= sent + 1
      /\ started \in BOOLEAN /\ expiry \in BOOLEAN /\ fault \in BOOLEAN
  BY DEF ParrotInv, AirOK
<1>3. f \in 1..Frames
  BY <1>2, ElementOfSeq
<1>4. list' = Push(a) /\ started' \in BOOLEAN /\ expiry' \in BOOLEAN
  BY <1>1, <1>2 DEF StopStream, Record
<1>5. /\ player' \in [Players -> Player]
      /\ \A p \in Players :
            \/ player'[p] = player[p]
            \/ player[p].pc = "idle" /\ player'[p] = [player[p] EXCEPT !.pc = "measure"]
  <2>1. player \in [Players -> Player]
    BY DEF ParrotInv, WorkOK
  <2>2. CASE Record(a)
    <3>1. player' = player
      BY <2>2 DEF Record
    <3>2. \A p \in Players : player'[p] = player[p]
      BY <3>1
    <3>3. player' \in [Players -> Player]
      BY <2>1, <3>1
    <3>4. QED BY <3>2, <3>3
  <2>3. CASE StopStream(a)
    <3>1. PICK p \in Players :
             player[p].pc = "idle" /\ player' = [player EXCEPT ![p].pc = "measure"]
      BY <2>3 DEF StopStream
    <3> DEFINE m == [player[p] EXCEPT !.pc = "measure"]
    <3>2. m \in Player
      BY <2>1 DEF Player
    <3>3. player' = [player EXCEPT ![p] = m]
      BY <3>1
    <3>4. player' \in [Players -> Player]
      <4> HIDE DEF m
      <4>1. QED BY <2>1, <3>2, <3>3
    <3>5. \A q \in Players : player'[q] = IF q = p THEN m ELSE player[q]
      <4> HIDE DEF m
      <4>1. QED BY <2>1, <3>3
    <3>6. ASSUME NEW q \in Players
          PROVE  \/ player'[q] = player[q]
                 \/ player[q].pc = "idle" /\ player'[q] = [player[q] EXCEPT !.pc = "measure"]
      <4>1. CASE q = p
        BY <3>1, <3>5, <4>1
      <4>2. CASE q # p
        <5>1. player'[q] = player[q]
          BY <3>5, <4>2
        <5>2. QED BY <5>1
      <4>3. QED BY <4>1, <4>2
    <3>7. QED BY <3>4, <3>6
  <2>4. QED BY <1>1, <2>2, <2>3
<1> HIDE DEF f, a
<1>6. heard' \in Seq(1..Frames) /\ Len(heard') = Len(heard) + 1 /\ Len(heard) \in Nat
      /\ Len(net) \in Nat
  BY <1>1, <1>2, <1>3, WithOneMore, LenProperties
<1>7. net' \in Seq(1..Frames) /\ fault' \in BOOLEAN /\ Len(heard') + Len(net') <= sent' + 1
  <2>1. CASE net' = RemoveAt(net, i) /\ fault' = (fault \/ i > 1)
    <3>1. net' \in Seq(1..Frames) /\ Len(net') = Len(net) - 1
      BY <1>2, <2>1, WithoutOne
    <3>2. Len(heard') + Len(net') <= sent' + 1
      BY <1>1, <1>2, <1>6, <3>1
    <3>3. fault' \in BOOLEAN
      BY <2>1
    <3>4. QED BY <3>1, <3>2, <3>3
  <2>2. CASE Len(heard) + Len(net) <= sent /\ net' = net /\ fault' = TRUE
    BY <1>1, <1>2, <1>6, <2>2
  <2>3. QED BY <1>1, <2>1, <2>2
<1>8. AirOK'
  BY <1>1, <1>2, <1>4, <1>6, <1>7 DEF AirOK
<1>9. QED BY <1>1, <1>3, <1>4, <1>5, <1>8, RecordKeeps DEF a

LEMMA ExpiryKeeps ==
    ASSUME ParrotInv, ExpireStream \/ ExpireList
    PROVE  ParrotInv'
<1>1. CASE ExpireStream
  <2>1. AirOK' /\ ListOK'
    BY <1>1 DEF ParrotInv, AirOK, ListOK, ExpireStream, air
  <2>2. QED BY <1>1, <2>1, PlayersStay DEF ExpireStream, air
<1>2. CASE ExpireList
  <2>1. list' = <<>> /\ expiry' = FALSE /\ UNCHANGED <<air, started, player, track, played>>
    BY <1>2 DEF ExpireList
  <2>2. AirOK'
    BY <2>1 DEF ParrotInv, AirOK, air
  <2>3. ListOK'
    <3>1. Len(<<>>) = 0 /\ 1..0 = {} /\ Len(heard) \in Nat
      BY LenProperties DEF ParrotInv, AirOK
    <3>2. InOrder(<<>>)
      BY <3>1 DEF InOrder
    <3>3. QED BY <2>1, <3>1, <3>2, EmptySeq DEF ParrotInv, ListOK, air
  <2>4. QED BY <2>1, <2>2, <2>3, PlayersStay DEF air
<1>3. QED BY <1>1, <1>2

LEMMA CrashKeeps ==
    ASSUME ParrotInv, Crash
    PROVE  ParrotInv'
<1> DEFINE gone == [NoPlayer EXCEPT !.pc = "done"]
<1>1. /\ player' = [p \in Players |-> IF player[p].pc = "idle" THEN player[p] ELSE gone]
      /\ track' = [p \in Players |-> [j \in Arrivals |-> "none"]]
      /\ fault' = TRUE /\ UNCHANGED <<sent, net, heard, redis, played>>
  BY DEF Crash
<1>2. AirOK' /\ ListOK'
  BY <1>1 DEF ParrotInv, AirOK, ListOK, redis
<1>3. ASSUME NEW p \in Players
      PROVE  PlayBackOK(player'[p], Len(heard'), list', track'[p])
  <2>1. PlayBackOK(player[p], Len(heard), list, track[p]) /\ Len(heard) \in Nat
    BY Facts
  <2>2. CASE player[p].pc = "idle"
    <3>1. EndOK(player[p], track'[p])
      BY <2>2 DEF EndOK
    <3>2. player'[p] = player[p] /\ heard' = heard /\ list' = list
      BY <1>1, <2>2 DEF redis
    <3>3. QED BY <2>1, <3>1, <3>2 DEF PlayBackOK
  <2>3. CASE player[p].pc # "idle"
    BY <1>1, <2>1, <2>3, GoneIsOK DEF redis
  <2>4. QED BY <2>2, <2>3
<1>4. WorkOK'
  <2>1. \A p \in Players : player'[p] \in Player
    BY <1>3 DEF PlayBackOK, GotOK
  <2>2. QED BY <1>1, <2>1 DEF WorkOK
<1>5. QED BY <1>2, <1>3, <1>4 DEF ParrotInv

----------------------------------------------------------------------------
(* The invariant. *)

LEMMA InitHolds == Init => ParrotInv
<1> SUFFICES ASSUME Init PROVE ParrotInv
  OBVIOUS
<1>1. /\ sent = 0 /\ net = <<>> /\ heard = <<>> /\ list = <<>> /\ played = {}
      /\ started = FALSE /\ expiry = FALSE /\ fault = FALSE
      /\ player = [p \in Players |-> NoPlayer]
      /\ track = [p \in Players |-> [j \in Arrivals |-> "none"]]
  BY DEF Init
<1>2. Len(<<>>) = 0 /\ 1..0 = {} /\ 0 \in 0..Frames
  BY ParrotAssumption
<1>3. AirOK /\ ListOK
  <2>1. Len(net) = 0 /\ Len(heard) = 0 /\ Len(list) = 0
    BY <1>1, <1>2
  <2>2. InOrder(list)
    BY <1>2, <2>1 DEF InOrder
  <2>4. AirOK
    <3>1. net \in Seq(1..Frames) /\ heard \in Seq(1..Frames)
      BY <1>1, EmptySeq
    <3>2. Len(heard) + Len(net) <= sent + 1
      BY <1>1, <2>1
    <3>3. QED BY <1>1, <1>2, <3>1, <3>2 DEF AirOK
  <2>5. list \in Seq(1..Len(heard))
    BY <1>1, EmptySeq
  <2>6. QED BY <1>1, <2>1, <2>2, <2>4, <2>5 DEF ListOK
<1>4. /\ NoPlayer \in Player /\ NoPlayer.pc = "idle" /\ NoPlayer.got = <<>>
      /\ NoPlayer.len = 0 /\ NoPlayer.j = 0
  <2>1. <<>> \in Seq(Arrivals) /\ 0 \in 0..(Frames + 1)
    BY EmptySeq, ParrotAssumption
  <2>2. QED BY <2>1 DEF Player, NoPlayer
<1>5. ASSUME NEW p \in Players
      PROVE  PlayBackOK(player[p], Len(heard), list, track[p])
  BY <1>1, <1>2, <1>4 DEF PlayBackOK, GotOK, OrderOK, InOrder, EndOK
<1>6. WorkOK
  BY <1>1, <1>4 DEF WorkOK
<1>7. QED BY <1>3, <1>5, <1>6 DEF ParrotInv

LEMMA NextKeeps == ParrotInv /\ [Next]_vars => ParrotInv'
<1> SUFFICES ASSUME ParrotInv, [Next]_vars PROVE ParrotInv'
  OBVIOUS
<1>1. CASE Transmit
  BY <1>1, TransmitKeeps
<1>2. CASE \E i \in 1..Len(net) : Lose(i) \/ Deliver(i)
  BY <1>2, LoseKeeps, DeliverKeeps
<1>3. CASE ExpireStream \/ ExpireList \/ Crash
  BY <1>3, ExpiryKeeps, CrashKeeps
<1>4. CASE \E p \in Players : Playing(p)
  BY <1>4, MeasureKeeps, FetchKeeps, EraseKeeps, PlayKeeps, FinishKeeps DEF Playing
<1>5. CASE \E p \in Players, j \in Arrivals : Tracking(p, j)
  BY <1>5, TrackKeeps
<1>6. CASE UNCHANGED vars
  <2>1. AirOK' /\ ListOK'
    BY <1>6 DEF ParrotInv, AirOK, ListOK, vars, air, redis
  <2>2. QED BY <1>6, <2>1, PlayersStay DEF vars, air, redis
<1>7. QED BY <1>1, <1>2, <1>3, <1>4, <1>5, <1>6 DEF Next

LEMMA ParrotInvariant == Spec => []ParrotInv
<1>1. QED BY InitHolds, NextKeeps, PTL DEF Spec

LEMMA TypesFollow == ParrotInv => TypeOK
<1> SUFFICES ASSUME ParrotInv PROVE TypeOK
  OBVIOUS
<1>1. /\ \A i \in 1..Len(net) : net[i] \in 1..Frames
      /\ \A i \in 1..Len(heard) : heard[i] \in 1..Frames
      /\ \A i \in 1..Len(list) : list[i] \in 1..Len(heard)
  BY ElementOfSeq DEF ParrotInv, AirOK, ListOK
<1>2. ASSUME NEW p \in Players
      PROVE  /\ player[p] \in Player
             /\ player[p].len <= Len(heard) /\ Len(player[p].got) <= player[p].len
             /\ player[p].j <= Len(player[p].got)
  BY DEF ParrotInv, PlayBackOK, GotOK
<1>3. QED BY <1>1, <1>2 DEF ParrotInv, AirOK, ListOK, TypeOK

\* The keys, the goroutines and their locals have their types, and a play-back
\* never gets, counts or sends what has not arrived (parrot_redis.go:47-92).
THEOREM ParrotIsTyped == Spec => []TypeOK
<1>1. QED BY ParrotInvariant, TypesFollow, PTL

\* However many frames are recorded while a play-back reads the list, and whatever
\* erases it under its reads, what it has got is in the order of arrival, each
\* frame once (parrot_redis.go:62-92).
THEOREM PlayBackIsInOrder == Spec => []RepeatsInOrder
<1>1. ParrotInv => RepeatsInOrder
  BY DEF ParrotInv, PlayBackOK, OrderOK, InOrder, RepeatsInOrder
<1>2. QED BY <1>1, ParrotInvariant, PTL

\* The tracking goroutines all test the j of the loop, which moves under them:
\* still the one of the last frame finds it equal to the length, so a play-back
\* whose goroutines are through has called EndCall (packet_handler.go:228-237).
THEOREM PlayBackIsEnded == Spec => []EndIsCalled
<1>1. ASSUME ParrotInv, NEW p \in Players,
             player[p].pc = "done", player[p].got # <<>>,
             \A j \in Arrivals : track[p][j] \in {"none", "over"}
      PROVE  player[p].ended
  <2>1. PlayBackOK(player[p], Len(heard), list, track[p])
    BY <1>1, Facts
  <2>2. player[p].j = Len(player[p].got)
        /\ (player[p].ended \/ track[p][player[p].j] \in Busy)
    BY <1>1, <2>1 DEF PlayBackOK, EndOK
  <2>3. player[p].j \in Arrivals
    <3>1. player[p].j \in 0..(Frames + 1) /\ player[p].j # 0
      BY <1>1, <2>2, Facts, EmptySeq
    <3>2. QED BY <3>1, ParrotAssumption DEF Arrivals
  <2>4. QED BY <1>1, <2>2, <2>3 DEF Busy
<1>2. ParrotInv => EndIsCalled
  BY <1>1 DEF EndIsCalled
<1>3. QED BY <1>2, ParrotInvariant, PTL
=============================================================================
