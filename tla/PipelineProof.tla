---------------------------- MODULE PipelineProof ----------------------------
(***************************************************************************)
(* For any addresses and repeaters, any length of a packet, any number of  *)
(* datagrams and of packets to send, and any capacity of the channels: the *)
(* inductive invariant of Pipeline and its safety properties.              *)
(***************************************************************************)
EXTENDS Pipeline, SequenceTheorems, TLAPS

----------------------------------------------------------------------------
(* Queues. *)

\* A message goes to the end of its queue, and the others keep their places.
LEMMA Appended ==
    ASSUME NEW S, NEW s \in Seq(S), NEW x \in S
    PROVE  /\ Len(s) \in Nat /\ DOMAIN s = 1..Len(s)
           /\ Append(s, x) \in Seq(S)
           /\ DOMAIN Append(s, x) = 1..(Len(s) + 1)
           /\ \A i \in 1..Len(s) : Append(s, x)[i] = s[i]
           /\ Append(s, x)[Len(s) + 1] = x
<1>1. Len(s) \in Nat /\ DOMAIN s = 1..Len(s)
  BY LenProperties
<1>2. /\ Append(s, x) \in Seq(S) /\ Len(Append(s, x)) = Len(s) + 1
      /\ \A i \in 1..Len(s) : Append(s, x)[i] = s[i]
      /\ Append(s, x)[Len(s) + 1] = x
  BY AppendProperties
<1>3. DOMAIN Append(s, x) = 1..Len(Append(s, x))
  BY <1>2, LenProperties
<1>4. QED BY <1>1, <1>2, <1>3

\* The first message leaves its queue, and the others move up.
LEMMA Taken ==
    ASSUME NEW S, NEW s \in Seq(S), s # <<>>
    PROVE  /\ Len(s) \in Nat \ {0} /\ DOMAIN s = 1..Len(s)
           /\ Head(s) = s[1] /\ Head(s) \in S
           /\ Tail(s) \in Seq(S)
           /\ DOMAIN Tail(s) = 1..(Len(s) - 1)
           /\ \A i \in 1..(Len(s) - 1) : Tail(s)[i] = s[i + 1]
<1>1. Len(s) \in Nat \ {0} /\ DOMAIN s = 1..Len(s)
  BY LenProperties, EmptySeq
<1>2. /\ Head(s) \in S /\ Tail(s) \in Seq(S) /\ Len(Tail(s)) = Len(s) - 1
      /\ \A i \in 1..Len(Tail(s)) : Tail(s)[i] = s[i + 1]
  BY HeadTailProperties
<1>3. DOMAIN Tail(s) = 1..Len(Tail(s))
  BY <1>2, LenProperties
<1>4. Head(s) = s[1]
  OBVIOUS
<1>5. QED BY <1>1, <1>2, <1>3, <1>4

----------------------------------------------------------------------------
(* The buffer and the goroutines that copy it. *)

\* What has been received is a datagram.
LEMMA ReceivedIsDatagram ==
    ASSUME ReadTypes
    PROVE  /\ received \in Nat /\ received <= MaxDatagrams
           /\ \A d \in 1..received : d \in Datagrams /\ datagram[d] \in Datagram
           /\ \A d \in 1..received :
                /\ datagram[d].from \in Addrs /\ datagram[d].id \in Repeaters
                /\ datagram[d].length \in 1..Size
<1>1. received \in Nat /\ received <= MaxDatagrams /\ \A d \in 1..received : d \in Datagrams
  BY PipelineAssumption DEF ReadTypes, Datagrams
<1>2. ASSUME NEW d \in 1..received PROVE datagram[d] \in Datagram
  <2>1. d \in Datagrams /\ d <= received
    BY <1>1
  <2>2. QED BY <2>1 DEF ReadTypes
<1>3. QED BY <1>1, <1>2 DEF Datagram, Cells

LEMMA ReceiveKeepsRead ==
    ASSUME ReadInv, NEW x \in Datagram, Receive(x)
    PROVE  ReadInv'
<1> USE PipelineAssumption
<1>1. /\ ReadTypes /\ BufferIsNewer /\ WorkersCopy
      /\ received \in Nat /\ received < MaxDatagrams
      /\ received' = received + 1 /\ filled' = 0
      /\ buffer' = buffer /\ worker' = worker
      /\ datagram' = [datagram EXCEPT ![received + 1] = x]
  BY ReceivedIsDatagram DEF ReadInv, Receive, outVars, inVars
<1>2. /\ DOMAIN datagram = Datagrams
      /\ received + 1 \in Datagrams
      /\ datagram'[received + 1] = x
      /\ \A d \in Datagrams : d # received + 1 => datagram'[d] = datagram[d]
  BY <1>1 DEF ReadTypes, Datagrams
<1>3. x # NoDatagram /\ x.length \in 1..Size
  BY DEF Datagram, NoDatagram, Cells
<1>4. ReadTypes'
  <2>1. datagram' \in [Datagrams -> Datagram \cup {NoDatagram}]
    BY <1>1 DEF ReadTypes
  <2>2. \A d \in Datagrams : d <= received' <=> datagram'[d] # NoDatagram
    BY <1>1, <1>2, <1>3 DEF ReadTypes, Datagrams
  <2>3. received' \in 0..MaxDatagrams /\ filled' \in 0..Size
    BY <1>1
  <2>4. QED BY <1>1, <2>1, <2>2, <2>3 DEF ReadTypes
<1>5. \A d \in 1..received : d \in Datagrams /\ datagram'[d] = datagram[d]
  BY <1>1, <1>2, ReceivedIsDatagram DEF Datagrams
<1>6. received > 0 => filled = datagram[received].length
  BY <1>1 DEF Receive, Filled
<1>7. \A d \in 1..received : FilledBy(d) = datagram[d].length /\ FilledBy(d)' = datagram[d].length
  BY <1>1, <1>5, <1>6 DEF FilledBy
<1>8. BufferIsNewer'
  <2>1. received' # 0 /\ filled' <= datagram'[received'].length
    BY <1>1, <1>2, <1>3
  <2>2. ASSUME NEW d \in 1..received', NEW c \in 1..FilledBy(d)' PROVE buffer'[c] \in d..received'
    <3>1. CASE d = received'
      BY <1>1, <2>2, <3>1 DEF FilledBy
    <3>2. CASE d # received'
      <4>1. d \in 1..received /\ c \in 1..FilledBy(d)
        BY <1>1, <1>7, <2>2, <3>2
      <4>2. buffer[c] \in d..received
        BY <1>1, <4>1 DEF BufferIsNewer
      <4>3. QED BY <1>1, <4>2
    <3>3. QED BY <3>1, <3>2
  <2>3. QED BY <2>1, <2>2 DEF BufferIsNewer
<1>9. WorkersCopy'
  <2> SUFFICES ASSUME NEW d \in Datagrams
               PROVE  LET w == worker[d]
                      IN  /\ w.pc = "none" => w.copied = 0
                          /\ w.pc # "none" => d <= received' /\ FilledBy(d)' = datagram'[d].length
                          /\ w.pc = "marshal" =>
                              /\ w.from = datagram'[d].from /\ w.length = datagram'[d].length
                              /\ w.copied <= w.length
                              /\ \A c \in 1..w.copied : w.data[c] \in d..received'
    BY <1>1 DEF WorkersCopy
  <2>1. worker[d].pc # "none" => d \in 1..received
    BY <1>1 DEF WorkersCopy, Datagrams
  <2>2. QED BY <1>1, <1>5, <1>7, <2>1 DEF WorkersCopy
<1>10. QED BY <1>4, <1>8, <1>9 DEF ReadInv

LEMMA FillKeepsRead ==
    ASSUME ReadInv, Fill
    PROVE  ReadInv'
<1> USE PipelineAssumption
<1>1. /\ ReadTypes /\ BufferIsNewer /\ WorkersCopy
      /\ received \in Nat /\ filled \in Nat /\ Size \in Nat
      /\ received' = received /\ datagram' = datagram
      /\ filled' = filled + 1
      /\ buffer' = [buffer EXCEPT ![filled + 1] = received]
      /\ worker' = IF filled' = datagram[received].length THEN Capture(received) ELSE worker
  BY ReceivedIsDatagram DEF ReadInv, Fill, ReadTypes
<1>2. received > 0 /\ received \in 1..received /\ filled < datagram[received].length
  <2>1. received > 0
    BY <1>1 DEF Fill, Filled, BufferIsNewer
  <2>2. filled <= datagram[received].length /\ filled # datagram[received].length
    BY <1>1, <2>1 DEF Fill, Filled, BufferIsNewer
  <2>3. datagram[received].length \in Nat
    BY <1>1, <2>1, ReceivedIsDatagram
  <2>4. QED BY <1>1, <2>1, <2>2, <2>3
<1>3. /\ received \in Datagrams /\ datagram[received].from \in Addrs
      /\ datagram[received].length \in 1..Size
      /\ filled + 1 \in 1..Size
  BY <1>1, <1>2, ReceivedIsDatagram
<1>4. worker[received].pc = "none" /\ worker[received].copied = 0
  BY <1>1, <1>2, <1>3 DEF WorkersCopy, FilledBy
<1>5. /\ buffer'[filled + 1] = received
      /\ \A c \in Cells : c # filled + 1 => buffer'[c] = buffer[c]
      /\ buffer' \in Contents
  BY <1>1, <1>3 DEF ReadTypes, Contents, Cells
<1>6. /\ \A d \in Datagrams : d # received => worker'[d] = worker[d]
      /\ worker' \in [Datagrams -> Worker]
      /\ worker'[received].copied = 0
      /\ worker'[received].pc \in {"none", "marshal"}
      /\ worker'[received].pc = "marshal" =>
            /\ filled' = datagram[received].length
            /\ worker'[received].from = datagram[received].from
            /\ worker'[received].length = datagram[received].length
  <2>1. CASE filled' = datagram[received].length
    <3>1. worker' = Capture(received) /\ worker \in [Datagrams -> Worker]
      BY <1>1, <2>1 DEF ReadTypes
    <3>2. worker[received] \in Worker
      BY <1>3, <3>1
    <3> DEFINE w == [worker[received] EXCEPT !.pc = "marshal", !.from = datagram[received].from,
                                             !.length = datagram[received].length]
    <3>3. worker' = [worker EXCEPT ![received] = w]
      BY <3>1 DEF Capture
    <3>4. w.copied = 0 /\ w.pc = "marshal"
      BY <1>4, <3>2 DEF Worker
    <3>5. w.from = datagram[received].from /\ w.length = datagram[received].length
      BY <3>2 DEF Worker
    <3>6. w \in Worker
      <4>1. datagram[received].from \in Addrs \cup {Null} /\ datagram[received].length \in 0..Size
        BY <1>3
      <4>2. QED BY <3>2, <4>1 DEF Worker
    <3> HIDE DEF w
    <3>7. QED BY <1>3, <2>1, <3>1, <3>3, <3>4, <3>5, <3>6
  <2>2. CASE filled' # datagram[received].length
    BY <1>1, <1>4, <2>2 DEF ReadTypes
  <2>3. QED BY <2>1, <2>2
<1>7. ReadTypes'
  BY <1>1, <1>3, <1>5, <1>6 DEF ReadTypes
<1>8. \A d \in 1..received : d # received => FilledBy(d)' = FilledBy(d) /\ FilledBy(d) = datagram[d].length
  BY <1>1 DEF FilledBy
<1>9. FilledBy(received)' = filled + 1 /\ FilledBy(received) = filled
  BY <1>1 DEF FilledBy
<1>10. BufferIsNewer'
  <2>1. received' # 0 /\ filled' <= datagram'[received'].length
    BY <1>1, <1>2, <1>3
  <2>2. ASSUME NEW d \in 1..received, NEW c \in 1..FilledBy(d)' PROVE buffer'[c] \in d..received
    <3>1. CASE c = filled + 1
      BY <1>1, <1>5, <3>1
    <3>2. CASE c # filled + 1
      <4>1. c \in 1..FilledBy(d)
        BY <1>1, <1>8, <1>9, <2>2, <3>2
      <4>2. FilledBy(d) <= Size /\ FilledBy(d) \in Int
        BY <1>1, <1>3, <1>8, <1>9, ReceivedIsDatagram
      <4>3. c \in Cells /\ buffer[c] \in d..received
        BY <1>1, <4>1, <4>2 DEF BufferIsNewer, Cells
      <4>4. QED BY <1>5, <3>2, <4>3
    <3>3. QED BY <3>1, <3>2
  <2>3. QED BY <1>1, <2>1, <2>2 DEF BufferIsNewer
<1>11. WorkersCopy'
  <2> SUFFICES ASSUME NEW d \in Datagrams
               PROVE  LET w == worker'[d]
                      IN  /\ w.pc = "none" => w.copied = 0
                          /\ w.pc # "none" => d <= received /\ FilledBy(d)' = datagram[d].length
                          /\ w.pc = "marshal" =>
                              /\ w.from = datagram[d].from /\ w.length = datagram[d].length
                              /\ w.copied <= w.length
                              /\ \A c \in 1..w.copied : w.data[c] \in d..received
    BY <1>1 DEF WorkersCopy
  <2>1. CASE d = received
    BY <1>1, <1>2, <1>3, <1>6, <1>9, <2>1
  <2>2. CASE d # received
    <3>1. worker'[d] = worker[d] /\ (worker[d].pc # "none" => d \in 1..received)
      BY <1>1, <1>6, <2>2 DEF WorkersCopy, Datagrams
    <3>2. QED BY <1>1, <1>8, <2>2, <3>1 DEF WorkersCopy
  <2>3. QED BY <2>1, <2>2
<1>12. QED BY <1>7, <1>10, <1>11 DEF ReadInv

LEMMA MarshalKeepsRead ==
    ASSUME ReadInv, NEW d \in Datagrams, Marshal(d)
    PROVE  ReadInv'
<1> USE PipelineAssumption
<1> DEFINE w == worker[d]
           x == [w EXCEPT !.copied = w.copied + 1, !.data[w.copied + 1] = buffer[w.copied + 1]]
<1>1. /\ ReadTypes /\ BufferIsNewer /\ WorkersCopy
      /\ received \in Nat
      /\ UNCHANGED readVars
      /\ w \in Worker /\ w.pc = "marshal" /\ w.copied < w.length
      /\ worker' = [worker EXCEPT ![d].copied = w.copied + 1,
                                  ![d].data[w.copied + 1] = buffer[w.copied + 1]]
  BY ReceivedIsDatagram DEF ReadInv, Marshal, ReadTypes
<1>2. /\ w.copied \in 0..Size /\ w.length \in 0..Size /\ w.data \in Contents
      /\ w.copied + 1 \in 1..w.length /\ w.copied + 1 \in Cells
  BY <1>1 DEF Worker, Cells
<1>3. /\ d \in 1..received /\ FilledBy(d) = datagram[d].length
      /\ w.from = datagram[d].from /\ w.length = datagram[d].length
      /\ \A c \in 1..w.copied : w.data[c] \in d..received
  BY <1>1 DEF WorkersCopy, Datagrams
<1>4. buffer[w.copied + 1] \in d..received
  BY <1>1, <1>2, <1>3 DEF BufferIsNewer
<1>5. /\ x.copied = w.copied + 1 /\ x.pc = w.pc /\ x.from = w.from /\ x.length = w.length
      /\ x.data = [w.data EXCEPT ![w.copied + 1] = buffer[w.copied + 1]]
  BY <1>1 DEF Worker
<1>6. x \in Worker
  <2>1. buffer[w.copied + 1] \in Datagrams \cup {0}
    BY <1>1, <1>2 DEF ReadTypes, Contents
  <2>2. [w.data EXCEPT ![w.copied + 1] = buffer[w.copied + 1]] \in Contents
    BY <1>2, <2>1 DEF Contents
  <2>3. w.copied + 1 \in 0..Size
    BY <1>2 DEF Cells
  <2>4. QED BY <1>1, <2>2, <2>3 DEF Worker
<1>7. \A c \in 1..x.copied : x.data[c] \in d..received
  BY <1>2, <1>3, <1>4, <1>5 DEF Contents, Cells
<1>8. worker' = [worker EXCEPT ![d] = x]
  BY <1>1 DEF Worker
<1> HIDE DEF x
<1>9. worker'[d] = x /\ \A e \in Datagrams : e # d => worker'[e] = worker[e]
  BY <1>1, <1>8 DEF ReadTypes
<1>10. ReadTypes'
  <2>1. worker' \in [Datagrams -> Worker]
    BY <1>1, <1>6, <1>8 DEF ReadTypes
  <2>2. QED BY <1>1, <2>1 DEF ReadTypes, readVars
<1>11. BufferIsNewer' /\ \A e \in Datagrams : FilledBy(e)' = FilledBy(e)
  BY <1>1 DEF BufferIsNewer, FilledBy, readVars
<1>12. WorkersCopy'
  <2> SUFFICES ASSUME NEW e \in Datagrams
               PROVE  LET v == worker'[e]
                      IN  /\ v.pc = "none" => v.copied = 0
                          /\ v.pc # "none" => e <= received /\ FilledBy(e) = datagram[e].length
                          /\ v.pc = "marshal" =>
                              /\ v.from = datagram[e].from /\ v.length = datagram[e].length
                              /\ v.copied <= v.length
                              /\ \A c \in 1..v.copied : v.data[c] \in e..received
    BY <1>1, <1>11 DEF WorkersCopy, readVars
  <2>1. CASE e = d
    <3>1. worker'[e] = x /\ x.pc = "marshal" /\ x.copied <= x.length
      BY <1>1, <1>2, <1>5, <1>9, <2>1
    <3>2. e <= received /\ FilledBy(e) = datagram[e].length
      BY <1>1, <1>3, <2>1
    <3>3. /\ x.from = datagram[e].from /\ x.length = datagram[e].length
          /\ \A c \in 1..x.copied : x.data[c] \in e..received
      BY <1>3, <1>5, <1>7, <2>1
    <3>4. QED BY <3>1, <3>2, <3>3
  <2>2. CASE e # d
    BY <1>1, <1>9, <2>2 DEF WorkersCopy
  <2>3. QED BY <2>1, <2>2
<1>13. QED BY <1>10, <1>11, <1>12 DEF ReadInv

LEMMA PublishKeepsRead ==
    ASSUME ReadInv, NEW d \in Datagrams, Publish(d)
    PROVE  ReadInv'
<1>1. /\ ReadTypes /\ BufferIsNewer /\ WorkersCopy
      /\ UNCHANGED readVars
      /\ worker[d] \in Worker /\ worker[d].pc = "marshal"
      /\ worker' = [worker EXCEPT ![d].pc = "done"]
  BY DEF ReadInv, Publish, ReadTypes
<1>2. /\ worker' \in [Datagrams -> Worker]
      /\ worker'[d].pc = "done"
      /\ \A e \in Datagrams : e # d => worker'[e] = worker[e]
  BY <1>1 DEF ReadTypes, Worker
<1>3. ReadTypes'
  BY <1>1, <1>2 DEF ReadTypes, readVars
<1>4. BufferIsNewer' /\ \A e \in Datagrams : FilledBy(e)' = FilledBy(e)
  BY <1>1 DEF BufferIsNewer, FilledBy, readVars
<1>5. WorkersCopy'
  <2> SUFFICES ASSUME NEW e \in Datagrams
               PROVE  LET v == worker'[e]
                      IN  /\ v.pc = "none" => v.copied = 0
                          /\ v.pc # "none" => e <= received /\ FilledBy(e) = datagram[e].length
                          /\ v.pc = "marshal" =>
                              /\ v.from = datagram[e].from /\ v.length = datagram[e].length
                              /\ v.copied <= v.length
                              /\ \A c \in 1..v.copied : v.data[c] \in e..received
    BY <1>1, <1>4 DEF WorkersCopy, readVars
  <2>1. CASE e = d
    BY <1>1, <1>2, <2>1 DEF WorkersCopy
  <2>2. CASE e # d
    BY <1>1, <1>2, <2>2 DEF WorkersCopy
  <2>3. QED BY <2>1, <2>2
<1>6. QED BY <1>3, <1>4, <1>5 DEF ReadInv

----------------------------------------------------------------------------
(* What waits for listen. *)

\* A message is of a datagram that has been received.
LEMMA MessageIsReceived ==
    ASSUME ReadTypes, InTypes, NothingOlder, NEW i \in DOMAIN incoming
    PROVE  /\ i \in 1..Len(incoming) /\ incoming[i] \in Message
           /\ incoming[i].of \in 1..received /\ incoming[i].of \in Datagrams
<1>1. i \in 1..Len(incoming) /\ incoming[i] \in Message
  BY LenProperties, ElementOfSeq DEF InTypes
<1>2. incoming[i].of \in Datagrams /\ incoming[i].length \in Cells
  BY <1>1 DEF Message
<1>3. 1 \in 1..incoming[i].length
  BY <1>2, PipelineAssumption DEF Cells
<1>4. incoming[i].data[1] \in incoming[i].of..received
  BY <1>3 DEF NothingOlder
<1>5. QED BY <1>1, <1>2, <1>4, PipelineAssumption, ReceivedIsDatagram DEF Datagrams

\* Reading more, and goroutines that do not end, leave the messages as they are.
LEMMA MessagesStay ==
    ASSUME ReadInv, InInv, UNCHANGED inVars,
           received' \in Nat, received' >= received,
           \A d \in 1..received : datagram'[d] = datagram[d],
           \A d \in Datagrams : worker'[d].pc = "done" <=> worker[d].pc = "done"
    PROVE  InInv'
<1>1. /\ ReadTypes /\ InTypes /\ EnvelopeIsOwn /\ NothingOlder /\ HandledOnce
      /\ incoming' = incoming /\ handled' = handled /\ missed' = missed
      /\ received \in Nat
  BY ReceivedIsDatagram DEF ReadInv, InInv, inVars
<1>2. \A i \in DOMAIN incoming : incoming[i].of \in 1..received
  BY <1>1, MessageIsReceived
<1>3. EnvelopeIsOwn'
  BY <1>1, <1>2 DEF EnvelopeIsOwn
<1>4. NothingOlder'
  <2>1. \A i \in DOMAIN incoming : \A n \in incoming[i].of..received : n \in incoming[i].of..received'
    BY <1>1, <1>2
  <2>2. QED BY <1>1, <2>1 DEF NothingOlder
<1>5. HandledOnce'
  BY <1>1 DEF HandledOnce
<1>6. QED BY <1>1, <1>3, <1>4, <1>5 DEF InInv, InTypes

LEMMA PublishKeepsIn ==
    ASSUME ReadInv, InInv, NEW d \in Datagrams, Publish(d)
    PROVE  InInv'
<1> USE PipelineAssumption
<1> DEFINE w == worker[d]
           m == [of |-> d, from |-> w.from, length |-> w.length, data |-> w.data]
<1>1. /\ ReadTypes /\ InTypes /\ EnvelopeIsOwn /\ NothingOlder /\ HandledOnce /\ WorkersCopy
      /\ UNCHANGED readVars /\ handled' = handled
      /\ w \in Worker /\ w.pc = "marshal" /\ w.copied = w.length
      /\ worker' = [worker EXCEPT ![d].pc = "done"]
  BY DEF ReadInv, InInv, Publish, ReadTypes
<1>2. /\ d \in 1..received /\ w.from = datagram[d].from /\ w.length = datagram[d].length
      /\ \A c \in 1..w.length : w.data[c] \in d..received
  BY <1>1 DEF WorkersCopy, Datagrams
<1>3. m \in Message
  <2>1. w.from \in Addrs /\ w.length \in Cells
    BY <1>1, <1>2, ReceivedIsDatagram DEF Cells
  <2>2. w.data \in Contents
    BY <1>1 DEF Worker
  <2>3. QED BY <2>1, <2>2 DEF Message
<1>4. /\ worker'[d].pc = "done"
      /\ \A e \in Datagrams : e # d => worker'[e] = worker[e]
  BY <1>1 DEF ReadTypes, Worker
<1>5. d \notin handled \cup missed /\ \A i \in DOMAIN incoming : incoming[i].of # d
  BY <1>1 DEF HandledOnce
<1>6. CASE /\ incoming' = Append(incoming, m)
           /\ missed' = missed
  <2> DEFINE n == Len(incoming)
  <2>1. /\ n \in Nat /\ DOMAIN incoming = 1..n /\ DOMAIN incoming' = 1..(n + 1)
        /\ incoming' \in Seq(Message) /\ incoming'[n + 1] = m
        /\ \A i \in 1..n : incoming'[i] = incoming[i]
    BY <1>1, <1>3, <1>6, Appended DEF InTypes
  <2>2. m.of = d /\ m.from = w.from /\ m.length = w.length /\ m.data = w.data
    OBVIOUS
  <2> HIDE DEF m, n
  <2>3. InTypes'
    BY <1>1, <1>6, <2>1 DEF InTypes
  <2>4. EnvelopeIsOwn' /\ NothingOlder'
    <3> SUFFICES ASSUME NEW i \in 1..(n + 1)
                 PROVE  /\ incoming'[i].from = datagram[incoming'[i].of].from
                        /\ incoming'[i].length = datagram[incoming'[i].of].length
                        /\ \A c \in 1..incoming'[i].length :
                             incoming'[i].data[c] \in incoming'[i].of..received
      BY <1>1, <2>1 DEF EnvelopeIsOwn, NothingOlder, readVars
    <3>1. CASE i = n + 1
      BY <1>2, <2>1, <2>2, <3>1
    <3>2. CASE i # n + 1
      <4>1. i \in 1..n
        BY <2>1, <3>2
      <4>2. QED BY <1>1, <2>1, <4>1 DEF EnvelopeIsOwn, NothingOlder
    <3>3. QED BY <3>1, <3>2
  <2>5. HandledOnce'
    <3>1. {incoming'[i].of : i \in DOMAIN incoming'} = {incoming[i].of : i \in DOMAIN incoming} \cup {d}
      BY <2>1, <2>2
    <3>2. \A e \in Datagrams : worker'[e].pc = "done" <=>
            e \in handled \cup missed \cup {incoming'[i].of : i \in DOMAIN incoming'}
      BY <1>1, <1>4, <3>1 DEF HandledOnce
    <3>3. \A i \in 1..(n + 1) : i = n + 1 \/ i \in 1..n
      BY <2>1
    <3>4. \A i, j \in 1..(n + 1) :
            /\ incoming'[i].of \notin handled \cup missed
            /\ incoming'[i].of = incoming'[j].of => i = j
      BY <1>1, <1>5, <2>1, <2>2, <3>3 DEF HandledOnce
    <3>5. QED BY <1>1, <1>6, <2>1, <3>2, <3>4 DEF HandledOnce
  <2>6. QED BY <2>3, <2>4, <2>5 DEF InInv
<1>7. CASE missed' = missed \cup {d} /\ incoming' = incoming
  <2>1. InTypes' /\ EnvelopeIsOwn' /\ NothingOlder'
    BY <1>1, <1>7 DEF InTypes, EnvelopeIsOwn, NothingOlder, readVars
  <2>2. HandledOnce'
    BY <1>1, <1>4, <1>5, <1>7 DEF HandledOnce
  <2>3. QED BY <2>1, <2>2 DEF InInv
<1>8. QED BY <1>6, <1>7 DEF Publish

\* Handling a message moves it from the channel to what has been handled.
LEMMA TakeKeepsIn ==
    ASSUME ReadInv, InInv, NEW m, Take(m), UNCHANGED <<readVars, worker, missed>>
    PROVE  InInv'
<1> DEFINE n == Len(incoming)
<1>1. /\ ReadTypes /\ InTypes /\ EnvelopeIsOwn /\ NothingOlder /\ HandledOnce
      /\ incoming # <<>> /\ m = Head(incoming) /\ incoming' = Tail(incoming)
      /\ handled' = handled \cup {m.of} /\ missed' = missed
  BY DEF ReadInv, InInv, Take
<1>2. /\ n \in Nat \ {0} /\ DOMAIN incoming = 1..n /\ DOMAIN incoming' = 1..(n - 1)
      /\ m = incoming[1] /\ m \in Message /\ incoming' \in Seq(Message)
      /\ \A i \in 1..(n - 1) : incoming'[i] = incoming[i + 1]
  BY <1>1, Taken DEF InTypes
<1> HIDE DEF n
<1>3. /\ \A i \in 1..(n - 1) : i + 1 \in 1..n /\ i + 1 # 1
      /\ \A i \in 1..n : i # 1 => i - 1 \in 1..(n - 1) /\ (i - 1) + 1 = i
      /\ 1 \in 1..n
  BY <1>2
<1>4. InTypes'
  BY <1>1, <1>2 DEF InTypes, Message
<1>5. EnvelopeIsOwn' /\ NothingOlder'
  BY <1>1, <1>2, <1>3 DEF EnvelopeIsOwn, NothingOlder, readVars
<1>6. HandledOnce'
  <2>1. m.of \notin missed /\ \A i \in 1..(n - 1) : incoming'[i].of # m.of
    BY <1>1, <1>2, <1>3 DEF HandledOnce
  <2>2. {incoming[i].of : i \in 1..n} = {incoming'[i].of : i \in 1..(n - 1)} \cup {m.of}
    <3>1. ASSUME NEW i \in 1..n
          PROVE  incoming[i].of \in {incoming'[j].of : j \in 1..(n - 1)} \cup {m.of}
      <4>1. CASE i = 1
        BY <1>2, <4>1
      <4>2. CASE i # 1
        <5>1. i - 1 \in 1..(n - 1) /\ incoming'[i - 1] = incoming[i]
          BY <1>2, <1>3, <4>2
        <5>2. QED BY <5>1
      <4>3. QED BY <4>1, <4>2
    <3>2. \A j \in 1..(n - 1) : incoming'[j].of \in {incoming[i].of : i \in 1..n}
      BY <1>2, <1>3
    <3>3. m.of \in {incoming[i].of : i \in 1..n}
      BY <1>2, <1>3
    <3>4. QED BY <3>1, <3>2, <3>3
  <2>3. \A d \in Datagrams : worker'[d].pc = "done" <=>
            d \in handled' \cup missed' \cup {incoming'[i].of : i \in DOMAIN incoming'}
    BY <1>1, <1>2, <2>2 DEF HandledOnce
  <2>4. \A i, j \in 1..(n - 1) :
            /\ incoming'[i].of \notin handled' \cup missed'
            /\ incoming'[i].of = incoming'[j].of => i = j
    <3>1. \A i, j \in 1..(n - 1) : i + 1 = j + 1 => i = j
      BY <1>2
    <3>2. QED BY <1>1, <1>2, <1>3, <2>1, <3>1 DEF HandledOnce
  <2>5. QED BY <1>1, <1>2, <2>1, <2>3, <2>4 DEF HandledOnce
<1>7. QED BY <1>4, <1>5, <1>6 DEF InInv

----------------------------------------------------------------------------
(* The packets on their way out. *)

\* A queue's entries are packets.
LEMMA Waiting ==
    ASSUME OutTypes
    PROVE  /\ Len(outgoing) \in Nat /\ DOMAIN outgoing = 1..Len(outgoing)
           /\ \A i \in DOMAIN outgoing : outgoing[i].of \in Sends /\ outgoing[i].to \in Addrs
           /\ Len(noaddr) \in Nat /\ DOMAIN noaddr = 1..Len(noaddr)
           /\ \A i \in DOMAIN noaddr : noaddr[i] \in Sends
<1>1. Len(outgoing) \in Nat /\ DOMAIN outgoing = 1..Len(outgoing)
  BY LenProperties DEF OutTypes
<1>2. \A i \in 1..Len(outgoing) : outgoing[i] \in [of : Sends, to : Addrs]
  BY ElementOfSeq DEF OutTypes
<1>3. Len(noaddr) \in Nat /\ DOMAIN noaddr = 1..Len(noaddr)
  BY LenProperties DEF OutTypes
<1>4. \A i \in 1..Len(noaddr) : noaddr[i] \in Sends
  BY ElementOfSeq DEF OutTypes
<1>5. QED BY <1>1, <1>2, <1>3, <1>4

\* A step that changes one packet and the queues.
LEMMA OnePacket ==
    ASSUME OutInv, NEW q \in Sends, NEW x \in Packet,
           packet' = [packet EXCEPT ![q] = x], session' = session,
           x.pc \in {"look", "queued"} => x.id \in Repeaters /\ session[x.id] \in x.had,
           x.pc = "sent" => x.to \in x.had \ {Null},
           outgoing' \in Seq([of : Sends, to : Addrs]), noaddr' \in Seq(Sends),
           OutgoingWaits', NoAddrWaits'
    PROVE  OutInv'
<1>1. OutTypes /\ HistoryGoesOn /\ SentToASession
  BY DEF OutInv
<1>2. /\ packet' \in [Sends -> Packet] /\ packet'[q] = x
      /\ \A e \in Sends : e # q => packet'[e] = packet[e]
  BY <1>1 DEF OutTypes
<1>3. OutTypes'
  BY <1>1, <1>2 DEF OutTypes
<1>4. HistoryGoesOn'
  <2> SUFFICES ASSUME NEW e \in Sends, packet'[e].pc \in {"look", "queued"}
               PROVE  packet'[e].id \in Repeaters /\ session[packet'[e].id] \in packet'[e].had
    BY DEF HistoryGoesOn
  <2>1. CASE e = q
    BY <1>2, <2>1
  <2>2. CASE e # q
    BY <1>1, <1>2, <2>2 DEF HistoryGoesOn
  <2>3. QED BY <2>1, <2>2
<1>5. SentToASession'
  BY <1>1, <1>2 DEF SentToASession
<1>6. QED BY <1>3, <1>4, <1>5 DEF OutInv

\* A packet that waits in no queue changes alone.
LEMMA QueuesStay ==
    ASSUME OutInv, NEW q \in Sends, NEW x \in Packet,
           packet' = [packet EXCEPT ![q] = x], packet[q].pc # "queued",
           UNCHANGED <<outgoing, noaddr>>
    PROVE  OutgoingWaits' /\ NoAddrWaits'
<1>1. OutTypes /\ OutgoingWaits /\ NoAddrWaits
  BY DEF OutInv
<1>2. \A e \in Sends : e # q => packet'[e] = packet[e]
  BY <1>1 DEF OutTypes
<1>3. \A i \in DOMAIN outgoing : packet'[outgoing[i].of] = packet[outgoing[i].of]
  BY <1>1, <1>2, Waiting DEF OutgoingWaits
<1>4. \A i \in DOMAIN noaddr : packet'[noaddr[i]] = packet[noaddr[i]]
  BY <1>1, <1>2, Waiting DEF NoAddrWaits
<1>5. OutgoingWaits'
  BY <1>1, <1>3 DEF OutgoingWaits
<1>6. NoAddrWaits'
  BY <1>1, <1>4 DEF NoAddrWaits
<1>7. QED BY <1>5, <1>6

\* A session's new address is added to the history of what waits for it.
LEMMA StoreKeepsOut ==
    ASSUME OutInv, NEW r \in Repeaters, NEW a \in Addrs \cup {Null}, Store(r, a),
           UNCHANGED <<outgoing, noaddr>>
    PROVE  OutInv'
<1>1. /\ OutTypes /\ OutgoingWaits /\ NoAddrWaits /\ HistoryGoesOn /\ SentToASession
      /\ session' = [session EXCEPT ![r] = a]
      /\ packet' = [q \in Sends |->
            IF packet[q].pc \in {"look", "queued"} /\ packet[q].id = r
            THEN [packet[q] EXCEPT !.had = @ \cup {a}] ELSE packet[q]]
  BY DEF OutInv, Store
<1>2. ASSUME NEW q \in Sends
      PROVE  /\ packet'[q] \in Packet
             /\ packet'[q].pc = packet[q].pc /\ packet'[q].id = packet[q].id
             /\ packet'[q].to = packet[q].to
             /\ packet[q].had \subseteq packet'[q].had
             /\ packet[q].pc \in {"look", "queued"} /\ packet[q].id = r => a \in packet'[q].had
  <2>1. packet[q] \in Packet
    BY <1>1 DEF OutTypes
  <2>2. CASE packet[q].pc \in {"look", "queued"} /\ packet[q].id = r
    <3>1. packet'[q] = [packet[q] EXCEPT !.had = packet[q].had \cup {a}]
      BY <1>1, <2>2
    <3>2. packet[q].had \cup {a} \in SUBSET (Addrs \cup {Null})
      BY <2>1 DEF Packet
    <3>3. QED BY <2>1, <3>1, <3>2 DEF Packet
  <2>3. CASE ~(packet[q].pc \in {"look", "queued"} /\ packet[q].id = r)
    <3>1. packet'[q] = packet[q]
      BY <1>1, <2>3
    <3>2. QED BY <2>1, <2>3, <3>1
  <2>4. QED BY <2>2, <2>3
<1>3. OutTypes'
  <2>1. packet' \in [Sends -> Packet]
    BY <1>1, <1>2
  <2>2. session' \in [Repeaters -> Addrs \cup {Null}]
    BY <1>1 DEF OutTypes
  <2>3. QED BY <1>1, <2>1, <2>2 DEF OutTypes
<1>4. OutgoingWaits'
  BY <1>1, <1>2, Waiting DEF OutgoingWaits
<1>5. NoAddrWaits'
  BY <1>1, <1>2, Waiting DEF NoAddrWaits
<1>6. HistoryGoesOn'
  <2> SUFFICES ASSUME NEW q \in Sends, packet[q].pc \in {"look", "queued"}
               PROVE  packet[q].id \in Repeaters /\ session'[packet[q].id] \in packet'[q].had
    BY <1>2 DEF HistoryGoesOn
  <2>1. packet[q].id \in Repeaters /\ session[packet[q].id] \in packet[q].had
    BY <1>1 DEF HistoryGoesOn
  <2>2. session'[packet[q].id] = IF packet[q].id = r THEN a ELSE session[packet[q].id]
    BY <1>1, <2>1 DEF OutTypes
  <2>3. QED BY <1>2, <2>1, <2>2
<1>7. SentToASession'
  BY <1>1, <1>2 DEF SentToASession
<1>8. QED BY <1>3, <1>4, <1>5, <1>6, <1>7 DEF OutInv

\* A packet handed over has the session's present address in its history.
LEMMA HandedOver ==
    ASSUME OutInv, NEW q \in Sends, NEW r \in Repeaters,
           NEW pc \in {"look", "queued", "dropped"}, HandOver(q, r, pc)
    PROVE  LET x == [pc |-> pc, id |-> r, had |-> {session[r]}, to |-> Null]
           IN  /\ packet[q].pc = "none"
               /\ packet' = [packet EXCEPT ![q] = x]
               /\ x \in Packet /\ session[r] \in x.had
<1>1. session[r] \in Addrs \cup {Null}
  BY DEF OutInv, OutTypes
<1>2. [pc |-> pc, id |-> r, had |-> {session[r]}, to |-> Null] \in Packet
  BY <1>1 DEF Packet
<1>3. QED BY <1>2 DEF HandOver

LEMMA HandOverKeepsOut ==
    ASSUME OutInv, NEW q \in Sends, NEW r \in Repeaters, HandOver(q, r, "look"),
           UNCHANGED <<session, outgoing, noaddr>>
    PROVE  OutInv'
<1> DEFINE x == [pc |-> "look", id |-> r, had |-> {session[r]}, to |-> Null]
<1>1. /\ packet[q].pc = "none" /\ packet' = [packet EXCEPT ![q] = x]
      /\ x \in Packet /\ session[r] \in x.had
  BY HandedOver
<1>2. x.pc = "look" /\ x.id = r
  OBVIOUS
<1> HIDE DEF x
<1>3. OutgoingWaits' /\ NoAddrWaits'
  BY <1>1, QueuesStay
<1>4. outgoing' \in Seq([of : Sends, to : Addrs]) /\ noaddr' \in Seq(Sends)
  BY DEF OutInv, OutTypes
<1>5. QED BY <1>1, <1>2, <1>3, <1>4, OnePacket

LEMMA ForwardKeepsOut ==
    ASSUME OutInv, NEW q \in Sends, NEW r \in Repeaters, Forward(q, r)
    PROVE  OutInv'
<1>0. /\ OutTypes /\ OutgoingWaits /\ NoAddrWaits
      /\ session' = session /\ outgoing' = outgoing
  BY DEF OutInv, Forward
<1>1. CASE HandOver(q, r, "dropped") /\ noaddr' = noaddr
  <2> DEFINE x == [pc |-> "dropped", id |-> r, had |-> {session[r]}, to |-> Null]
  <2>1. /\ packet[q].pc = "none" /\ packet' = [packet EXCEPT ![q] = x]
        /\ x \in Packet
    BY <1>1, HandedOver
  <2>2. x.pc = "dropped"
    OBVIOUS
  <2> HIDE DEF x
  <2>3. OutgoingWaits' /\ NoAddrWaits'
    BY <1>0, <1>1, <2>1, QueuesStay
  <2>4. outgoing' \in Seq([of : Sends, to : Addrs]) /\ noaddr' \in Seq(Sends)
    BY <1>0, <1>1 DEF OutTypes
  <2>5. QED BY <1>0, <2>1, <2>2, <2>3, <2>4, OnePacket
<1>2. CASE HandOver(q, r, "queued") /\ noaddr' = Append(noaddr, q)
  <2> DEFINE x == [pc |-> "queued", id |-> r, had |-> {session[r]}, to |-> Null]
             n == Len(noaddr)
  <2>1. /\ packet[q].pc = "none" /\ packet' = [packet EXCEPT ![q] = x]
        /\ x \in Packet /\ session[r] \in x.had
    BY <1>2, HandedOver
  <2>2. x.pc = "queued" /\ x.id = r
    OBVIOUS
  <2>3. /\ n \in Nat /\ DOMAIN noaddr = 1..n /\ DOMAIN noaddr' = 1..(n + 1)
        /\ noaddr' \in Seq(Sends) /\ noaddr'[n + 1] = q
        /\ \A i \in 1..n : noaddr'[i] = noaddr[i]
    BY <1>0, <1>2, Appended DEF OutTypes
  <2> HIDE DEF x, n
  <2>4. packet'[q] = x /\ \A e \in Sends : e # q => packet'[e] = packet[e]
    BY <1>0, <2>1 DEF OutTypes
  <2>5. /\ \A i \in DOMAIN outgoing : outgoing[i].of \in Sends /\ outgoing[i].of # q
        /\ \A i \in 1..n : noaddr[i] \in Sends /\ noaddr[i] # q
    BY <1>0, <2>1, <2>3, Waiting DEF OutgoingWaits, NoAddrWaits
  <2>6. OutgoingWaits'
    BY <1>0, <2>4, <2>5 DEF OutgoingWaits
  <2>7. NoAddrWaits'
    <3> SUFFICES ASSUME NEW i \in 1..(n + 1)
                 PROVE  /\ packet'[noaddr'[i]].pc = "queued"
                        /\ \A j \in 1..(n + 1) : noaddr'[i] = noaddr'[j] => i = j
                        /\ \A j \in DOMAIN outgoing : noaddr'[i] # outgoing[j].of
      BY <1>0, <2>3 DEF NoAddrWaits
    <3>1. \A j \in 1..(n + 1) : j = n + 1 \/ j \in 1..n
      BY <2>3
    <3>2. CASE i = n + 1
      BY <2>2, <2>3, <2>4, <2>5, <3>1, <3>2
    <3>3. CASE i \in 1..n
      BY <1>0, <2>3, <2>4, <2>5, <3>1, <3>3 DEF NoAddrWaits
    <3>4. QED BY <3>1, <3>2, <3>3
  <2>8. outgoing' \in Seq([of : Sends, to : Addrs])
    BY <1>0 DEF OutTypes
  <2>9. QED BY <1>0, <2>1, <2>2, <2>3, <2>6, <2>7, <2>8, OnePacket
<1>3. QED BY <1>1, <1>2 DEF Forward

LEMMA LookKeepsOut ==
    ASSUME OutInv, NEW q \in Sends, Look(q)
    PROVE  OutInv'
<1> DEFINE a == session[packet[q].id]
<1>0. /\ OutTypes /\ OutgoingWaits /\ NoAddrWaits /\ HistoryGoesOn
      /\ session' = session /\ noaddr' = noaddr
      /\ packet[q].pc = "look" /\ packet[q] \in Packet
  BY DEF OutInv, OutTypes, Look
<1>1. packet[q].id \in Repeaters /\ a \in packet[q].had /\ a \in Addrs \cup {Null}
  BY <1>0 DEF HistoryGoesOn, OutTypes
<1>2. CASE packet' = [packet EXCEPT ![q].pc = "dropped"] /\ outgoing' = outgoing
  <2> DEFINE x == [packet[q] EXCEPT !.pc = "dropped"]
  <2>1. x \in Packet /\ x.pc = "dropped"
    BY <1>0 DEF Packet
  <2>2. packet' = [packet EXCEPT ![q] = x]
    BY <1>0, <1>2 DEF Packet
  <2> HIDE DEF x
  <2>3. OutgoingWaits' /\ NoAddrWaits'
    BY <1>0, <1>2, <2>1, <2>2, QueuesStay
  <2>4. outgoing' \in Seq([of : Sends, to : Addrs]) /\ noaddr' \in Seq(Sends)
    BY <1>0, <1>2 DEF OutTypes
  <2>5. QED BY <1>0, <2>1, <2>2, <2>3, <2>4, OnePacket
<1>3. CASE /\ a # Null
           /\ packet' = [packet EXCEPT ![q].pc = "queued"]
           /\ outgoing' = Append(outgoing, [of |-> q, to |-> a])
  <2> DEFINE x == [packet[q] EXCEPT !.pc = "queued"]
             o == [of |-> q, to |-> a]
             n == Len(outgoing)
  <2>1. x \in Packet /\ x.pc = "queued" /\ x.id = packet[q].id /\ x.had = packet[q].had
    BY <1>0 DEF Packet
  <2>2. packet' = [packet EXCEPT ![q] = x]
    BY <1>0, <1>3 DEF Packet
  <2>3. o \in [of : Sends, to : Addrs] /\ o.of = q /\ o.to = a
    BY <1>1, <1>3
  <2>4. /\ n \in Nat /\ DOMAIN outgoing = 1..n /\ DOMAIN outgoing' = 1..(n + 1)
        /\ outgoing' \in Seq([of : Sends, to : Addrs]) /\ outgoing'[n + 1] = o
        /\ \A i \in 1..n : outgoing'[i] = outgoing[i]
    BY <1>0, <1>3, <2>3, Appended DEF OutTypes
  <2> HIDE DEF x, o, n
  <2>5. packet'[q] = x /\ \A e \in Sends : e # q => packet'[e] = packet[e]
    BY <1>0, <2>2 DEF OutTypes
  <2>6. /\ \A i \in 1..n : outgoing[i].of \in Sends /\ outgoing[i].of # q
        /\ \A i \in DOMAIN noaddr : noaddr[i] \in Sends /\ noaddr[i] # q
    BY <1>0, <2>4, Waiting DEF OutgoingWaits, NoAddrWaits
  <2>7. OutgoingWaits'
    <3> SUFFICES ASSUME NEW i \in 1..(n + 1)
                 PROVE  /\ packet'[outgoing'[i].of].pc = "queued"
                        /\ outgoing'[i].to \in packet'[outgoing'[i].of].had \ {Null}
                        /\ \A j \in 1..(n + 1) : outgoing'[i].of = outgoing'[j].of => i = j
      BY <2>4 DEF OutgoingWaits
    <3>1. \A j \in 1..(n + 1) : j = n + 1 \/ j \in 1..n
      BY <2>4
    <3>2. CASE i = n + 1
      BY <1>1, <1>3, <2>1, <2>3, <2>4, <2>5, <2>6, <3>1, <3>2
    <3>3. CASE i \in 1..n
      BY <1>0, <2>3, <2>4, <2>5, <2>6, <3>1, <3>3 DEF OutgoingWaits
    <3>4. QED BY <3>1, <3>2, <3>3
  <2>8. NoAddrWaits'
    <3>1. \A j \in 1..(n + 1) : j = n + 1 \/ j \in 1..n
      BY <2>4
    <3>2. \A i \in DOMAIN noaddr : packet'[noaddr[i]] = packet[noaddr[i]]
      BY <2>5, <2>6
    <3>3. QED BY <1>0, <2>3, <2>4, <2>6, <3>1, <3>2 DEF NoAddrWaits
  <2>9. noaddr' \in Seq(Sends)
    BY <1>0 DEF OutTypes
  <2>10. QED BY <1>0, <1>1, <2>1, <2>2, <2>4, <2>7, <2>8, <2>9, OnePacket
<1>4. QED BY <1>2, <1>3 DEF Look

LEMMA SendKeepsOut ==
    ASSUME OutInv, Send
    PROVE  OutInv'
<1> DEFINE o == Head(outgoing)
           q == o.of
           n == Len(outgoing)
           x == [packet[q] EXCEPT !.pc = "sent", !.to = o.to]
<1>1. /\ OutTypes /\ OutgoingWaits /\ NoAddrWaits
      /\ outgoing # <<>> /\ session' = session /\ noaddr' = noaddr
      /\ outgoing' = Tail(outgoing)
      /\ packet' = [packet EXCEPT ![q].pc = "sent", ![q].to = o.to]
  BY DEF OutInv, Send
<1>2. /\ n \in Nat \ {0} /\ DOMAIN outgoing = 1..n /\ DOMAIN outgoing' = 1..(n - 1)
      /\ o = outgoing[1] /\ o \in [of : Sends, to : Addrs]
      /\ outgoing' \in Seq([of : Sends, to : Addrs])
      /\ \A i \in 1..(n - 1) : outgoing'[i] = outgoing[i + 1]
  BY <1>1, Taken DEF OutTypes
<1>3. q \in Sends /\ o.to \in Addrs /\ packet[q] \in Packet
  BY <1>1, <1>2 DEF OutTypes
<1>4. /\ packet[q].pc = "queued" /\ o.to \in packet[q].had \ {Null}
      /\ \A j \in 1..n : outgoing[j].of = q => j = 1
  BY <1>1, <1>2 DEF OutgoingWaits
<1>5. x \in Packet /\ x.pc = "sent" /\ x.to = o.to /\ x.had = packet[q].had
  BY <1>3 DEF Packet
<1>6. packet' = [packet EXCEPT ![q] = x]
  BY <1>1, <1>3 DEF Packet, OutTypes
<1> HIDE DEF x, n
<1>7. \A e \in Sends : e # q => packet'[e] = packet[e]
  BY <1>1, <1>6 DEF OutTypes
<1>8. \A i \in 1..(n - 1) : i + 1 \in 1..n /\ i + 1 # 1
  BY <1>2
<1>9. \A i \in 1..(n - 1) :
        /\ outgoing'[i].of \in Sends /\ outgoing'[i].of # q
        /\ packet'[outgoing'[i].of] = packet[outgoing[i + 1].of]
  BY <1>1, <1>2, <1>4, <1>7, <1>8, Waiting
<1>10. OutgoingWaits'
  <2> SUFFICES ASSUME NEW i \in 1..(n - 1)
               PROVE  /\ packet'[outgoing'[i].of].pc = "queued"
                      /\ outgoing'[i].to \in packet'[outgoing'[i].of].had \ {Null}
                      /\ \A j \in 1..(n - 1) : outgoing'[i].of = outgoing'[j].of => i = j
    BY <1>2 DEF OutgoingWaits
  <2>1. /\ packet'[outgoing'[i].of].pc = "queued"
        /\ outgoing'[i].to \in packet'[outgoing'[i].of].had \ {Null}
    <3>1. PICK k \in 1..n : k = i + 1
      BY <1>8
    <3>2. /\ packet[outgoing[k].of].pc = "queued"
          /\ outgoing[k].to \in packet[outgoing[k].of].had \ {Null}
      BY <1>1, <1>2 DEF OutgoingWaits
    <3>3. outgoing'[i] = outgoing[k] /\ packet'[outgoing'[i].of] = packet[outgoing[k].of]
      BY <1>2, <1>9, <3>1
    <3>4. QED BY <3>2, <3>3
  <2>2. ASSUME NEW j \in 1..(n - 1), outgoing'[i].of = outgoing'[j].of PROVE i = j
    <3>1. outgoing[i + 1].of = outgoing[j + 1].of /\ i + 1 \in 1..n /\ j + 1 \in 1..n
      BY <1>2, <1>8, <2>2
    <3>2. i + 1 = j + 1
      BY <1>1, <1>2, <3>1 DEF OutgoingWaits
    <3>3. QED BY <1>2, <3>2
  <2>3. QED BY <2>1, <2>2
<1>11. NoAddrWaits'
  <2>1. \A i \in DOMAIN noaddr : noaddr[i] \in Sends /\ noaddr[i] # q
    BY <1>1, <1>2, Waiting DEF NoAddrWaits
  <2>2. \A i \in DOMAIN noaddr : packet'[noaddr[i]] = packet[noaddr[i]]
    BY <1>7, <2>1
  <2>3. \A i \in DOMAIN noaddr : \A j \in 1..(n - 1) : noaddr[i] # outgoing'[j].of
    <3> SUFFICES ASSUME NEW i \in DOMAIN noaddr, NEW j \in 1..(n - 1)
                 PROVE  noaddr[i] # outgoing'[j].of
      OBVIOUS
    <3>1. PICK k \in 1..n : k = j + 1 /\ outgoing'[j] = outgoing[k]
      BY <1>2, <1>8
    <3>2. k \in DOMAIN outgoing
      BY <1>2
    <3>3. noaddr[i] # outgoing[k].of
      BY <1>1, <3>2 DEF NoAddrWaits
    <3>4. QED BY <3>1, <3>3
  <2>4. \A i \in DOMAIN noaddr :
            /\ packet'[noaddr[i]].pc = "queued"
            /\ \A j \in DOMAIN noaddr : noaddr[i] = noaddr[j] => i = j
    BY <1>1, <2>2 DEF NoAddrWaits
  <2>5. noaddr' = noaddr /\ DOMAIN outgoing' = 1..(n - 1)
    BY <1>1, <1>2
  <2>6. QED BY <2>3, <2>4, <2>5 DEF NoAddrWaits
<1>12. noaddr' \in Seq(Sends)
  BY <1>1 DEF OutTypes
<1>13. QED BY <1>1, <1>2, <1>3, <1>4, <1>5, <1>6, <1>10, <1>11, <1>12, OnePacket

LEMMA SendNoAddrKeepsOut ==
    ASSUME OutInv, SendNoAddr
    PROVE  OutInv'
<1> DEFINE q == Head(noaddr)
           a == session[packet[q].id]
           n == Len(noaddr)
           x == IF a = Null THEN [packet[q] EXCEPT !.pc = "dropped"]
                ELSE [packet[q] EXCEPT !.pc = "sent", !.to = a]
<1>1. /\ OutTypes /\ OutgoingWaits /\ NoAddrWaits /\ HistoryGoesOn
      /\ noaddr # <<>> /\ session' = session /\ outgoing' = outgoing
      /\ noaddr' = Tail(noaddr)
      /\ packet' = IF a = Null THEN [packet EXCEPT ![q].pc = "dropped"]
                   ELSE [packet EXCEPT ![q].pc = "sent", ![q].to = a]
  BY DEF OutInv, SendNoAddr
<1>2. /\ n \in Nat \ {0} /\ DOMAIN noaddr = 1..n /\ DOMAIN noaddr' = 1..(n - 1)
      /\ q = noaddr[1] /\ q \in Sends /\ noaddr' \in Seq(Sends)
      /\ \A i \in 1..(n - 1) : noaddr'[i] = noaddr[i + 1]
  BY <1>1, Taken DEF OutTypes
<1>3. packet[q] \in Packet
  BY <1>1, <1>2 DEF OutTypes
<1>4. /\ packet[q].pc = "queued"
      /\ \A j \in 1..n : noaddr[j] = q => j = 1
      /\ \A j \in DOMAIN outgoing : outgoing[j].of # q
  BY <1>1, <1>2 DEF NoAddrWaits
<1>5. packet[q].id \in Repeaters /\ a \in packet[q].had /\ a \in Addrs \cup {Null}
  BY <1>1, <1>2, <1>4 DEF HistoryGoesOn, OutTypes
<1>6. /\ x \in Packet /\ x.had = packet[q].had
      /\ x.pc \in {"dropped", "sent"} /\ (x.pc = "sent" => x.to = a /\ a # Null)
  BY <1>3, <1>5 DEF Packet
<1>7. packet' = [packet EXCEPT ![q] = x]
  <2>1. CASE a = Null
    BY <1>1, <1>2, <2>1 DEF OutTypes, Packet
  <2>2. CASE a # Null
    <3>1. packet' = [packet EXCEPT ![q].pc = "sent", ![q].to = a]
      BY <1>1, <2>2
    <3>2. QED BY <1>1, <1>2, <2>2, <3>1 DEF OutTypes, Packet
  <2>3. QED BY <2>1, <2>2
<1> HIDE DEF x, n
<1>8. \A e \in Sends : e # q => packet'[e] = packet[e]
  BY <1>1, <1>7 DEF OutTypes
<1>9. \A i \in 1..(n - 1) : i + 1 \in 1..n /\ i + 1 # 1
  BY <1>2
<1>10. OutgoingWaits'
  <2>1. \A i \in DOMAIN outgoing : outgoing[i].of \in Sends /\ outgoing[i].of # q
    BY <1>1, <1>4, Waiting
  <2>2. \A i \in DOMAIN outgoing : packet'[outgoing[i].of] = packet[outgoing[i].of]
    BY <1>8, <2>1
  <2>3. QED BY <1>1, <2>2 DEF OutgoingWaits
<1>11. NoAddrWaits'
  <2> SUFFICES ASSUME NEW i \in 1..(n - 1)
               PROVE  /\ packet'[noaddr'[i]].pc = "queued"
                      /\ \A j \in 1..(n - 1) : noaddr'[i] = noaddr'[j] => i = j
                      /\ \A j \in DOMAIN outgoing : noaddr'[i] # outgoing[j].of
    <3>1. DOMAIN outgoing' = DOMAIN outgoing /\ outgoing' = outgoing
      BY <1>1
    <3>2. QED BY <1>2, <3>1 DEF NoAddrWaits
  <2>1. i + 1 \in 1..n /\ noaddr'[i] = noaddr[i + 1] /\ noaddr[i + 1] # q
    BY <1>2, <1>4, <1>9
  <2>2. noaddr'[i] \in Sends /\ packet'[noaddr'[i]] = packet[noaddr[i + 1]]
    BY <1>1, <1>2, <1>8, <2>1, Waiting
  <2>3. ASSUME NEW j \in 1..(n - 1), noaddr'[i] = noaddr'[j] PROVE i = j
    <3>1. noaddr[i + 1] = noaddr[j + 1] /\ j + 1 \in 1..n
      BY <1>2, <1>9, <2>1, <2>3
    <3>2. i + 1 = j + 1
      BY <1>1, <1>2, <2>1, <3>1 DEF NoAddrWaits
    <3>3. QED BY <1>2, <3>2
  <2>4. QED BY <1>1, <1>2, <2>1, <2>2, <2>3 DEF NoAddrWaits
<1>12. outgoing' \in Seq([of : Sends, to : Addrs])
  BY <1>1 DEF OutTypes
<1>13. x.pc = "sent" => x.to \in x.had \ {Null}
  BY <1>5, <1>6
<1>14. QED BY <1>1, <1>2, <1>6, <1>7, <1>10, <1>11, <1>12, <1>13, OnePacket

----------------------------------------------------------------------------
(* The specification. *)

\* What the steps of the reader and of its goroutines leave to the others.
LEMMA OutStays ==
    ASSUME OutInv, UNCHANGED <<session, outVars>>
    PROVE  OutInv'
BY DEF OutInv, OutTypes, OutgoingWaits, NoAddrWaits, HistoryGoesOn, SentToASession, outVars

LEMMA ReadStays ==
    ASSUME ReadInv, UNCHANGED <<readVars, worker>>
    PROVE  ReadInv'
BY DEF ReadInv, ReadTypes, BufferIsNewer, WorkersCopy, FilledBy, readVars

LEMMA InStays ==
    ASSUME InInv, UNCHANGED <<readVars, worker, inVars>>
    PROVE  InInv'
BY DEF InInv, InTypes, EnvelopeIsOwn, NothingOlder, HandledOnce, readVars, inVars

\* A goroutine that starts has not been one before.
LEMMA FillLeavesDone ==
    ASSUME ReadInv, Fill
    PROVE  \A d \in Datagrams : worker'[d].pc = "done" <=> worker[d].pc = "done"
<1>1. /\ ReadTypes /\ BufferIsNewer /\ WorkersCopy /\ received \in Nat
      /\ worker' = IF filled' = datagram[received].length THEN Capture(received) ELSE worker
  BY ReceivedIsDatagram DEF ReadInv, Fill
<1>2. received > 0 /\ received \in Datagrams /\ filled # datagram[received].length
  BY <1>1, ReceivedIsDatagram DEF Fill, Filled, BufferIsNewer, Datagrams
<1>3. worker[received].pc = "none" /\ worker[received] \in Worker
  BY <1>1, <1>2 DEF WorkersCopy, FilledBy, ReadTypes
<1>4. CASE worker' = Capture(received)
  <2> DEFINE w == [worker[received] EXCEPT !.pc = "marshal", !.from = datagram[received].from,
                                           !.length = datagram[received].length]
  <2>1. worker' = [worker EXCEPT ![received] = w]
    BY <1>4 DEF Capture
  <2>2. w.pc = "marshal"
    BY <1>3 DEF Worker
  <2> HIDE DEF w
  <2>3. QED BY <1>1, <1>3, <2>1, <2>2 DEF ReadTypes
<1>5. QED BY <1>1, <1>4

\* Handling a message.
LEMMA HandleKeeps ==
    ASSUME ReadInv, InInv, OutInv, Handle
    PROVE  /\ ReadInv' /\ InInv' /\ OutInv'
           /\ subscribed' = subscribed
<1>1. PICK m \in {incoming[i] : i \in DOMAIN incoming} :
        \/ \E r \in Repeaters : Login(m, r)
        \/ \E q \in Sends, r \in Repeaters : Answer(m, q, r)
        \/ Ignore(m)
  BY DEF Handle
<1>2. Take(m) /\ UNCHANGED <<readVars, worker, missed, subscribed>>
  BY <1>1 DEF Login, Answer, Ignore
<1>3. m.from \in Addrs
  <2>1. incoming # <<>> /\ incoming \in Seq(Message) /\ m = Head(incoming)
    BY <1>2 DEF InInv, InTypes, Take
  <2>2. m \in Message
    BY <2>1, Taken
  <2>3. QED BY <2>2 DEF Message
<1>4. ReadInv' /\ InInv'
  BY <1>2, ReadStays, TakeKeepsIn
<1>5. OutInv'
  <2>1. CASE \E r \in Repeaters : Login(m, r)
    <3>1. PICK r \in Repeaters : Login(m, r)
      BY <2>1
    <3>2. Store(r, m.from) /\ UNCHANGED <<outgoing, noaddr>>
      BY <3>1 DEF Login
    <3>3. QED BY <1>3, <3>2, StoreKeepsOut
  <2>2. CASE \E q \in Sends, r \in Repeaters : Answer(m, q, r)
    <3>1. PICK q \in Sends, r \in Repeaters : Answer(m, q, r)
      BY <2>2
    <3>2. HandOver(q, r, "look") /\ UNCHANGED <<session, outgoing, noaddr>>
      BY <3>1 DEF Answer
    <3>3. QED BY <3>2, HandOverKeepsOut
  <2>3. CASE Ignore(m)
    BY <2>3, OutStays DEF Ignore
  <2>4. QED BY <1>1, <2>1, <2>2, <2>3
<1>6. QED BY <1>2, <1>4, <1>5

\* Every step keeps the invariant, and at the start there is nothing to keep.
THEOREM PipelineInvariant == Spec => []PipelineInv
<1> USE PipelineAssumption
<1>1. Init => PipelineInv
  <2> SUFFICES ASSUME Init PROVE PipelineInv
    OBVIOUS
  <2>1. Blank \in Contents
    BY DEF Blank, Contents
  <2>2. NoWorker \in Worker
    BY <2>1 DEF NoWorker, Worker
  <2>3. worker \in [Datagrams -> Worker]
    BY <2>2 DEF Init
  <2>4. ReadTypes
    BY <2>1, <2>3 DEF Init, ReadTypes, Datagrams
  <2>5. BufferIsNewer
    BY DEF Init, BufferIsNewer
  <2>6. WorkersCopy /\ \A d \in Datagrams : worker[d].pc = "none"
    BY DEF Init, WorkersCopy, NoWorker
  <2>7. InTypes /\ EnvelopeIsOwn /\ NothingOlder
    BY EmptySeq DEF Init, InTypes, EnvelopeIsOwn, NothingOlder
  <2>8. HandledOnce
    BY <2>6 DEF Init, HandledOnce
  <2>9. NoPacket \in Packet
    BY DEF NoPacket, Packet
  <2>10. OutTypes
    BY <2>9, EmptySeq DEF Init, OutTypes
  <2>11. OutgoingWaits /\ NoAddrWaits /\ HistoryGoesOn /\ SentToASession
    BY DEF Init, OutgoingWaits, NoAddrWaits, HistoryGoesOn, SentToASession, NoPacket
  <2>12. subscribed \subseteq Channels
    BY DEF Init
  <2>13. QED BY <2>4, <2>5, <2>6, <2>7, <2>8, <2>10, <2>11, <2>12 DEF PipelineInv, ReadInv, InInv, OutInv
<1>2. PipelineInv /\ [Next]_vars => PipelineInv'
  <2> SUFFICES ASSUME PipelineInv, [Next]_vars PROVE PipelineInv'
    OBVIOUS
  <2>0. ReadInv /\ InInv /\ OutInv /\ subscribed \subseteq Channels
    BY DEF PipelineInv
  <2>1. ASSUME NEW x \in Datagram, Receive(x) PROVE PipelineInv'
    <3>1. ReadInv'
      BY <2>0, <2>1, ReceiveKeepsRead
    <3>2. InInv'
      <4>1. /\ received \in Nat /\ received' = received + 1
            /\ UNCHANGED inVars /\ worker' = worker
            /\ datagram' = [datagram EXCEPT ![received + 1] = x]
        BY <2>0, <2>1, ReceivedIsDatagram DEF Receive, ReadInv
      <4>2. \A d \in 1..received : datagram'[d] = datagram[d]
        BY <2>0, <4>1, ReceivedIsDatagram DEF ReadInv, ReadTypes
      <4>3. QED BY <2>0, <4>1, <4>2, MessagesStay
    <3>3. OutInv' /\ subscribed' = subscribed
      BY <2>0, <2>1, OutStays DEF Receive
    <3>4. QED BY <2>0, <3>1, <3>2, <3>3 DEF PipelineInv
  <2>2. ASSUME Fill PROVE PipelineInv'
    <3>1. ReadInv'
      BY <2>0, <2>2, FillKeepsRead
    <3>2. InInv'
      <4>1. /\ received \in Nat /\ received' = received /\ datagram' = datagram
            /\ UNCHANGED inVars
        BY <2>0, <2>2, ReceivedIsDatagram DEF Fill, ReadInv
      <4>2. \A d \in Datagrams : worker'[d].pc = "done" <=> worker[d].pc = "done"
        BY <2>0, <2>2, FillLeavesDone DEF ReadInv
      <4>3. QED BY <2>0, <4>1, <4>2, MessagesStay
    <3>3. OutInv' /\ subscribed' = subscribed
      BY <2>0, <2>2, OutStays DEF Fill
    <3>4. QED BY <2>0, <3>1, <3>2, <3>3 DEF PipelineInv
  <2>3. ASSUME NEW d \in Datagrams, Marshal(d) PROVE PipelineInv'
    <3>1. ReadInv'
      BY <2>0, <2>3, MarshalKeepsRead
    <3>2. InInv'
      <4>1. /\ received \in Nat /\ received' = received /\ datagram' = datagram
            /\ UNCHANGED inVars
        BY <2>0, <2>3, ReceivedIsDatagram DEF Marshal, ReadInv, readVars
      <4>2. worker \in [Datagrams -> Worker] /\ worker[d] \in Worker
        BY <2>0 DEF ReadInv, ReadTypes
      <4>3. \A e \in Datagrams : worker'[e].pc = worker[e].pc
        BY <2>3, <4>2 DEF Marshal, Worker
      <4>4. QED BY <2>0, <4>1, <4>3, MessagesStay
    <3>3. OutInv' /\ subscribed' = subscribed
      BY <2>0, <2>3, OutStays DEF Marshal
    <3>4. QED BY <2>0, <3>1, <3>2, <3>3 DEF PipelineInv
  <2>4. ASSUME NEW d \in Datagrams, Publish(d) PROVE PipelineInv'
    <3>1. ReadInv' /\ InInv'
      BY <2>0, <2>4, PublishKeepsRead, PublishKeepsIn
    <3>2. OutInv' /\ subscribed' = subscribed
      BY <2>0, <2>4, OutStays DEF Publish
    <3>3. QED BY <2>0, <3>1, <3>2 DEF PipelineInv
  <2>5. ASSUME NEW channel \in Channels, Subscribe(channel) PROVE PipelineInv'
    <3>1. ReadInv' /\ InInv' /\ OutInv'
      BY <2>0, <2>5, ReadStays, InStays, OutStays DEF Subscribe
    <3>2. subscribed' \subseteq Channels
      BY <2>0, <2>5 DEF Subscribe
    <3>3. QED BY <3>1, <3>2 DEF PipelineInv
  <2>6. ASSUME Handle PROVE PipelineInv'
    BY <2>0, <2>6, HandleKeeps DEF PipelineInv
  <2>7. ASSUME NEW q \in Sends,
               Look(q) \/ \E r \in Repeaters : Forward(q, r) \/ SendLater(q, r)
        PROVE  PipelineInv'
    <3>1. UNCHANGED <<readVars, worker, subscribed, inVars>>
      BY <2>7 DEF Look, Forward, SendLater
    <3>2. OutInv'
      <4>1. CASE Look(q)
        BY <2>0, <4>1, LookKeepsOut
      <4>2. ASSUME NEW r \in Repeaters, Forward(q, r) PROVE OutInv'
        BY <2>0, <4>2, ForwardKeepsOut
      <4>3. ASSUME NEW r \in Repeaters, SendLater(q, r) PROVE OutInv'
        BY <2>0, <4>3, HandOverKeepsOut DEF SendLater
      <4>4. QED BY <2>7, <4>1, <4>2, <4>3
    <3>3. QED BY <2>0, <3>1, <3>2, ReadStays, InStays DEF PipelineInv
  <2>8. ASSUME Send \/ SendNoAddr PROVE PipelineInv'
    <3>1. UNCHANGED <<readVars, worker, subscribed, inVars>>
      BY <2>8 DEF Send, SendNoAddr
    <3>2. OutInv'
      BY <2>0, <2>8, SendKeepsOut, SendNoAddrKeepsOut
    <3>3. QED BY <2>0, <3>1, <3>2, ReadStays, InStays DEF PipelineInv
  <2>9. ASSUME NEW r \in Repeaters, Expire(r) PROVE PipelineInv'
    <3>1. Store(r, Null) /\ UNCHANGED <<readVars, worker, subscribed, inVars, outgoing, noaddr>>
      BY <2>9 DEF Expire
    <3>2. OutInv'
      BY <2>0, <3>1, StoreKeepsOut
    <3>3. QED BY <2>0, <3>1, <3>2, ReadStays, InStays DEF PipelineInv
  <2>10. CASE UNCHANGED vars
    BY <2>0, <2>10, ReadStays, InStays, OutStays DEF PipelineInv, vars
  <2>11. Panic => Handle
    BY DEF Panic, Handle
  <2>12. QED BY <2>1, <2>2, <2>3, <2>4, <2>5, <2>6, <2>7, <2>8, <2>9, <2>10, <2>11 DEF Next, Continue
<1>3. QED BY <1>1, <1>2, PTL DEF Spec

\* Every variable has its type, and what waits for listen, send and sendNoAddr is
\* what those goroutines take it for (server.go:104, 119 and 222).
THEOREM PipelineTypes == Spec => []TypeOK
<1>1. PipelineInv /\ crashed \in BOOLEAN => TypeOK
  BY DEF PipelineInv, ReadInv, InInv, OutInv, TypeOK
<1>2. Init => crashed \in BOOLEAN
  BY DEF Init
<1>3. crashed \in BOOLEAN /\ [Next]_vars => (crashed \in BOOLEAN)'
  BY DEF Next, Alive, Panic, vars
<1>4. QED BY <1>1, <1>2, <1>3, PipelineInvariant, PTL DEF Spec

\* A message has the address and the length of its own datagram (server.go:171).
THEOREM EnvelopesAreOwn == Spec => []EnvelopeIsOwn
<1>1. PipelineInv => EnvelopeIsOwn
  BY DEF PipelineInv, InInv
<1>2. QED BY <1>1, PipelineInvariant, PTL

\* No message carries what an earlier datagram has left in the buffer, however
\* many goroutines read it late (server.go:163).
THEOREM DataIsNeverOlder == Spec => []NothingOlder
<1>1. PipelineInv => NothingOlder
  BY DEF PipelineInv, InInv
<1>2. QED BY <1>1, PipelineInvariant, PTL

\* A published datagram is handled once, waits or has been missed (server.go:104).
THEOREM DatagramsAreHandledOnce == Spec => []HandledOnce
<1>1. PipelineInv => HandledOnce
  BY DEF PipelineInv, InInv
<1>2. QED BY <1>1, PipelineInvariant, PTL

\* A packet is sent to an address that the session has had since the packet was
\* handed over, and never without one (server.go:119, 198 and 222).
THEOREM PacketsFollowTheSession == Spec => []SentToASession
<1>1. PipelineInv => SentToASession
  BY DEF PipelineInv, OutInv
<1>2. QED BY <1>1, PipelineInvariant, PTL
=============================================================================
