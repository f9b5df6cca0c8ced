------------------------------ MODULE Pipeline ------------------------------
(***************************************************************************)
(* The ways of a packet through the UDP server (internal/dmr/server.go).   *)
(* In: one goroutine reads every datagram into the same buffer, a          *)
(* goroutine per datagram marshals it from there and publishes it, and one *)
(* goroutine handles what is published.  Out: sendCommand and sendPacket   *)
(* look the repeater up in a goroutine each, sendNoAddr when it writes.    *)
(* What a packet does to a session is left to RepeaterSession: here the    *)
(* handler stores the sender's address, asks for an answer, or neither.    *)
(***************************************************************************)
EXTENDS Naturals, Sequences

CONSTANTS
    Addrs,         \* addresses (IP and port) of hotspots
    Repeaters,     \* repeater IDs
    Size,          \* cells of the buffer; a cell stands for a part of a packet
    Capacity,      \* messages that a channel of Redis' client holds
    MaxDatagrams,  \* bound: datagrams received
    MaxSends       \* bound: packets sent

Null      == "null"
Cells     == 1..Size
Datagrams == 1..MaxDatagrams
Sends     == 1..MaxSends
Channels  == {"incoming", "outgoing", "outgoing:noaddr"}

ASSUME PipelineAssumption ==
    /\ Size \in Nat /\ Capacity \in Nat
    /\ MaxDatagrams \in Nat /\ MaxSends \in Nat
    /\ Null \notin Addrs

VARIABLES
    datagram,    \* datagram[d]: the d-th datagram
    received,    \* datagrams received
    buffer,      \* s.Buffer: the datagram that each cell was written by, 0 if none
    filled,      \* cells of the newest datagram that are in the buffer
    worker,      \* worker[d]: the goroutine that publishes datagram d
    subscribed,  \* channels that their goroutine has subscribed to
    incoming,    \* messages that wait for listen
    handled,     \* datagrams whose message has been handled
    missed,      \* datagrams whose message found no subscriber, or a full channel
    session,     \* session[r]: the address in the repeater's record, Null if none
    packet,      \* packet[q]: the q-th packet to send
    outgoing,    \* packets that wait for send, with their address
    noaddr,      \* packets that wait for sendNoAddr
    crashed      \* a panic has ended the process

readVars == <<datagram, received, buffer, filled>>
inVars   == <<incoming, handled, missed>>
outVars  == <<packet, outgoing, noaddr>>
vars     == <<readVars, worker, subscribed, inVars, session, outVars, crashed>>

Datagram == [from : Addrs, id : Repeaters, length : Cells]
Contents == [Cells -> Datagrams \cup {0}]
Message  == [of : Datagrams, from : Addrs, length : Cells, data : Contents]
Worker   == [pc : {"none", "marshal", "done"}, from : Addrs \cup {Null},
             length : 0..Size, copied : 0..Size, data : Contents]

\* had is history: the addresses of the session since the packet was handed over.
Packet == [pc : {"none", "look", "queued", "sent", "dropped"}, id : Repeaters \cup {Null},
           had : SUBSET (Addrs \cup {Null}), to : Addrs \cup {Null}]

NoDatagram == [from |-> Null, id |-> Null, length |-> 0]
Blank      == [c \in Cells |-> 0]
NoWorker   == [pc |-> "none", from |-> Null, length |-> 0, copied |-> 0, data |-> Blank]
NoPacket   == [pc |-> "none", id |-> Null, had |-> {}, to |-> Null]

\* Redis keeps nothing for a subscriber that is not there, and its client drops
\* what does not fit into the channel.
Arrives(channel, queue) == channel \in subscribed /\ Len(queue) < Capacity

----------------------------------------------------------------------------
(* In. *)

\* ReadFromUDP has returned the newest datagram.
Filled == filled = IF received = 0 THEN 0 ELSE datagram[received].length

\* It finds another ...
Receive(x) ==
    /\ received < MaxDatagrams /\ Filled
    /\ received' = received + 1
    /\ datagram' = [datagram EXCEPT ![received + 1] = x]
    /\ filled' = 0
    /\ UNCHANGED <<buffer, worker, subscribed, inVars, session, outVars>>

\* The goroutine's closure has `len' and `remoteaddr' of its own.
Capture(d) ==
    [worker EXCEPT ![d] = [@ EXCEPT !.pc = "marshal", !.from = datagram[d].from,
                                    !.length = datagram[d].length]]

\* Mutant of Fill: the goroutine starts with the first cell.
FillEarly ==
    /\ ~Filled
    /\ filled' = filled + 1
    /\ buffer' = [buffer EXCEPT ![filled + 1] = received]
    /\ worker' = IF filled' = 1 THEN Capture(received) ELSE worker
    /\ UNCHANGED <<datagram, received, subscribed, inVars, session, outVars>>

\* ... and writes it to the buffer, where others may still be reading; then the
\* goroutine that publishes it starts.
Fill ==
    /\ ~Filled
    /\ filled' = filled + 1
    /\ buffer' = [buffer EXCEPT ![filled + 1] = received]
    /\ worker' = IF filled' = datagram[received].length THEN Capture(received) ELSE worker
    /\ UNCHANGED <<datagram, received, subscribed, inVars, session, outVars>>

\* MarshalMsg copies s.Buffer[:len] cell by cell.
Marshal(d) ==
    LET w == worker[d]
    IN  /\ w.pc = "marshal" /\ w.copied < w.length
        /\ worker' = [worker EXCEPT ![d].copied = w.copied + 1,
                                    ![d].data[w.copied + 1] = buffer[w.copied + 1]]
        /\ UNCHANGED <<readVars, subscribed, inVars, session, outVars>>

\* Mutant of Publish: tries again what has arrived.
PublishTwice(d) ==
    LET w == worker[d]
    IN  /\ w.pc = "marshal" /\ w.copied = w.length
        /\ IF Arrives("incoming", incoming)
           THEN /\ incoming' = Append(incoming, [of |-> d, from |-> w.from,
                                                 length |-> w.length, data |-> w.data])
                /\ UNCHANGED <<worker, missed>>
           ELSE /\ missed' = missed \cup {d}
                /\ worker' = [worker EXCEPT ![d].pc = "done"]
                /\ UNCHANGED incoming
        /\ UNCHANGED <<readVars, subscribed, handled, session, outVars>>

Publish(d) ==
    LET w == worker[d]
    IN  /\ w.pc = "marshal" /\ w.copied = w.length
        /\ worker' = [worker EXCEPT ![d].pc = "done"]
        /\ IF Arrives("incoming", incoming)
           THEN /\ incoming' = Append(incoming, [of |-> d, from |-> w.from,
                                                 length |-> w.length, data |-> w.data])
                /\ UNCHANGED missed
           ELSE missed' = missed \cup {d} /\ UNCHANGED incoming
        /\ UNCHANGED <<readVars, subscribed, handled, session, outVars>>

\* listen, send and sendNoAddr subscribe when their goroutines start.
Subscribe(channel) ==
    /\ channel \notin subscribed
    /\ subscribed' = subscribed \cup {channel}
    /\ UNCHANGED <<readVars, worker, inVars, session, outVars>>

----------------------------------------------------------------------------
(* Handling: one message at a time. *)

\* Mutant of Take: waits for a message behind the first.
TakeLazily(m) ==
    /\ Len(incoming) > 1
    /\ m = Head(incoming)
    /\ handled' = handled \cup {m.of}
    /\ incoming' = Tail(incoming)

Take(m) ==
    /\ incoming # <<>>
    /\ m = Head(incoming)
    /\ handled' = handled \cup {m.of}
    /\ incoming' = Tail(incoming)

\* The ID is read from one part of the packet or another.
Claims(m) == {datagram[m.data[c]].id : c \in {k \in 1..m.length : m.data[k] # 0}}

\* The record of r names address a from now on (Null: there is no record).
Store(r, a) ==
    /\ session' = [session EXCEPT ![r] = a]
    /\ packet' = [q \in Sends |->
            IF packet[q].pc \in {"look", "queued"} /\ packet[q].id = r
            THEN [packet[q] EXCEPT !.had = @ \cup {a}] ELSE packet[q]]

HandOver(q, r, pc) ==
    /\ packet[q].pc = "none"
    /\ \A p \in 1..(q - 1) : packet[p].pc # "none"
    /\ packet' = [packet EXCEPT ![q] = [pc |-> pc, id |-> r, had |-> {session[r]}, to |-> Null]]

\* A login stores the sender's address, ...
Login(m, r) ==
    /\ Take(m)
    /\ r \in Claims(m)
    /\ Store(r, m.from)
    /\ UNCHANGED <<readVars, worker, subscribed, missed, outgoing, noaddr>>

\* ... a packet is answered by a goroutine of sendCommand or sendPacket, ...
Answer(m, q, r) ==
    /\ Take(m)
    /\ r \in Claims(m)
    /\ HandOver(q, r, "look")
    /\ UNCHANGED <<readVars, worker, subscribed, missed, session, outgoing, noaddr>>

\* ... or is not.
Ignore(m) ==
    /\ Take(m)
    /\ UNCHANGED <<readVars, worker, subscribed, missed, session, outVars>>

\* The play-back of the parrot, and the delayed RPTSBKN.
SendLater(q, r) ==
    /\ HandOver(q, r, "look")
    /\ UNCHANGED <<readVars, worker, subscribed, inVars, session, outgoing, noaddr>>

\* The record of a silent repeater expires.
Expire(r) ==
    /\ session[r] # Null
    /\ Store(r, Null)
    /\ UNCHANGED <<readVars, worker, subscribed, inVars, outgoing, noaddr>>

----------------------------------------------------------------------------
(* Out. *)

\* sendCommand, sendPacket: without a record the goroutine gives up.
Look(q) ==
    LET a == session[packet[q].id]
    IN  /\ packet[q].pc = "look"
        /\ IF a # Null /\ Arrives("outgoing", outgoing)
           THEN /\ packet' = [packet EXCEPT ![q].pc = "queued"]
                /\ outgoing' = Append(outgoing, [of |-> q, to |-> a])
           ELSE packet' = [packet EXCEPT ![q].pc = "dropped"] /\ UNCHANGED outgoing
        /\ UNCHANGED <<readVars, worker, subscribed, inVars, session, noaddr>>

Send ==
    /\ outgoing # <<>>
    /\ LET o == Head(outgoing)
       IN  packet' = [packet EXCEPT ![o.of].pc = "sent", ![o.of].to = o.to]
    /\ outgoing' = Tail(outgoing)
    /\ UNCHANGED <<readVars, worker, subscribed, inVars, session, noaddr>>

\* A subscription (Subscriptions) publishes a packet for its repeater.
Forward(q, r) ==
    /\ IF Arrives("outgoing:noaddr", noaddr)
       THEN HandOver(q, r, "queued") /\ noaddr' = Append(noaddr, q)
       ELSE HandOver(q, r, "dropped") /\ UNCHANGED noaddr
    /\ UNCHANGED <<readVars, worker, subscribed, inVars, session, outgoing>>

\* Mutant of SendNoAddr: a missing record is not noticed.
SendNoAddrUnchecked ==
    /\ noaddr # <<>>
    /\ LET q == Head(noaddr)
       IN  packet' = [packet EXCEPT ![q].pc = "sent", ![q].to = session[packet[q].id]]
    /\ noaddr' = Tail(noaddr)
    /\ UNCHANGED <<readVars, worker, subscribed, inVars, session, outgoing>>

\* sendNoAddr looks up and writes, or goes on to the next packet.
SendNoAddr ==
    /\ noaddr # <<>>
    /\ LET q == Head(noaddr)
           a == session[packet[q].id]
       IN  packet' = IF a = Null THEN [packet EXCEPT ![q].pc = "dropped"]
                     ELSE [packet EXCEPT ![q].pc = "sent", ![q].to = a]
    /\ noaddr' = Tail(noaddr)
    /\ UNCHANGED <<readVars, worker, subscribed, inVars, session, outgoing>>

----------------------------------------------------------------------------
Init ==
    /\ datagram = [d \in Datagrams |-> NoDatagram]
    /\ received = 0
    /\ buffer = Blank
    /\ filled = 0
    /\ worker = [d \in Datagrams |-> NoWorker]
    /\ subscribed = {}
    /\ incoming = <<>> /\ handled = {} /\ missed = {}
    /\ session = [r \in Repeaters |-> Null]
    /\ packet = [q \in Sends |-> NoPacket]
    /\ outgoing = <<>> /\ noaddr = <<>>
    /\ crashed = FALSE

Handle ==
    \E m \in {incoming[i] : i \in DOMAIN incoming} :
        \/ \E r \in Repeaters : Login(m, r)
        \/ \E q \in Sends, r \in Repeaters : Answer(m, q, r)
        \/ Ignore(m)

\* A DMRA or RPTCL that is a byte shorter than what is read of it is sliced beyond its
\* end (packet_handler.go:122 and 501).  Nothing recovers from the panic.
Panic ==
    /\ crashed' = TRUE
    /\ \E m \in {incoming[i] : i \in DOMAIN incoming} : m.length < Size /\ Ignore(m)

Continue ==
    \/ \E x \in Datagram : Receive(x)
    \/ Fill
    \/ \E d \in Datagrams : Marshal(d) \/ Publish(d)
    \/ \E channel \in Channels : Subscribe(channel)
    \/ Handle
    \/ \E q \in Sends : Look(q) \/ \E r \in Repeaters : Forward(q, r) \/ SendLater(q, r)
    \/ Send
    \/ SendNoAddr
    \/ \E r \in Repeaters : Expire(r)

Alive == ~crashed /\ UNCHANGED crashed

Next ==
    \/ Continue /\ Alive
    \/ Panic /\ ~crashed

Spec == Init /\ [][Next]_vars

\* The Go scheduler runs every goroutine.  Nothing makes a datagram arrive, a
\* subscription forward or a record expire.
Fairness ==
    /\ WF_vars(Fill /\ Alive) /\ WF_vars(Handle /\ Alive)
    /\ WF_vars(Send /\ Alive) /\ WF_vars(SendNoAddr /\ Alive)
    /\ \A d \in Datagrams : WF_vars((Marshal(d) \/ Publish(d)) /\ Alive)
    /\ \A q \in Sends : WF_vars(Look(q) /\ Alive)

FairSpec == Spec /\ Fairness

----------------------------------------------------------------------------
(* Properties. *)

\* The buffer and the goroutines that read and publish, ...
ReadTypes ==
    /\ datagram \in [Datagrams -> Datagram \cup {NoDatagram}]
    /\ received \in 0..MaxDatagrams
    /\ \A d \in Datagrams : d <= received <=> datagram[d] # NoDatagram
    /\ buffer \in Contents
    /\ filled \in 0..Size
    /\ worker \in [Datagrams -> Worker]

\* ... what waits for listen, ...
InTypes ==
    /\ incoming \in Seq(Message)
    /\ handled \subseteq Datagrams /\ missed \subseteq Datagrams

\* ... the records, and the packets on their way out.
OutTypes ==
    /\ session \in [Repeaters -> Addrs \cup {Null}]
    /\ packet \in [Sends -> Packet]
    /\ outgoing \in Seq([of : Sends, to : Addrs])
    /\ noaddr \in Seq(Sends)

TypeOK ==
    ReadTypes /\ InTypes /\ OutTypes /\ subscribed \subseteq Channels /\ crashed \in BOOLEAN

\* A message carries the address and the length of the datagram it was started
\* for, however many others are read before its goroutine runs (server.go:171).
EnvelopeIsOwn ==
    \A i \in DOMAIN incoming :
        /\ incoming[i].from = datagram[incoming[i].of].from
        /\ incoming[i].length = datagram[incoming[i].of].length

\* The race for the buffer only goes one way: what a message carries is of its
\* own datagram or of later ones, and never what an earlier one has left there.
NothingOlder ==
    \A i \in DOMAIN incoming : \A c \in 1..incoming[i].length :
        incoming[i].data[c] \in incoming[i].of..received

\* A datagram whose goroutine has ended is in one place: it waits for listen, has
\* been handled or has been missed.  Nothing is handled twice, or lost in between.
HandledOnce ==
    /\ \A d \in Datagrams :
        worker[d].pc = "done" <=>
            d \in handled \cup missed \cup {incoming[i].of : i \in DOMAIN incoming}
    /\ handled \cap missed = {}
    /\ \A i, j \in DOMAIN incoming :
        /\ incoming[i].of \notin handled \cup missed
        /\ incoming[i].of = incoming[j].of => i = j

\* A packet goes to an address that its repeater's session has had since the
\* packet was handed over: to a later login perhaps, but not to an earlier one,
\* and to nobody once the record is gone (server.go:119, 198 and 222).
SentToASession ==
    \A q \in Sends : packet[q].pc = "sent" => packet[q].to \in packet[q].had \ {Null}

\* The inductive invariant.  A cell that datagram d has filled is d's or of a
\* later one's: the reader never goes back.
FilledBy(d) == IF d = received THEN filled ELSE datagram[d].length

BufferIsNewer ==
    /\ received = 0 => filled = 0
    /\ received > 0 => filled <= datagram[received].length
    /\ \A d \in 1..received : \A c \in 1..FilledBy(d) : buffer[c] \in d..received

\* A goroutine starts behind the last cell of its datagram, and what it has copied
\* is as new as the buffer was.
WorkersCopy ==
    \A d \in Datagrams :
        LET w == worker[d]
        IN  /\ w.pc = "none" => w.copied = 0
            /\ w.pc # "none" => d <= received /\ FilledBy(d) = datagram[d].length
            /\ w.pc = "marshal" =>
                /\ w.from = datagram[d].from /\ w.length = datagram[d].length
                /\ w.copied <= w.length
                /\ \A c \in 1..w.copied : w.data[c] \in d..received

\* A packet waits in one place at most, once, and its history goes on.
OutgoingWaits ==
    \A i \in DOMAIN outgoing :
        /\ packet[outgoing[i].of].pc = "queued"
        /\ outgoing[i].to \in packet[outgoing[i].of].had \ {Null}
        /\ \A j \in DOMAIN outgoing : outgoing[i].of = outgoing[j].of => i = j

NoAddrWaits ==
    \A i \in DOMAIN noaddr :
        /\ packet[noaddr[i]].pc = "queued"
        /\ \A j \in DOMAIN noaddr : noaddr[i] = noaddr[j] => i = j
        /\ \A j \in DOMAIN outgoing : noaddr[i] # outgoing[j].of

HistoryGoesOn ==
    \A q \in Sends : packet[q].pc \in {"look", "queued"} =>
        packet[q].id \in Repeaters /\ session[packet[q].id] \in packet[q].had

ReadInv == ReadTypes /\ BufferIsNewer /\ WorkersCopy
InInv   == InTypes /\ EnvelopeIsOwn /\ NothingOlder /\ HandledOnce
OutInv  == OutTypes /\ OutgoingWaits /\ NoAddrWaits /\ HistoryGoesOn /\ SentToASession

PipelineInv == ReadInv /\ InInv /\ OutInv /\ subscribed \subseteq Channels

\* Unless the handler panics at another, every datagram read comes to it or is missed, and
\* every packet handed over is sent or dropped: no failure but that of the process blocks
\* those behind it.
EverythingSettles ==
    /\ \A d \in Datagrams : received >= d ~> d \in handled \cup missed \/ crashed
    /\ \A q \in Sends :
        packet[q].pc \in {"look", "queued"} ~> packet[q].pc \in {"sent", "dropped"} \/ crashed

\* A message carries the data of the datagram it was started for.  (Violated: the
\* next datagram is read into the same buffer.)
DataIsOwn ==
    \A i \in DOMAIN incoming : \A c \in 1..incoming[i].length :
        incoming[i].data[c] = incoming[i].of

\* A record names an address that has sent a packet with its ID.  (Violated for
\* the same reason: a login with another datagram's address.)
SessionsAreTheirOwn ==
    \A r \in Repeaters : session[r] # Null =>
        \E d \in 1..received : datagram[d].id = r /\ datagram[d].from = session[r]
=============================================================================
