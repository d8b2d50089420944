-------------------------------- MODULE Stream --------------------------------
(***************************************************************************)
(* SEND and RECEIVE on one socket (TransportRuntime::send and ::receive,   *)
(* src/src/runtime/transport.rs), with the operating system and the peers  *)
(* around it.  Transport models which sockets a runtime owns and leaves    *)
(* the data out; here is the data.  A TCP socket carries a stream: a write *)
(* may accept a part of what it is given, a read returns any chunk, and a  *)
(* call that timed out leaves the socket open, in the middle of a message. *)
(* A datagram socket carries whole messages, which the network may lose,   *)
(* repeat and reorder.                                                     *)
(*                                                                         *)
(* The i-th byte of the k-th message is the pair <<k, i>>, so that every   *)
(* byte says where it belongs.                                             *)
(***************************************************************************)
EXTENDS Integers, Sequences

CONSTANTS
    Kinds,          \* the kinds of sockets to explore
    Partner,        \* the address a connected datagram socket is bound to
    Strangers,      \* other addresses
    NoAddress,      \* no TO clause
    Longest,        \* the longest datagram, 65507 bytes in UDP over IPv4
    Buffer,         \* the buffer of receive, 65535 bytes
    MaxSends, MaxReceives, MaxWrites,    \* bounds on the calls, per side
    MaxSignals      \* bound on the signals that interrupt a read

Addresses == {Partner} \cup Strangers

ASSUME StreamAssumption ==
    /\ Kinds \subseteq {"tcp", "udp", "unconnected", "listener"}
    /\ Partner \notin Strangers /\ NoAddress \notin Addresses
    /\ Longest \in Nat \ {0} /\ Buffer \in Nat /\ Longest <= Buffer
    /\ {MaxSends, MaxReceives, MaxWrites, MaxSignals} \subseteq Nat

Message(k, n) == [i \in 1..n |-> <<k, i>>]
Lengths == 0..(Longest + 1)
Messages(count) == {Message(k, n) : k \in 1..count, n \in Lengths}

VARIABLES
    kind,       \* of the socket
    call,       \* the call in progress, and what of its data is unwritten
    sent,       \* history: the SENDs and how they ended
    out,        \* TCP: every byte the operating system accepted, in order
    posted,     \* datagrams: every datagram the socket sent, with its address
    received,   \* history: what each RECEIVE returned
    written,    \* history: the messages the peers wrote, with their address
    unread,     \* TCP: the peer's bytes that no read has returned yet
    peer,       \* TCP: "open", or "closed" by the peer
    fault,      \* TCP: a reset is "pending" until a call has "reported" it
    signals     \* the signals that interrupted a read so far

vars == <<kind, call, sent, out, posted, received, written, unread, peer,
          fault, signals>>

Idle == [op |-> "idle", data |-> <<>>, rest |-> <<>>]
Result(answer, data, from) == [answer |-> answer, data |-> data, from |-> from]

Init ==
    /\ kind \in Kinds
    /\ call = Idle
    /\ sent = <<>> /\ out = <<>> /\ posted = {}
    /\ received = <<>> /\ written = <<>> /\ unread = <<>>
    /\ peer = "open" /\ fault = "none" /\ signals = 0

-----------------------------------------------------------------------------
(* SEND.                                                                   *)

Datagrams == kind \in {"udp", "unconnected"}
Arguments(data, to) ==
    /\ call = Idle /\ Len(sent) < MaxSends
    /\ data \in {Message(Len(sent) + 1, n) : n \in Lengths}
    /\ to \in Addresses \cup {NoAddress}

\* A TO clause belongs to an unconnected socket, and only there.
Addressed(to) == (to # NoAddress) = (kind = "unconnected")

Sent(data, ok) == sent' = Append(sent, [data |-> data, ok |-> ok])

\* A listener takes no data, a TO clause may be wrong or missing, and a value
\* that is neither a string nor bytes is refused on every socket; it has no
\* bytes, like the empty message.
RefuseSend(data, to) ==
    /\ Arguments(data, to)
    /\ kind = "listener" \/ ~Addressed(to) \/ data = <<>>
    /\ Sent(data, FALSE)
    /\ UNCHANGED <<kind, call, out, posted, received, written, unread, peer,
                   fault, signals>>

Posts(data, to) ==
    posted' = posted \cup
        {[data |-> data, to |-> IF kind = "udp" THEN Partner ELSE to]}

\* The system takes a datagram as a whole or refuses it.  Should it take only
\* the first n bytes, the code compares the count and reports an error.
SendDatagram(data, to) ==
    /\ Arguments(data, to)
    /\ Datagrams /\ Addressed(to)
    /\ \/ /\ Len(data) <= Longest
          /\ Posts(data, to)
          /\ Sent(data, TRUE)
       \/ /\ \E n \in 0..(Len(data) - 1) :
                n <= Longest /\ Posts(SubSeq(data, 1, n), to)
          /\ Sent(data, FALSE)
       \/ /\ posted' = posted
          /\ Sent(data, FALSE)
    /\ UNCHANGED <<kind, call, out, received, written, unread, peer, fault,
                   signals>>

StartWrite(data) ==
    /\ Arguments(data, NoAddress)
    /\ kind = "tcp"
    /\ call' = [op |-> "send", data |-> data, rest |-> data]
    /\ UNCHANGED <<kind, sent, out, posted, received, written, unread, peer,
                   fault, signals>>

\* One write of write_all: the system accepts the first n bytes.
WriteSome(n) ==
    /\ call.op = "send" /\ fault = "none"
    /\ n \in 1..Len(call.rest)
    /\ out' = out \o SubSeq(call.rest, 1, n)
    /\ call' = [call EXCEPT !.rest = SubSeq(@, n + 1, Len(@))]
    /\ UNCHANGED <<kind, sent, posted, received, written, unread, peer, fault,
                   signals>>

\* Mutant: `write' instead of `write_all', whose count is not looked at.
SingleWrite ==
    /\ call.op = "send"
    /\ call.rest # call.data \/ call.data = <<>>
    /\ call' = Idle
    /\ Sent(call.data, TRUE)
    /\ UNCHANGED <<kind, out, posted, received, written, unread, peer, fault,
                   signals>>

WriteEnds ==
    /\ call.op = "send" /\ call.rest = <<>>
    /\ call' = Idle
    /\ Sent(call.data, TRUE)
    /\ UNCHANGED <<kind, out, posted, received, written, unread, peer, fault,
                   signals>>

\* A call that fails because of a reset consumes it.
Reported == fault' = IF fault = "pending" THEN "reported" ELSE fault

\* The write timed out, or the connection is reset; what the system accepted
\* before is sent, and the socket stays in the table.
WriteFails ==
    /\ call.op = "send" /\ call.rest # <<>>
    /\ call' = Idle
    /\ Sent(call.data, FALSE)
    /\ Reported
    /\ UNCHANGED <<kind, out, posted, received, written, unread, peer, signals>>

-----------------------------------------------------------------------------
(* RECEIVE.                                                                *)

Returns(result) ==
    /\ received' = Append(received, result)
    /\ call' = Idle

RefuseReceive ==
    /\ call = Idle /\ Len(received) < MaxReceives
    /\ kind = "listener"
    /\ Returns(Result("error", <<>>, NoAddress))
    /\ UNCHANGED <<kind, sent, out, posted, written, unread, peer, fault,
                   signals>>

StartReceive ==
    /\ call = Idle /\ Len(received) < MaxReceives
    /\ kind # "listener"
    /\ call' = [Idle EXCEPT !.op = "receive"]
    /\ UNCHANGED <<kind, sent, out, posted, received, written, unread, peer,
                   fault, signals>>

\* What a call of the system stores in a buffer of `size' bytes.
Fitting(data, size) ==
    SubSeq(data, 1, IF Len(data) < size THEN Len(data) ELSE size)

\* A read returns what is there, or as much of it as it likes to.
ReadSome(n) ==
    /\ call.op = "receive" /\ kind = "tcp"
    /\ n \in 1..Buffer /\ n <= Len(unread)
    /\ unread' = SubSeq(unread, n + 1, Len(unread))
    /\ Returns(Result("bytes", SubSeq(unread, 1, n), NoAddress))
    /\ UNCHANGED <<kind, sent, out, posted, written, peer, fault, signals>>

\* A read of no bytes is the end of the stream: the peer closed it, or a
\* reset, reported before, has closed it.
EndOfStream ==
    \/ peer = "closed" /\ unread = <<>> /\ fault # "pending"
    \/ fault = "reported"

ReadEnd ==
    /\ call.op = "receive" /\ kind = "tcp"
    /\ EndOfStream
    /\ Returns(Result("null", <<>>, NoAddress))
    /\ UNCHANGED <<kind, sent, out, posted, written, unread, peer, fault,
                   signals>>

\* Mutant: an interrupted read counts as the end of the stream.
InterruptEnds ==
    /\ call.op = "receive" /\ kind = "tcp" /\ signals < MaxSignals
    /\ signals' = signals + 1
    /\ Returns(Result("null", <<>>, NoAddress))
    /\ UNCHANGED <<kind, sent, out, posted, written, unread, peer, fault>>

\* A signal interrupts the read, and the loop calls it again.
ReadInterrupted ==
    /\ call.op = "receive" /\ kind = "tcp" /\ signals < MaxSignals
    /\ signals' = signals + 1
    /\ UNCHANGED <<kind, call, sent, out, posted, received, written, unread,
                   peer, fault>>

ReceiveDatagram(k) ==
    /\ call.op = "receive" /\ Datagrams
    /\ kind = "udp" => written[k].from = Partner
    /\ Returns(Result("bytes", Fitting(written[k].data, Buffer),
                      IF kind = "udp" THEN NoAddress ELSE written[k].from))
    /\ UNCHANGED <<kind, sent, out, posted, written, unread, peer, fault,
                   signals>>

\* Mutant: a read that times out is tried again, as an interrupted one is.
RetriesTimeout ==
    /\ call.op = "receive" /\ fault = "pending"
    /\ Returns(Result("error", <<>>, NoAddress))
    /\ Reported
    /\ UNCHANGED <<kind, sent, out, posted, written, unread, peer, signals>>

\* Nothing came before the timeout, or the connection is reset.
ReceiveFails ==
    /\ call.op = "receive"
    /\ Returns(Result("error", <<>>, NoAddress))
    /\ Reported
    /\ UNCHANGED <<kind, sent, out, posted, written, unread, peer, signals>>

-----------------------------------------------------------------------------
(* The peers and the network.                                              *)

\* A peer writes to the stream, or sends a datagram.  The network may deliver
\* a datagram any number of times, at any time: `written' keeps them all.
PeerWrites(n, from) ==
    /\ Len(written) < MaxWrites
    /\ peer = "open" /\ fault = "none"
    /\ \/ kind = "tcp" /\ from = Partner /\ n > 0
       \/ Datagrams /\ n <= Longest
    /\ written' = Append(written, [data |-> Message(Len(written) + 1, n),
                                   from |-> from])
    /\ unread' = IF kind = "tcp"
                 THEN unread \o Message(Len(written) + 1, n) ELSE unread
    /\ UNCHANGED <<kind, call, sent, out, posted, received, peer, fault,
                   signals>>

PeerCloses ==
    /\ kind = "tcp" /\ peer = "open"
    /\ peer' = "closed"
    /\ UNCHANGED <<kind, call, sent, out, posted, received, written, unread,
                   fault, signals>>

\* The peer, or the network, resets the connection.
Reset ==
    /\ kind = "tcp" /\ fault = "none"
    /\ fault' = "pending"
    /\ UNCHANGED <<kind, call, sent, out, posted, received, written, unread,
                   peer, signals>>

-----------------------------------------------------------------------------
Send == \E data \in Messages(MaxSends), to \in Addresses \cup {NoAddress} :
            RefuseSend(data, to) \/ SendDatagram(data, to)
Write == \/ \E data \in Messages(MaxSends) : StartWrite(data)
         \/ \E n \in Lengths : WriteSome(n)
         \/ WriteEnds
         \/ WriteFails
Receive == \/ RefuseReceive
           \/ StartReceive
           \/ \E n \in 1..Buffer : ReadSome(n)
           \/ ReadEnd
           \/ ReadInterrupted
           \/ \E k \in 1..Len(written) : ReceiveDatagram(k)
           \/ ReceiveFails
Peers == \/ \E n \in Lengths, from \in Addresses : PeerWrites(n, from)
         \/ PeerCloses
         \/ Reset

Next == Send \/ Write \/ Receive \/ Peers

\* Both timeouts are set on every connected socket, so that a call of the
\* operating system returns; nothing makes the peers do anything.
Fairness ==
    /\ WF_vars(\E n \in Lengths : WriteSome(n))
    /\ WF_vars(WriteEnds)
    /\ WF_vars(WriteFails)
    /\ WF_vars(ReceiveFails)

Spec == Init /\ [][Next]_vars /\ Fairness

-----------------------------------------------------------------------------
(* Properties.                                                             *)

Bytes(data) == {data[i] : i \in 1..Len(data)}
Earlier(a, b) == a[1] < b[1] \/ (a[1] = b[1] /\ a[2] < b[2])
InOrder(data) == \A i, j \in 1..Len(data) : i < j => Earlier(data[i], data[j])

\* The SENDs so far, the one in progress included.
Begun == Len(sent) + (IF call.op = "send" THEN 1 ELSE 0)
Data(k) == IF k <= Len(sent) THEN sent[k].data ELSE call.data

\* The system accepted the first n bytes of the k-th SEND, and no more of it.
Accepted(k, n) ==
    {byte \in Bytes(out) : byte[1] = k} = {Data(k)[i] : i \in 1..n}

\* What the peer can see of the SENDs of a TCP socket: the messages in the
\* order of the calls, unmixed; each that succeeded as a whole, and of one
\* that failed a beginning that is not the whole of it, even when the program
\* goes on sending on the same connection.
SentWholeOrCut ==
    kind = "tcp" =>
        /\ InOrder(out)
        /\ \A byte \in Bytes(out) : byte[1] \in 1..Begun
        /\ \A k \in 1..Begun : \E n \in 0..Len(Data(k)) :
              /\ Accepted(k, n)
              /\ k <= Len(sent) /\ Data(k) # <<>> =>
                    (sent[k].ok <=> n = Len(Data(k)))

BytesReceived == UNION {Bytes(received[k].data) : k \in 1..Len(received)}
BytesWritten == UNION {Bytes(written[k].data) : k \in 1..Len(written)}

\* The bytes of the reads, one read after the other.
ReadInOrder ==
    \A k, l \in 1..Len(received) :
        \A i \in 1..Len(received[k].data), j \in 1..Len(received[l].data) :
            k < l \/ (k = l /\ i < j) =>
                Earlier(received[k].data[i], received[l].data[j])

\* No byte of the peer is lost, and the unread ones are behind the others.
NoneLeftOut ==
    /\ BytesReceived \cup Bytes(unread) = BytesWritten
    /\ \A a \in BytesReceived, b \in Bytes(unread) : Earlier(a, b)

NullIsTheEnd ==
    \A k \in 1..Len(received) :
        /\ received[k].answer = "bytes" => received[k].data # <<>>
        /\ received[k].answer = "null" =>
              \/ peer = "closed" /\ unread = <<>>
              \/ fault = "reported"

\* RECEIVE on a stream returns the peer's bytes in order, none of them twice
\* and none left out, whatever timed out in between; and null, which programs
\* take for the end, only when it has returned them all and the peer closed
\* the connection, unless a call reported the reset that broke it.
EndMeansAll == kind = "tcp" => ReadInOrder /\ NoneLeftOut /\ NullIsTheEnd

ReceivedWhole ==
    \A k \in 1..Len(received) : received[k].answer # "error" =>
        /\ received[k].answer = "bytes"
        /\ \E j \in 1..Len(written) :
              /\ received[k].data = written[j].data
              /\ IF kind = "udp" THEN written[j].from = Partner
                                 ELSE written[j].from = received[k].from

PostedAsSent ==
    /\ \A k \in 1..Len(sent) :
          sent[k].ok => \E datagram \in posted : datagram.data = sent[k].data
    /\ \A datagram \in posted : \E k \in 1..Len(sent) :
          IF sent[k].ok THEN datagram.data = sent[k].data
          ELSE \E n \in 0..(Len(sent[k].data) - 1) :
                  datagram.data = SubSeq(sent[k].data, 1, n)

\* Datagrams are not merged, and not cut without an error: what RECEIVE returns
\* is a datagram that a peer sent, with the address it came from, the partner's
\* alone on a connected socket; an empty one is empty bytes and never null.  A
\* SEND that succeeded posted its datagram whole, one that failed posted none
\* or a beginning that is not the whole of it.
DatagramsWhole == Datagrams => ReceivedWhole /\ PostedAsSent

\* What RECEIVE returns is what was sent, on a stream and on datagrams.
DeliveredAsSent == EndMeansAll /\ DatagramsWhole

\* Every call returns, whatever the peers do or do not do: a trickle of
\* partial writes ends with the data, everything else with the timeout.
CallsReturn == []<>(call = Idle)

-----------------------------------------------------------------------------
(* The inductive invariant behind the safety properties.                   *)

Text == Seq(Nat \X Nat)
Answers == {"bytes", "null", "error"}

CallOK ==
    /\ call \in [op : {"idle", "send", "receive"}, data : Text, rest : Text]
    /\ call.op = "send" => kind = "tcp"
    /\ call.op = "receive" => kind # "listener"

\* Every variable has its type.
TypeOK ==
    /\ kind \in Kinds
    /\ CallOK
    /\ sent \in Seq([data : Text, ok : BOOLEAN])
    /\ out \in Text
    /\ posted \subseteq [data : Text, to : Addresses]
    /\ received \in Seq([answer : Answers, data : Text,
                         from : Addresses \cup {NoAddress}])
    /\ written \in Seq([data : Text, from : Addresses])
    /\ unread \in Text
    /\ peer \in {"open", "closed"}
    /\ fault \in {"none", "pending", "reported"}
    /\ signals \in Nat

\* A message is numbered by its place.
SendsNumbered ==
    \A k \in 1..Len(sent) : sent[k].data = Message(k, Len(sent[k].data))
WritesNumbered ==
    \A k \in 1..Len(written) :
        /\ written[k].data = Message(k, Len(written[k].data))
        /\ Datagrams => Len(written[k].data) <= Longest

\* A write is in the middle of the message behind the last one.
InTheMiddle ==
    call.op = "send" =>
        /\ call.data = Message(Len(sent) + 1, Len(call.data))
        /\ \E n \in 0..Len(call.data) :
              /\ Accepted(Len(sent) + 1, n)
              /\ call.rest = SubSeq(call.data, n + 1, Len(call.data))

SendInv == SendsNumbered /\ InTheMiddle /\ SentWholeOrCut
ReceiveInv == /\ WritesNumbered /\ (kind = "tcp" => InOrder(unread))
              /\ DeliveredAsSent

Inv == TypeOK /\ SendInv /\ ReceiveInv
=============================================================================
