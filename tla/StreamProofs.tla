---------------------------- MODULE StreamProofs ----------------------------
(***************************************************************************)
(* What holds of Stream for every kind of socket, every length of messages *)
(* and every number of calls.                                              *)
(***************************************************************************)
EXTENDS Stream, SequenceTheorems, TLAPS

\* The i-th byte of the k-th message.
LEMMA MessageFacts ==
    ASSUME NEW k \in Nat, NEW n \in Nat
    PROVE  /\ Message(k, n) \in Text
           /\ Len(Message(k, n)) = n
           /\ \A i \in 1..n : Message(k, n)[i] = <<k, i>>
           /\ Bytes(Message(k, n)) = {<<k, i>> : i \in 1..n}
           /\ InOrder(Message(k, n))
<1>1. Message(k, n) \in [1..n -> Nat \X Nat]
  BY DEF Message
<1>2. Message(k, n) \in Text
  BY <1>1 DEF Text
<1>3. Len(Message(k, n)) = n
  BY <1>1, <1>2, LenProperties
<1>4. \A i \in 1..n : Message(k, n)[i] = <<k, i>>
  BY DEF Message
<1>5. Bytes(Message(k, n)) = {<<k, i>> : i \in 1..n}
  BY <1>3, <1>4 DEF Bytes
<1>6. InOrder(Message(k, n))
  <2> SUFFICES ASSUME NEW i \in 1..n, NEW j \in 1..n, i < j
               PROVE  Earlier(Message(k, n)[i], Message(k, n)[j])
    BY <1>3 DEF InOrder
  <2>1. Earlier(<<k, i>>, <<k, j>>)
    BY DEF Earlier
  <2> QED
    BY <1>4, <2>1
<1> QED
  BY <1>2, <1>3, <1>4, <1>5, <1>6

\* The bytes of a concatenation, and their order.
LEMMA ConcatFacts ==
    ASSUME NEW s \in Text, NEW t \in Text
    PROVE  /\ s \o t \in Text
           /\ Bytes(s \o t) = Bytes(s) \cup Bytes(t)
           /\ InOrder(s \o t) <=>
                 /\ InOrder(s) /\ InOrder(t)
                 /\ \A a \in Bytes(s), b \in Bytes(t) : Earlier(a, b)
<1> DEFINE u == s \o t
<1>1. /\ u \in Text /\ Len(u) = Len(s) + Len(t)
      /\ Len(s) \in Nat /\ Len(t) \in Nat
      /\ \A i \in 1..Len(s) : u[i] = s[i]
      /\ \A i \in 1..Len(t) : u[Len(s) + i] = t[i]
      /\ \A i \in 1..Len(u) : i \in 1..Len(s) \/ i - Len(s) \in 1..Len(t)
  BY ConcatProperties, LenProperties DEF Text
<1> HIDE DEF u
<1>2. Bytes(u) = Bytes(s) \cup Bytes(t)
  <2>1. ASSUME NEW b \in Bytes(u)
        PROVE  b \in Bytes(s) \cup Bytes(t)
    <3>1. PICK i \in 1..Len(u) : b = u[i]
      BY DEF Bytes
    <3>2. CASE i \in 1..Len(s)
      BY <1>1, <3>1, <3>2 DEF Bytes
    <3>3. CASE i - Len(s) \in 1..Len(t)
      <4>1. u[Len(s) + (i - Len(s))] = t[i - Len(s)] /\ Len(s) + (i - Len(s)) = i
        BY <1>1, <3>3
      <4> QED
        BY <3>1, <3>3, <4>1 DEF Bytes
    <3> QED
      BY <1>1, <3>2, <3>3
  <2>2. ASSUME NEW b \in Bytes(s) \cup Bytes(t)
        PROVE  b \in Bytes(u)
    <3>1. CASE b \in Bytes(s)
      BY <1>1, <3>1 DEF Bytes
    <3>2. CASE b \in Bytes(t)
      <4>1. PICK i \in 1..Len(t) : b = t[i]
        BY <3>2 DEF Bytes
      <4>2. Len(s) + i \in 1..Len(u) /\ b = u[Len(s) + i]
        BY <1>1, <4>1
      <4> QED
        BY <4>2 DEF Bytes
    <3> QED
      BY <2>2, <3>1, <3>2
  <2> QED
    BY <2>1, <2>2
<1>3. ASSUME InOrder(s), InOrder(t),
             \A a \in Bytes(s), b \in Bytes(t) : Earlier(a, b)
      PROVE  InOrder(u)
  <2> SUFFICES ASSUME NEW i \in 1..Len(u), NEW j \in 1..Len(u), i < j
               PROVE  Earlier(u[i], u[j])
    BY DEF InOrder
  <2>1. CASE j \in 1..Len(s)
    BY <1>1, <1>3, <2>1 DEF InOrder
  <2>2. CASE i \in 1..Len(s) /\ j - Len(s) \in 1..Len(t)
    <3>1. u[i] \in Bytes(s)
      BY <1>1, <2>2 DEF Bytes
    <3>2. u[Len(s) + (j - Len(s))] \in Bytes(t)
      BY <1>1, <2>2 DEF Bytes
    <3> QED
      BY <1>1, <1>3, <3>1, <3>2
  <2>3. CASE i - Len(s) \in 1..Len(t) /\ j - Len(s) \in 1..Len(t)
    <3> DEFINE k == i - Len(s)
               l == j - Len(s)
    <3>1. /\ k \in 1..Len(t) /\ l \in 1..Len(t) /\ k < l
          /\ i = Len(s) + k /\ j = Len(s) + l
      BY <1>1, <2>3
    <3> HIDE DEF k, l
    <3>2. u[i] = t[k] /\ u[j] = t[l]
      BY <1>1, <3>1
    <3>3. Earlier(t[k], t[l])
      BY <1>3, <3>1 DEF InOrder
    <3> QED
      BY <3>2, <3>3
  <2> QED
    BY <1>1, <2>1, <2>2, <2>3
<1>4. ASSUME InOrder(u)
      PROVE  /\ InOrder(s) /\ InOrder(t)
             /\ \A a \in Bytes(s), b \in Bytes(t) : Earlier(a, b)
  <2>1. InOrder(s)
    BY <1>1, <1>4 DEF InOrder
  <2>2. InOrder(t)
    <3> SUFFICES ASSUME NEW i \in 1..Len(t), NEW j \in 1..Len(t), i < j
                 PROVE  Earlier(t[i], t[j])
      BY DEF InOrder
    <3>1. /\ Len(s) + i \in 1..Len(u) /\ Len(s) + j \in 1..Len(u)
          /\ Len(s) + i < Len(s) + j
      BY <1>1
    <3>2. Earlier(u[Len(s) + i], u[Len(s) + j])
      BY <1>4, <3>1 DEF InOrder
    <3> QED
      BY <1>1, <3>2
  <2>3. ASSUME NEW a \in Bytes(s), NEW b \in Bytes(t)
        PROVE  Earlier(a, b)
    <3>1. PICK i \in 1..Len(s), j \in 1..Len(t) : a = s[i] /\ b = t[j]
      BY DEF Bytes
    <3>2. /\ i \in 1..Len(u) /\ Len(s) + j \in 1..Len(u) /\ i < Len(s) + j
          /\ u[i] = a /\ u[Len(s) + j] = b
      BY <1>1, <3>1
    <3> QED
      BY <1>4, <3>2 DEF InOrder
  <2> QED
    BY <2>1, <2>2, <2>3
<1> QED
  BY <1>1, <1>2, <1>3, <1>4 DEF u

\* A text is its first n bytes, and behind them the rest.
LEMMA SplitFacts ==
    ASSUME NEW s \in Text, NEW n \in 0..Len(s)
    PROVE  /\ SubSeq(s, 1, n) \in Text /\ Len(SubSeq(s, 1, n)) = n
           /\ SubSeq(s, n + 1, Len(s)) \in Text
           /\ Len(SubSeq(s, n + 1, Len(s))) = Len(s) - n
           /\ \A i \in 1..(Len(s) - n) :
                 SubSeq(s, n + 1, Len(s))[i] = s[n + i]
           /\ \A i \in 1..n : SubSeq(s, 1, n)[i] = s[i]
           /\ s = SubSeq(s, 1, n) \o SubSeq(s, n + 1, Len(s))
<1>1. Len(s) \in Nat /\ \A i \in 1..Len(s) : s[i] \in Nat \X Nat
  BY LenProperties, ElementOfSeq DEF Text
<1>2. /\ SubSeq(s, 1, n) \in Text /\ Len(SubSeq(s, 1, n)) = n
      /\ \A i \in 1..n : SubSeq(s, 1, n)[i] = s[i]
  BY <1>1, SubSeqProperties DEF Text
<1>3. /\ SubSeq(s, n + 1, Len(s)) \in Text
      /\ Len(SubSeq(s, n + 1, Len(s))) = Len(s) - n
      /\ \A i \in 1..(Len(s) - n) :
            SubSeq(s, n + 1, Len(s))[i] = s[n + i]
  BY <1>1, SubSeqProperties DEF Text
<1>4. s = SubSeq(s, 1, n) \o SubSeq(s, n + 1, Len(s))
  <2>1. SubSeq(s, 1, Len(s)) = s
    BY SubSeqFull DEF Text
  <2>2. SubSeq(s, 1, n) \o SubSeq(s, n + 1, Len(s)) = SubSeq(s, 1, Len(s))
    <3>1. /\ s \in Seq(Nat \X Nat) /\ 1 \in 1..(Len(s) + 1)
          /\ n \in (1 - 1)..Len(s) /\ Len(s) \in n..Len(s)
      BY <1>1 DEF Text
    <3> QED
      BY ONLY <3>1, ConcatAdjacentSubSeq
  <2> QED
    BY <2>1, <2>2
<1> QED
  BY <1>2, <1>3, <1>4

\* The two parts of a text whose bytes are in order.
LEMMA PartsInOrder ==
    ASSUME NEW s \in Text, NEW n \in 0..Len(s)
    PROVE  /\ Bytes(s) = Bytes(SubSeq(s, 1, n))
                            \cup Bytes(SubSeq(s, n + 1, Len(s)))
           /\ InOrder(s) =>
                 /\ InOrder(SubSeq(s, 1, n))
                 /\ InOrder(SubSeq(s, n + 1, Len(s)))
                 /\ \A a \in Bytes(SubSeq(s, 1, n)),
                       b \in Bytes(SubSeq(s, n + 1, Len(s))) : Earlier(a, b)
<1> DEFINE first == SubSeq(s, 1, n)
           rest == SubSeq(s, n + 1, Len(s))
<1>1. first \in Text /\ rest \in Text /\ s = first \o rest
  BY SplitFacts
<1> HIDE DEF first, rest
<1>2. /\ Bytes(s) = Bytes(first) \cup Bytes(rest)
      /\ InOrder(s) => /\ InOrder(first) /\ InOrder(rest)
                       /\ \A a \in Bytes(first), b \in Bytes(rest) :
                             Earlier(a, b)
  BY <1>1, ConcatFacts
<1> QED
  BY <1>2 DEF first, rest

\* The empty text.
LEMMA EmptyFacts ==
    /\ <<>> \in Text /\ Len(<<>>) = 0 /\ Bytes(<<>>) = {} /\ InOrder(<<>>)
    /\ \A s \in Text : s = <<>> <=> Len(s) = 0
<1>1. <<>> \in Text /\ Len(<<>>) = 0
  BY EmptySeq DEF Text
<1>2. \A s \in Text : s # <<>> => Len(s) # 0
  BY EmptySeq DEF Text
<1> QED
  BY <1>1, <1>2 DEF Bytes, InOrder

\* A sequence with one more element.
LEMMA AppendFacts ==
    ASSUME NEW S, NEW s \in Seq(S), NEW e \in S
    PROVE  /\ Append(s, e) \in Seq(S)
           /\ Len(s) \in Nat
           /\ Len(Append(s, e)) = Len(s) + 1
           /\ \A i \in 1..Len(s) : Append(s, e)[i] = s[i]
           /\ Append(s, e)[Len(s) + 1] = e
  BY AppendProperties, LenProperties

-----------------------------------------------------------------------------
\* Every step keeps the types.
LEMMA TypeStep ==
    ASSUME TypeOK, [Next]_vars
    PROVE  TypeOK'
<1> USE StreamAssumption, EmptyFacts
<1>1. /\ Idle \in [op : {"idle", "send", "receive"}, data : Text, rest : Text]
      /\ Idle.op = "idle"
  BY DEF Idle
<1>2. ASSUME NEW data, NEW to, Arguments(data, to)
      PROVE  data \in Text
  BY <1>2, MessageFacts, LenProperties DEF TypeOK, Arguments, Lengths
<1>3. ASSUME NEW data \in Text, NEW ok \in BOOLEAN, Sent(data, ok)
      PROVE  sent' \in Seq([data : Text, ok : BOOLEAN])
  BY <1>3, AppendFacts DEF TypeOK, Sent
<1>4. ASSUME NEW answer \in Answers, NEW data \in Text,
             NEW from \in Addresses \cup {NoAddress},
             Returns(Result(answer, data, from))
      PROVE  /\ received' \in Seq([answer : Answers, data : Text,
                                   from : Addresses \cup {NoAddress}])
             /\ call' = Idle
  BY <1>4, AppendFacts DEF TypeOK, Returns, Result
<1>5. ASSUME NEW data, NEW to, RefuseSend(data, to)
      PROVE  TypeOK'
  BY <1>2, <1>3, <1>5 DEF RefuseSend, TypeOK, CallOK
<1>6. ASSUME NEW data, NEW to, SendDatagram(data, to)
      PROVE  TypeOK'
  <2>1. data \in Text /\ to \in Addresses \cup {NoAddress}
    BY <1>2, <1>6 DEF SendDatagram, Arguments
  <2>2. sent' \in Seq([data : Text, ok : BOOLEAN])
    BY <1>3, <1>6, <2>1 DEF SendDatagram
  <2>3. kind # "udp" => to \in Addresses
    BY <1>6, <2>1 DEF SendDatagram, Datagrams, Addressed
  <2>4. posted' \subseteq [data : Text, to : Addresses]
    <3> DEFINE address == IF kind = "udp" THEN Partner ELSE to
    <3>1. address \in Addresses
      BY <2>3 DEF Addresses
    <3> HIDE DEF address
    <3>2. Len(data) \in Nat
      BY <2>1, LenProperties DEF Text
    <3>3. PICK cut \in Text :
             posted' \in {posted, posted \cup {[data |-> cut, to |-> address]}}
      <4>1. ASSUME NEW n \in 0..(Len(data) - 1)
            PROVE  SubSeq(data, 1, n) \in Text
        <5>1. n \in 0..Len(data)
          BY <3>2
        <5> QED
          BY <2>1, <5>1, SplitFacts
      <4> QED
        BY <1>6, <2>1, <4>1 DEF SendDatagram, Posts, address
    <3>4. [data |-> cut, to |-> address] \in [data : Text, to : Addresses]
      BY <3>1
    <3> QED
      BY <3>3, <3>4 DEF TypeOK
  <2> QED
    BY <1>6, <2>2, <2>4 DEF SendDatagram, TypeOK, CallOK
<1>7. ASSUME NEW data, StartWrite(data)
      PROVE  TypeOK'
  BY <1>2, <1>7 DEF StartWrite, TypeOK, CallOK
<1>8. ASSUME NEW n, WriteSome(n)
      PROVE  TypeOK'
  <2>1. call.rest \in Text /\ n \in 0..Len(call.rest)
    BY <1>8, LenProperties DEF WriteSome, TypeOK, CallOK, Text
  <2>2. /\ SubSeq(call.rest, 1, n) \in Text
        /\ SubSeq(call.rest, n + 1, Len(call.rest)) \in Text
    BY <2>1, SplitFacts
  <2>3. out' \in Text
    BY <1>8, <2>2, ConcatFacts DEF WriteSome, TypeOK
  <2> QED
    BY <1>8, <2>2, <2>3 DEF WriteSome, TypeOK, CallOK
<1>9. CASE WriteEnds
  BY <1>1, <1>3, <1>9 DEF WriteEnds, TypeOK, CallOK
<1>10. CASE WriteFails
  BY <1>1, <1>3, <1>10 DEF WriteFails, Reported, TypeOK, CallOK
<1>11. CASE RefuseReceive
  BY <1>1, <1>4, <1>11 DEF RefuseReceive, TypeOK, CallOK, Answers
<1>12. CASE StartReceive
  BY <1>12 DEF StartReceive, TypeOK, CallOK, Idle
<1>13. ASSUME NEW n, ReadSome(n)
       PROVE  TypeOK'
  <2>1. n \in 0..Len(unread)
    BY <1>13, LenProperties DEF ReadSome, TypeOK, Text
  <2>2. /\ SubSeq(unread, 1, n) \in Text
        /\ SubSeq(unread, n + 1, Len(unread)) \in Text
    BY <2>1, SplitFacts DEF TypeOK
  <2> QED
    BY <1>1, <1>4, <1>13, <2>2 DEF ReadSome, TypeOK, CallOK, Answers
<1>14. CASE ReadEnd
  BY <1>1, <1>4, <1>14 DEF ReadEnd, TypeOK, CallOK, Answers
<1>15. CASE ReadInterrupted
  BY <1>15 DEF ReadInterrupted, TypeOK, CallOK
<1>16. ASSUME NEW k \in 1..Len(written), ReceiveDatagram(k)
       PROVE  TypeOK'
  <2>1. written[k] \in [data : Text, from : Addresses]
    BY ElementOfSeq DEF TypeOK
  <2>2. Fitting(written[k].data, Buffer) \in Text
    <3>1. Len(written[k].data) \in Nat
      BY <2>1, LenProperties DEF Text
    <3>2. \A n \in 0..Len(written[k].data) :
             SubSeq(written[k].data, 1, n) \in Text
      BY <2>1, SplitFacts
    <3>3. Len(written[k].data) < Buffer \/ Buffer \in 0..Len(written[k].data)
      BY <3>1
    <3> QED
      BY <3>1, <3>2, <3>3 DEF Fitting
  <2> QED
    BY <1>1, <1>4, <1>16, <2>1, <2>2
       DEF ReceiveDatagram, TypeOK, CallOK, Answers
<1>17. CASE ReceiveFails
  BY <1>1, <1>4, <1>17 DEF ReceiveFails, Reported, TypeOK, CallOK, Answers
<1>18. ASSUME NEW n \in Lengths, NEW from \in Addresses, PeerWrites(n, from)
       PROVE  TypeOK'
  <2>1. Len(written) + 1 \in Nat /\ n \in Nat
    BY LenProperties DEF TypeOK, Lengths
  <2>2. Message(Len(written) + 1, n) \in Text
    BY <2>1, MessageFacts
  <2>3. written' \in Seq([data : Text, from : Addresses])
    BY <1>18, <2>2, AppendFacts DEF PeerWrites, TypeOK
  <2>4. unread' \in Text
    BY <1>18, <2>2, ConcatFacts DEF PeerWrites, TypeOK
  <2> QED
    BY <1>18, <2>3, <2>4 DEF PeerWrites, TypeOK, CallOK
<1>19. CASE PeerCloses
  BY <1>19 DEF PeerCloses, TypeOK, CallOK
<1>20. CASE Reset
  BY <1>20 DEF Reset, TypeOK, CallOK
<1>21. CASE UNCHANGED vars
  BY <1>21 DEF vars, TypeOK, CallOK
<1> QED
  BY <1>5, <1>6, <1>7, <1>8, <1>9, <1>10, <1>11, <1>12, <1>13, <1>14, <1>15,
     <1>16, <1>17, <1>18, <1>19, <1>20, <1>21
     DEF Next, Send, Write, Receive, Peers

-----------------------------------------------------------------------------
(* What the peer sees.                                                     *)

\* A step outside the calls of SEND.
LEMMA SendFrame ==
    ASSUME SendInv, UNCHANGED <<kind, sent, out>>,
           call' = call \/ (call.op # "send" /\ call'.op # "send")
    PROVE  SendInv'
<1>1. SendsNumbered'
  BY DEF SendInv, SendsNumbered
<1>2. CASE call' = call
  <2>1. \A k, n : Accepted(k, n)' = Accepted(k, n) /\ Data(k)' = Data(k)
    BY <1>2 DEF Accepted, Data
  <2>2. Begun' = Begun
    BY <1>2 DEF Begun
  <2>3. InTheMiddle'
    BY <1>2, <2>1 DEF SendInv, InTheMiddle
  <2>4. SentWholeOrCut'
    BY <2>1, <2>2 DEF SendInv, SentWholeOrCut
  <2> QED
    BY <1>1, <2>3, <2>4 DEF SendInv
<1>3. CASE call.op # "send" /\ call'.op # "send"
  <2>1. InTheMiddle'
    BY <1>3 DEF InTheMiddle
  <2>2. Begun' = Begun /\ Begun = Len(sent)
    BY <1>3 DEF Begun
  <2>3. \A k \in 1..Len(sent) : Data(k)' = Data(k)
    BY DEF Data
  <2>4. \A k \in 1..Len(sent) : \A n : Accepted(k, n)' = Accepted(k, n)
    BY <2>3 DEF Accepted
  <2>5. SentWholeOrCut'
    BY <2>2, <2>3, <2>4 DEF SendInv, SentWholeOrCut
  <2> QED
    BY <1>1, <2>1, <2>5 DEF SendInv
<1> QED
  BY <1>2, <1>3

\* A SEND that ends, or is refused, after the first n bytes of its data.
LEMMA SendEnds ==
    ASSUME TypeOK, SendInv, UNCHANGED <<kind, out>>, call'.op # "send",
           NEW data \in Text, data = Message(Len(sent) + 1, Len(data)),
           NEW ok \in BOOLEAN, Sent(data, ok),
           kind = "tcp" =>
              \/ /\ call.op # "send" /\ ~ok
              \/ /\ call.op = "send" /\ data = call.data
                 /\ ok <=> call.rest = <<>>
    PROVE  SendInv'
<1>0. PICK K \in Nat : K = Len(sent) + 1
  BY LenProperties DEF TypeOK
<1>1. /\ Len(sent) \in Nat /\ K = Len(sent) + 1 /\ Len(sent') = K
      /\ sent'[K] = [data |-> data, ok |-> ok]
      /\ \A k \in 1..Len(sent) : sent'[k] = sent[k]
  BY <1>0, AppendFacts DEF TypeOK, Sent
<1>2. SendsNumbered'
  BY <1>1 DEF SendInv, SendsNumbered
<1>3. InTheMiddle'
  BY DEF InTheMiddle
<1>4. Begun' = K
  BY <1>1 DEF Begun
<1>5. /\ Data(K)' = data
      /\ \A k \in 1..Len(sent) : Data(k)' = Data(k)
  <2>1. \A k \in 1..K : Data(k)' = sent'[k].data
    BY <1>1 DEF Data
  <2>2. \A k \in 1..Len(sent) : Data(k) = sent[k].data
    BY DEF Data
  <2>3. K \in 1..K /\ \A k \in 1..Len(sent) : k \in 1..K
    BY <1>1
  <2> QED
    BY <1>1, <2>1, <2>2, <2>3
<1>6. ASSUME kind = "tcp"
      PROVE  /\ InOrder(out)
             /\ \A byte \in Bytes(out) : byte[1] \in 1..K
             /\ \A k \in 1..Len(sent) : \E n \in 0..Len(Data(k)) :
                   /\ Accepted(k, n)
                   /\ Data(k) # <<>> => (sent[k].ok <=> n = Len(Data(k)))
  BY <1>1, <1>6 DEF SendInv, SentWholeOrCut, Begun
<1>7. ASSUME kind = "tcp"
      PROVE  \E n \in 0..Len(data) :
                /\ {byte \in Bytes(out) : byte[1] = K} = {data[i] : i \in 1..n}
                /\ data # <<>> => (ok <=> n = Len(data))
  <2>1. Len(data) \in Nat
    BY LenProperties DEF Text
  <2>2. CASE call.op # "send" /\ ~ok
    <3>1. \A byte \in Bytes(out) : byte[1] \in 1..Len(sent)
      BY <1>7, <2>2 DEF SendInv, SentWholeOrCut, Begun
    <3>2. {byte \in Bytes(out) : byte[1] = K} = {data[i] : i \in 1..0}
      BY <1>1, <3>1
    <3>3. data # <<>> => Len(data) # 0
      BY EmptyFacts
    <3> QED
      BY <2>1, <2>2, <3>2, <3>3
  <2>3. CASE call.op = "send" /\ data = call.data /\ (ok <=> call.rest = <<>>)
    <3>1. PICK n \in 0..Len(data) :
             /\ Accepted(K, n)
             /\ call.rest = SubSeq(data, n + 1, Len(data))
      BY <1>1, <2>3 DEF SendInv, InTheMiddle
    <3>2. Data(K) = data
      BY <1>1, <2>3 DEF Data
    <3>3. Len(call.rest) = Len(data) - n /\ call.rest \in Text
      BY <3>1, SplitFacts
    <3>4. ok <=> n = Len(data)
      BY <2>1, <2>3, <3>3, EmptyFacts
    <3> QED
      BY <3>1, <3>2, <3>4 DEF Accepted
  <2> QED
    BY <1>7, <2>2, <2>3
<1>8. SentWholeOrCut'
  <2> SUFFICES ASSUME kind = "tcp"
               PROVE  SentWholeOrCut'
    BY DEF SentWholeOrCut
  <2>1. \A k \in 1..Len(sent) : \A n : Accepted(k, n)' = Accepted(k, n)
    BY <1>5 DEF Accepted
  <2>2. \A n : Accepted(K, n)' <=>
           {byte \in Bytes(out) : byte[1] = K} = {data[i] : i \in 1..n}
    BY <1>5 DEF Accepted
  <2>3. \A k \in 1..K : k \in 1..Len(sent) \/ k = K
    BY <1>1
  <2>4. ASSUME NEW k \in 1..Len(sent)
        PROVE  \E n \in 0..Len(Data(k)') :
                  /\ Accepted(k, n)'
                  /\ k <= Len(sent') /\ Data(k)' # <<>> =>
                        (sent'[k].ok <=> n = Len(Data(k)'))
    BY <1>1, <1>5, <1>6, <2>1
  <2>5. \E n \in 0..Len(Data(K)') :
           /\ Accepted(K, n)'
           /\ K <= Len(sent') /\ Data(K)' # <<>> =>
                 (sent'[K].ok <=> n = Len(Data(K)'))
    <3>1. PICK n \in 0..Len(data) :
             /\ {byte \in Bytes(out) : byte[1] = K} = {data[i] : i \in 1..n}
             /\ data # <<>> => (ok <=> n = Len(data))
      BY <1>7
    <3>2. Accepted(K, n)'
      BY <2>2, <3>1
    <3>3. sent'[K].ok = ok
      BY <1>1
    <3> QED
      BY ONLY <1>5, <3>1, <3>2, <3>3
  <2> QED
    BY <1>4, <1>6, <2>3, <2>4, <2>5 DEF SentWholeOrCut
<1> QED
  BY <1>2, <1>3, <1>8 DEF SendInv

\* A SEND on a stream begins.
LEMMA WriteStarts ==
    ASSUME TypeOK, SendInv, NEW data, StartWrite(data)
    PROVE  SendInv'
<1>0. PICK K \in Nat : K = Len(sent) + 1
  BY LenProperties DEF TypeOK
<1>1. /\ Len(sent) \in Nat /\ K = Len(sent) + 1
      /\ data \in Text /\ Len(data) \in Nat
      /\ data = Message(K, Len(data)) /\ call.op # "send"
      /\ call' = [op |-> "send", data |-> data, rest |-> data]
      /\ UNCHANGED <<kind, sent, out>> /\ kind = "tcp"
  <2>1. PICK n \in Lengths : data = Message(K, n)
    BY <1>0 DEF StartWrite, Arguments
  <2>2. Len(sent) \in Nat /\ n \in Nat
    BY LenProperties, StreamAssumption DEF TypeOK, Lengths
  <2> QED
    BY <1>0, <2>1, <2>2, MessageFacts DEF StartWrite, Arguments, Idle
<1>2. SendsNumbered'
  BY <1>1 DEF SendInv, SendsNumbered
<1>3. Begun = Len(sent) /\ Begun' = K
  BY <1>1 DEF Begun
<1>4. /\ Data(K)' = data
      /\ \A k \in 1..Len(sent) : Data(k)' = Data(k)
  BY <1>1 DEF Data
<1>5. /\ InOrder(out)
      /\ \A byte \in Bytes(out) : byte[1] \in 1..Len(sent)
      /\ \A k \in 1..Len(sent) : \E n \in 0..Len(Data(k)) :
            /\ Accepted(k, n)
            /\ k <= Len(sent) /\ Data(k) # <<>> =>
                  (sent[k].ok <=> n = Len(Data(k)))
  BY <1>1, <1>3 DEF SendInv, SentWholeOrCut
<1>6. Accepted(K, 0)'
  <2>1. {byte \in Bytes(out) : byte[1] = K} = {data[i] : i \in 1..0}
    BY <1>1, <1>5
  <2>2. Accepted(K, 0)' =
           ({byte \in Bytes(out) : byte[1] = K} = {data[i] : i \in 1..0})
    BY <1>1, <1>4 DEF Accepted
  <2> QED
    BY <2>1, <2>2
<1>7. InTheMiddle'
  <2>1. SubSeq(data, 0 + 1, Len(data)) = data
    BY <1>1, SubSeqFull DEF Text
  <2> QED
    BY <1>1, <1>6, <2>1 DEF InTheMiddle
<1>8. SentWholeOrCut'
  <2>1. ASSUME NEW k \in 1..K
        PROVE  \E n \in 0..Len(Data(k)') :
                  /\ Accepted(k, n)'
                  /\ k <= Len(sent') /\ Data(k)' # <<>> =>
                        (sent'[k].ok <=> n = Len(Data(k)'))
    <3>1. CASE k \in 1..Len(sent)
      <4>1. Data(k)' = Data(k) /\ \A n : Accepted(k, n)' = Accepted(k, n)
        BY <1>1, <1>4, <3>1 DEF Accepted
      <4> QED
        BY <1>1, <1>5, <3>1, <4>1
    <3>2. CASE k = K
      BY <1>1, <1>4, <1>6, <3>2
    <3> QED
      BY <1>1, <3>1, <3>2
  <2>2. \A byte \in Bytes(out) : byte[1] \in 1..K
    BY <1>1, <1>5
  <2> QED
    BY <1>1, <1>3, <1>5, <2>1, <2>2 DEF SentWholeOrCut
<1> QED
  BY <1>2, <1>7, <1>8 DEF SendInv

\* The system accepts some bytes more.
LEMMA WriteGoesOn ==
    ASSUME TypeOK, SendInv, NEW n, WriteSome(n)
    PROVE  SendInv'
<1>0. PICK K, data, part :
         /\ K = Len(sent) + 1 /\ data = call.data
         /\ part = SubSeq(call.rest, 1, n)
  OBVIOUS
<1>1. /\ Len(sent) \in Nat /\ K = Len(sent) + 1 /\ call.data = data
      /\ data \in Text /\ Len(data) \in Nat
      /\ part = SubSeq(call.rest, 1, n)
      /\ call.rest \in Text /\ kind = "tcp" /\ call.op = "send"
      /\ data = Message(K, Len(data))
      /\ UNCHANGED <<kind, sent>> /\ out \in Text /\ out' = out \o part
      /\ call'.op = "send" /\ call'.data = data
      /\ call'.rest = SubSeq(call.rest, n + 1, Len(call.rest))
  BY <1>0, LenProperties
     DEF WriteSome, TypeOK, CallOK, SendInv, InTheMiddle, Text
<1>2. PICK m \in 0..Len(data) :
         /\ Accepted(K, m)
         /\ call.rest = SubSeq(data, m + 1, Len(data))
  BY <1>1 DEF SendInv, InTheMiddle
<1>3. /\ Len(call.rest) = Len(data) - m
      /\ \A i \in 1..(Len(data) - m) : call.rest[i] = data[m + i]
      /\ n \in 1..(Len(data) - m)
  <2>1. /\ Len(call.rest) = Len(data) - m
        /\ \A i \in 1..(Len(data) - m) : call.rest[i] = data[m + i]
    BY <1>2, SplitFacts
  <2> QED
    BY <2>1 DEF WriteSome
<1>4. \A i \in 1..Len(data) : data[i] = <<K, i>>
  <2>1. K \in Nat
    BY <1>1
  <2>2. \A i \in 1..Len(data) : Message(K, Len(data))[i] = <<K, i>>
    BY <1>1, <2>1, MessageFacts
  <2> QED
    BY <1>1, <2>2
<1>5. /\ part \in Text /\ Len(part) = n
      /\ \A i \in 1..n : part[i] = <<K, m + i>>
  <2>1. /\ part \in Text /\ Len(part) = n
        /\ \A i \in 1..n : part[i] = call.rest[i]
    <3>1. n \in 0..Len(call.rest)
      BY <1>1, <1>3
    <3> QED
      BY <1>1, <3>1, SplitFacts
  <2>2. \A i \in 1..n : i \in 1..(Len(data) - m) /\ m + i \in 1..Len(data)
    BY <1>1, <1>3
  <2> QED
    BY <1>3, <1>4, <2>1, <2>2
<1>6. call'.rest = SubSeq(data, m + n + 1, Len(data))
  <2>1. /\ call'.rest \in Text /\ Len(call'.rest) = Len(data) - (m + n)
        /\ \A i \in 1..(Len(data) - (m + n)) :
              call'.rest[i] = call.rest[n + i]
    <3>1. n \in 0..Len(call.rest) /\ Len(call.rest) - n = Len(data) - (m + n)
      BY <1>1, <1>3
    <3> DEFINE rest == SubSeq(call.rest, n + 1, Len(call.rest))
    <3>2. /\ rest \in Text /\ Len(rest) = Len(call.rest) - n
          /\ \A i \in 1..(Len(call.rest) - n) : rest[i] = call.rest[n + i]
      BY <1>1, <3>1, SplitFacts
    <3>3. call'.rest = rest
      BY <1>1
    <3> HIDE DEF rest
    <3> QED
      BY <3>1, <3>2, <3>3
  <2>2. \A i \in 1..(Len(data) - (m + n)) :
           call.rest[n + i] = data[(m + n) + i]
    <3>1. ASSUME NEW i \in 1..(Len(data) - (m + n))
          PROVE  /\ n + i \in 1..(Len(data) - m)
                 /\ m + (n + i) = (m + n) + i
      BY <1>1, <1>3
    <3> QED
      BY <1>3, <3>1
  <2>3. m + n \in 0..Len(data)
    BY <1>1, <1>3
  <2> DEFINE rest == SubSeq(data, (m + n) + 1, Len(data))
  <2>4. /\ rest \in Text /\ Len(rest) = Len(data) - (m + n)
        /\ \A i \in 1..(Len(data) - (m + n)) : rest[i] = data[(m + n) + i]
    BY <1>1, <2>3, SplitFacts
  <2> HIDE DEF rest
  <2>5. /\ call'.rest \in Seq(Nat \X Nat) /\ rest \in Seq(Nat \X Nat)
        /\ Len(call'.rest) = Len(rest)
        /\ \A i \in 1..Len(call'.rest) : call'.rest[i] = rest[i]
    BY <2>1, <2>2, <2>4 DEF Text
  <2>6. call'.rest = rest
    BY ONLY <2>5, SeqEqual
  <2> QED
    BY <2>6 DEF rest
<1>7. Bytes(part) = {<<K, m + i>> : i \in 1..n}
  BY <1>5 DEF Bytes
<1>8. InOrder(part)
  <2> SUFFICES ASSUME NEW i \in 1..n, NEW j \in 1..n, i < j
               PROVE  Earlier(part[i], part[j])
    BY <1>5 DEF InOrder
  <2>1. Earlier(<<K, m + i>>, <<K, m + j>>)
    BY DEF Earlier
  <2> QED
    BY <1>5, <2>1
<1>9. /\ Begun = K /\ Begun' = K
      /\ \A k : Data(k)' = Data(k)
      /\ Data(K) = data
  BY <1>1 DEF Begun, Data
<1>10. /\ InOrder(out)
       /\ \A byte \in Bytes(out) : byte[1] \in 1..K
       /\ \A k \in 1..K : \E i \in 0..Len(Data(k)) :
             /\ Accepted(k, i)
             /\ k <= Len(sent) /\ Data(k) # <<>> =>
                   (sent[k].ok <=> i = Len(Data(k)))
  BY <1>1, <1>9 DEF SendInv, SentWholeOrCut
<1>11. Bytes(out') = Bytes(out) \cup Bytes(part)
  BY <1>1, <1>5, ConcatFacts
<1>12. InOrder(out')
  <2>1. ASSUME NEW a \in Bytes(out), NEW b \in Bytes(part)
        PROVE  Earlier(a, b)
    <3>1. PICK j \in 1..n : b = <<K, m + j>>
      BY <1>7
    <3>2. CASE a[1] = K
      <4>1. a \in {data[i] : i \in 1..m}
        BY <1>2, <1>9, <3>2 DEF Accepted
      <4>2. PICK i \in 1..m : a = <<K, i>>
        <5>1. \A i \in 1..m : i \in 1..Len(data)
          BY <1>1
        <5> QED
          BY <1>4, <4>1, <5>1
      <4> QED
        BY <3>1, <4>2 DEF Earlier
    <3>3. CASE a[1] # K
      BY <1>1, <1>10, <3>1, <3>3 DEF Earlier
    <3> QED
      BY <3>2, <3>3
  <2> QED
    BY <1>1, <1>5, <1>8, <1>10, <2>1, ConcatFacts
<1>13. \A byte \in Bytes(out') : byte[1] \in 1..K
  BY <1>1, <1>7, <1>10, <1>11
<1>14. Accepted(K, m + n)'
  <2>1. {byte \in Bytes(out) : byte[1] = K} = {data[i] : i \in 1..m}
    BY <1>2, <1>9 DEF Accepted
  <2>2. {byte \in Bytes(part) : byte[1] = K} = {data[m + i] : i \in 1..n}
    <3>1. \A i \in 1..n : m + i \in 1..Len(data)
      BY <1>1, <1>3
    <3>2. {data[m + i] : i \in 1..n} = Bytes(part)
      BY <1>4, <1>7, <3>1
    <3> QED
      BY <1>7, <3>2
  <2>3. {data[i] : i \in 1..(m + n)}
           = {data[i] : i \in 1..m} \cup {data[m + i] : i \in 1..n}
    <3>1. ASSUME NEW i \in 1..(m + n)
          PROVE  i \in 1..m \/ \E j \in 1..n : i = m + j
      <4>1. i \in 1..m \/ (i - m \in 1..n /\ i = m + (i - m))
        BY <1>3
      <4> QED
        BY <4>1
    <3>2. /\ \A i \in 1..m : i \in 1..(m + n)
          /\ \A i \in 1..n : m + i \in 1..(m + n)
      BY <1>3
    <3> QED
      BY <3>1, <3>2
  <2>4. Accepted(K, m + n)' =
           ({byte \in Bytes(out') : byte[1] = K} = {data[i] : i \in 1..(m + n)})
    BY <1>9 DEF Accepted
  <2> QED
    BY <1>11, <2>1, <2>2, <2>3, <2>4
<1>15. \A k \in 1..K : \A i : k # K /\ Accepted(k, i) => Accepted(k, i)'
  BY <1>7, <1>9, <1>11 DEF Accepted
<1>16. m + n \in 0..Len(data)
  BY <1>1, <1>3
<1>17. InTheMiddle'
  BY <1>1, <1>6, <1>14, <1>16 DEF InTheMiddle
<1>18. SentWholeOrCut'
  <2>1. ASSUME NEW k \in 1..K
        PROVE  \E i \in 0..Len(Data(k)') :
                  /\ Accepted(k, i)'
                  /\ k <= Len(sent') /\ Data(k)' # <<>> =>
                        (sent'[k].ok <=> i = Len(Data(k)'))
    <3>1. CASE k # K
      BY <1>1, <1>9, <1>10, <1>15, <3>1
    <3>2. CASE k = K
      <4>1. ~(k <= Len(sent'))
        BY <1>1, <3>2
      <4> QED
        BY ONLY <1>9, <1>14, <1>16, <3>2, <4>1
    <3> QED
      BY <3>1, <3>2
  <2> QED
    BY <1>9, <1>12, <1>13, <2>1 DEF SentWholeOrCut
<1>19. SendsNumbered'
  BY <1>1 DEF SendInv, SendsNumbered
<1> QED
  BY <1>17, <1>18, <1>19 DEF SendInv

\* Every step keeps what the peer sees in order.
LEMMA SendStep ==
    ASSUME TypeOK, SendInv, [Next]_vars
    PROVE  SendInv'
<1>1. ASSUME NEW data, NEW to, Arguments(data, to)
      PROVE  /\ data \in Text /\ data = Message(Len(sent) + 1, Len(data))
             /\ call.op = "idle"
  <2>1. PICK n \in Lengths : data = Message(Len(sent) + 1, n)
    BY <1>1 DEF Arguments
  <2>2. Len(sent) + 1 \in Nat /\ n \in Nat
    BY StreamAssumption, LenProperties DEF TypeOK, Lengths
  <2> QED
    BY <1>1, <2>1, <2>2, MessageFacts DEF Arguments, Idle
<1>2. ASSUME NEW data, NEW to, RefuseSend(data, to)
      PROVE  SendInv'
  <2>1. /\ data \in Text /\ data = Message(Len(sent) + 1, Len(data))
        /\ call.op = "idle"
    BY <1>1, <1>2 DEF RefuseSend
  <2>2. Sent(data, FALSE) /\ UNCHANGED <<kind, call, out>>
    BY <1>2 DEF RefuseSend
  <2> QED
    BY <2>1, <2>2, SendEnds
<1>3. ASSUME NEW data, NEW to, SendDatagram(data, to)
      PROVE  SendInv'
  <2>1. /\ data \in Text /\ data = Message(Len(sent) + 1, Len(data))
        /\ call.op = "idle"
    BY <1>1, <1>3 DEF SendDatagram
  <2>2. /\ \E ok \in BOOLEAN : Sent(data, ok)
        /\ kind # "tcp" /\ UNCHANGED <<kind, call, out>>
    BY <1>3 DEF SendDatagram, Datagrams
  <2> QED
    BY <2>1, <2>2, SendEnds
<1>4. ASSUME NEW data, StartWrite(data)
      PROVE  SendInv'
  BY <1>4, WriteStarts
<1>5. ASSUME NEW n, WriteSome(n)
      PROVE  SendInv'
  BY <1>5, WriteGoesOn
<1>6. call.op = "send" => /\ call.data \in Text
                          /\ call.data = Message(Len(sent) + 1, Len(call.data))
  BY DEF TypeOK, CallOK, SendInv, InTheMiddle
<1>7. CASE WriteEnds
  <2>1. /\ Sent(call.data, TRUE) /\ UNCHANGED <<kind, out>>
        /\ call.op = "send" /\ call'.op # "send" /\ call.rest = <<>>
    BY <1>7 DEF WriteEnds, Idle
  <2> QED
    BY <1>6, <2>1, SendEnds
<1>8. CASE WriteFails
  <2>1. /\ Sent(call.data, FALSE) /\ UNCHANGED <<kind, out>>
        /\ call.op = "send" /\ call'.op # "send" /\ call.rest # <<>>
    BY <1>8 DEF WriteFails, Idle
  <2> QED
    BY <1>6, <2>1, SendEnds
<1>9. CASE Receive
  <2>1. /\ UNCHANGED <<kind, sent, out>>
        /\ call' = call \/ (call.op # "send" /\ call'.op # "send")
    BY <1>9 DEF Receive, RefuseReceive, StartReceive, ReadSome, ReadEnd,
       ReadInterrupted, ReceiveDatagram, ReceiveFails, Returns, Idle
  <2> QED
    BY <2>1, SendFrame
<1>10. CASE Peers \/ UNCHANGED vars
  <2>1. UNCHANGED <<kind, call, sent, out>>
    BY <1>10 DEF Peers, PeerWrites, PeerCloses, Reset, vars
  <2> QED
    BY <2>1, SendFrame
<1> QED
  BY <1>2, <1>3, <1>4, <1>5, <1>7, <1>8, <1>9, <1>10 DEF Next, Send, Write

-----------------------------------------------------------------------------
(* What the program sees.                                                  *)

\* The kind of a socket never changes.
LEMMA KindStays ==
    ASSUME [Next]_vars
    PROVE  kind' = kind
  BY DEF Next, vars, Send, RefuseSend, SendDatagram, Write, StartWrite,
     WriteSome, WriteEnds, WriteFails, Receive, RefuseReceive, StartReceive,
     ReadSome, ReadEnd, ReadInterrupted, ReceiveDatagram, ReceiveFails,
     Peers, PeerWrites, PeerCloses, Reset

\* The next message of a peer.
LEMMA WriteAdds ==
    ASSUME TypeOK, NEW n \in Lengths, NEW from \in Addresses,
           PeerWrites(n, from)
    PROVE  LET message == Message(Len(written) + 1, n) IN
           /\ Len(written) \in Nat /\ Len(written') = Len(written) + 1
           /\ \A k \in 1..Len(written) : written'[k] = written[k]
           /\ written'[Len(written) + 1] = [data |-> message, from |-> from]
           /\ message \in Text /\ Len(message) = n
           /\ BytesWritten' = BytesWritten \cup Bytes(message)
<1> DEFINE message == Message(Len(written) + 1, n)
<1>1. Len(written) \in Nat /\ n \in Nat
  BY StreamAssumption, LenProperties DEF TypeOK, Lengths
<1>2. message \in Text /\ Len(message) = n
  BY <1>1, MessageFacts
<1> DEFINE e == [data |-> message, from |-> from]
<1>3. e \in [data : Text, from : Addresses] /\ written' = Append(written, e)
  BY <1>2 DEF PeerWrites
<1>4. e.data = message
  OBVIOUS
<1> HIDE DEF message, e
<1>5. /\ Len(written') = Len(written) + 1
      /\ \A k \in 1..Len(written) : written'[k] = written[k]
      /\ written'[Len(written) + 1] = e
  BY <1>3, AppendFacts DEF TypeOK
<1>6. BytesWritten' = BytesWritten \cup Bytes(message)
  <2>1. \A k \in 1..Len(written') : k \in 1..Len(written) \/ k = Len(written) + 1
    BY <1>1, <1>5
  <2>2. \A k \in 1..Len(written) : k \in 1..Len(written')
    BY <1>1, <1>5
  <2>3. Len(written) + 1 \in 1..Len(written')
    BY <1>1, <1>5
  <2> QED
    BY <1>4, <1>5, <2>1, <2>2, <2>3 DEF BytesWritten
<1> QED
  BY <1>1, <1>2, <1>5, <1>6 DEF message, e

\* Every step but a write of a peer leaves what the peers wrote alone.
LEMMA WrittenStays ==
    ASSUME [Next]_vars
    PROVE  \/ \E n \in Lengths, from \in Addresses : PeerWrites(n, from)
           \/ UNCHANGED written
  BY DEF Next, vars, Send, RefuseSend, SendDatagram, Write, StartWrite,
     WriteSome, WriteEnds, WriteFails, Receive, RefuseReceive, StartReceive,
     ReadSome, ReadEnd, ReadInterrupted, ReceiveDatagram, ReceiveFails,
     Peers, PeerCloses, Reset

\* The messages of the peers stay numbered.
LEMMA WritesStep ==
    ASSUME TypeOK, WritesNumbered, [Next]_vars
    PROVE  WritesNumbered'
<1>1. ASSUME NEW n \in Lengths, NEW from \in Addresses, PeerWrites(n, from)
      PROVE  WritesNumbered'
  <2> SUFFICES ASSUME NEW k \in 1..Len(written')
               PROVE  /\ written'[k].data
                            = Message(k, Len(written'[k].data))
                      /\ Datagrams' => Len(written'[k].data) <= Longest
    BY DEF WritesNumbered
  <2>1. Datagrams' = Datagrams
    BY KindStays DEF Datagrams
  <2>2. CASE k \in 1..Len(written)
    BY <1>1, <2>1, <2>2, WriteAdds DEF WritesNumbered
  <2>3. CASE k = Len(written) + 1
    BY <1>1, <2>1, <2>3, WriteAdds DEF PeerWrites, Datagrams
  <2>4. Len(written) \in Nat /\ Len(written') = Len(written) + 1
    BY <1>1, WriteAdds
  <2> QED
    BY <2>2, <2>3, <2>4
<1>2. CASE UNCHANGED written
  BY <1>2, KindStays DEF WritesNumbered, Datagrams
<1> QED
  BY <1>1, <1>2, WrittenStays

\* What one more answer adds.
LEMMA ReturnAdds ==
    ASSUME TypeOK, TypeOK', NEW r, Returns(r)
    PROVE  /\ Len(received) \in Nat /\ Len(received') = Len(received) + 1
           /\ \A k \in 1..Len(received) : received'[k] = received[k]
           /\ received'[Len(received) + 1] = r
           /\ BytesReceived' = BytesReceived \cup Bytes(r.data)
           /\ /\ ReadInOrder /\ InOrder(r.data)
              /\ \A a \in BytesReceived, b \in Bytes(r.data) : Earlier(a, b)
              => ReadInOrder'
<1>1. PICK m \in Nat : m = Len(received)
  BY LenProperties DEF TypeOK
<1>2. received' = Append(received, r)
  BY DEF Returns
<1>3. Len(received') = m + 1 /\ received'[m + 1] = r
  BY <1>1, <1>2, AppendProperties DEF TypeOK
<1>4. \A k \in 1..m : received'[k] = received[k]
  BY <1>1, <1>2, AppendProperties DEF TypeOK
<1>5. /\ \A k \in 1..Len(received') : k \in 1..m \/ k = m + 1
      /\ \A k \in 1..m : k \in 1..Len(received')
      /\ m + 1 \in 1..Len(received')
  BY <1>3
<1>6. BytesReceived' = BytesReceived \cup Bytes(r.data)
  BY <1>1, <1>3, <1>4, <1>5 DEF BytesReceived
<1>7. ASSUME ReadInOrder, InOrder(r.data),
             \A a \in BytesReceived, b \in Bytes(r.data) : Earlier(a, b)
      PROVE  ReadInOrder'
  <2> SUFFICES ASSUME NEW k \in 1..Len(received'), NEW l \in 1..Len(received'),
                      NEW i \in 1..Len(received'[k].data),
                      NEW j \in 1..Len(received'[l].data),
                      k < l \/ (k = l /\ i < j)
               PROVE  Earlier(received'[k].data[i], received'[l].data[j])
    BY DEF ReadInOrder
  <2>1. CASE l \in 1..m
    <3>1. k \in 1..m
      BY <1>5, <2>1
    <3> QED
      BY <1>1, <1>4, <1>7, <2>1, <3>1 DEF ReadInOrder
  <2>2. CASE k \in 1..m /\ l = m + 1
    <3>1. received[k].data[i] \in BytesReceived
      BY <1>1, <1>4, <2>2 DEF BytesReceived, Bytes
    <3>2. r.data[j] \in Bytes(r.data)
      BY <1>3, <2>2 DEF Bytes
    <3> QED
      BY <1>3, <1>4, <1>7, <2>2, <3>1, <3>2
  <2>3. CASE k = m + 1 /\ l = m + 1
    BY <1>3, <1>7, <2>3 DEF InOrder
  <2> QED
    BY <1>5, <2>1, <2>2, <2>3
<1> QED
  BY <1>1, <1>3, <1>4, <1>6, <1>7

\* Every step keeps the bytes of a stream in order, and null at their end.
LEMMA StreamStep ==
    ASSUME TypeOK, TypeOK', kind = "tcp", WritesNumbered, InOrder(unread),
           ReadInOrder, NoneLeftOut, NullIsTheEnd, [Next]_vars
    PROVE  /\ InOrder(unread)'
           /\ ReadInOrder' /\ NoneLeftOut' /\ NullIsTheEnd'
<1>1. ASSUME UNCHANGED <<received, written, unread, peer>>,
             fault = "reported" => fault' = "reported"
      PROVE  /\ InOrder(unread)'
             /\ ReadInOrder' /\ NoneLeftOut' /\ NullIsTheEnd'
  BY <1>1 DEF ReadInOrder, NoneLeftOut, NullIsTheEnd, BytesReceived,
     BytesWritten
<1>2. CASE Send
  BY <1>1, <1>2 DEF Send, RefuseSend, SendDatagram
<1>3. CASE Write
  BY <1>1, <1>3 DEF Write, StartWrite, WriteSome, WriteEnds, WriteFails,
     Reported
<1>4. CASE StartReceive
  BY <1>1, <1>4 DEF StartReceive
<1>5. ASSUME NEW n \in 1..Buffer, ReadSome(n)
      PROVE  /\ InOrder(unread)'
             /\ ReadInOrder' /\ NoneLeftOut' /\ NullIsTheEnd'
  <2>1. PICK data : data = SubSeq(unread, 1, n)
    OBVIOUS
  <2>2. PICK rest : rest = SubSeq(unread, n + 1, Len(unread))
    OBVIOUS
  <2>3. PICK r : r = Result("bytes", data, NoAddress)
    OBVIOUS
  <2>4. unread \in Text /\ n \in 0..Len(unread) /\ n # 0
    <3>1. unread \in Text
      BY Zenon DEF TypeOK
    <3>2. Len(unread) \in Nat
      BY <3>1, LenProperties DEF Text
    <3>3. n <= Len(unread)
      BY <1>5, Zenon DEF ReadSome
    <3>4. Buffer \in Nat
      BY Zenon, StreamAssumption DEF StreamAssumption
    <3> QED
      BY <3>1, <3>2, <3>3, <3>4
  <2>5. /\ data \in Text /\ Len(data) = n
        /\ Bytes(unread) = Bytes(data) \cup Bytes(rest)
        /\ InOrder(data) /\ InOrder(rest)
        /\ \A a \in Bytes(data), b \in Bytes(rest) : Earlier(a, b)
    BY <2>1, <2>2, <2>4, SplitFacts, PartsInOrder
  <2>6. r.answer = "bytes" /\ r.data = data
    BY <2>3 DEF Result
  <2>7. /\ Returns(r) /\ unread' = rest
        /\ UNCHANGED <<written, peer, fault>>
    BY <1>5, <2>1, <2>2, <2>3 DEF ReadSome
  <2>8. /\ Len(received) \in Nat /\ Len(received') = Len(received) + 1
        /\ \A k \in 1..Len(received) : received'[k] = received[k]
        /\ received'[Len(received) + 1] = r
        /\ BytesReceived' = BytesReceived \cup Bytes(data)
        /\ /\ ReadInOrder /\ InOrder(data)
           /\ \A a \in BytesReceived, b \in Bytes(data) : Earlier(a, b)
           => ReadInOrder'
    BY <2>6, <2>7, ReturnAdds
  <2>9. ReadInOrder'
    BY <2>5, <2>8 DEF NoneLeftOut
  <2>10. NoneLeftOut'
    <3>1. BytesWritten' = BytesWritten
      BY <2>7 DEF BytesWritten
    <3>2. Bytes(unread)' = Bytes(rest)
      BY <2>7
    <3> QED
      BY <2>5, <2>8, <3>1, <3>2 DEF NoneLeftOut
  <2>11. NullIsTheEnd'
    <3>1. data # <<>> /\ unread # <<>>
      BY <2>4, <2>5, EmptyFacts DEF TypeOK
    <3>2. \A k \in 1..Len(received') :
             k \in 1..Len(received) \/ k = Len(received) + 1
      BY <2>8
    <3> QED
      BY <2>6, <2>7, <2>8, <3>1, <3>2 DEF NullIsTheEnd
  <2> QED
    BY <2>5, <2>7, <2>9, <2>10, <2>11
<1>6. ASSUME NEW r, r.data = <<>>, r.answer # "bytes",
             r.answer = "null" => EndOfStream,
             Returns(r), UNCHANGED <<written, unread, peer>>,
             fault = "reported" => fault' = "reported"
      PROVE  /\ InOrder(unread)'
             /\ ReadInOrder' /\ NoneLeftOut' /\ NullIsTheEnd'
  <2>1. /\ Len(received) \in Nat /\ Len(received') = Len(received) + 1
        /\ \A k \in 1..Len(received) : received'[k] = received[k]
        /\ received'[Len(received) + 1] = r
        /\ BytesReceived' = BytesReceived /\ ReadInOrder'
    BY <1>6, ReturnAdds, EmptyFacts
  <2>2. NoneLeftOut'
    <3>1. BytesWritten' = BytesWritten
      BY <1>6 DEF BytesWritten
    <3> QED
      BY <1>6, <2>1, <3>1 DEF NoneLeftOut
  <2>3. NullIsTheEnd'
    <3>1. \A k \in 1..Len(received') :
             k \in 1..Len(received) \/ k = Len(received) + 1
      BY <2>1
    <3> QED
      BY <1>6, <2>1, <3>1 DEF NullIsTheEnd, EndOfStream
  <2> QED
    BY <1>6, <2>1, <2>2, <2>3
<1>7. CASE ReadEnd
  <2>1. PICK r : r = Result("null", <<>>, NoAddress)
    OBVIOUS
  <2>2. r.data = <<>> /\ r.answer = "null"
    BY <2>1 DEF Result
  <2>3. /\ Returns(r) /\ UNCHANGED <<written, unread, peer, fault>>
        /\ EndOfStream
    BY <1>7, <2>1 DEF ReadEnd
  <2> QED
    BY <1>6, <2>2, <2>3
<1>8. CASE ReadInterrupted
  BY <1>1, <1>8 DEF ReadInterrupted
<1>9. CASE ReceiveFails
  <2>1. PICK r : r = Result("error", <<>>, NoAddress)
    OBVIOUS
  <2>2. r.data = <<>> /\ r.answer = "error"
    BY <2>1 DEF Result
  <2>3. /\ Returns(r) /\ UNCHANGED <<written, unread, peer>>
        /\ fault = "reported" => fault' = "reported"
    BY <1>9, <2>1 DEF ReceiveFails, Reported
  <2> QED
    BY <1>6, <2>2, <2>3
<1>10. CASE Receive
  BY <1>4, <1>5, <1>7, <1>8, <1>9, <1>10
     DEF Receive, RefuseReceive, ReceiveDatagram, Datagrams
<1>11. ASSUME NEW n \in Lengths, NEW from \in Addresses, PeerWrites(n, from)
       PROVE  /\ InOrder(unread)'
              /\ ReadInOrder' /\ NoneLeftOut' /\ NullIsTheEnd'
  <2>1. PICK K \in Nat : K = Len(written) + 1
    BY LenProperties DEF TypeOK
  <2>2. PICK message : message = Message(K, n)
    OBVIOUS
  <2>3. /\ message \in Text /\ InOrder(message)
        /\ Bytes(message) = {<<K, i>> : i \in 1..n}
    <3>1. n \in Nat
      BY StreamAssumption DEF Lengths
    <3> QED
      BY <2>2, <3>1, MessageFacts
  <2>4. /\ unread' = unread \o message /\ UNCHANGED <<received, fault, peer>>
        /\ peer = "open" /\ fault = "none"
    BY <1>11, <2>1, <2>2 DEF PeerWrites
  <2>5. BytesWritten' = BytesWritten \cup Bytes(message)
    BY <1>11, <2>1, <2>2, WriteAdds
  <2>6. BytesReceived' = BytesReceived
    BY <2>4 DEF BytesReceived
  <2>7. Bytes(unread') = Bytes(unread) \cup Bytes(message)
    BY <2>3, <2>4, ConcatFacts DEF TypeOK
  <2>8. \A a \in BytesWritten, b \in Bytes(message) : Earlier(a, b)
    <3> SUFFICES ASSUME NEW a \in BytesWritten, NEW b \in Bytes(message)
                 PROVE  Earlier(a, b)
      OBVIOUS
    <3>1. PICK k \in 1..Len(written) : a \in Bytes(written[k].data)
      BY DEF BytesWritten
    <3>2. PICK size \in Nat : written[k].data = Message(k, size)
      <4>1. written[k].data \in Text
        <5>1. written[k] \in [data : Text, from : Addresses]
          BY ElementOfSeq DEF TypeOK
        <5> QED
          BY <5>1
      <4>2. Len(written[k].data) \in Nat
        BY <4>1, LenProperties DEF Text
      <4> QED
        BY <4>2 DEF WritesNumbered
    <3>3. a[1] = k /\ k < K
      <4>1. Len(written) \in Nat
        BY LenProperties DEF TypeOK
      <4>2. k \in Nat /\ k < K
        BY <2>1, <4>1
      <4>3. Bytes(Message(k, size)) = {<<k, i>> : i \in 1..size}
        BY <4>2, MessageFacts
      <4> QED
        BY <3>1, <3>2, <4>2, <4>3
    <3>4. b[1] = K
      BY <2>3
    <3> QED
      BY <3>3, <3>4 DEF Earlier
  <2>9. BytesReceived \subseteq BytesWritten /\ Bytes(unread) \subseteq BytesWritten
    BY DEF NoneLeftOut
  <2>10. InOrder(unread')
    BY <2>3, <2>4, <2>8, <2>9, ConcatFacts DEF TypeOK
  <2>11. NoneLeftOut'
    BY <2>5, <2>6, <2>7, <2>8, <2>9 DEF NoneLeftOut
  <2>12. ReadInOrder' /\ NullIsTheEnd'
    BY <2>4 DEF ReadInOrder, NullIsTheEnd
  <2> QED
    BY <2>10, <2>11, <2>12
<1>12. CASE PeerCloses
  <2>1. UNCHANGED <<received, written, unread, fault>> /\ peer = "open"
    BY <1>12 DEF PeerCloses
  <2> QED
    BY <2>1 DEF ReadInOrder, NoneLeftOut, NullIsTheEnd, BytesReceived,
       BytesWritten
<1>13. CASE Reset
  BY <1>1, <1>13 DEF Reset
<1>14. CASE UNCHANGED vars
  BY <1>1, <1>14 DEF vars
<1> QED
  BY <1>2, <1>3, <1>10, <1>11, <1>12, <1>13, <1>14 DEF Next, Peers

\* The datagrams posted are those of the SENDs that succeeded, and beginnings
\* of those that failed.
LEMMA PostedStep ==
    ASSUME TypeOK, Datagrams, PostedAsSent, [Next]_vars
    PROVE  PostedAsSent'
<1>1. ASSUME UNCHANGED <<sent, posted>>
      PROVE  PostedAsSent'
  BY <1>1 DEF PostedAsSent
<1>2. ASSUME NEW data \in Text, NEW ok \in BOOLEAN, Sent(data, ok),
             posted \subseteq posted',
             ok => \E datagram \in posted' : datagram.data = data,
             \A datagram \in posted' :
                \/ datagram \in posted
                \/ IF ok THEN datagram.data = data
                   ELSE \E n \in 0..(Len(data) - 1) :
                           datagram.data = SubSeq(data, 1, n)
      PROVE  PostedAsSent'
  <2>1. PICK m \in Nat : m = Len(sent)
    BY LenProperties DEF TypeOK
  <2>2. /\ Len(sent') = m + 1
        /\ \A k \in 1..m : sent'[k] = sent[k]
        /\ sent'[m + 1].data = data /\ sent'[m + 1].ok = ok
    <3>1. [data |-> data, ok |-> ok] \in [data : Text, ok : BOOLEAN]
      BY <1>2
    <3>2. /\ Len(sent') = m + 1
          /\ \A k \in 1..m : sent'[k] = sent[k]
          /\ sent'[m + 1] = [data |-> data, ok |-> ok]
      BY <1>2, <2>1, <3>1, AppendFacts DEF TypeOK, Sent
    <3> QED
      BY <3>2
  <2>3. /\ m + 1 \in 1..Len(sent') /\ 1..m \subseteq 1..Len(sent')
        /\ \A k \in 1..Len(sent') : k \in 1..m \/ k = m + 1
    BY <2>1, <2>2
  <2>4. ASSUME NEW k \in 1..Len(sent'), sent'[k].ok
        PROVE  \E datagram \in posted' : datagram.data = sent'[k].data
    <3>1. CASE k \in 1..m
      BY <1>2, <2>1, <2>2, <2>4, <3>1 DEF PostedAsSent
    <3>2. CASE k = m + 1
      BY <1>2, <2>2, <2>4, <3>2
    <3> QED
      BY <2>3, <3>1, <3>2
  <2>5. ASSUME NEW datagram \in posted'
        PROVE  \E k \in 1..Len(sent') :
                  IF sent'[k].ok THEN datagram.data = sent'[k].data
                  ELSE \E n \in 0..(Len(sent'[k].data) - 1) :
                          datagram.data = SubSeq(sent'[k].data, 1, n)
    <3>1. CASE datagram \in posted
      <4>1. PICK k \in 1..m :
               IF sent[k].ok THEN datagram.data = sent[k].data
               ELSE \E n \in 0..(Len(sent[k].data) - 1) :
                       datagram.data = SubSeq(sent[k].data, 1, n)
        BY <2>1, <3>1 DEF PostedAsSent
      <4>2. sent'[k] = sent[k] /\ k \in 1..Len(sent')
        BY <2>2, <2>3
      <4> QED
        BY <4>1, <4>2
    <3>2. CASE datagram \notin posted
      <4>1. IF ok THEN datagram.data = data
            ELSE \E n \in 0..(Len(data) - 1) :
                    datagram.data = SubSeq(data, 1, n)
        BY <1>2, <2>5, <3>2
      <4> QED
        BY <2>2, <2>3, <4>1
    <3> QED
      BY <3>1, <3>2
  <2> QED
    BY <2>4, <2>5 DEF PostedAsSent
<1>3. ASSUME NEW data, NEW to, Arguments(data, to)
      PROVE  data \in Text
  BY <1>3, StreamAssumption, MessageFacts, LenProperties
     DEF TypeOK, Arguments, Lengths
<1>4. ASSUME NEW data \in Text, posted' = posted, Sent(data, FALSE)
      PROVE  PostedAsSent'
  BY <1>2, <1>4
<1>5. ASSUME NEW data, NEW to,
             RefuseSend(data, to) \/ SendDatagram(data, to)
      PROVE  PostedAsSent'
  <2>1. data \in Text
    BY <1>3, <1>5 DEF RefuseSend, SendDatagram
  <2>2. CASE posted' = posted /\ Sent(data, FALSE)
    BY <1>4, <2>1, <2>2
  <2>3. CASE Posts(data, to) /\ Sent(data, TRUE)
    <3>1. PICK address : posted' = posted \cup
                            {[data |-> data, to |-> address]}
      BY <2>3 DEF Posts
    <3>2. [data |-> data, to |-> address].data = data
      OBVIOUS
    <3> QED
      BY <1>2, <2>1, <2>3, <3>1, <3>2
  <2>4. ASSUME NEW n \in 0..(Len(data) - 1), Posts(SubSeq(data, 1, n), to),
               Sent(data, FALSE)
        PROVE  PostedAsSent'
    <3>1. PICK address : posted' = posted \cup
                            {[data |-> SubSeq(data, 1, n), to |-> address]}
      BY <2>4 DEF Posts
    <3>2. [data |-> SubSeq(data, 1, n), to |-> address].data
             = SubSeq(data, 1, n)
      OBVIOUS
    <3> QED
      BY <1>2, <2>1, <2>4, <3>1, <3>2
  <2> QED
    BY <1>5, <2>2, <2>3, <2>4 DEF RefuseSend, SendDatagram
<1>6. CASE Write
  BY <1>6 DEF Write, StartWrite, WriteSome, WriteEnds, WriteFails,
     TypeOK, CallOK, Datagrams
<1>7. CASE Receive
  BY <1>1, <1>7 DEF Receive, RefuseReceive, StartReceive, ReadSome, ReadEnd,
     ReadInterrupted, ReceiveDatagram, ReceiveFails
<1>8. CASE Peers
  BY <1>1, <1>8 DEF Peers, PeerWrites, PeerCloses, Reset
<1>9. CASE UNCHANGED vars
  BY <1>1, <1>9 DEF vars
<1> QED
  BY <1>5, <1>6, <1>7, <1>8, <1>9 DEF Next, Send

\* The datagrams received are whole.
LEMMA ReceivedStep ==
    ASSUME TypeOK, TypeOK', Datagrams, WritesNumbered, ReceivedWhole,
           [Next]_vars
    PROVE  ReceivedWhole'
<1>1. kind' = kind
  BY KindStays
<1>2. ASSUME UNCHANGED <<received, written>>
      PROVE  ReceivedWhole'
  BY <1>1, <1>2 DEF ReceivedWhole
<1>3. ASSUME NEW r, Returns(r), UNCHANGED written,
             r.answer # "error" =>
                /\ r.answer = "bytes"
                /\ \E j \in 1..Len(written) :
                      /\ r.data = written[j].data
                      /\ IF kind = "udp" THEN written[j].from = Partner
                                         ELSE written[j].from = r.from
      PROVE  ReceivedWhole'
  <2>1. /\ Len(received) \in Nat /\ Len(received') = Len(received) + 1
        /\ \A k \in 1..Len(received) : received'[k] = received[k]
        /\ received'[Len(received) + 1] = r
    BY <1>3, ReturnAdds
  <2>2. \A k \in 1..Len(received') :
           k \in 1..Len(received) \/ k = Len(received) + 1
    BY <2>1
  <2> QED
    BY <1>1, <1>3, <2>1, <2>2 DEF ReceivedWhole
<1>4. CASE Send
  BY <1>2, <1>4 DEF Send, RefuseSend, SendDatagram
<1>5. CASE Write
  BY <1>2, <1>5 DEF Write, StartWrite, WriteSome, WriteEnds, WriteFails
<1>6. ASSUME NEW k \in 1..Len(written), ReceiveDatagram(k)
      PROVE  ReceivedWhole'
  <2>1. PICK data : data = written[k].data
    OBVIOUS
  <2>2. PICK from : from = IF kind = "udp" THEN NoAddress ELSE written[k].from
    OBVIOUS
  <2>3. data \in Text /\ Len(data) \in Nat /\ Len(data) <= Longest
    <3>1. written[k] \in [data : Text, from : Addresses]
      BY ElementOfSeq DEF TypeOK
    <3>2. data \in Text
      BY <2>1, <3>1
    <3> QED
      BY <2>1, <3>2, LenProperties DEF WritesNumbered, Text
  <2>4. Fitting(data, Buffer) = data
    <3>1. Len(data) <= Buffer
      BY <2>3, StreamAssumption
    <3>2. Fitting(data, Buffer) = SubSeq(data, 1, Len(data))
      BY <2>3, <3>1, StreamAssumption DEF Fitting
    <3> QED
      BY <2>3, <3>2, SubSeqFull DEF Text
  <2>5. PICK r : r = Result("bytes", data, from)
    OBVIOUS
  <2>6. r.answer = "bytes" /\ r.data = data /\ r.from = from
    BY <2>5 DEF Result
  <2>7. /\ Returns(r) /\ UNCHANGED written
        /\ kind = "udp" => written[k].from = Partner
    BY <1>6, <2>1, <2>2, <2>4, <2>5 DEF ReceiveDatagram
  <2> QED
    BY <1>3, <2>1, <2>2, <2>6, <2>7
<1>7. CASE ReceiveFails
  <2>1. PICK r : r = Result("error", <<>>, NoAddress)
    OBVIOUS
  <2>2. r.answer = "error" /\ Returns(r) /\ UNCHANGED written
    BY <1>7, <2>1 DEF ReceiveFails, Result
  <2> QED
    BY <1>3, <2>2
<1>8. CASE Receive
  BY <1>2, <1>6, <1>7, <1>8
     DEF Receive, RefuseReceive, StartReceive, ReadSome, ReadEnd,
         ReadInterrupted, Datagrams
<1>9. ASSUME NEW n \in Lengths, NEW from \in Addresses, PeerWrites(n, from)
      PROVE  ReceivedWhole'
  <2>1. /\ Len(written) \in Nat /\ Len(written') = Len(written) + 1
        /\ \A k \in 1..Len(written) : written'[k] = written[k]
    BY <1>9, WriteAdds
  <2>2. \A k \in 1..Len(written) : k \in 1..Len(written')
    BY <2>1
  <2>3. UNCHANGED received
    BY <1>9 DEF PeerWrites
  <2> QED
    BY <1>1, <2>1, <2>2, <2>3 DEF ReceivedWhole
<1>10. CASE PeerCloses \/ Reset \/ UNCHANGED vars
  BY <1>2, <1>10 DEF PeerCloses, Reset, vars
<1> QED
  BY <1>4, <1>5, <1>8, <1>9, <1>10 DEF Next, Peers

\* Every step keeps what the program sees.
LEMMA ReceiveStep ==
    ASSUME TypeOK, TypeOK', ReceiveInv, [Next]_vars
    PROVE  ReceiveInv'
<1>1. WritesNumbered'
  BY WritesStep DEF ReceiveInv
<1>2. (kind = "tcp" => InOrder(unread))' /\ EndMeansAll'
  <2>1. ASSUME kind = "tcp"
        PROVE  InOrder(unread)' /\ ReadInOrder' /\ NoneLeftOut' /\ NullIsTheEnd'
    BY <2>1, StreamStep DEF ReceiveInv, DeliveredAsSent, EndMeansAll
  <2> QED
    BY <2>1, KindStays DEF EndMeansAll
<1>3. DatagramsWhole'
  <2>1. ASSUME Datagrams
        PROVE  ReceivedWhole' /\ PostedAsSent'
    BY <2>1, PostedStep, ReceivedStep
       DEF ReceiveInv, DeliveredAsSent, DatagramsWhole
  <2> QED
    BY <2>1, KindStays DEF DatagramsWhole, Datagrams
<1> QED
  BY <1>1, <1>2, <1>3 DEF ReceiveInv, DeliveredAsSent

-----------------------------------------------------------------------------
\* At the beginning nothing is sent, written, posted or received.
LEMMA InitInv ==
    Init => Inv
<1> SUFFICES ASSUME Init
             PROVE  Inv
  OBVIOUS
<1>1. TypeOK
  BY EmptyFacts, EmptySeq DEF Init, TypeOK, CallOK, Idle
<1>2. SendInv
  BY EmptyFacts DEF Init, Idle, SendInv, SendsNumbered, InTheMiddle,
     SentWholeOrCut, Begun
<1>3. ReceiveInv
  <2>1. BytesReceived = {} /\ BytesWritten = {}
    BY EmptyFacts DEF Init, BytesReceived, BytesWritten
  <2>2. EndMeansAll
    BY <2>1, EmptyFacts DEF Init, EndMeansAll, ReadInOrder, NoneLeftOut,
       NullIsTheEnd
  <2>3. DatagramsWhole
    BY EmptyFacts DEF Init, DatagramsWhole, ReceivedWhole, PostedAsSent
  <2> QED
    BY <2>2, <2>3, EmptyFacts
       DEF Init, ReceiveInv, WritesNumbered, DeliveredAsSent
<1> QED
  BY <1>1, <1>2, <1>3 DEF Inv

\* Every reachable state satisfies the inductive invariant.
THEOREM Invariance == Spec => []Inv
<1>1. Inv /\ [Next]_vars => Inv'
  BY TypeStep, SendStep, ReceiveStep DEF Inv
<1> QED
  BY <1>1, InitInv, PTL DEF Spec

\* Every variable has its type.
THEOREM TypeCorrect == Spec => []TypeOK
<1>1. Inv => TypeOK
  BY DEF Inv
<1> QED
  BY <1>1, Invariance, PTL

\* What the peer of a stream sees: the messages of SEND in the order of the
\* calls and unmixed, each that succeeded as a whole, and of one that failed
\* a beginning that is not the whole of it (write_all of
\* TransportRuntime::send).
THEOREM SentTheorem == Spec => []SentWholeOrCut
<1>1. Inv => SentWholeOrCut
  BY DEF Inv, SendInv
<1> QED
  BY <1>1, Invariance, PTL

\* What RECEIVE returns: the bytes of a stream in order, none twice, none left
\* out, and null only at their end; datagrams whole, with their address
\* (TransportRuntime::receive).
THEOREM DeliveredTheorem == Spec => []DeliveredAsSent
<1>1. Inv => DeliveredAsSent
  BY DEF Inv, ReceiveInv
<1> QED
  BY <1>1, Invariance, PTL
=============================================================================
