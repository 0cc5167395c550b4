------------------------ MODULE TcpConnectionProofs ------------------------
(***************************************************************************)
(* Proofs about TcpConnection, for any bytes, sizes and bounds: output is  *)
(* never lost, repeated or reordered; output that has to wait silences     *)
(* the connection; and the receive buffer is a queue although read writes  *)
(* at peek().                                                              *)
(***************************************************************************)
EXTENDS TcpConnection, ArrayBufferProofs

\* The places of s hold m + 1, m + 2, ...
Counts(s, m) == s \in Seq(Nat) /\ \A i \in 1..Len(s) : s[i] = m + i

\* OutputInOrder place by place, with the types of what it is about.
OutputInv ==
  /\ given \in Nat
  /\ Counts(written, 0) /\ Counts(send_buffer_, Len(written))
  /\ Len(written) + Len(send_buffer_) = given

\* Counting goes on across a concatenation.
LEMMA CountingConcat ==
  ASSUME NEW s, NEW t, NEW m \in Nat, NEW k, Counts(s, m), Counts(t, k), k = m + Len(s)
  PROVE  Counts(s \o t, m) /\ Len(s \o t) = Len(s) + Len(t)
<1>1. s \in Seq(Nat) /\ t \in Seq(Nat) /\ Len(s) \in Nat /\ Len(t) \in Nat
  BY LenProperties DEF Counts
<1>2. /\ s \o t \in Seq(Nat) /\ Len(s \o t) = Len(s) + Len(t)
      /\ \A i \in 1..(Len(s) + Len(t)) :
           (s \o t)[i] = IF i <= Len(s) THEN s[i] ELSE t[i - Len(s)]
  BY <1>1, ConcatProperties
<1>3. ASSUME NEW i \in 1..(Len(s) + Len(t)) PROVE (s \o t)[i] = m + i
  <2>1. CASE i <= Len(s)
    BY <1>1, <1>2, <2>1 DEF Counts
  <2>2. CASE ~(i <= Len(s))
    <3>1. i - Len(s) \in 1..Len(t)
      BY <1>1, <2>2
    <3>2. t[i - Len(s)] = k + (i - Len(s))
      BY <3>1 DEF Counts
    <3> QED
      BY <1>1, <1>2, <2>2, <3>2
  <2> QED
    BY <2>1, <2>2
<1> QED
  BY <1>2, <1>3 DEF Counts

\* SubSeqProperties, for numbers.
LEMMA SubSeqOfNat ==
  ASSUME NEW s, NEW a \in Int, NEW b \in Int, \A i \in a..b : s[i] \in Nat
  PROVE  /\ SubSeq(s, a, b) \in Seq(Nat)
         /\ Len(SubSeq(s, a, b)) = IF a <= b THEN b - a + 1 ELSE 0
         /\ \A i \in 1..(b - a + 1) : SubSeq(s, a, b)[i] = s[a + i - 1]
<1> DEFINE S == Nat
<1>1. \A i \in a..b : s[i] \in S
  OBVIOUS
<1> HIDE DEF S
<1>2. /\ SubSeq(s, a, b) \in Seq(S)
      /\ Len(SubSeq(s, a, b)) = IF a <= b THEN b - a + 1 ELSE 0
      /\ \A i \in 1..(b - a + 1) : SubSeq(s, a, b)[i] = s[a + i - 1]
  BY <1>1, SubSeqProperties
<1> QED
  BY <1>2 DEF S

\* A part of a sequence that counts, counts.
LEMMA CountingPart ==
  ASSUME NEW s, NEW m \in Nat, Counts(s, m),
         NEW a \in Nat \ {0}, NEW b \in Nat, a <= b + 1, b <= Len(s)
  PROVE  Counts(SubSeq(s, a, b), m + a - 1) /\ Len(SubSeq(s, a, b)) = b - a + 1
<1>1. s \in Seq(Nat) /\ Len(s) \in Nat
  BY LenProperties DEF Counts
<1>2. \A i \in a..b : s[i] \in Nat
  <2>1. \A i \in a..b : i \in 1..Len(s)
    BY <1>1
  <2> QED
    BY <1>1, <2>1, ElementOfSeq
<1>3. /\ SubSeq(s, a, b) \in Seq(Nat)
      /\ Len(SubSeq(s, a, b)) = IF a <= b THEN b - a + 1 ELSE 0
      /\ \A i \in 1..(b - a + 1) : SubSeq(s, a, b)[i] = s[a + i - 1]
  BY <1>2, SubSeqOfNat
<1>4. ASSUME NEW i \in 1..(b - a + 1) PROVE SubSeq(s, a, b)[i] = (m + a - 1) + i
  <2>1. a + i - 1 \in 1..Len(s)
    BY <1>1
  <2>2. s[a + i - 1] = m + (a + i - 1)
    BY <2>1 DEF Counts
  <2> QED
    BY <1>3, <2>2
<1>5. Len(SubSeq(s, a, b)) = b - a + 1
  BY <1>3
<1> QED
  BY <1>3, <1>4, <1>5 DEF Counts
-----------------------------------------------------------------------------
(* Output.                                                                 *)

\* The bytes of one send count on from the ones given before.
LEMMA NextBytesCount ==
  ASSUME NEW n \in Nat, given \in Nat
  PROVE  Counts(NextBytes(n), given) /\ Len(NextBytes(n)) = n
<1>1. NextBytes(n) \in [1..n -> Nat] /\ \A i \in 1..n : NextBytes(n)[i] = given + i
  BY DEF NextBytes
<1>2. NextBytes(n) \in Seq(Nat)
  BY <1>1, SeqDef
<1>3. DOMAIN NextBytes(n) = 1..n
  BY <1>1
<1>4. Len(NextBytes(n)) = n
  BY <1>2, <1>3, LenProperties
<1> QED
  BY <1>1, <1>2, <1>4 DEF Counts

\* An empty sequence counts from anywhere.
LEMMA EmptyCounts == ASSUME NEW m PROVE Counts(<<>>, m) /\ Len(<<>>) = 0
BY EmptySeq DEF Counts

\* send: what the kernel takes joins written, the rest joins send_buffer_; a direct
\* write happens only when nothing waits.
LEMMA SendKeepsOrder ==
  ASSUME OutputInv, NEW n \in Nat, Send(n) PROVE OutputInv'
<1> DEFINE bytes == NextBytes(n)
<1>1. /\ given \in Nat /\ Counts(written, 0) /\ Counts(send_buffer_, Len(written))
      /\ Len(written) + Len(send_buffer_) = given
  BY DEF OutputInv
<1>2. Len(written) \in Nat /\ Len(send_buffer_) \in Nat
  BY <1>1, LenProperties DEF Counts
<1>3. PICK wrote \in 0..n :
        /\ wrote = 0 \/ send_buffer_ = <<>>
        /\ written' = written \o SubSeq(bytes, 1, wrote)
        /\ IF wrote = n THEN send_buffer_' = send_buffer_
                         ELSE send_buffer_' = send_buffer_ \o SubSeq(bytes, wrote + 1, n)
        /\ given' = given + n
  <2>1. CASE "WRITABLE" \notin events_ /\ send_buffer_ = <<>>
    BY <2>1 DEF Send
  <2>2. CASE ~("WRITABLE" \notin events_ /\ send_buffer_ = <<>>)
    <3>1. /\ written' = written \o SubSeq(bytes, 1, 0)
          /\ IF 0 = n THEN send_buffer_' = send_buffer_
                      ELSE send_buffer_' = send_buffer_ \o SubSeq(bytes, 0 + 1, n)
          /\ given' = given + n
      BY <2>2 DEF Send
    <3> WITNESS 0 \in 0..n
    <3> QED
      BY <3>1
  <2> QED
    BY <2>1, <2>2
<1>4. Counts(bytes, given) /\ Len(bytes) = n
  BY <1>1, NextBytesCount
<1> HIDE DEF bytes
<1> DEFINE sent == SubSeq(bytes, 1, wrote)
           rest == SubSeq(bytes, wrote + 1, n)
<1>5. Counts(sent, given) /\ Len(sent) = wrote
  <2>1. Counts(sent, given + 1 - 1) /\ Len(sent) = wrote - 1 + 1
    BY <1>1, <1>4, CountingPart
  <2> QED
    BY <1>1, <2>1
<1>6. Counts(rest, given + wrote) /\ Len(rest) = n - wrote
  <2>1. Counts(rest, given + (wrote + 1) - 1) /\ Len(rest) = n - (wrote + 1) + 1
    BY <1>1, <1>4, CountingPart
  <2> QED
    BY <1>1, <2>1
<1>7. /\ written' = written \o sent
      /\ wrote = n => send_buffer_' = send_buffer_
      /\ wrote # n => send_buffer_' = send_buffer_ \o rest
  BY <1>3
<1>8. given' = given + n /\ given' \in Nat
  BY <1>1, <1>3
<1> HIDE DEF sent, rest
<1>9. CASE wrote = 0
  <2>1. written' = written
    <3>1. sent = <<>>
      BY <1>5, <1>9, EmptySeq, LenProperties DEF Counts
    <3> QED
      BY <1>1, <1>7, <3>1, ConcatEmptySeq DEF Counts
  <2>2. /\ Counts(send_buffer_ \o rest, Len(written))
        /\ Len(send_buffer_ \o rest) = Len(send_buffer_) + Len(rest)
    BY <1>1, <1>2, <1>6, <1>9, CountingConcat
  <2>3. CASE wrote = n
    BY <1>1, <1>7, <1>8, <1>9, <2>1, <2>3 DEF OutputInv, Counts
  <2>4. CASE wrote # n
    <3>1. Counts(written', 0) /\ Counts(send_buffer_', Len(written'))
      BY <1>1, <1>7, <2>1, <2>2, <2>4
    <3>2. Len(send_buffer_') = Len(send_buffer_) + Len(rest)
      BY <1>7, <2>2, <2>4
    <3>3. Len(written') + Len(send_buffer_') = given'
      BY <1>1, <1>2, <1>6, <1>8, <1>9, <2>1, <3>2
    <3> QED
      BY <1>8, <3>1, <3>3 DEF OutputInv, Counts
  <2> QED
    BY <2>3, <2>4
<1>10. CASE send_buffer_ = <<>>
  <2>1. Len(send_buffer_) = 0 /\ given = Len(written)
    BY <1>1, <1>2, <1>10, EmptyCounts
  <2>2. Counts(written', 0) /\ Len(written') = Len(written) + wrote
    <3>1. Counts(written \o sent, 0) /\ Len(written \o sent) = Len(written) + wrote
      BY <1>1, <1>2, <1>5, <2>1, CountingConcat
    <3> QED
      BY <1>7, <3>1
  <2>3. CASE wrote = n
    <3>1. Counts(send_buffer_', Len(written')) /\ Len(send_buffer_') = 0
      BY <1>7, <1>10, <2>3, EmptyCounts
    <3>2. Len(written') + Len(send_buffer_') = given'
      BY <1>2, <1>8, <2>1, <2>2, <2>3, <3>1
    <3> QED
      BY <1>8, <2>2, <3>1, <3>2 DEF OutputInv, Counts
  <2>4. CASE wrote # n
    <3>1. send_buffer_' = rest
      BY <1>6, <1>7, <1>10, <2>4, ConcatEmptySeq DEF Counts
    <3>2. Counts(send_buffer_', Len(written')) /\ Len(send_buffer_') = n - wrote
      BY <1>6, <2>1, <2>2, <3>1
    <3>3. Len(written') + Len(send_buffer_') = given'
      BY <1>2, <1>8, <2>1, <2>2, <3>2
    <3> QED
      BY <1>8, <2>2, <3>2, <3>3 DEF OutputInv, Counts
  <2> QED
    BY <2>3, <2>4
<1> QED
  BY <1>3, <1>9, <1>10

\* sendInLoop: what the kernel takes moves from the front of send_buffer_ to written.
LEMMA SendInLoopKeepsOrder ==
  ASSUME OutputInv, SendInLoop PROVE OutputInv'
<1>1. /\ given \in Nat /\ Counts(written, 0) /\ Counts(send_buffer_, Len(written))
      /\ Len(written) + Len(send_buffer_) = given
  BY DEF OutputInv
<1>2. Len(written) \in Nat /\ Len(send_buffer_) \in Nat
  BY <1>1, LenProperties DEF Counts
<1>3. CASE send_buffer_ = <<>> \/ "READABLE" \notin events_
  BY <1>3 DEF SendInLoop, OutputInv, Counts
<1>4. CASE ~(send_buffer_ = <<>> \/ "READABLE" \notin events_)
  <2>1. PICK wrote \in 0..Len(send_buffer_) :
          /\ written' = written \o SubSeq(send_buffer_, 1, wrote)
          /\ send_buffer_' = SubSeq(send_buffer_, wrote + 1, Len(send_buffer_))
    BY <1>4 DEF SendInLoop
  <2> DEFINE sent == SubSeq(send_buffer_, 1, wrote)
             rest == SubSeq(send_buffer_, wrote + 1, Len(send_buffer_))
  <2>2. Counts(sent, Len(written)) /\ Len(sent) = wrote
    <3>1. Counts(sent, Len(written) + 1 - 1) /\ Len(sent) = wrote - 1 + 1
      BY <1>1, <1>2, CountingPart
    <3> QED
      BY <1>2, <3>1
  <2>3. Counts(rest, Len(written) + wrote) /\ Len(rest) = Len(send_buffer_) - wrote
    <3>1. /\ Counts(rest, Len(written) + (wrote + 1) - 1)
          /\ Len(rest) = Len(send_buffer_) - (wrote + 1) + 1
      BY <1>1, <1>2, CountingPart
    <3> QED
      BY <1>2, <3>1
  <2>4. written' = written \o sent /\ send_buffer_' = rest /\ given' = given
    BY <2>1 DEF SendInLoop
  <2> HIDE DEF sent, rest
  <2>5. Counts(written \o sent, 0) /\ Len(written \o sent) = Len(written) + wrote
    BY <1>1, <1>2, <2>2, CountingConcat
  <2>6. /\ given' \in Nat /\ Counts(written', 0) /\ Counts(send_buffer_', Len(written'))
        /\ Len(written') + Len(send_buffer_') = given'
    BY <1>1, <1>2, <2>3, <2>4, <2>5
  <2> QED
    BY <2>6 DEF OutputInv, Counts
<1> QED
  BY <1>3, <1>4

\* The other operations leave the output alone.
LEMMA StepKeepsOrder == OutputInv /\ [ConnNext]_<<recvVars, connVars>> => OutputInv'
<1> SUFFICES ASSUME OutputInv, [ConnNext]_<<recvVars, connVars>> PROVE OutputInv'
  OBVIOUS
<1>1. CASE \E n \in 1..MaxSend : SendSome(n)
  BY <1>1, ConnectionAssumption, SendKeepsOrder DEF SendSome
<1>2. CASE Writable
  BY <1>2, SendInLoopKeepsOrder DEF Writable
<1>3. CASE UNCHANGED <<written, send_buffer_, given>>
  BY <1>3 DEF OutputInv, Counts
<1> QED
  BY <1>1, <1>2, <1>3 DEF ConnNext, ReadWhenEmpty, ReadFails, Disconnect, UseRecvBuffer,
                          Closable, UseChannel, ShutdownWrite, connVars

\* Nothing has been sent at first.
LEMMA InitCounts == ConnInit => OutputInv
BY EmptyCounts DEF ConnInit, OutputInv

\* What the application sends goes out in the order of the calls, nothing lost and
\* nothing twice, through direct, short and failed writes (send, sendInLoop).
THEOREM OutputKeepsOrder == ConnSpec => []OutputInOrder
<1>1. ConnInit => OutputInv
  BY InitCounts
<1>2. OutputInv => OutputInOrder
  <2> SUFFICES ASSUME OutputInv PROVE OutputInOrder
    OBVIOUS
  <2> DEFINE all == [i \in 1..given |-> i]
  <2>1. /\ written \in Seq(Nat) /\ send_buffer_ \in Seq(Nat) /\ given \in Nat
        /\ Len(written) \in Nat /\ Len(send_buffer_) \in Nat
        /\ Len(written) + Len(send_buffer_) = given
    BY LenProperties DEF OutputInv, Counts
  <2>2. all \in Seq(Nat) /\ Len(all) = given
    <3>1. all \in [1..given -> Nat]
      BY <2>1
    <3>2. all \in Seq(Nat)
      BY <2>1, <3>1, SeqDef
    <3>3. DOMAIN all = 1..given
      OBVIOUS
    <3> QED
      BY <2>1, <3>2, <3>3, LenProperties
  <2>3. Counts(written \o send_buffer_, 0) /\ Len(written \o send_buffer_) = given
    BY <2>1, CountingConcat DEF OutputInv
  <2>4. \A i \in 1..given : (written \o send_buffer_)[i] = all[i]
    BY <2>1, <2>3 DEF Counts
  <2>5. written \o send_buffer_ \in Seq(Nat)
    BY <2>3 DEF Counts
  <2> HIDE DEF all
  <2>6. written \o send_buffer_ = all
    BY <2>2, <2>3, <2>4, <2>5, SeqEqual
  <2> QED
    BY <2>6 DEF OutputInOrder, all
<1> QED
  BY <1>1, <1>2, StepKeepsOrder, PTL DEF ConnSpec

\* A send behind waiting output does not empty the buffer.
LEMMA SendKeepsWaiting ==
  ASSUME OutputInv, NEW n \in Nat, Send(n), send_buffer_ # <<>>
  PROVE  send_buffer_' # <<>>
<1>1. /\ OutputInv' /\ given' = given + n
      /\ written' = written \o SubSeq(NextBytes(n), 1, 0)
  BY SendKeepsOrder DEF Send
<1>2. /\ written \in Seq(Nat) /\ send_buffer_ \in Seq(Nat) /\ given \in Nat
      /\ Len(written) \in Nat /\ Len(send_buffer_) \in Nat
      /\ Len(written) + Len(send_buffer_) = given
  BY LenProperties DEF OutputInv, Counts
<1>3. written' = written
  <2>1. SubSeq(NextBytes(n), 1, 0) = <<>>
    BY SubSeqEmpty
  <2> QED
    BY <1>1, <1>2, <2>1, ConcatEmptySeq
<1>4. Len(send_buffer_) # 0
  BY <1>2, EmptySeq
<1>5. Len(written') + Len(send_buffer_') = given'
  BY <1>1 DEF OutputInv
<1>6. send_buffer_' \in Seq(Nat) /\ Len(send_buffer_') \in Nat
  <2>1. send_buffer_' \in Seq(Nat)
    BY <1>1 DEF OutputInv, Counts
  <2> QED
    BY <2>1, LenProperties
<1>7. Len(send_buffer_') # 0
  BY <1>1, <1>2, <1>3, <1>4, <1>5, <1>6
<1> QED
  BY <1>7, EmptySeq

\* What a direct write leaves over waits.
LEMMA SendKeepsRest ==
  ASSUME OutputInv, NEW n \in Nat, Send(n), send_buffer_ = <<>>, "WRITABLE" \notin events_
  PROVE  \/ send_buffer_' = <<>> /\ events_' = events_
         \/ send_buffer_' # <<>> /\ events_' = {"WRITABLE"}
<1>1. PICK wrote \in 0..n :
        IF wrote = n THEN send_buffer_' = <<>> /\ events_' = events_
        ELSE /\ send_buffer_' = <<>> \o SubSeq(NextBytes(n), wrote + 1, n)
             /\ events_' = {"WRITABLE"}
  BY DEF Send, Modify
<1>2. CASE wrote # n
  <2> DEFINE rest == SubSeq(NextBytes(n), wrote + 1, n)
  <2>1. given \in Nat
    BY DEF OutputInv
  <2>2. Counts(NextBytes(n), given) /\ Len(NextBytes(n)) = n
    BY <2>1, NextBytesCount
  <2>3. Counts(rest, given + (wrote + 1) - 1) /\ Len(rest) = n - (wrote + 1) + 1
    BY <2>1, <2>2, CountingPart
  <2>4. rest \in Seq(Nat) /\ Len(rest) # 0
    BY <1>2, <2>3 DEF Counts
  <2> HIDE DEF rest
  <2>5. rest # <<>> /\ <<>> \o rest = rest
    BY <2>4, EmptySeq, ConcatEmptySeq
  <2> QED
    BY <1>1, <1>2, <2>5 DEF rest
<1> QED
  BY <1>1, <1>2

\* As long as the application leaves the channel alone, what is watched tells whether
\* output waits.
WaitingInv ==
  ~channelUsed => \/ send_buffer_ = <<>> /\ events_ = DefaultEvents
                  \/ send_buffer_ # <<>> /\ events_ = {"WRITABLE"}

\* A step of the connection keeps this, and neither writes nor watches for input while
\* output waits.
LEMMA StepWhileWaiting ==
  ASSUME OutputInv, WaitingInv, [ConnNext]_<<recvVars, connVars>>
  PROVE  /\ WaitingInv'
         /\ ~channelUsed' /\ send_buffer_ # <<>>
              => written' = written /\ "READABLE" \notin events_'
<1>1. CASE UNCHANGED <<written, send_buffer_, events_, channelUsed>>
  BY <1>1 DEF WaitingInv
<1>2. CASE \E n \in 1..MaxSend : SendSome(n)
  <2>1. PICK n \in Nat : Send(n)
    BY <1>2, ConnectionAssumption DEF SendSome
  <2>2. channelUsed' = channelUsed
    BY <2>1 DEF Send
  <2>3. CASE channelUsed
    BY <2>2, <2>3 DEF WaitingInv
  <2>4. CASE ~channelUsed /\ send_buffer_ = <<>>
    <3>1. events_ = DefaultEvents /\ "WRITABLE" \notin events_
      BY <2>4 DEF WaitingInv, DefaultEvents
    <3> QED
      BY <2>1, <2>2, <2>4, <3>1, SendKeepsRest DEF WaitingInv
  <2>5. CASE ~channelUsed /\ send_buffer_ # <<>>
    <3>1. events_ = {"WRITABLE"}
      BY <2>5 DEF WaitingInv
    <3>2. send_buffer_' # <<>>
      BY <2>1, <2>5, SendKeepsWaiting
    <3>3. events_' = events_ /\ written' = written \o SubSeq(NextBytes(n), 1, 0)
      BY <2>1, <3>1 DEF Send
    <3>4. written' = written
      <4>1. written \in Seq(Nat) /\ SubSeq(NextBytes(n), 1, 0) = <<>>
        BY SubSeqEmpty DEF OutputInv, Counts
      <4> QED
        BY <3>3, <4>1, ConcatEmptySeq
    <3> QED
      BY <3>1, <3>2, <3>3, <3>4 DEF WaitingInv
  <2> QED
    BY <2>3, <2>4, <2>5
<1>3. CASE Writable
  <2>1. CASE channelUsed
    BY <1>3, <2>1 DEF Writable, SendInLoop, WaitingInv
  <2>2. CASE ~channelUsed
    <3>1. "READABLE" \notin events_
      BY <1>3, <2>2 DEF Writable, WaitingInv, DefaultEvents
    <3> QED
      BY <1>1, <1>3, <3>1 DEF Writable, SendInLoop
  <2> QED
    BY <2>1, <2>2
<1>4. CASE UseChannel
  BY <1>4 DEF UseChannel, WaitingInv
<1> QED
  BY <1>1, <1>2, <1>3, <1>4 DEF ConnNext, ReadWhenEmpty, ReadFails, Disconnect, UseRecvBuffer,
                                Closable, ShutdownWrite, DisableWriteOwnContext, connVars

\* Output that has to wait silences the connection: until the application changes the
\* events itself, nothing is written and nothing is read (send, enableWrite, sendInLoop).
THEOREM WaitingOutputIsSilent == ConnSpec => WaitingOutputSilences
<1> DEFINE Silent == ~channelUsed' /\ send_buffer_ # <<>>
                       => written' = written /\ "READABLE" \notin events_'
<1>1. ConnInit => OutputInv /\ WaitingInv
  BY InitCounts DEF ConnInit, WaitingInv
<1>2. OutputInv /\ WaitingInv /\ [ConnNext]_<<recvVars, connVars>>
        => WaitingInv' /\ [Silent]_connVars
  BY StepWhileWaiting
<1> QED
  BY <1>1, <1>2, StepKeepsOrder, PTL DEF ConnSpec, WaitingOutputSilences
-----------------------------------------------------------------------------
(* Input.                                                                  *)

\* A read into an empty buffer stays inside the vector, and is Put.
LEMMA ReadIsPut ==
  ASSUME TypeOK, NEW bytes \in Chunks, Read(bytes), readableBytes = 0
  PROVE  TypeOK' /\ Queue!Put
<1>1. /\ bytes \in Seq(Byte) /\ Len(bytes) \in Nat /\ Len(buffer_) \in Nat
      /\ readerIndex_ \in Nat /\ writerIndex_ = readerIndex_
      /\ readerIndex_ + Len(bytes) <= Len(buffer_)
  BY ChunkIsSeq, LenProperties DEF TypeOK, Read, readableBytes, writableBytes
<1>2. /\ buffer_' = Copy(buffer_, readerIndex_, bytes)
      /\ writerIndex_' = readerIndex_ + Len(bytes)
      /\ readerIndex_' = readerIndex_ /\ out' = out
  BY <1>1 DEF Read
<1>3. buffer_' \in Seq(Byte) /\ Len(buffer_') = Len(buffer_)
  BY <1>1, <1>2, CopyProperties DEF TypeOK
<1>4. TypeOK'
  BY <1>1, <1>2, <1>3 DEF TypeOK, PREPEND
<1>5. Content' \in Seq(Byte) /\ Len(Content') \in Nat
  <2>1. SubSeq(buffer_', readerIndex_' + 1, writerIndex_') \in Seq(Byte)
    BY <1>4, ContentProperties DEF TypeOK
  <2> QED
    BY <2>1, LenProperties DEF Content
<1>6. Len(Content) = 0
  BY ContentIsSeq
<1> QED
  BY <1>2, <1>4, <1>5, <1>6 DEF Queue!Put

\* What every step of the connection does to the receive buffer.
LEMMA StepOnBuffer ==
  TypeOK /\ [ConnNext]_<<recvVars, connVars>> => TypeOK' /\ [Queue!QNext]_Queue!qvars
<1> SUFFICES ASSUME TypeOK, [ConnNext]_<<recvVars, connVars>>
             PROVE  TypeOK' /\ [Queue!QNext]_Queue!qvars
  OBVIOUS
<1>1. CASE ReadWhenEmpty
  BY <1>1, ReadIsPut DEF ReadWhenEmpty, Queue!QNext
<1>2. CASE [Next]_vars
  BY <1>2, NextTypeOK, NextIsQueueNext
<1> QED
  BY <1>1, <1>2 DEF ConnNext, ReadFails, UseRecvBuffer, SendSome, Writable, Closable,
                    UseChannel, ShutdownWrite, recvVars, vars

\* The indices of the receive buffer stay in order inside its vector, however the
\* application mixes reads with its other operations (read, hasWritten).
THEOREM ReceiveBufferTypeCorrect == ConnSpec => []TypeOK
<1>1. ConnInit => TypeOK
  BY InitTypeOK DEF ConnInit
<1> QED
  BY <1>1, StepOnBuffer, PTL DEF ConnSpec

\* The receive buffer is a queue of bytes: a read at peek() overwrites nothing as long
\* as the application reads only when it has retrieved everything (TcpConnection::read).
THEOREM ReceiveBufferIsQueue == ConnSpec => BehavesAsQueue
<1>1. ConnInit => TypeOK /\ Queue!QInit
  BY InitTypeOK, ContentIsSeq DEF ConnInit, Init, Queue!QInit
<1> QED
  BY <1>1, StepOnBuffer, PTL DEF ConnSpec, BehavesAsQueue, Queue!QSpec
=============================================================================
