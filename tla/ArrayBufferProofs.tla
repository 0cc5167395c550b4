------------------------- MODULE ArrayBufferProofs -------------------------
(***************************************************************************)
(* Proofs about ArrayBuffer, for any byte values, initial size and bounds: *)
(* the indices stay in order inside the buffer, append adds exactly its    *)
(* argument, and the buffer implements ByteQueue.                          *)
(***************************************************************************)
EXTENDS ArrayBuffer, SequenceTheorems, TLAPS

\* An argument of append is a sequence of bytes.
LEMMA ChunkIsSeq == ASSUME NEW data \in Chunks PROVE data \in Seq(Byte)
<1>1. PICK n \in 0..MaxLen : data \in [1..n -> Byte]
  BY DEF Chunks
<1>2. n \in Nat
  BY BufferAssumption
<1> QED
  BY <1>1, <1>2, SeqDef

\* Zeros(n) is a sequence of n bytes.
LEMMA ZerosIsSeq == ASSUME NEW n \in Nat PROVE Zeros(n) \in Seq(Byte) /\ Len(Zeros(n)) = n
<1>1. Zeros(n) \in [1..n -> Byte]
  BY BufferAssumption DEF Zeros
<1>2. Zeros(n) \in Seq(Byte)
  BY <1>1, SeqDef
<1>3. DOMAIN Zeros(n) = 1..n
  BY <1>1
<1> QED
  BY <1>2, <1>3, LenProperties

\* Copying s to offset at changes those places and no others.
LEMMA CopyProperties ==
  ASSUME NEW buf \in Seq(Byte), NEW s \in Seq(Byte), NEW at \in Nat, at + Len(s) <= Len(buf)
  PROVE  /\ Copy(buf, at, s) \in Seq(Byte)
         /\ Len(Copy(buf, at, s)) = Len(buf)
         /\ \A i \in 1..Len(buf) : Copy(buf, at, s)[i] =
              IF at < i /\ i <= at + Len(s) THEN s[i - at] ELSE buf[i]
<1>1. Len(buf) \in Nat /\ Len(s) \in Nat
  BY LenProperties
<1>2. \A i \in 1..Len(buf) :
        (IF at < i /\ i <= at + Len(s) THEN s[i - at] ELSE buf[i]) \in Byte
  <2>1. \A i \in 1..Len(buf) : at < i /\ i <= at + Len(s) => i - at \in 1..Len(s)
    BY <1>1
  <2> QED
    BY <2>1, ElementOfSeq
<1>3. Copy(buf, at, s) \in [1..Len(buf) -> Byte]
  BY <1>2 DEF Copy
<1>4. Copy(buf, at, s) \in Seq(Byte)
  BY <1>1, <1>3, SeqDef
<1>5. Len(Copy(buf, at, s)) = Len(buf)
  <2>1. DOMAIN Copy(buf, at, s) = 1..Len(buf)
    BY <1>3
  <2> QED
    BY <1>1, <1>4, <2>1, LenProperties
<1> QED
  BY <1>4, <1>5 DEF Copy

\* The content, place by place.
LEMMA ContentProperties ==
  ASSUME NEW b \in Seq(Byte), NEW r \in Nat, NEW w \in Nat, r <= w, w <= Len(b)
  PROVE  /\ SubSeq(b, r + 1, w) \in Seq(Byte)
         /\ Len(SubSeq(b, r + 1, w)) = w - r
         /\ \A i \in 1..(w - r) : SubSeq(b, r + 1, w)[i] = b[r + i]
<1>1. Len(b) \in Nat
  BY LenProperties
<1>2. \A i \in (r + 1)..w : b[i] \in Byte
  <2>1. \A i \in (r + 1)..w : i \in 1..Len(b)
    BY <1>1
  <2> QED
    BY <2>1, ElementOfSeq
<1>3. /\ SubSeq(b, r + 1, w) \in Seq(Byte)
      /\ Len(SubSeq(b, r + 1, w)) = IF r + 1 <= w THEN w - (r + 1) + 1 ELSE 0
      /\ \A i \in 1..(w - (r + 1) + 1) : SubSeq(b, r + 1, w)[i] = b[(r + 1) + i - 1]
  BY <1>2, SubSeqProperties
<1>4. \A i \in 1..(w - r) : i \in 1..(w - (r + 1) + 1) /\ (r + 1) + i - 1 = r + i
  OBVIOUS
<1> QED
  BY <1>3, <1>4

-----------------------------------------------------------------------------
(* append.                                                                 *)

\* What one append does: the bytes that were readable, then the new ones.
LEMMA AppendEffect ==
  ASSUME TypeOK, NEW data \in Seq(Byte), AppendBytes(data)
  PROVE  /\ TypeOK'
         /\ writerIndex_' - readerIndex_' = readableBytes + Len(data)
         /\ \A i \in 1..(readableBytes + Len(data)) :
              buffer_'[readerIndex_' + i] =
                IF i <= readableBytes THEN buffer_[readerIndex_ + i] ELSE data[i - readableBytes]
<1> USE DEF PREPEND, readableBytes, writableBytes, prependableBytes
<1>1. /\ Len(buffer_) \in Nat /\ Len(data) \in Nat
      /\ buffer_ \in Seq(Byte) /\ out \in Seq(Byte)
      /\ readerIndex_ \in Nat /\ writerIndex_ \in Nat
      /\ readerIndex_ <= writerIndex_ /\ writerIndex_ <= Len(buffer_)
  BY LenProperties DEF TypeOK
<1>2. CASE AppendInPlace(data)
  <2>1. /\ writerIndex_ + Len(data) <= Len(buffer_)
        /\ buffer_' = Copy(buffer_, writerIndex_, data)
        /\ writerIndex_' = writerIndex_ + Len(data) /\ readerIndex_' = readerIndex_ /\ out' = out
    BY <1>1, <1>2 DEF AppendInPlace
  <2>2. /\ buffer_' \in Seq(Byte) /\ Len(buffer_') = Len(buffer_)
        /\ \A i \in 1..Len(buffer_) : buffer_'[i] =
             IF writerIndex_ < i /\ i <= writerIndex_ + Len(data)
             THEN data[i - writerIndex_] ELSE buffer_[i]
    BY <1>1, <2>1, CopyProperties
  <2>3. TypeOK'
    BY <1>1, <2>1, <2>2 DEF TypeOK
  <2>4. writerIndex_' - readerIndex_' = readableBytes + Len(data)
    BY <1>1, <2>1
  <2>5. ASSUME NEW i \in 1..(readableBytes + Len(data))
        PROVE  buffer_'[readerIndex_' + i] =
                 IF i <= readableBytes THEN buffer_[readerIndex_ + i] ELSE data[i - readableBytes]
    <3>1. readerIndex_' + i \in 1..Len(buffer_')
      BY <1>1, <2>1, <2>2
    <3>2. CASE i <= readableBytes
      BY <1>1, <2>1, <2>2, <3>1, <3>2
    <3>3. CASE i > readableBytes
      BY <1>1, <2>1, <2>2, <3>1, <3>3
    <3> QED
      BY <1>1, <3>2, <3>3
  <2> QED
    BY <2>3, <2>4, <2>5
<1>3. CASE AppendGrowing(data)
  <2> DEFINE more  == Len(data) - writableBytes
             grown == buffer_ \o Zeros(more)
  <2>1. /\ more \in Nat /\ more > 0
        /\ buffer_' = Copy(grown, writerIndex_, data)
        /\ writerIndex_' = writerIndex_ + Len(data) /\ readerIndex_' = readerIndex_ /\ out' = out
    BY <1>1, <1>3 DEF AppendGrowing
  <2>2. Zeros(more) \in Seq(Byte) /\ Len(Zeros(more)) = more
    BY <2>1, ZerosIsSeq
  <2> HIDE DEF more
  <2>3. /\ grown \in Seq(Byte) /\ Len(grown) = Len(buffer_) + more
        /\ \A i \in 1..(Len(buffer_) + more) :
             grown[i] = IF i <= Len(buffer_) THEN buffer_[i] ELSE Zeros(more)[i - Len(buffer_)]
    BY <1>1, <2>2, ConcatProperties
  <2> HIDE DEF grown
  <2>4. Len(grown) = writerIndex_ + Len(data)
    BY <1>1, <2>3 DEF more
  <2>5. /\ buffer_' \in Seq(Byte) /\ Len(buffer_') = Len(grown)
        /\ \A i \in 1..Len(grown) : buffer_'[i] =
             IF writerIndex_ < i /\ i <= writerIndex_ + Len(data)
             THEN data[i - writerIndex_] ELSE grown[i]
    BY <1>1, <2>1, <2>3, <2>4, CopyProperties
  <2>6. TypeOK'
    BY <1>1, <2>1, <2>4, <2>5 DEF TypeOK
  <2>7. \A i \in 1..Len(buffer_) : grown[i] = buffer_[i]
    BY <1>1, <2>1, <2>3
  <2>8. writerIndex_' - readerIndex_' = readableBytes + Len(data)
    BY <1>1, <2>1
  <2>9. ASSUME NEW i \in 1..(readableBytes + Len(data))
        PROVE  buffer_'[readerIndex_' + i] =
                 IF i <= readableBytes THEN buffer_[readerIndex_ + i] ELSE data[i - readableBytes]
    <3>1. readerIndex_' + i \in 1..Len(buffer_')
      BY <1>1, <2>1, <2>4, <2>5
    <3>2. CASE i <= readableBytes
      <4>1. /\ readerIndex_' + i = readerIndex_ + i /\ readerIndex_ + i <= writerIndex_
            /\ readerIndex_ + i \in 1..Len(buffer_) /\ ~(writerIndex_ < readerIndex_ + i)
        BY <1>1, <2>1, <3>2
      <4>2. readerIndex_ + i \in 1..Len(grown)
        BY <2>5, <3>1, <4>1
      <4>3. buffer_'[readerIndex_ + i] = grown[readerIndex_ + i]
        BY ONLY <2>5, <4>1, <4>2
      <4>4. grown[readerIndex_ + i] = buffer_[readerIndex_ + i]
        BY ONLY <2>7, <4>1
      <4> QED
        BY <3>2, <4>1, <4>3, <4>4
    <3>3. CASE i > readableBytes
      BY <1>1, <2>1, <2>5, <3>1, <3>3
    <3> QED
      BY <1>1, <3>2, <3>3
  <2> QED
    BY <2>6, <2>8, <2>9
<1>4. CASE AppendMoving(data)
  <2> DEFINE moved == Copy(buffer_, 0, Content)
  <2>1. /\ readableBytes + Len(data) <= Len(buffer_)
        /\ buffer_' = Copy(moved, readableBytes, data)
        /\ readerIndex_' = 0 /\ writerIndex_' = readableBytes + Len(data) /\ out' = out
    BY <1>1, <1>4 DEF AppendMoving, Grows
  <2>2. /\ Content \in Seq(Byte) /\ Len(Content) = readableBytes
        /\ \A i \in 1..readableBytes : Content[i] = buffer_[readerIndex_ + i]
    BY <1>1, ContentProperties DEF Content
  <2>3. /\ moved \in Seq(Byte) /\ Len(moved) = Len(buffer_)
        /\ \A i \in 1..Len(buffer_) :
             moved[i] = IF 0 < i /\ i <= 0 + Len(Content) THEN Content[i - 0] ELSE buffer_[i]
    BY <1>1, <2>2, CopyProperties
  <2> HIDE DEF moved
  <2>4. \A i \in 1..readableBytes : moved[i] = buffer_[readerIndex_ + i]
    BY <1>1, <2>2, <2>3
  <2>5. /\ buffer_' \in Seq(Byte) /\ Len(buffer_') = Len(buffer_)
        /\ \A i \in 1..Len(buffer_) : buffer_'[i] =
             IF readableBytes < i /\ i <= readableBytes + Len(data)
             THEN data[i - readableBytes] ELSE moved[i]
    <3>1. /\ moved \in Seq(Byte) /\ data \in Seq(Byte) /\ readableBytes \in Nat
          /\ readableBytes + Len(data) <= Len(moved)
      BY <1>1, <2>1, <2>3
    <3>2. Len(moved) = Len(buffer_) /\ buffer_' = Copy(moved, readableBytes, data)
      BY <2>1, <2>3
    <3> QED
      BY ONLY <3>1, <3>2, CopyProperties
  <2>6. TypeOK'
    BY <1>1, <2>1, <2>5 DEF TypeOK
  <2>7. writerIndex_' - readerIndex_' = readableBytes + Len(data)
    BY <1>1, <2>1
  <2>8. ASSUME NEW i \in 1..(readableBytes + Len(data))
        PROVE  buffer_'[readerIndex_' + i] =
                 IF i <= readableBytes THEN buffer_[readerIndex_ + i] ELSE data[i - readableBytes]
    <3>1. readerIndex_' + i \in 1..Len(buffer_')
      BY <1>1, <2>1, <2>5
    <3>2. CASE i <= readableBytes
      BY <1>1, <2>1, <2>4, <2>5, <3>1, <3>2
    <3>3. CASE i > readableBytes
      BY <1>1, <2>1, <2>5, <3>1, <3>3
    <3> QED
      BY <1>1, <3>2, <3>3
  <2> QED
    BY <2>6, <2>7, <2>8
<1> QED
  BY <1>2, <1>3, <1>4 DEF AppendBytes

\* A sequence that has the elements of c and then those of d is c \o d.
LEMMA ConcatByElements ==
  ASSUME NEW S, NEW c \in Seq(S), NEW d \in Seq(S), NEW e \in Seq(S),
         Len(e) = Len(c) + Len(d),
         \A i \in 1..Len(e) : e[i] = IF i <= Len(c) THEN c[i] ELSE d[i - Len(c)]
  PROVE  e = c \o d
<1>1. /\ c \o d \in Seq(S) /\ Len(c \o d) = Len(c) + Len(d)
      /\ \A i \in 1..(Len(c) + Len(d)) : (c \o d)[i] =
           IF i <= Len(c) THEN c[i] ELSE d[i - Len(c)]
  BY ConcatProperties
<1>2. \A i \in 1..Len(e) : e[i] = (c \o d)[i]
  BY <1>1
<1> QED
  BY <1>1, <1>2, SeqEqual

\* append adds exactly its argument to the content.
LEMMA AppendConcatenates ==
  ASSUME TypeOK, NEW data \in Seq(Byte), AppendBytes(data)
  PROVE  Content' = Content \o data
<1> DEFINE c == SubSeq(buffer_, readerIndex_ + 1, writerIndex_)
           e == SubSeq(buffer_', readerIndex_' + 1, writerIndex_')
<1>1. /\ TypeOK'
      /\ writerIndex_' - readerIndex_' = readableBytes + Len(data)
      /\ \A i \in 1..(readableBytes + Len(data)) :
           buffer_'[readerIndex_' + i] =
             IF i <= readableBytes THEN buffer_[readerIndex_ + i] ELSE data[i - readableBytes]
  BY AppendEffect
<1>2. /\ c \in Seq(Byte) /\ Len(c) = readableBytes
      /\ \A i \in 1..readableBytes : c[i] = buffer_[readerIndex_ + i]
  BY ContentProperties DEF TypeOK, readableBytes
<1>3. /\ e \in Seq(Byte) /\ Len(e) = writerIndex_' - readerIndex_'
      /\ \A i \in 1..(writerIndex_' - readerIndex_') : e[i] = buffer_'[readerIndex_' + i]
  <2>1. /\ buffer_' \in Seq(Byte) /\ readerIndex_' \in Nat /\ writerIndex_' \in Nat
        /\ readerIndex_' <= writerIndex_' /\ writerIndex_' <= Len(buffer_')
    BY <1>1 DEF TypeOK
  <2> QED
    BY ONLY <2>1, ContentProperties
<1>4. readableBytes \in Nat /\ Len(data) \in Nat
  BY LenProperties DEF TypeOK, readableBytes
<1>5. Content = c /\ Content' = e
  BY DEF Content
<1> HIDE DEF c, e
<1>6. ASSUME NEW i \in 1..Len(e) PROVE e[i] = IF i <= Len(c) THEN c[i] ELSE data[i - Len(c)]
  <2>1. i \in 1..(readableBytes + Len(data)) /\ i \in 1..(writerIndex_' - readerIndex_')
    BY <1>1, <1>3
  <2>2. e[i] = IF i <= readableBytes THEN buffer_[readerIndex_ + i] ELSE data[i - readableBytes]
    BY ONLY <1>1, <1>3, <2>1
  <2>3. i <= readableBytes => c[i] = buffer_[readerIndex_ + i]
    BY ONLY <1>2, <1>4, <2>1
  <2> QED
    BY ONLY <1>2, <2>2, <2>3
<1>7. e = c \o data
  <2>1. /\ c \in Seq(Byte) /\ data \in Seq(Byte) /\ e \in Seq(Byte)
        /\ Len(e) = Len(c) + Len(data)
    BY <1>1, <1>2, <1>3
  <2> QED
    BY ONLY <1>6, <2>1, ConcatByElements
<1> QED
  BY <1>5, <1>7

-----------------------------------------------------------------------------
(* Type correctness.                                                       *)

\* The constructors leave the indices in order.
LEMMA InitTypeOK == Init => TypeOK
<1> SUFFICES ASSUME Init PROVE TypeOK
  OBVIOUS
<1>1. PICK data \in Chunks :
        /\ Len(data) <= PACKETSIZE
        /\ buffer_ = Copy(Zeros(PACKETSIZE), PREPEND, data)
        /\ writerIndex_ = PREPEND + Len(data)
  BY DEF Init
<1>2. data \in Seq(Byte) /\ Len(data) \in Nat
  BY ChunkIsSeq, LenProperties
<1>3. Zeros(PACKETSIZE) \in Seq(Byte) /\ Len(Zeros(PACKETSIZE)) = PACKETSIZE
  BY ZerosIsSeq, BufferAssumption
<1>4. buffer_ \in Seq(Byte) /\ Len(buffer_) = PACKETSIZE
  BY <1>1, <1>2, <1>3, CopyProperties DEF PREPEND
<1>5. out = <<>> /\ readerIndex_ = PREPEND
  BY DEF Init
<1> QED
  BY <1>1, <1>2, <1>4, <1>5, EmptySeq DEF TypeOK, PREPEND

\* hasWritten stays inside the buffer.
LEMMA HasWrittenTypeOK ==
  ASSUME TypeOK, NEW len \in Nat, HasWritten(len) PROVE TypeOK'
<1>1. Len(buffer_) \in Nat
  BY LenProperties DEF TypeOK
<1> QED
  BY <1>1 DEF HasWritten, TypeOK, PREPEND, writableBytes

\* retrieve keeps the indices in order, whether or not it empties the buffer.
LEMMA RetrieveTypeOK ==
  ASSUME TypeOK, NEW len \in Nat, Retrieve(len) PROVE TypeOK'
<1>1. Len(buffer_) \in Nat
  BY LenProperties DEF TypeOK
<1>2. /\ readerIndex_ + len <= writerIndex_
      /\ out' = SubSeq(buffer_, readerIndex_ + 1, readerIndex_ + len)
      /\ buffer_' = buffer_
  BY DEF Retrieve, readableBytes, TypeOK
<1>3. out' \in Seq(Byte)
  BY <1>1, <1>2, ContentProperties DEF TypeOK
<1>4. CASE len < readableBytes
  BY <1>1, <1>2, <1>3, <1>4 DEF Retrieve, TypeOK, PREPEND, readableBytes
<1>5. CASE ~(len < readableBytes)
  BY <1>1, <1>2, <1>3, <1>5 DEF Retrieve, TypeOK, PREPEND
<1> QED
  BY <1>4, <1>5

\* Every step keeps the indices in order.
LEMMA NextTypeOK == TypeOK /\ [Next]_vars => TypeOK'
<1> SUFFICES ASSUME TypeOK, [Next]_vars PROVE TypeOK'
  OBVIOUS
<1>1. CASE \E data \in Chunks : AppendBytes(data)
  BY <1>1, ChunkIsSeq, AppendEffect
<1>2. CASE \E len \in 0..Len(buffer_) : HasWritten(len) \/ Retrieve(len)
  BY <1>2, HasWrittenTypeOK, RetrieveTypeOK
<1>3. CASE UNCHANGED vars
  BY <1>3 DEF TypeOK, vars
<1> QED
  BY <1>1, <1>2, <1>3 DEF Next

\* The content always lies inside the vector: no call reads or writes outside it.
THEOREM BufferTypeCorrect == Spec => []TypeOK
BY InitTypeOK, NextTypeOK, PTL DEF Spec

\* append adds its argument to the content and nothing else (append, makeSpace).
THEOREM AppendIsExact == Spec => AppendsExactly
<1>1. TypeOK /\ [Next]_vars => [\A data \in Chunks : AppendBytes(data) => Content' = Content \o data]_vars
  BY ChunkIsSeq, AppendConcatenates
<1> QED
  BY <1>1, BufferTypeCorrect, PTL DEF Spec, AppendsExactly
-----------------------------------------------------------------------------
(* The buffer implements ByteQueue.                                        *)

\* A part of a part of a sequence is a part of the sequence.
LEMMA PartOfPart ==
  ASSUME NEW b \in Seq(Byte), NEW r \in Nat, NEW w \in Nat, r <= w, w <= Len(b),
         NEW m \in Nat, NEW n \in Nat, m <= n, n <= w - r
  PROVE  SubSeq(SubSeq(b, r + 1, w), m + 1, n) = SubSeq(b, r + m + 1, r + n)
<1> DEFINE c == SubSeq(b, r + 1, w)
           d == SubSeq(c, m + 1, n)
           e == SubSeq(b, (r + m) + 1, r + n)
<1>1. c \in Seq(Byte) /\ Len(c) = w - r /\ \A i \in 1..(w - r) : c[i] = b[r + i]
  BY ContentProperties
<1> HIDE DEF c
<1>2. d \in Seq(Byte) /\ Len(d) = n - m /\ \A i \in 1..(n - m) : d[i] = c[m + i]
  BY <1>1, ContentProperties
<1>3. r + m \in Nat /\ r + n \in Nat /\ r + m <= r + n /\ r + n <= Len(b) /\ (r + n) - (r + m) = n - m
  BY LenProperties
<1>4. e \in Seq(Byte) /\ Len(e) = n - m /\ \A i \in 1..(n - m) : e[i] = b[(r + m) + i]
  BY <1>3, ContentProperties
<1> HIDE DEF d, e
<1>5. ASSUME NEW i \in 1..(n - m) PROVE d[i] = e[i]
  <2>1. m + i \in 1..(w - r) /\ r + (m + i) = (r + m) + i
    OBVIOUS
  <2>2. d[i] = c[m + i] /\ e[i] = b[(r + m) + i]
    BY ONLY <1>2, <1>4, i \in 1..(n - m)
  <2>3. c[m + i] = b[r + (m + i)]
    BY ONLY <1>1, <2>1
  <2> QED
    BY ONLY <2>1, <2>2, <2>3
<1>6. d = e
  BY <1>2, <1>4, <1>5, SeqEqual
<1> QED
  BY <1>6 DEF c, d, e

\* The content is a sequence of readableBytes bytes.
LEMMA ContentIsSeq ==
  ASSUME TypeOK
  PROVE  /\ Content \in Seq(Byte) /\ Len(Content) = readableBytes /\ readableBytes \in Nat
         /\ \A i \in 1..readableBytes : Content[i] = buffer_[readerIndex_ + i]
<1>1. /\ buffer_ \in Seq(Byte) /\ readerIndex_ \in Nat /\ writerIndex_ \in Nat
      /\ readerIndex_ <= writerIndex_ /\ writerIndex_ <= Len(buffer_)
  BY DEF TypeOK
<1>2. writerIndex_ - readerIndex_ \in Nat
  BY ONLY <1>1
<1>3. /\ SubSeq(buffer_, readerIndex_ + 1, writerIndex_) \in Seq(Byte)
      /\ Len(SubSeq(buffer_, readerIndex_ + 1, writerIndex_)) = writerIndex_ - readerIndex_
      /\ \A i \in 1..(writerIndex_ - readerIndex_) :
           SubSeq(buffer_, readerIndex_ + 1, writerIndex_)[i] = buffer_[readerIndex_ + i]
  BY ONLY <1>1, ContentProperties
<1> QED
  BY <1>2, <1>3 DEF Content, readableBytes

\* append is Put: what was readable stays in front.
LEMMA AppendIsPut ==
  ASSUME TypeOK, NEW data \in Seq(Byte), AppendBytes(data)
  PROVE  Queue!Put
<1> DEFINE c == Content
           e == Content'
<1>1. c \in Seq(Byte) /\ e = c \o data
  BY ContentIsSeq, AppendConcatenates
<1>2. out' = out
  BY DEF AppendBytes, AppendInPlace, AppendGrowing, AppendMoving
<1> HIDE DEF c, e
<1>3. /\ e \in Seq(Byte) /\ Len(e) = Len(c) + Len(data)
      /\ \A i \in 1..(Len(c) + Len(data)) :
           e[i] = IF i <= Len(c) THEN c[i] ELSE data[i - Len(c)]
  BY <1>1, ConcatProperties
<1>4. Len(c) \in Nat /\ Len(data) \in Nat
  BY <1>1, LenProperties
<1>5. Len(c) <= Len(e) /\ \A i \in 1..Len(c) : e[i] = c[i]
  BY <1>3, <1>4
<1> QED
  BY <1>2, <1>3, <1>5 DEF Queue!Put, c, e

\* hasWritten is Put as well, of the bytes the caller has put behind the content.
LEMMA HasWrittenIsPut ==
  ASSUME TypeOK, NEW len \in Nat, HasWritten(len)
  PROVE  Queue!Put
<1> DEFINE c == SubSeq(buffer_, readerIndex_ + 1, writerIndex_)
           e == SubSeq(buffer_, readerIndex_ + 1, writerIndex_ + len)
<1>1. /\ buffer_' = buffer_ /\ readerIndex_' = readerIndex_ /\ out' = out
      /\ writerIndex_' = writerIndex_ + len
      /\ Len(buffer_) \in Nat /\ writerIndex_ + len <= Len(buffer_)
  BY LenProperties DEF HasWritten, writableBytes, TypeOK
<1>2. Content = c /\ Content' = e
  BY <1>1 DEF Content
<1>3. /\ c \in Seq(Byte) /\ Len(c) = writerIndex_ - readerIndex_
      /\ \A i \in 1..(writerIndex_ - readerIndex_) : c[i] = buffer_[readerIndex_ + i]
  BY ContentProperties DEF TypeOK
<1>4. /\ e \in Seq(Byte) /\ Len(e) = writerIndex_ + len - readerIndex_
      /\ \A i \in 1..(writerIndex_ + len - readerIndex_) : e[i] = buffer_[readerIndex_ + i]
  <2>1. writerIndex_ + len \in Nat /\ readerIndex_ <= writerIndex_ + len
    BY DEF TypeOK
  <2> QED
    BY <1>1, <2>1, ContentProperties DEF TypeOK
<1> HIDE DEF c, e
<1>5. /\ readerIndex_ \in Nat /\ writerIndex_ \in Nat
      /\ readerIndex_ <= writerIndex_
  BY DEF TypeOK
<1>6. Len(c) <= Len(e)
  BY <1>3, <1>4, <1>5
<1>7. ASSUME NEW i \in 1..Len(c) PROVE e[i] = c[i]
  <2>1. /\ i \in 1..(writerIndex_ - readerIndex_)
        /\ i \in 1..(writerIndex_ + len - readerIndex_)
    BY <1>3, <1>5
  <2> QED
    BY <1>3, <1>4, <2>1
<1> QED
  BY <1>1, <1>2, <1>4, <1>6, <1>7 DEF Queue!Put

\* retrieve is Take: it returns the front of the content and leaves the rest.
LEMMA RetrieveIsTake ==
  ASSUME TypeOK, NEW len \in Nat, Retrieve(len)
  PROVE  len \in 0..Len(Content) /\ Queue!Take(len)
<1>1. /\ Len(Content) = readableBytes /\ readableBytes \in Nat
      /\ len <= readableBytes
      /\ readerIndex_ + readableBytes = writerIndex_
  BY ContentIsSeq DEF Retrieve, readableBytes, TypeOK
<1>2. SubSeq(Content, 1, len) = SubSeq(buffer_, readerIndex_ + 1, readerIndex_ + len)
  <2>1. SubSeq(Content, 0 + 1, len) = SubSeq(buffer_, readerIndex_ + 0 + 1, readerIndex_ + len)
    BY <1>1, PartOfPart DEF Content, TypeOK, readableBytes
  <2> QED
    BY <2>1 DEF TypeOK
<1>3. SubSeq(Content, len + 1, Len(Content)) = SubSeq(buffer_, readerIndex_ + len + 1, writerIndex_)
  <2>1. SubSeq(Content, len + 1, readableBytes)
          = SubSeq(buffer_, readerIndex_ + len + 1, readerIndex_ + readableBytes)
    BY <1>1, PartOfPart DEF Content, TypeOK, readableBytes
  <2> QED
    BY <1>1, <2>1
<1>4. Content' = SubSeq(Content, len + 1, Len(Content))
  <2>1. CASE len < readableBytes
    BY <1>3, <2>1 DEF Retrieve, Content
  <2>2. CASE ~(len < readableBytes)
    <3>1. Content' = SubSeq(buffer_, 0 + 1, 0)
      BY <2>2 DEF Retrieve, Content, PREPEND
    <3>2. SubSeq(buffer_, 0 + 1, 0) = << >>
      BY SubSeqEmpty
    <3>3. readerIndex_ + len + 1 \in Int /\ writerIndex_ \in Int /\ writerIndex_ < readerIndex_ + len + 1
      BY <1>1, <2>2 DEF TypeOK
    <3>4. SubSeq(buffer_, readerIndex_ + len + 1, writerIndex_) = << >>
      BY <3>3, SubSeqEmpty
    <3> QED
      BY <1>3, <3>1, <3>2, <3>4
  <2> QED
    BY <2>1, <2>2
<1>5. out' = SubSeq(Content, 1, len)
  BY <1>2 DEF Retrieve
<1> QED
  BY <1>1, <1>4, <1>5 DEF Queue!Take

\* Every call is a step of the queue.
LEMMA NextIsQueueNext == TypeOK /\ [Next]_vars => [Queue!QNext]_Queue!qvars
<1> SUFFICES ASSUME TypeOK, [Next]_vars PROVE [Queue!QNext]_Queue!qvars
  OBVIOUS
<1>1. CASE \E data \in Chunks : AppendBytes(data)
  BY <1>1, ChunkIsSeq, AppendIsPut DEF Queue!QNext
<1>2. CASE \E len \in 0..Len(buffer_) : HasWritten(len) \/ Retrieve(len)
  BY <1>2, HasWrittenIsPut, RetrieveIsTake DEF Queue!QNext
<1>3. CASE UNCHANGED vars
  BY <1>3 DEF Queue!qvars, vars, Content
<1> QED
  BY <1>1, <1>2, <1>3 DEF Next

\* ArrayBuffer implements a queue of bytes: makeSpace's growing and moving cannot be
\* observed, and no byte is lost, repeated or overtaken.
THEOREM BufferIsQueue == Spec => BehavesAsQueue
<1>1. Init => Queue!QInit
  BY InitTypeOK, ContentIsSeq DEF Queue!QInit, Init
<1> QED
  BY <1>1, NextIsQueueNext, BufferTypeCorrect, PTL DEF Spec, BehavesAsQueue, Queue!QSpec

-----------------------------------------------------------------------------
(* When the vector grows.                                                  *)

\* append keeps the size of the vector, or has more to hold than the vector did.
LEMMA AppendGrowth ==
  ASSUME TypeOK, NEW data \in Seq(Byte), AppendBytes(data)
  PROVE  \/ Len(buffer_') = Len(buffer_)
         \/ Len(buffer_') > Len(buffer_) /\ writerIndex_' - readerIndex_' > Len(buffer_)
<1>1. /\ buffer_ \in Seq(Byte) /\ Len(buffer_) \in Nat /\ Len(data) \in Nat
      /\ readerIndex_ \in Nat /\ writerIndex_ \in Nat
      /\ readerIndex_ <= writerIndex_ /\ writerIndex_ <= Len(buffer_)
      /\ readableBytes = writerIndex_ - readerIndex_
      /\ writableBytes = Len(buffer_) - writerIndex_
  BY LenProperties DEF TypeOK, readableBytes, writableBytes
<1>2. CASE AppendInPlace(data)
  <2>1. writerIndex_ + Len(data) <= Len(buffer_) /\ buffer_' = Copy(buffer_, writerIndex_, data)
    BY <1>1, <1>2 DEF AppendInPlace
  <2> QED
    BY <1>1, <2>1, CopyProperties
<1>3. CASE AppendGrowing(data)
  <2> DEFINE n == Len(data) - writableBytes
             grown == buffer_ \o Zeros(n)
  <2>1. /\ n \in Nat /\ n > 0 /\ Len(buffer_) + n = writerIndex_ + Len(data)
        /\ buffer_' = Copy(grown, writerIndex_, data)
        /\ readerIndex_' = readerIndex_ /\ writerIndex_' = writerIndex_ + Len(data)
        /\ Len(buffer_) - writerIndex_ + readerIndex_ < Len(data)
    BY <1>1, <1>3 DEF AppendGrowing, Grows, prependableBytes, PREPEND
  <2> HIDE DEF n
  <2>2. grown \in Seq(Byte) /\ Len(grown) = Len(buffer_) + n
    <3>1. Zeros(n) \in Seq(Byte) /\ Len(Zeros(n)) = n
      BY <2>1, ZerosIsSeq
    <3> QED
      BY <1>1, <3>1, ConcatProperties
  <2> HIDE DEF grown
  <2>3. Len(buffer_') = Len(buffer_) + n
    BY <1>1, <2>1, <2>2, CopyProperties
  <2> QED
    BY <1>1, <2>1, <2>3
<1>4. CASE AppendMoving(data)
  <2> DEFINE moved == Copy(buffer_, 0, Content)
  <2>1. /\ readableBytes + Len(data) <= Len(buffer_) /\ readableBytes \in Nat
        /\ buffer_' = Copy(moved, readableBytes, data)
    BY <1>1, <1>4 DEF AppendMoving, Grows, prependableBytes, PREPEND
  <2>2. moved \in Seq(Byte) /\ Len(moved) = Len(buffer_)
    BY <1>1, ContentIsSeq, CopyProperties
  <2> HIDE DEF moved
  <2> QED
    BY <1>1, <2>1, <2>2, CopyProperties
<1> QED
  BY <1>2, <1>3, <1>4 DEF AppendBytes

\* The vector never shrinks, and grows only if its content, with what is appended,
\* does not fit (makeSpace).
THEOREM GrowthIsNeeded == Spec => GrowsOnlyWhenFull
<1> DEFINE Step == \/ Len(buffer_') = Len(buffer_)
                   \/ Len(buffer_') > Len(buffer_)
                        /\ writerIndex_' - readerIndex_' > Len(buffer_)
<1>1. TypeOK /\ [Next]_vars => [Step]_vars
  <2> SUFFICES ASSUME TypeOK, Next PROVE Step
    OBVIOUS
  <2>1. CASE \E data \in Chunks : AppendBytes(data)
    BY <2>1, ChunkIsSeq, AppendGrowth
  <2>2. CASE \E len \in 0..Len(buffer_) : HasWritten(len) \/ Retrieve(len)
    BY <2>2 DEF HasWritten, Retrieve
  <2> QED
    BY <2>1, <2>2 DEF Next
<1> QED
  BY <1>1, BufferTypeCorrect, PTL DEF Spec, GrowsOnlyWhenFull
=============================================================================
