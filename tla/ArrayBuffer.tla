---------------------------- MODULE ArrayBuffer ----------------------------
(***************************************************************************)
(* reactor::ArrayBuffer: a growing byte buffer.  The bytes at offsets      *)
(* readerIndex_ .. writerIndex_-1 of buffer_ are its content; those before *)
(* have been retrieved, those after are free.  Offsets count from 0, as in *)
(* the code; the byte at offset i is buffer_[i + 1].                       *)
(*                                                                         *)
(* A call that throws leaves the buffer as it was and is not an action.    *)
(* findEOL, peek and the const accessors only read.                        *)
(***************************************************************************)
EXTENDS Integers, Sequences

CONSTANTS
  Byte,       \* the values of a char
  Zero,       \* the byte vector::resize fills in
  PACKETSIZE, \* initSize, at its default
  MaxLen,     \* bound: the longest append
  MaxSize     \* bound: the size up to which appends are made

ASSUME BufferAssumption ==
  /\ Zero \in Byte
  /\ PACKETSIZE \in Nat /\ MaxLen \in Nat /\ MaxSize \in Nat

PREPEND == 0

VARIABLES
  buffer_, readerIndex_, writerIndex_,
  out   \* what the last retrieval took (retrieveAsString returns it)

vars == <<buffer_, readerIndex_, writerIndex_, out>>

\* The arguments of append: at most MaxLen bytes.
Chunks == UNION {[1..n -> Byte] : n \in 0..MaxLen}

Zeros(n) == [i \in 1..n |-> Zero]

readableBytes    == writerIndex_ - readerIndex_
writableBytes    == Len(buffer_) - writerIndex_
prependableBytes == readerIndex_

\* The readable content.
Content == SubSeq(buffer_, readerIndex_ + 1, writerIndex_)

\* buf with the bytes s copied to offset at.
Copy(buf, at, s) ==
  [i \in 1..Len(buf) |-> IF at < i /\ i <= at + Len(s) THEN s[i - at] ELSE buf[i]]

\* Type correctness, and the order of the two indices: nothing outside buffer_ is
\* ever read or written.
TypeOK ==
  /\ buffer_ \in Seq(Byte)
  /\ readerIndex_ \in Nat /\ writerIndex_ \in Nat
  /\ PREPEND <= readerIndex_ /\ readerIndex_ <= writerIndex_ /\ writerIndex_ <= Len(buffer_)
  /\ out \in Seq(Byte)

\* Both constructors, with initSize at its default, as every buffer of the repository
\* has it: data is empty or the bytes copied in, at most PACKETSIZE of them.
Init ==
  /\ \E data \in Chunks :
       /\ Len(data) <= PACKETSIZE
       /\ buffer_ = Copy(Zeros(PACKETSIZE), PREPEND, data)
       /\ writerIndex_ = PREPEND + Len(data)
  /\ readerIndex_ = PREPEND
  /\ out = <<>>
-----------------------------------------------------------------------------
\* makeSpace grows the vector: even moving the content to the front would not do.
Grows(len) == writableBytes + prependableBytes < len + PREPEND

\* append: there is room behind writerIndex_.
AppendInPlace(data) ==
  /\ writableBytes >= Len(data)
  /\ buffer_' = Copy(buffer_, writerIndex_, data)
  /\ writerIndex_' = writerIndex_ + Len(data)
  /\ UNCHANGED <<readerIndex_, out>>

GrowByLength(data) ==
  /\ writableBytes < Len(data)
  /\ buffer_' = Copy(buffer_ \o Zeros(Len(data)), writerIndex_, data)
  /\ writerIndex_' = writerIndex_ + Len(data)
  /\ UNCHANGED <<readerIndex_, out>>
\* append, makeSpace resizes to writerIndex_ + len.
AppendGrowing(data) ==
  /\ writableBytes < Len(data) /\ Grows(Len(data))
  /\ buffer_' = Copy(buffer_ \o Zeros(Len(data) - writableBytes), writerIndex_, data)
  /\ writerIndex_' = writerIndex_ + Len(data)
  /\ UNCHANGED <<readerIndex_, out>>

AppendMovingShort(data) ==
  /\ writableBytes < Len(data) /\ ~Grows(Len(data))
  /\ buffer_' = Copy(Copy(buffer_, PREPEND, Content), PREPEND + readableBytes - 1, data)
  /\ readerIndex_' = PREPEND
  /\ writerIndex_' = PREPEND + readableBytes + Len(data)
  /\ UNCHANGED out
\* append, makeSpace moves the content to the front.
AppendMoving(data) ==
  /\ writableBytes < Len(data) /\ ~Grows(Len(data))
  /\ buffer_' = Copy(Copy(buffer_, PREPEND, Content), PREPEND + readableBytes, data)
  /\ readerIndex_' = PREPEND
  /\ writerIndex_' = PREPEND + readableBytes + Len(data)
  /\ UNCHANGED out

AppendBytes(data) == AppendInPlace(data) \/ AppendGrowing(data) \/ AppendMoving(data)

HasWrittenUnchecked(len) ==
  /\ writerIndex_' = writerIndex_ + len
  /\ UNCHANGED <<buffer_, readerIndex_, out>>
\* hasWritten, after the caller has put len bytes at beginWrite().
HasWritten(len) ==
  /\ len <= writableBytes
  /\ writerIndex_' = writerIndex_ + len
  /\ UNCHANGED <<buffer_, readerIndex_, out>>

\* retrieve, and what is built on it: retrieveAsString, retrieveAllAsString,
\* retrieveUntil(peek() + len), retrieveAll and the retrieveInt family.
Retrieve(len) ==
  /\ len <= readableBytes
  /\ out' = SubSeq(buffer_, readerIndex_ + 1, readerIndex_ + len)
  /\ IF len < readableBytes
     THEN readerIndex_' = readerIndex_ + len /\ UNCHANGED writerIndex_
     ELSE readerIndex_' = PREPEND /\ writerIndex_' = PREPEND
  /\ UNCHANGED buffer_

Next ==
  \/ \E data \in Chunks : Len(buffer_) + Len(data) <= MaxSize /\ AppendBytes(data)
  \/ \E len \in 0..Len(buffer_) : HasWritten(len) \/ Retrieve(len)

Spec == Init /\ [][Next]_vars
-----------------------------------------------------------------------------
\* An ArrayBuffer is a queue of bytes: growing and moving are invisible, and no
\* byte is lost, repeated or overtaken.
Queue == INSTANCE ByteQueue WITH queue <- Content

BehavesAsQueue == Queue!QSpec

\* append adds its argument to the content, all of it and nothing else, whichever
\* way it finds the room.
AppendsExactly ==
  [][\A data \in Chunks : AppendBytes(data) => Content' = Content \o data]_vars

\* The vector grows only when the content, with what is appended, does not fit into
\* it; it never shrinks (makeSpace).
GrowsOnlyWhenFull ==
  [][Len(buffer_') = Len(buffer_)
       \/ (Len(buffer_') > Len(buffer_)
             /\ writerIndex_' - readerIndex_' > Len(buffer_))]_vars
=============================================================================
