----------------------------- MODULE ByteQueue -----------------------------
(***************************************************************************)
(* What a network buffer promises: bytes come out in the order in which    *)
(* they went in, each once.                                                *)
(***************************************************************************)
EXTENDS Integers, Sequences

CONSTANT Byte

VARIABLES
  queue,  \* the bytes written and not yet retrieved
  out     \* the bytes the last retrieval returned

qvars == <<queue, out>>

QInit == queue \in Seq(Byte) /\ out = <<>>

\* Some bytes, possibly none, join the end of the queue.
Put ==
  /\ queue' \in Seq(Byte) /\ Len(queue) <= Len(queue')
  /\ \A i \in 1..Len(queue) : queue'[i] = queue[i]
  /\ UNCHANGED out

\* n bytes leave the front of the queue and are returned.
Take(n) ==
  /\ queue' = SubSeq(queue, n + 1, Len(queue))
  /\ out' = SubSeq(queue, 1, n)

QNext == Put \/ \E n \in 0..Len(queue) : Take(n)

QSpec == QInit /\ [][QNext]_qvars
=============================================================================
