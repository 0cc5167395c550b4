------------------------- MODULE LoadBalancerProofs -------------------------
(***************************************************************************)
(* Proofs about LoadBalancer, for any number of backends, sockets and      *)
(* batches: types, the order of batches, the even load within a batch and  *)
(* what may still be forwarded after stop.                                 *)
(***************************************************************************)
EXTENDS LoadBalancer, SequenceTheorems, FiniteSetTheorems, TLAPS
-----------------------------------------------------------------------------
(* Sequences without repetition.                                           *)

\* The elements of a sequence.
LEMMA SeqRange ==
  ASSUME NEW S, NEW s \in Seq(S)
  PROVE  /\ DOMAIN s = 1..Len(s) /\ Len(s) \in Nat
         /\ \A i \in 1..Len(s) : s[i] \in S /\ s[i] \in Range(s)
         /\ Range(s) \subseteq S
         /\ \A x \in Range(s) : \E i \in 1..Len(s) : s[i] = x
<1>1. DOMAIN s = 1..Len(s) /\ Len(s) \in Nat
  BY LenProperties
<1>2. \A i \in 1..Len(s) : s[i] \in S
  BY ElementOfSeq
<1> QED
  BY <1>1, <1>2 DEF Range

\* An order of a finite set lists all of it, each element once.
LEMMA OrderOfSet ==
  ASSUME NEW S, IsFiniteSet(S), NEW s \in SetToSeqs(S)
  PROVE  s \in Seq(S) /\ IsInjective(s) /\ Range(s) = S
<1> DEFINE D == 1..Cardinality(S)
<1>1. Cardinality(S) \in Nat
  BY FS_CardinalityType
<1>2. s \in [D -> S] /\ \A i, j \in D : i # j => s[i] # s[j]
  BY DEF SetToSeqs
<1>3. s \in Seq(S)
  BY <1>1, <1>2, SeqDef
<1>4. IsInjective(s)
  BY <1>2 DEF IsInjective
<1>5. IsFiniteSet(D) /\ Cardinality(D) = Cardinality(S)
  BY <1>1, FS_Interval
<1>6. s \in Injection(D, S)
  BY <1>2, <1>4 DEF Injection
<1>7. s \in Surjection(D, S)
  BY <1>5, <1>6, FS_Injection
<1>8. Range(s) = S
  BY <1>2, <1>7 DEF Surjection, Range
<1> QED
  BY <1>3, <1>4, <1>8

\* A sequence without repetition has as many elements as its length says.
LEMMA DistinctElements ==
  ASSUME NEW S, NEW s \in Seq(S), IsInjective(s)
  PROVE  IsFiniteSet(Range(s)) /\ Cardinality(Range(s)) = Len(s)
<1>1. DOMAIN s = 1..Len(s) /\ Len(s) \in Nat /\ s \in [1..Len(s) -> Range(s)]
  BY SeqRange, LenProperties DEF Range
<1>2. IsFiniteSet(1..Len(s)) /\ Cardinality(1..Len(s)) = Len(s)
  <2>1. ASSUME NEW n \in Nat PROVE IsFiniteSet(1..n) /\ Cardinality(1..n) = n
    <3>1. 1 \in Int /\ n \in Int
      OBVIOUS
    <3>2. IsFiniteSet(1..n) /\ Cardinality(1..n) = IF 1 > n THEN 0 ELSE n - 1 + 1
      BY ONLY <3>1, FS_Interval, Zenon
    <3> QED
      BY ONLY <2>1, <3>2
  <2> QED
    BY ONLY <1>1, <2>1
<1>3. s \in Injection(1..Len(s), Range(s)) /\ s \in Surjection(1..Len(s), Range(s))
  BY <1>1 DEF Injection, Surjection, Range
<1> QED
  BY <1>2, <1>3, FS_Surjection

\* The first element and the rest.
LEMMA HeadAndTail ==
  ASSUME NEW S, NEW s \in Seq(S), s # <<>>
  PROVE  /\ Head(s) \in S /\ Head(s) = s[1] /\ Tail(s) \in Seq(S)
         /\ Len(Tail(s)) = Len(s) - 1 /\ Len(s) >= 1
         /\ \A i \in 1..Len(Tail(s)) : Tail(s)[i] = s[i + 1]
         /\ Range(s) = {Head(s)} \cup Range(Tail(s))
<1>1. /\ Head(s) \in S /\ Tail(s) \in Seq(S) /\ Len(Tail(s)) = Len(s) - 1
      /\ \A i \in 1..Len(Tail(s)) : Tail(s)[i] = s[i + 1]
  BY HeadTailProperties
<1>2. Len(s) >= 1 /\ Head(s) = s[1]
  BY EmptySeq, LenProperties
<1>3. /\ DOMAIN s = 1..Len(s) /\ DOMAIN Tail(s) = 1..Len(Tail(s))
      /\ Len(s) \in Nat
  BY <1>1, LenProperties
<1>4. \A i \in 1..Len(s) : i = 1 \/ (i - 1 \in 1..Len(Tail(s)) /\ s[i] = Tail(s)[i - 1])
  BY <1>1, <1>2, <1>3
<1>5. Range(s) \subseteq {Head(s)} \cup Range(Tail(s))
  <2>1. SUFFICES ASSUME NEW i \in 1..Len(s) PROVE s[i] \in {Head(s)} \cup Range(Tail(s))
    BY <1>3 DEF Range
  <2>2. i = 1 => s[i] = Head(s)
    BY <1>2
  <2>3. i # 1 => s[i] \in Range(Tail(s))
    BY <1>3, <1>4 DEF Range
  <2> QED
    BY <2>2, <2>3
<1>6. {Head(s)} \cup Range(Tail(s)) \subseteq Range(s)
  <2>1. Head(s) \in Range(s)
    BY <1>2, <1>3 DEF Range
  <2>2. \A i \in 1..Len(Tail(s)) : i + 1 \in 1..Len(s) /\ Tail(s)[i] = s[i + 1]
    BY <1>1, <1>3
  <2>3. Range(Tail(s)) \subseteq Range(s)
    BY <1>3, <2>2 DEF Range
  <2> QED
    BY <2>1, <2>3
<1> QED
  BY <1>1, <1>2, <1>5, <1>6

\* The rest of a sequence without repetition.
LEMMA DistinctTail ==
  ASSUME NEW S, NEW s \in Seq(S), s # <<>>, IsInjective(s)
  PROVE  IsInjective(Tail(s)) /\ Head(s) \notin Range(Tail(s))
<1>1. /\ Head(s) = s[1] /\ Tail(s) \in Seq(S) /\ Len(Tail(s)) = Len(s) - 1 /\ Len(s) >= 1
      /\ \A i \in 1..Len(Tail(s)) : Tail(s)[i] = s[i + 1]
  BY HeadAndTail
<1>2. /\ DOMAIN s = 1..Len(s) /\ DOMAIN Tail(s) = 1..Len(Tail(s)) /\ Len(s) \in Nat
  BY <1>1, LenProperties
<1>3. IsInjective(Tail(s))
  BY <1>1, <1>2 DEF IsInjective
<1>4. \A i \in 1..Len(Tail(s)) : Tail(s)[i] # Head(s)
  BY <1>1, <1>2 DEF IsInjective
<1> QED
  BY <1>2, <1>3, <1>4 DEF Range

\* Appending.
LEMMA AppendFacts ==
  ASSUME NEW S, NEW s \in Seq(S), NEW e \in S
  PROVE  /\ Append(s, e) \in Seq(S) /\ Len(Append(s, e)) = Len(s) + 1
         /\ \A i \in 1..Len(s) : Append(s, e)[i] = s[i]
         /\ Append(s, e)[Len(s) + 1] = e
BY AppendProperties, LenProperties

\* Taking one element out keeps the rest, without repetition.
LEMMA DistinctRemoveAt ==
  ASSUME NEW S, NEW s \in Seq(S), IsInjective(s), NEW i \in 1..Len(s)
  PROVE  RemoveAt(s, i) \in Seq(S) /\ IsInjective(RemoveAt(s, i))
<1> DEFINE a == SubSeq(s, 1, i - 1)
           b == SubSeq(s, i + 1, Len(s))
<1>1. DOMAIN s = 1..Len(s) /\ Len(s) \in Nat /\ i \in Nat /\ \A j \in 1..Len(s) : s[j] \in S
  BY LenProperties, ElementOfSeq
<1>0. Len(s) \in Nat /\ i \in Nat /\ 1 <= i /\ i <= Len(s)
  BY <1>1
<1>2. /\ a \in Seq(S) /\ Len(a) = IF 1 <= i - 1 THEN (i - 1) - 1 + 1 ELSE 0
      /\ \A j \in 1..(i - 1) - 1 + 1 : a[j] = s[1 + j - 1]
  BY <1>1, SubSeqProperties
<1>3. /\ b \in Seq(S) /\ Len(b) = IF i + 1 <= Len(s) THEN Len(s) - (i + 1) + 1 ELSE 0
      /\ \A j \in 1..Len(s) - (i + 1) + 1 : b[j] = s[(i + 1) + j - 1]
  BY <1>1, SubSeqProperties
<1> HIDE DEF a, b
<1>a. Len(a) = i - 1 /\ \A j \in 1..Len(a) : a[j] = s[j]
  BY <1>1, <1>2
<1>b. Len(b) = Len(s) - i /\ \A j \in 1..Len(b) : b[j] = s[i + j]
  <2>1. Len(b) = Len(s) - i
    BY <1>0, <1>3
  <2>2. ASSUME NEW j \in 1..Len(b) PROVE b[j] = s[i + j]
    <3>1. j \in 1..Len(s) - (i + 1) + 1 /\ (i + 1) + j - 1 = i + j
      BY <1>1, <2>1
    <3>2. b[j] = s[(i + 1) + j - 1]
      BY <1>3, <3>1
    <3> QED
      BY <3>1, <3>2
  <2> QED
    BY <2>1, <2>2
<1>4. /\ a \o b \in Seq(S) /\ Len(a \o b) = Len(a) + Len(b)
      /\ \A j \in 1..Len(a) + Len(b) : (a \o b)[j] = IF j <= Len(a) THEN a[j] ELSE b[j - Len(a)]
  BY <1>2, <1>3, ConcatProperties
<1>5. \A j \in 1..Len(a \o b) : (a \o b)[j] = IF j < i THEN s[j] ELSE s[j + 1]
  BY <1>1, <1>a, <1>b, <1>4
<1>6. IsInjective(a \o b)
  <2>1. DOMAIN (a \o b) = 1..Len(a \o b) /\ Len(a \o b) = Len(s) - 1
    BY <1>1, <1>a, <1>b, <1>4, LenProperties
  <2>2. ASSUME NEW j \in 1..Len(a \o b), NEW k \in 1..Len(a \o b), (a \o b)[j] = (a \o b)[k]
        PROVE  j = k
    <3>0. /\ j \in Nat /\ k \in Nat /\ 1 <= j /\ j <= Len(s) - 1 /\ 1 <= k /\ k <= Len(s) - 1
      BY <1>0, <2>1
    <3>1. PICK m \in 1..Len(s) : m = (IF j < i THEN j ELSE j + 1) /\ (a \o b)[j] = s[m]
      BY <1>1, <1>5, <3>0
    <3>2. PICK n \in 1..Len(s) : n = (IF k < i THEN k ELSE k + 1) /\ (a \o b)[k] = s[n]
      BY <1>1, <1>5, <3>0
    <3>3. m = n
      BY <1>1, <2>2, <3>1, <3>2 DEF IsInjective
    <3> QED
      BY <1>1, <3>0, <3>1, <3>2, <3>3
  <2> QED
    BY <2>1, <2>2 DEF IsInjective
<1> QED
  BY <1>4, <1>6 DEF RemoveAt, a, b
-----------------------------------------------------------------------------
(* Types.                                                                  *)

\* What the sequences are sequences of, and that nothing is in one of them twice.
SeqsOK ==
  /\ backend_ \in Seq(Backends) /\ IsInjective(backend_)
  /\ sock_queue_ \in Seq(Batches) /\ pushed \in Seq(Batches)
  /\ sockes_ \in Seq(Socks) /\ IsInjective(sockes_)
  /\ forwarded \in Seq(SUBSET (Socks \X Backends))

\* A sequence over a smaller set.
LEMMA SeqWidens == ASSUME NEW S, NEW T, S \subseteq T, NEW s \in Seq(S) PROVE s \in Seq(T)
BY LenProperties, ElementOfSeq, SeqDef

\* A batch is a sequence of sockets without repetition.
LEMMA BatchFacts ==
  ASSUME NEW batch \in Batches PROVE batch \in Seq(Socks) /\ IsInjective(batch)
<1>1. PICK S \in SUBSET Socks : batch \in SetToSeqs(S)
  BY DEF Batches, SetToAllKPermutations
<1>2. IsFiniteSet(S)
  BY FS_Subset, LoadBalancerAssumption
<1>3. batch \in Seq(S) /\ IsInjective(batch)
  BY <1>1, <1>2, OrderOfSet
<1> QED
  BY <1>3, SeqWidens

\* The backends and their number, from SeqsOK.
LEMMA BackendsListed ==
  ASSUME SeqsOK
  PROVE  /\ Range(backend_) \subseteq Backends /\ Cardinality(Range(backend_)) = Len(backend_)
         /\ DOMAIN backend_ = 1..Len(backend_) /\ Len(backend_) \in Nat
         /\ \A i \in 1..Len(backend_) : backend_[i] \in Backends
BY SeqRange, DistinctElements DEF SeqsOK

\* Position finds an element that is listed.
LEMMA PositionFacts ==
  ASSUME SeqsOK
  PROVE  /\ \A i \in 1..Len(backend_) : Position(backend_[i]) = i
         /\ \A b \in Range(backend_) : /\ Position(b) \in 1..Len(backend_)
                                       /\ backend_[Position(b)] = b
<1>1. DOMAIN backend_ = 1..Len(backend_)
  BY BackendsListed
<1>2. ASSUME NEW b \in Range(backend_)
      PROVE  Position(b) \in DOMAIN backend_ /\ backend_[Position(b)] = b
  <2>1. \E i \in DOMAIN backend_ : backend_[i] = b
    BY DEF Range
  <2> QED
    BY <2>1 DEF Position
<1>3. ASSUME NEW i \in 1..Len(backend_) PROVE Position(backend_[i]) = i
  <2>1. backend_[i] \in Range(backend_)
    BY <1>1 DEF Range
  <2>2. Position(backend_[i]) \in DOMAIN backend_ /\ backend_[Position(backend_[i])] = backend_[i]
    BY <1>2, <2>1
  <2> QED
    BY <1>1, <2>2 DEF SeqsOK, IsInjective
<1> QED
  BY <1>1, <1>2, <1>3

\* ++iter stays within the list.
LEMMA AfterType == ASSUME SeqsOK, NEW b \in Range(backend_) PROVE After(b) \in Backends
<1>1. /\ Position(b) \in 1..Len(backend_) /\ Len(backend_) \in Nat
      /\ \A i \in 1..Len(backend_) : backend_[i] \in Backends
  BY PositionFacts, BackendsListed
<1> QED
  BY <1>1 DEF After

\* Erasing a backend.
LEMMA WithoutType == ASSUME SeqsOK, NEW b PROVE Without(b) \in Seq(Backends) /\ IsInjective(Without(b))
<1>1. CASE b \in Range(backend_)
  <2>1. Position(b) \in 1..Len(backend_)
    BY <1>1, PositionFacts
  <2> QED
    BY <1>1, <2>1, DistinctRemoveAt DEF Without, SeqsOK
<1>2. CASE b \notin Range(backend_)
  BY <1>2 DEF Without, SeqsOK
<1> QED
  BY <1>1, <1>2

\* The part of TypeOK that follows from SeqsOK.
LEMMA SeqsGiveTypes ==
  ASSUME SeqsOK
  PROVE  /\ Range(backend_) \subseteq Backends /\ Cardinality(Range(backend_)) = Len(backend_)
         /\ Range(sock_queue_) \subseteq Batches /\ Range(sockes_) \subseteq Socks
BY BackendsListed, SeqRange DEF SeqsOK

\* The health check takes no backend off the list: time is never negative after the loop.
LEMMA EchoKeepsBackends == ASSUME CheckEcho PROVE UNCHANGED <<backend_, iter>>
<1>1. \A s : \A time \in TimeLeft(s) : ~(time < 0)
  BY DEF TimeLeft
<1> QED
  BY <1>1 DEF CheckEcho

\* What the timer's thread and a failing backend leave alone.
LEMMA CheckFrame ==
  ASSUME Check \/ \E b \in Backends, s \in Failures : Fail(b, s)
  PROVE  UNCHANGED <<backend_, checked_, sock_queue_, lbVars, stopVars, changes, pushed, forwarded>>
<1>1. CASE CheckEcho
  BY <1>1, EchoKeepsBackends DEF CheckEcho, lbVars
<1> QED
  BY <1>1 DEF Check, StartCheck, Visit, CheckConnect, CheckHangs, Fail

\* The sequences stay what they are.
LEMMA NextSeqs == ASSUME SeqsOK, sock_map \subseteq Socks \X Backends, [Next]_vars PROVE SeqsOK'
<1> USE DEF SeqsOK
<1>1. CASE \E batch \in Batches : UpdateForLoadbalance(batch)
  BY <1>1, AppendFacts DEF UpdateForLoadbalance, lbVars
<1>2. CASE \E b \in Backends : AddBackend(b)
  <2>1. PICK b \in Backends : AddBackend(b)
    BY <1>2
  <2>2. UNCHANGED <<sock_queue_, pushed, sockes_, forwarded>>
    BY <2>1 DEF AddBackend, lbVars
  <2>3. CASE UNCHANGED backend_
    BY <2>2, <2>3
  <2>4. CASE backend_' \in SetToSeqs(Range(backend_) \cup {b})
    <3>1. backend_' \in SetToSeqs(Range(backend_) \cup {b})
      BY <2>4
    <3>2. Range(backend_) \cup {b} \subseteq Backends
      BY BackendsListed
    <3>3. IsFiniteSet(Range(backend_) \cup {b})
      BY <3>2, FS_Subset, LoadBalancerAssumption
    <3>4. backend_' \in Seq(Range(backend_) \cup {b}) /\ IsInjective(backend_')
      BY <3>1, <3>3, OrderOfSet
    <3>5. backend_' \in Seq(Backends)
      BY <3>2, <3>4, SeqWidens
    <3> QED
      BY <2>2, <3>4, <3>5
  <2> QED
    BY <2>1, <2>3, <2>4 DEF AddBackend
<1>3. CASE \E b \in Backends : RemoveBackend(b)
  BY <1>3, WithoutType DEF RemoveBackend, Erase
<1>4. CASE Stop \/ CheckStop \/ InvalidIterator \/ Handler
  BY <1>4 DEF Stop, CheckStop, InvalidIterator, Handler, ForwardReturns, ForwardThrows, lbVars
<1>5. CASE TakeBatch
  <2>1. /\ sock_queue_ # <<>> /\ sockes_' = Head(sock_queue_) /\ sock_queue_' = Tail(sock_queue_)
        /\ UNCHANGED <<backend_, pushed, forwarded>>
    BY <1>5 DEF TakeBatch
  <2>2. Head(sock_queue_) \in Batches /\ Tail(sock_queue_) \in Seq(Batches)
    BY <2>1, HeadAndTail
  <2> QED
    BY <2>1, <2>2, BatchFacts
<1>6. CASE AssignOne
  <2>1. /\ sockes_ # <<>> /\ sockes_' = Tail(sockes_)
        /\ UNCHANGED <<backend_, sock_queue_, pushed, forwarded>>
    BY <1>6 DEF AssignOne
  <2>2. Tail(sockes_) \in Seq(Socks) /\ IsInjective(Tail(sockes_))
    BY <2>1, HeadAndTail, DistinctTail
  <2> QED
    BY <2>1, <2>2
<1>7. CASE NotifyForward
  <2>1. /\ forwarded' = Append(forwarded, sock_map)
        /\ UNCHANGED <<backend_, sock_queue_, pushed, sockes_>>
    BY <1>7 DEF NotifyForward
  <2>2. forwarded' \in Seq(SUBSET (Socks \X Backends))
    BY <2>1, AppendFacts
  <2> QED
    BY <2>1, <2>2
<1>8. CASE Check \/ \E b \in Backends, s \in Failures : Fail(b, s)
  BY <1>8, CheckFrame DEF lbVars
<1>9. CASE UNCHANGED vars
  BY <1>9 DEF vars, lbVars
<1> QED
  BY <1>1, <1>2, <1>3, <1>4, <1>5, <1>6, <1>7, <1>8, <1>9 DEF Next, Balance
-----------------------------------------------------------------------------
(* The order of batches.                                                   *)

\* How many batches have been taken off the queue.
Taken == Len(forwarded) + (IF BatchInHand THEN 1 ELSE 0)

\* The queue is the part of what was pushed that has not been taken.
QueueIsTheRest ==
  /\ Taken + Len(sock_queue_) = Len(pushed) /\ Len(pushed) <= MaxBatches
  /\ \A i \in 1..Len(sock_queue_) : sock_queue_[i] = pushed[Taken + i]

\* What has been forwarded, and what is in hand, are the batches before it.
TakenInOrder ==
  /\ \A i \in 1..Len(forwarded) : SocksOf(forwarded[i]) = Range(pushed[i])
  /\ BatchInHand => SocksOf(sock_map) \cup Range(sockes_) = Range(pushed[Len(forwarded) + 1])

OrderInv == QueueIsTheRest /\ TakenInOrder

\* The lengths are natural numbers.
LEMMA Lengths ==
  ASSUME SeqsOK
  PROVE  /\ Len(pushed) \in Nat /\ Len(sock_queue_) \in Nat /\ Len(forwarded) \in Nat
         /\ Taken \in Nat
<1>1. Len(pushed) \in Nat /\ Len(sock_queue_) \in Nat /\ Len(forwarded) \in Nat
  BY LenProperties DEF SeqsOK
<1> QED
  BY <1>1 DEF Taken

\* A step that neither pushes, takes, assigns nor forwards.
LEMMA QuietOrder ==
  ASSUME OrderInv, UNCHANGED <<sock_queue_, pushed, forwarded, sock_map, sockes_, BatchInHand>>
  PROVE  OrderInv'
BY DEF OrderInv, QueueIsTheRest, TakenInOrder, Taken

\* A batch is pushed.
LEMMA PushOrder ==
  ASSUME SeqsOK, OrderInv, NEW batch \in Batches, UpdateForLoadbalance(batch) PROVE OrderInv'
<1>1. /\ Len(pushed) < MaxBatches /\ sock_queue_' = Append(sock_queue_, batch)
      /\ pushed' = Append(pushed, batch)
      /\ UNCHANGED <<forwarded, sock_map, sockes_, BatchInHand, Taken>>
  BY DEF UpdateForLoadbalance, lbVars, BatchInHand, Taken
<1>2. /\ Len(pushed) \in Nat /\ Len(sock_queue_) \in Nat /\ Len(forwarded) \in Nat /\ Taken \in Nat
      /\ Taken + Len(sock_queue_) = Len(pushed)
      /\ MaxBatches \in Nat
      /\ BatchInHand => Taken = Len(forwarded) + 1
      /\ Taken >= Len(forwarded)
  BY Lengths, LoadBalancerAssumption DEF OrderInv, QueueIsTheRest, Taken
<1>3. /\ Len(pushed') = Len(pushed) + 1 /\ Len(sock_queue_') = Len(sock_queue_) + 1
      /\ \A i \in 1..Len(pushed) : pushed'[i] = pushed[i]
      /\ \A i \in 1..Len(sock_queue_) : sock_queue_'[i] = sock_queue_[i]
      /\ pushed'[Len(pushed) + 1] = batch /\ sock_queue_'[Len(sock_queue_) + 1] = batch
  BY <1>1, AppendFacts DEF SeqsOK
<1>4. QueueIsTheRest'
  <2>1. Taken' + Len(sock_queue_') = Len(pushed') /\ Len(pushed') <= MaxBatches
    BY <1>1, <1>2, <1>3
  <2>2. ASSUME NEW i \in 1..Len(sock_queue_') PROVE sock_queue_'[i] = pushed'[Taken' + i]
    <3>1. CASE i = Len(sock_queue_) + 1
      <4>1. Taken + i = Len(pushed) + 1
        BY <1>2, <3>1
      <4> QED
        BY <1>1, <1>3, <3>1, <4>1
    <3>2. CASE i # Len(sock_queue_) + 1
      <4>1. i \in 1..Len(sock_queue_) /\ Taken + i \in 1..Len(pushed)
        BY <1>2, <1>3, <3>2
      <4>2. sock_queue_[i] = pushed[Taken + i]
        BY <4>1 DEF OrderInv, QueueIsTheRest
      <4> QED
        BY <1>1, <1>3, <4>1, <4>2
    <3> QED
      BY <3>1, <3>2
  <2> QED
    BY <2>1, <2>2 DEF QueueIsTheRest
<1>5. TakenInOrder'
  <2>1. \A i \in 1..Len(forwarded) : i \in 1..Len(pushed)
    BY <1>2
  <2>2. BatchInHand => Len(forwarded) + 1 \in 1..Len(pushed)
    BY <1>2
  <2> QED
    BY <1>1, <1>3, <2>1, <2>2 DEF OrderInv, TakenInOrder
<1> QED
  BY <1>4, <1>5 DEF OrderInv

\* The first batch is taken.
LEMMA TakeOrder == ASSUME SeqsOK, OrderInv, TakeBatch PROVE OrderInv'
<1>1. /\ lpc = "idle" /\ lpc' = "assign" /\ sock_queue_ # <<>> /\ sock_map' = {}
      /\ sockes_' = Head(sock_queue_) /\ sock_queue_' = Tail(sock_queue_)
      /\ UNCHANGED <<pushed, forwarded>>
  BY DEF TakeBatch
<1>2. ~BatchInHand /\ BatchInHand' /\ Taken = Len(forwarded) /\ Taken' = Len(forwarded) + 1
  <2>1. ~BatchInHand /\ BatchInHand'
    BY <1>1 DEF BatchInHand
  <2>2. Len(forwarded) \in Nat
    BY Lengths
  <2> QED
    BY <1>1, <2>1, <2>2 DEF Taken
<1>3. /\ Len(sock_queue_') = Len(sock_queue_) - 1 /\ Len(sock_queue_) >= 1
      /\ Head(sock_queue_) = sock_queue_[1]
      /\ \A i \in 1..Len(sock_queue_') : sock_queue_'[i] = sock_queue_[i + 1]
  BY <1>1, HeadAndTail DEF SeqsOK
<1>4. /\ Len(pushed) \in Nat /\ Len(sock_queue_) \in Nat /\ Len(forwarded) \in Nat
      /\ Len(forwarded) + Len(sock_queue_) = Len(pushed) /\ Len(pushed) <= MaxBatches
      /\ \A i \in 1..Len(sock_queue_) : sock_queue_[i] = pushed[Len(forwarded) + i]
  BY <1>2, Lengths DEF OrderInv, QueueIsTheRest
<1>5. QueueIsTheRest'
  <2>1. Taken' + Len(sock_queue_') = Len(pushed') /\ Len(pushed') <= MaxBatches
    BY <1>1, <1>2, <1>3, <1>4
  <2>2. ASSUME NEW i \in 1..Len(sock_queue_') PROVE sock_queue_'[i] = pushed'[Taken' + i]
    <3>1. i + 1 \in 1..Len(sock_queue_) /\ Taken' + i = Len(forwarded) + (i + 1)
      BY <1>2, <1>3, <1>4
    <3>2. sock_queue_[i + 1] = pushed[Len(forwarded) + (i + 1)]
      BY <1>4, <3>1
    <3> QED
      BY <1>1, <1>3, <3>1, <3>2
  <2> QED
    BY <2>1, <2>2 DEF QueueIsTheRest
<1>6. TakenInOrder'
  <2>1. sock_queue_[1] = pushed[Len(forwarded) + 1]
    BY <1>3, <1>4
  <2>2. SocksOf(sock_map') = {}
    BY <1>1 DEF SocksOf
  <2>3. SocksOf(sock_map') \cup Range(sockes_') = Range(pushed[Len(forwarded) + 1])
    BY <1>1, <1>3, <2>1, <2>2
  <2> QED
    BY <1>1, <2>3 DEF OrderInv, TakenInOrder
<1> QED
  BY <1>5, <1>6 DEF OrderInv

\* One socket of the batch in hand gets a backend.
LEMMA AssignOrder == ASSUME SeqsOK, OrderInv, AssignOne PROVE OrderInv'
<1>1. /\ sockes_ # <<>> /\ sock_map' = sock_map \cup {<<Head(sockes_), iter>>}
      /\ sockes_' = Tail(sockes_)
      /\ UNCHANGED <<sock_queue_, pushed, forwarded, lpc, BatchInHand, Taken>>
  BY DEF AssignOne, BatchInHand, Taken
<1>2. Range(sockes_) = {Head(sockes_)} \cup Range(Tail(sockes_))
  BY <1>1, HeadAndTail DEF SeqsOK
<1>3. SocksOf(sock_map') = SocksOf(sock_map) \cup {Head(sockes_)}
  <2> DEFINE new == <<Head(sockes_), iter>>
  <2>1. new[1] = Head(sockes_)
    OBVIOUS
  <2> HIDE DEF new
  <2>2. sock_map' = sock_map \cup {new}
    BY <1>1 DEF new
  <2> QED
    BY <2>1, <2>2 DEF SocksOf
<1>4. SocksOf(sock_map') \cup Range(sockes_') = SocksOf(sock_map) \cup Range(sockes_)
  BY <1>1, <1>2, <1>3
<1> QED
  BY <1>1, <1>4 DEF OrderInv, QueueIsTheRest, TakenInOrder

\* The batch in hand is forwarded.
LEMMA ForwardOrder ==
  ASSUME SeqsOK, sock_map \subseteq Socks \X Backends, OrderInv, NotifyForward PROVE OrderInv'
<1>1. /\ lpc = "assign" /\ lpc' = "forward" /\ sockes_ = <<>>
      /\ forwarded' = Append(forwarded, sock_map) /\ UNCHANGED <<sock_queue_, pushed>>
  BY DEF NotifyForward
<1>2. /\ Len(forwarded) \in Nat /\ Len(forwarded') = Len(forwarded) + 1
      /\ \A i \in 1..Len(forwarded) : forwarded'[i] = forwarded[i]
      /\ forwarded'[Len(forwarded) + 1] = sock_map
  BY <1>1, Lengths, AppendFacts DEF SeqsOK
<1>3. BatchInHand /\ ~BatchInHand' /\ Taken' = Taken
  BY <1>1, <1>2 DEF BatchInHand, Taken
<1>4. QueueIsTheRest'
  BY <1>1, <1>3 DEF OrderInv, QueueIsTheRest
<1>5. Range(sockes_) = {}
  BY <1>1 DEF Range
<1>6. SocksOf(sock_map) = Range(pushed[Len(forwarded) + 1])
  BY <1>3, <1>5 DEF OrderInv, TakenInOrder
<1>7. ASSUME NEW i \in 1..Len(forwarded') PROVE SocksOf(forwarded'[i]) = Range(pushed'[i])
  <2>1. CASE i = Len(forwarded) + 1
    BY <1>1, <1>2, <1>6, <2>1
  <2>2. CASE i # Len(forwarded) + 1
    <3>1. i \in 1..Len(forwarded)
      BY <1>2, <2>2
    <3> QED
      BY <1>1, <1>2, <3>1 DEF OrderInv, TakenInOrder
  <2> QED
    BY <2>1, <2>2
<1> QED
  BY <1>3, <1>4, <1>7 DEF OrderInv, TakenInOrder

\* Every step.
LEMMA NextOrder ==
  ASSUME SeqsOK, sock_map \subseteq Socks \X Backends, OrderInv, [Next]_vars PROVE OrderInv'
<1>1. CASE \E batch \in Batches : UpdateForLoadbalance(batch)
  BY <1>1, PushOrder
<1>2. CASE TakeBatch
  BY <1>2, TakeOrder
<1>3. CASE AssignOne
  BY <1>3, AssignOrder
<1>4. CASE NotifyForward
  BY <1>4, ForwardOrder
<1>5. CASE CheckStop \/ InvalidIterator \/ Handler
  BY <1>5, QuietOrder DEF CheckStop, InvalidIterator, Handler, ForwardReturns, ForwardThrows,
     BatchInHand
<1>6. CASE (\E b \in Backends : AddBackend(b) \/ RemoveBackend(b)) \/ Stop \/ UNCHANGED vars
  BY <1>6, QuietOrder DEF AddBackend, RemoveBackend, Stop, vars, lbVars, BatchInHand
<1>7. CASE Check \/ \E b \in Backends, s \in Failures : Fail(b, s)
  BY <1>7, CheckFrame, QuietOrder DEF lbVars, BatchInHand
<1> QED
  BY <1>1, <1>2, <1>3, <1>4, <1>5, <1>6, <1>7 DEF Next, Balance
-----------------------------------------------------------------------------
(* Type correctness.                                                       *)

\* The parts of TypeOK that speak of one thread's variables.
BalancerOK ==
  /\ lpc \in {"check", "idle", "assign", "forward", "ended", "thrown", "crash"}
  /\ stop_ \in BOOLEAN
  /\ iter \in Backends \cup {None} /\ sock_map \subseteq Socks \X Backends
CheckerOK ==
  /\ cpc \in {"idle", "visit", "connect", "echo", "hung"}
  /\ unchecked \subseteq Backends /\ checking \in Backends \cup {None}
  /\ checked_ \subseteq Backends /\ status \in [Backends -> Status]

\* The balancing thread's own state, step by step.
LEMMA NextBalancerOK == ASSUME SeqsOK, BalancerOK, [Next]_vars PROVE BalancerOK'
<1> USE DEF BalancerOK
<1>1. CASE TakeBatch
  <2>1. \A i \in 1..Len(backend_) : backend_[i] \in Backends
    BY BackendsListed
  <2>2. backend_ # <<>> => Len(backend_) >= 1 /\ Len(backend_) \in Nat
    BY HeadAndTail, BackendsListed DEF SeqsOK
  <2> QED
    BY <1>1, <2>1, <2>2 DEF TakeBatch, stopVars
<1>2. CASE AssignOne
  <2>1. Head(sockes_) \in Socks /\ iter \in Backends /\ After(iter) \in Backends
    BY <1>2, HeadAndTail, AfterType, BackendsListed DEF AssignOne, SeqsOK
  <2> QED
    BY <1>2, <2>1 DEF AssignOne, stopVars
<1>3. CASE CheckStop \/ InvalidIterator \/ NotifyForward \/ Stop \/ Handler
  BY <1>3 DEF CheckStop, InvalidIterator, NotifyForward, Stop, Handler, ForwardReturns,
     ForwardThrows, stopVars, lbVars
<1>4. CASE \/ \E batch \in Batches : UpdateForLoadbalance(batch)
           \/ \E b \in Backends : AddBackend(b) \/ RemoveBackend(b)
           \/ UNCHANGED vars
  <2>1. UNCHANGED <<lpc, sock_map, stop_>> /\ iter' \in {iter, None}
    BY <1>4 DEF UpdateForLoadbalance, AddBackend, RemoveBackend, Erase, vars, lbVars, stopVars
  <2> QED
    BY <2>1
<1>5. CASE Check \/ \E b \in Backends, s \in Failures : Fail(b, s)
  BY <1>5, CheckFrame DEF lbVars, stopVars
<1> QED
  BY <1>1, <1>2, <1>3, <1>4, <1>5 DEF Next, Balance

\* The health check's own state.
LEMMA NextCheckerOK == ASSUME CheckerOK, [Next]_vars PROVE CheckerOK'
<1> USE DEF CheckerOK
<1>1. CASE Check
  <2>1. CASE StartCheck \/ CheckHangs
    BY <2>1 DEF StartCheck, CheckHangs
  <2>2. CASE \E b \in Backends : Visit(b)
    BY <2>2 DEF Visit, CheckOver
  <2>3. CASE CheckConnect \/ CheckEcho
    BY <2>3 DEF CheckConnect, CheckEcho, CheckOver
  <2> QED
    BY <1>1, <2>1, <2>2, <2>3 DEF Check
<1>2. CASE \E b \in Backends, s \in Failures : Fail(b, s)
  BY <1>2, LoadBalancerAssumption DEF Fail, checkVars, Status
<1>3. CASE \E b \in Backends : AddBackend(b)
  BY <1>3 DEF AddBackend, checkVars
<1>4. CASE \/ Balance \/ Handler \/ Stop \/ UNCHANGED vars
           \/ \E batch \in Batches : UpdateForLoadbalance(batch)
           \/ \E b \in Backends : RemoveBackend(b)
  <2>1. UNCHANGED <<checkVars, checked_, status>>
    BY <1>4 DEF Balance, CheckStop, TakeBatch, AssignOne, InvalidIterator, NotifyForward, Stop,
       UpdateForLoadbalance, RemoveBackend, Handler, ForwardReturns, ForwardThrows, vars
  <2> QED
    BY <2>1 DEF checkVars
<1> QED
  BY <1>1, <1>2, <1>3, <1>4 DEF Next

\* The two counters that TypeOK bounds.
CountersOK == changes \in 0..MaxChanges /\ atStop \in 0..MaxBatches

\* The counters of batches and changes.
LEMMA NextCountersOK == ASSUME SeqsOK, OrderInv, CountersOK, [Next]_vars PROVE CountersOK'
<1> USE LoadBalancerAssumption DEF CountersOK
<1>1. CASE \E b \in Backends : AddBackend(b) \/ RemoveBackend(b)
  BY <1>1 DEF AddBackend, RemoveBackend, stopVars
<1>2. CASE Stop
  <2>1. Len(forwarded) \in 0..MaxBatches
    BY Lengths DEF OrderInv, QueueIsTheRest, Taken
  <2> QED
    BY <1>2, <2>1 DEF Stop
<1>3. CASE Check \/ \E b \in Backends, s \in Failures : Fail(b, s)
  BY <1>3, CheckFrame DEF stopVars
<1>4. CASE \/ Balance \/ Handler \/ UNCHANGED vars
           \/ \E batch \in Batches : UpdateForLoadbalance(batch)
  <2>1. UNCHANGED <<stopVars, changes>>
    BY <1>4 DEF Balance, CheckStop, TakeBatch, AssignOne, InvalidIterator, NotifyForward,
       Handler, ForwardReturns, ForwardThrows, UpdateForLoadbalance, vars
  <2> QED
    BY <2>1 DEF stopVars
<1> QED
  BY <1>1, <1>2, <1>3, <1>4 DEF Next

\* What the theorems below rest on.
LBInv == SeqsOK /\ BalancerOK /\ CheckerOK /\ CountersOK /\ OrderInv

\* At first the queue is empty and every backend is in the set.
LEMMA InitLBInv == Init => LBInv /\ Range(backend_) = Backends
<1> SUFFICES ASSUME Init PROVE LBInv /\ Range(backend_) = Backends
  OBVIOUS
<1>1. backend_ \in Seq(Backends) /\ IsInjective(backend_) /\ Range(backend_) = Backends
  BY OrderOfSet, LoadBalancerAssumption DEF Init
<1>2. /\ sock_queue_ = <<>> /\ pushed = <<>> /\ sockes_ = <<>> /\ forwarded = <<>>
      /\ lpc = "check"
  BY DEF Init
<1>3. SeqsOK
  BY <1>1, <1>2 DEF SeqsOK, IsInjective
<1>4. BalancerOK /\ CheckerOK /\ CountersOK
  <2>1. BalancerOK
    BY DEF Init, BalancerOK
  <2>2. CheckerOK
    BY DEF Init, CheckerOK, Status
  <2>3. CountersOK
    BY LoadBalancerAssumption DEF Init, CountersOK
  <2> QED
    BY <2>1, <2>2, <2>3
<1>5. OrderInv
  <2>1. ~BatchInHand /\ Taken = 0 /\ Len(pushed) = 0 /\ Len(sock_queue_) = 0 /\ Len(forwarded) = 0
    BY <1>2 DEF Taken, BatchInHand
  <2> QED
    BY <2>1, LoadBalancerAssumption DEF OrderInv, QueueIsTheRest, TakenInOrder
<1> QED
  BY <1>1, <1>3, <1>4, <1>5 DEF LBInv

\* Every step keeps the invariant.
LEMMA NextLBInv == LBInv /\ [Next]_vars => LBInv'
BY NextSeqs, NextBalancerOK, NextCheckerOK, NextCountersOK, NextOrder DEF LBInv, BalancerOK

\* The inductive invariant of LoadBalancer holds in every reachable state: the types,
\* the queue in the order of arrival, and a backend in the set once.
THEOREM LBInvariant == Spec => []LBInv
<1>1. Init => LBInv
  BY InitLBInv
<1> QED
  BY <1>1, NextLBInv, PTL DEF Spec

\* Type correctness: the list of backends has none twice, whatever is added and erased
\* while the balancing thread walks it.
THEOREM LoadBalancerTypeCorrect == Spec => []TypeOK
<1>1. LBInv => TypeOK
  BY SeqsGiveTypes DEF LBInv, BalancerOK, CheckerOK, CountersOK, TypeOK
<1> QED
  BY <1>1, LBInvariant, PTL

\* loadbalance and balancing: no batch is lost, forwarded twice or overtaken.
THEOREM BatchesStayInOrder == Spec => []BatchesInOrder
<1>1. LBInv => BatchesInOrder
  BY DEF LBInv, OrderInv, QueueIsTheRest, TakenInOrder, Taken, BatchesInOrder
<1> QED
  BY <1>1, LBInvariant, PTL
-----------------------------------------------------------------------------
(* After stop.                                                             *)

\* Once a batch has been forwarded after stop, the thread is about to see the flag.
StopInv ==
  stop_ => \/ Len(forwarded) <= atStop
           \/ Len(forwarded) = atStop + 1 /\ lpc \in {"forward", "check", "ended", "thrown"}

\* Every step keeps the account of what goes out after stop.
LEMMA NextStop == ASSUME LBInv, StopInv, [Next]_vars PROVE StopInv'
<1>0. Len(forwarded) \in Nat /\ atStop \in Nat
  BY Lengths DEF LBInv, CountersOK
<1>1. CASE Stop
  BY <1>0, <1>1 DEF Stop, StopInv
<1>2. CASE CheckStop \/ Handler
  BY <1>2 DEF CheckStop, Handler, ForwardReturns, ForwardThrows, StopInv, stopVars
<1>3. CASE TakeBatch \/ AssignOne \/ InvalidIterator
  BY <1>3 DEF TakeBatch, AssignOne, InvalidIterator, StopInv, stopVars
<1>4. CASE NotifyForward
  <2>1. Len(forwarded') = Len(forwarded) + 1
    BY <1>4, AppendFacts DEF NotifyForward, LBInv, SeqsOK, BalancerOK
  <2> QED
    BY <1>0, <1>4, <2>1 DEF NotifyForward, StopInv, stopVars
<1>5. CASE Check \/ \E b \in Backends, s \in Failures : Fail(b, s)
  BY <1>5, CheckFrame DEF StopInv, stopVars, lbVars
<1>6. CASE \/ \E batch \in Batches : UpdateForLoadbalance(batch)
           \/ \E b \in Backends : AddBackend(b) \/ RemoveBackend(b)
           \/ UNCHANGED vars
  <2>1. UNCHANGED <<lpc, stopVars, forwarded>>
    BY <1>6 DEF UpdateForLoadbalance, AddBackend, RemoveBackend, vars, lbVars
  <2> QED
    BY <2>1 DEF StopInv, stopVars
<1> QED
  BY <1>1, <1>2, <1>3, <1>4, <1>5, <1>6 DEF Next, Balance

\* stop and loadbalance: after stop at most one more batch is forwarded.
THEOREM StopForwardsAtMostOneMore == Spec => []AtMostOneAfterStop
<1>1. Init => StopInv
  BY DEF Init, StopInv
<1>2. LBInv /\ StopInv => AtMostOneAfterStop
  <2> SUFFICES ASSUME LBInv, StopInv PROVE AtMostOneAfterStop
    OBVIOUS
  <2>1. Len(forwarded) \in Nat /\ atStop \in Nat
    BY Lengths DEF LBInv, CountersOK
  <2> QED
    BY <2>1 DEF StopInv, AtMostOneAfterStop
<1>3. LBInv /\ StopInv /\ [Next]_vars => StopInv'
  BY NextStop
<1> QED
  BY <1>1, <1>2, <1>3, LBInvariant, PTL DEF Spec
-----------------------------------------------------------------------------
(* The load within a batch.                                                *)

\* Every socket of map m has one backend.
OneEach(m) == \A p, q \in m : p[1] = q[1] => p = q

\* balancing has been round the list q times: the backends before iter have one socket
\* more than the others.
InTurn ==
  /\ iter \in Range(backend_)
  /\ \E q \in Nat : \A j \in 1..Len(backend_) :
       LoadIn(sock_map, backend_[j]) = q + (IF j < Position(iter) THEN 1 ELSE 0)

\* The map that is being made: finite, one backend each, and none yet for the sockets
\* still to come.
MapInv ==
  /\ IsFiniteSet(sock_map) /\ OneEach(sock_map)
  /\ \A p \in sock_map : p[1] \notin Range(sockes_)

\* As long as nobody changes the list it holds every backend and the walk is in turn.
TurnInv ==
  changes = 0 => Range(backend_) = Backends /\ (lpc = "assign" => InTurn)

EvenInv == MapInv /\ TurnInv /\ EvenWithinBatch

\* One more pair is one more socket for its backend.
LEMMA LoadAdded ==
  ASSUME NEW m, IsFiniteSet(m), NEW p, p \notin m, NEW b
  PROVE  /\ LoadIn(m, b) \in Nat
         /\ LoadIn(m \cup {p}, b) = LoadIn(m, b) + (IF p[2] = b THEN 1 ELSE 0)
<1> DEFINE M == {x \in m : x[2] = b}
<1>1. IsFiniteSet(M) /\ Cardinality(M) \in Nat /\ p \notin M
  BY FS_Subset, FS_CardinalityType
<1>2. CASE p[2] = b
  <2>1. {x \in m \cup {p} : x[2] = b} = M \cup {p}
    BY <1>2
  <2>2. Cardinality(M \cup {p}) = Cardinality(M) + 1
    BY <1>1, FS_AddElement
  <2> QED
    BY <1>1, <1>2, <2>1, <2>2 DEF LoadIn
<1>3. CASE p[2] # b
  <2>1. {x \in m \cup {p} : x[2] = b} = M
    BY <1>3
  <2> QED
    BY <1>1, <1>3, <2>1 DEF LoadIn
<1> QED
  BY <1>2, <1>3

\* With nothing assigned no backend has a socket.
LEMMA LoadOfNothing == ASSUME NEW b PROVE LoadIn({}, b) = 0
BY FS_EmptySet DEF LoadIn

\* Where iter is after it has moved on.
LEMMA AfterPosition ==
  ASSUME SeqsOK, NEW b \in Range(backend_)
  PROVE  /\ After(b) \in Range(backend_)
         /\ Position(After(b)) = IF Position(b) = Len(backend_) THEN 1 ELSE Position(b) + 1
<1>1. /\ Position(b) \in 1..Len(backend_) /\ Len(backend_) \in Nat
      /\ \A i \in 1..Len(backend_) : Position(backend_[i]) = i /\ backend_[i] \in Range(backend_)
  BY PositionFacts, BackendsListed DEF Range
<1>2. CASE Position(b) = Len(backend_)
  BY <1>1, <1>2 DEF After
<1>3. CASE Position(b) # Len(backend_)
  <2>1. Position(b) + 1 \in 1..Len(backend_)
    BY <1>1, <1>3
  <2> QED
    BY <1>1, <1>3, <2>1 DEF After
<1> QED
  BY <1>2, <1>3

\* The first backend of the list starts a batch.
LEMMA TakeEven == ASSUME LBInv, EvenInv, TakeBatch PROVE EvenInv'
<1>1. /\ sock_map' = {} /\ iter' = (IF backend_ = <<>> THEN None ELSE backend_[1])
      /\ UNCHANGED <<backend_, changes, forwarded>>
  BY DEF TakeBatch
<1>2. MapInv'
  BY <1>1, FS_EmptySet DEF MapInv, OneEach
<1>3. EvenWithinBatch'
  BY <1>1 DEF EvenInv, EvenWithinBatch, LoadIn
<1>4. ASSUME changes' = 0 PROVE Range(backend_') = Backends /\ InTurn'
  <2>1. Range(backend_) = Backends
    BY <1>1, <1>4 DEF EvenInv, TurnInv
  <2>2. backend_ # <<>>
    BY <2>1, LoadBalancerAssumption DEF Range
  <2>3. Len(backend_) >= 1 /\ Len(backend_) \in Nat
    BY <2>2, HeadAndTail, BackendsListed DEF LBInv, SeqsOK
  <2>4. Position(backend_[1]) = 1 /\ backend_[1] \in Range(backend_)
    BY <2>3, PositionFacts, BackendsListed DEF LBInv, Range
  <2>5. iter' = backend_[1] /\ \A b : Position(b)' = Position(b)
    BY <1>1, <2>2 DEF Position
  <2>6. \A j \in 1..Len(backend_) :
          LoadIn(sock_map', backend_[j]) = 0 + (IF j < Position(iter') THEN 1 ELSE 0)
    BY <1>1, <2>3, <2>4, <2>5, LoadOfNothing
  <2> QED
    BY <1>1, <2>1, <2>4, <2>5, <2>6 DEF InTurn, Position, LoadIn
<1> QED
  BY <1>2, <1>3, <1>4 DEF EvenInv, TurnInv

\* One turn of the loop: the next socket to the next backend.
LEMMA AssignEven == ASSUME LBInv, EvenInv, AssignOne PROVE EvenInv'
<1> DEFINE new == <<Head(sockes_), iter>>
<1>1. /\ sockes_ # <<>> /\ iter \in Range(backend_) /\ sock_map' = sock_map \cup {new}
      /\ iter' = After(iter) /\ sockes_' = Tail(sockes_) /\ lpc = "assign" /\ lpc' = "assign"
      /\ UNCHANGED <<backend_, changes, forwarded>>
  BY DEF AssignOne
<1>2. new[1] = Head(sockes_) /\ new[2] = iter
  OBVIOUS
<1> HIDE DEF new
<1>3. /\ Range(sockes_) = {Head(sockes_)} \cup Range(Tail(sockes_))
      /\ Head(sockes_) \notin Range(Tail(sockes_))
  BY <1>1, HeadAndTail, DistinctTail DEF LBInv, SeqsOK
<1>4. new \notin sock_map /\ \A p \in sock_map : p[1] # Head(sockes_)
  BY <1>2, <1>3 DEF EvenInv, MapInv
<1>5. MapInv'
  <2>1. IsFiniteSet(sock_map')
    BY <1>1, FS_AddElement DEF EvenInv, MapInv
  <2>2. OneEach(sock_map')
    BY <1>1, <1>2, <1>4 DEF EvenInv, MapInv, OneEach
  <2>3. \A p \in sock_map' : p[1] \notin Range(sockes_')
    BY <1>1, <1>2, <1>3 DEF EvenInv, MapInv
  <2> QED
    BY <2>1, <2>2, <2>3 DEF MapInv
<1>6. EvenWithinBatch'
  BY <1>1 DEF EvenInv, EvenWithinBatch, LoadIn
<1>7. ASSUME changes' = 0 PROVE Range(backend_') = Backends /\ InTurn'
  <2>1. Range(backend_) = Backends /\ InTurn
    BY <1>1, <1>7 DEF EvenInv, TurnInv
  <2>2. PICK q \in Nat : \A j \in 1..Len(backend_) :
          LoadIn(sock_map, backend_[j]) = q + (IF j < Position(iter) THEN 1 ELSE 0)
    BY <2>1 DEF InTurn
  <2>3. /\ Len(backend_) \in Nat /\ Position(iter) \in 1..Len(backend_)
        /\ \A j \in 1..Len(backend_) : backend_[j] = iter <=> j = Position(iter)
    BY <1>1, PositionFacts, BackendsListed DEF LBInv
  <2>4. /\ After(iter) \in Range(backend_)
        /\ Position(After(iter)) = IF Position(iter) = Len(backend_) THEN 1 ELSE Position(iter) + 1
    BY <1>1, AfterPosition DEF LBInv
  <2>5. ASSUME NEW j \in 1..Len(backend_)
        PROVE  LoadIn(sock_map', backend_[j])
                 = q + (IF j < Position(iter) THEN 1 ELSE 0) + (IF j = Position(iter) THEN 1 ELSE 0)
    <3>1. LoadIn(sock_map', backend_[j])
            = LoadIn(sock_map, backend_[j]) + (IF iter = backend_[j] THEN 1 ELSE 0)
      BY <1>1, <1>2, <1>4, LoadAdded DEF EvenInv, MapInv
    <3> QED
      BY <2>2, <2>3, <3>1
  <2>6. \E r \in Nat : \A j \in 1..Len(backend_) :
          LoadIn(sock_map', backend_[j]) = r + (IF j < Position(After(iter)) THEN 1 ELSE 0)
    <3> DEFINE Rounds(r) == \A j \in 1..Len(backend_) :
                 LoadIn(sock_map', backend_[j]) = r + (IF j < Position(After(iter)) THEN 1 ELSE 0)
    <3>1. CASE Position(iter) = Len(backend_)
      <4>1. Rounds(q + 1) /\ q + 1 \in Nat
        BY <2>3, <2>4, <2>5, <3>1
      <4> HIDE DEF Rounds
      <4>2. \E r \in Nat : Rounds(r)
        BY <4>1
      <4> QED
        BY <4>2 DEF Rounds
    <3>2. CASE Position(iter) # Len(backend_)
      <4>0. /\ Position(After(iter)) = Position(iter) + 1
            /\ Position(iter) \in Nat
        BY <2>3, <2>4, <3>2
      <4>1. Rounds(q) /\ q \in Nat
        <5> SUFFICES ASSUME NEW j \in 1..Len(backend_)
                     PROVE  LoadIn(sock_map', backend_[j])
                              = q + (IF j < Position(iter) + 1 THEN 1 ELSE 0)
          BY <4>0
        <5> QED
          BY <2>5, <4>0
      <4> HIDE DEF Rounds
      <4>2. \E r \in Nat : Rounds(r)
        BY <4>1
      <4> QED
        BY <4>2 DEF Rounds
    <3> QED
      BY <3>1, <3>2
  <2>7. \A b : Position(b)' = Position(b)
    BY <1>1 DEF Position
  <2>8. iter' \in Range(backend_') /\ Position(iter') = Position(After(iter))
    BY <1>1, <2>4
  <2>9. InTurn'
    BY <1>1, <2>6, <2>8 DEF InTurn, Position, LoadIn
  <2> QED
    BY <1>1, <2>1, <2>9
<1> QED
  BY <1>5, <1>6, <1>7 DEF EvenInv, TurnInv

\* The finished map is even.
LEMMA ForwardEven == ASSUME LBInv, EvenInv, NotifyForward PROVE EvenInv'
<1>1. /\ lpc = "assign" /\ lpc' = "forward" /\ forwarded' = Append(forwarded, sock_map)
      /\ sock_map' = {} /\ UNCHANGED <<backend_, changes>>
  BY DEF NotifyForward
<1>2. MapInv'
  BY <1>1, FS_EmptySet DEF MapInv, OneEach
<1>3. TurnInv'
  BY <1>1 DEF EvenInv, TurnInv
<1>4. ASSUME changes = 0
      PROVE  \A a, b \in Backends : LoadIn(sock_map, a) <= LoadIn(sock_map, b) + 1
  <2>1. Range(backend_) = Backends /\ InTurn
    BY <1>1, <1>4 DEF EvenInv, TurnInv
  <2>2. PICK q \in Nat : \A j \in 1..Len(backend_) :
          LoadIn(sock_map, backend_[j]) = q + (IF j < Position(iter) THEN 1 ELSE 0)
    BY <2>1 DEF InTurn
  <2>3. \A j \in 1..Len(backend_) : LoadIn(sock_map, backend_[j]) \in {q, q + 1}
    BY <2>2
  <2>4. \A a \in Backends : LoadIn(sock_map, a) \in {q, q + 1}
    BY <2>1, <2>3, PositionFacts DEF LBInv
  <2> QED
    BY <2>4
<1>5. /\ Len(forwarded) \in Nat /\ Len(forwarded') = Len(forwarded) + 1
      /\ \A i \in 1..Len(forwarded) : forwarded'[i] = forwarded[i]
      /\ forwarded'[Len(forwarded) + 1] = sock_map
  BY <1>1, Lengths, AppendFacts DEF LBInv, SeqsOK, BalancerOK
<1>6. ASSUME NEW i \in 1..Len(forwarded')
      PROVE  /\ OneEach(forwarded'[i])
             /\ changes = 0 => \A a, b \in Backends :
                                 LoadIn(forwarded'[i], a) <= LoadIn(forwarded'[i], b) + 1
  <2>1. CASE i = Len(forwarded) + 1
    BY <1>4, <1>5, <2>1 DEF EvenInv, MapInv
  <2>2. CASE i # Len(forwarded) + 1
    <3>1. i \in 1..Len(forwarded)
      BY <1>5, <2>2
    <3> QED
      BY <1>5, <3>1 DEF EvenInv, EvenWithinBatch, OneEach
  <2> QED
    BY <2>1, <2>2
<1>7. EvenWithinBatch'
  BY <1>1, <1>6 DEF EvenWithinBatch, OneEach, LoadIn
<1> QED
  BY <1>2, <1>3, <1>7 DEF EvenInv

\* A change of the list ends the promise for the load; the maps made stay as they are.
LEMMA ChangeEven ==
  ASSUME LBInv, EvenInv, NEW b \in Backends, AddBackend(b) \/ RemoveBackend(b) PROVE EvenInv'
<1>1. changes' = changes + 1 /\ UNCHANGED <<sock_map, sockes_, forwarded>>
  BY DEF AddBackend, RemoveBackend
<1>2. changes' # 0
  BY <1>1 DEF LBInv, CountersOK
<1> QED
  BY <1>1, <1>2 DEF EvenInv, MapInv, TurnInv, EvenWithinBatch, LoadIn

\* The other steps.
LEMMA QuietEven ==
  ASSUME EvenInv, UNCHANGED <<sock_map, sockes_, iter, backend_, changes, forwarded>>,
         lpc' = "assign" => lpc = "assign"
  PROVE  EvenInv'
<1>1. MapInv' /\ EvenWithinBatch'
  BY DEF EvenInv, MapInv, EvenWithinBatch, LoadIn
<1>2. InTurn => InTurn'
  BY DEF InTurn, LoadIn, Position
<1> QED
  BY <1>1, <1>2 DEF EvenInv, TurnInv

\* Every step keeps the loads of the batch in hand even.
LEMMA NextEven == ASSUME LBInv, EvenInv, [Next]_vars PROVE EvenInv'
<1>1. CASE TakeBatch \/ AssignOne \/ NotifyForward
  BY <1>1, TakeEven, AssignEven, ForwardEven
<1>2. CASE \E b \in Backends : AddBackend(b) \/ RemoveBackend(b)
  BY <1>2, ChangeEven
<1>3. CASE CheckStop \/ InvalidIterator \/ Handler
  BY <1>3, QuietEven DEF CheckStop, InvalidIterator, Handler, ForwardReturns, ForwardThrows
<1>4. CASE Stop \/ (\E batch \in Batches : UpdateForLoadbalance(batch)) \/ UNCHANGED vars
  BY <1>4, QuietEven DEF Stop, UpdateForLoadbalance, vars, lbVars
<1>5. CASE Check \/ \E b \in Backends, s \in Failures : Fail(b, s)
  BY <1>5, CheckFrame, QuietEven DEF lbVars
<1> QED
  BY <1>1, <1>2, <1>3, <1>4, <1>5 DEF Next, Balance

\* balancing: within a batch every socket gets one backend, and while the list stays as it
\* is no backend gets two sockets more than another, for any number of backends.
THEOREM LoadIsEvenWithinBatch == Spec => []EvenWithinBatch
<1>1. Init => EvenInv
  <2> SUFFICES ASSUME Init PROVE EvenInv
    OBVIOUS
  <2>1. sock_map = {} /\ forwarded = <<>> /\ lpc = "check" /\ Range(backend_) = Backends
    BY InitLBInv DEF Init
  <2>2. MapInv
    BY <2>1, FS_EmptySet DEF MapInv, OneEach
  <2> QED
    BY <2>1, <2>2 DEF EvenInv, TurnInv, EvenWithinBatch
<1>2. EvenInv => EvenWithinBatch
  BY DEF EvenInv
<1>3. LBInv /\ EvenInv /\ [Next]_vars => EvenInv'
  BY NextEven
<1> QED
  BY <1>1, <1>2, <1>3, LBInvariant, PTL DEF Spec
=============================================================================
