---------------------------- MODULE RProxyProofs ----------------------------
(***************************************************************************)
(* Proofs about the whole process, for any number of descriptors, clients, *)
(* links, sub-reactors and messages: type correctness and the way back of  *)
(* an answer for any number of workers, and, for one worker, that the rest *)
(* of the process keeps what TcpServer relies on.                          *)
(***************************************************************************)
EXTENDS RProxy, TcpServerProofs

\* What the threads of ProxyServer have in hand, by program counter.
ProxyHolds ==
  /\ fpc \in {"establish", "emplace", "lookup", "enter", "read", "send"} => incoming \in Fds
  /\ fpc \in {"emplace", "enter", "read", "send"} => sock \in Fds
  /\ \A k \in Workers : wpc[k] \in {"read", "send"} => wfd[k] \in Fds /\ wdst[k] \in Fds
  /\ \A k \in Workers : wpc[k] = "erase" => wfd[k] \in Fds

\* Type correctness, with what makes it inductive.
RTypeInv == RTypeOK /\ MainHolds /\ ProxyHolds
-----------------------------------------------------------------------------
(* The operators of ProxyServer.                                           *)

\* Workers have epolls of their own.
LEMMA WorkersAreEpolls == Workers \subseteq Epolls /\ Workers \cap Loops = {}
BY SocketsAssumption DEF Workers, Epolls, Loops

\* group_.iter_ stays on a worker.
LEMMA NextWorkerType == ASSUME NEW k \in Workers PROVE NextWorker(k) \in Workers
BY SocketsAssumption DEF Workers, NextWorker

\* A part of a sequence of messages is one.
LEMMA PartType ==
  ASSUME NEW s \in Seq(Msgs), NEW n \in Nat
  PROVE  Prefix(s, n) \in Seq(Msgs) /\ Suffix(s, n) \in Seq(Msgs)
<1> DEFINE m == IF Len(s) < n THEN Len(s) ELSE n
           S == Msgs
<1>1. Len(s) \in Nat /\ m \in Nat /\ m <= Len(s) /\ \A i \in 1..Len(s) : s[i] \in S
  BY LenProperties, ElementOfSeq
<1> HIDE DEF m, S
<1>2. SubSeq(s, 1, m) \in Seq(S)
  BY <1>1, SubSeqProperties
<1>3. SubSeq(s, m + 1, Len(s)) \in Seq(S)
  BY <1>1, SubSeqProperties
<1> QED
  BY <1>2, <1>3 DEF Prefix, Suffix, m, S

\* What read() returns, and what it leaves behind.
LEMMA ReadType ==
  ASSUME KernelTypeOK, NEW c \in Conns \cup {None}
  PROVE  ReadFrom(c) \subseteq Seq(Msgs) /\ AfterRead(c) \in [Conns -> Seq(Msgs)]
<1>1. <<Junk>> \in Seq(Msgs)
  BY DEF Msgs
<1>2. CASE c = None
  BY <1>1, <1>2 DEF ReadFrom, AfterRead, KernelTypeOK
<1>3. CASE c # None
  <2>1. c \in Conns /\ inq[c] \in Seq(Msgs)
    BY <1>3 DEF KernelTypeOK
  <2>2. Prefix(inq[c], ReadMax) \in Seq(Msgs) /\ Suffix(inq[c], ReadMax) \in Seq(Msgs)
    BY <2>1, PartType, ProxyAssumption
  <2> QED
    BY <1>1, <1>3, <2>1, <2>2 DEF ReadFrom, AfterRead, KernelTypeOK
<1> QED
  BY <1>2, <1>3

\* What peers have been sent after a send().
LEMMA DeliveredType ==
  ASSUME RTypeOK, NEW f \in Fds, NEW p \in Seq(Msgs)
  PROVE  Delivered(f, p) \in [Conns -> Seq(Msgs)]
<1>1. got \in [Conns -> Seq(Msgs)] /\ file[f] \in Conns \cup {None}
  BY DEF RTypeOK, TypeOK, KernelTypeOK, ProxyTypeOK
<1>2. CASE file[f] # None /\ peer[file[f]] = "open"
  <2>1. got[file[f]] \o p \in Seq(Msgs)
    BY <1>1, <1>2, ConcatProperties
  <2> QED
    BY <1>1, <1>2, <2>1 DEF Delivered
<1>3. CASE ~(file[f] # None /\ peer[file[f]] = "open")
  BY <1>1, <1>3 DEF Delivered
<1> QED
  BY <1>2, <1>3
-----------------------------------------------------------------------------
(* Type correctness.                                                       *)

\* At first every thread waits and nothing is open.
LEMMA InitRTypeInv == ASSUME NWorkers # 0, RInit PROVE RTypeInv
<1>1. TypeOK
  BY InitTypeOK DEF RInit, Init
<1>2. NLoops + 1 \in Workers
  BY SocketsAssumption DEF Workers
<1>3. ProxyTypeOK
  BY <1>2 DEF RInit, ProxyInit, ProxyTypeOK, ForwardPc, WorkerPc
<1>4. MainHolds /\ ProxyHolds
  BY DEF RInit, TcpInit, ProxyInit, MainHolds, ProxyHolds
<1> QED
  BY <1>1, <1>3, <1>4 DEF RTypeInv, RTypeOK

\* A step that leaves TcpServer's own state alone keeps its part of the types.
LEMMA ProxySideType ==
  ASSUME RTypeInv, UNCHANGED tcpVars PROVE TcpTypeOK' /\ MainHolds'
BY DEF RTypeInv, RTypeOK, TypeOK, TcpTypeOK, MainHolds, tcpVars, mainVars, loopVars

\* And the other way round.
LEMMA TcpSideType ==
  ASSUME RTypeInv, UNCHANGED proxyVars PROVE ProxyTypeOK' /\ ProxyHolds'
BY DEF RTypeInv, RTypeOK, ProxyTypeOK, ProxyHolds, proxyVars, mapVars, forwardVars, workerVars

\* The main thread and the sub-reactors.
LEMMA TcpStepType ==
  ASSUME RTypeInv, MainStep \/ \E l \in Loops : LoopStep(l) PROVE TypeOK' /\ MainHolds'
<1> USE DEF RTypeInv, RTypeOK
<1>1. TypeOK'
  BY MainTypeOK, LoopTypeOK
<1>2. CASE \E c \in Clients : Accept(c)
  <2>1. PICK c \in Clients : Accept(c)
    BY <1>2
  <2> QED
    BY <1>1, <2>1 DEF Accept, MainHolds
<1>3. CASE \E c \in Clients : AcceptFails(c)
  BY <1>1, <1>3 DEF AcceptFails, MainHolds, tcpVars, mainVars
<1>4. CASE UpdateForRegister
  <2>1. /\ mpc = "register" /\ sockfd \in Fds /\ accepted \in Clients
        /\ UNCHANGED <<sockfd, accepted, dmp>>
    BY <1>4 DEF UpdateForRegister, MainHolds
  <2>2. CASE conn_map_[sockfd] = None
    <3>1. /\ conn_map_' = [conn_map_ EXCEPT ![sockfd] = accepted]
          /\ home' = [home EXCEPT ![accepted] = dmp]
      BY <1>4, <2>2 DEF UpdateForRegister
    <3> QED
      BY <1>1, <2>1, <3>1 DEF MainHolds, TypeOK, TcpTypeOK
  <2>3. CASE conn_map_[sockfd] # None
    <3>1. mpc' = "deadlock"
      BY <1>4, <2>3 DEF UpdateForRegister
    <3> QED
      BY <1>1, <2>1, <3>1 DEF MainHolds
  <2> QED
    BY <1>1, <2>2, <2>3
<1>5. CASE RegisterWithEpoll
  BY <1>1, <1>5 DEF RegisterWithEpoll, MainHolds
<1>6. CASE \E l \in Loops : LoopStep(l)
  <2>1. PICK l \in Loops : LoopStep(l)
    BY <1>6
  <2>2. CASE EraseConnection(l) \/ EraseAgain(l)
    <3>1. EraseAndClose(l) /\ UNCHANGED mainVars /\ UNCHANGED home
      BY <2>2 DEF EraseConnection, EraseAgain
    <3>2. \A f \in Fds : conn_map_'[f] \in {None, conn_map_[f]}
      BY <3>1 DEF EraseAndClose, TypeOK, TcpTypeOK
    <3> QED
      BY <1>1, <3>1, <3>2 DEF MainHolds, mainVars
  <2>3. CASE ~(EraseConnection(l) \/ EraseAgain(l))
    <3>1. UNCHANGED <<mainVars, conn_map_, home>>
      BY <2>1, <2>3 DEF LoopStep, DemultiplexWait, SkipUnknown, ForwardReadable, Closable,
         Disconnect, DisconnectFreed, RemoveFromEpoll, RemoveAgain, NotifyBalance,
         IteratorInvalidated
    <3> QED
      BY <1>1, <3>1 DEF MainHolds, mainVars
  <2> QED
    BY <1>1, <2>2, <2>3
<1> QED
  BY <1>1, <1>2, <1>3, <1>4, <1>5, <1>6 DEF MainStep

\* loadbalance and the batch it takes.
LEMMA TakeBatchType == ASSUME RTypeInv, TakeBatch PROVE RTypeInv'
<1> USE DEF RTypeInv, RTypeOK
<1>1. sock_queue_ \in Seq(Seq(Fds)) /\ sock_queue_ # <<>> /\ sock_queue_' = Tail(sock_queue_)
  BY DEF TakeBatch, TypeOK, TcpTypeOK
<1>2. Head(sock_queue_) \in Seq(Fds) /\ sock_queue_' \in Seq(Seq(Fds))
  BY <1>1, HeadTailProperties
<1>3. UpdateForForward(Head(sock_queue_))
  BY DEF TakeBatch
<1>4. {Head(sock_queue_)[i] : i \in DOMAIN Head(sock_queue_)} \subseteq Fds
  BY <1>2, LenProperties, ElementOfSeq
<1>5. ProxyTypeOK' /\ ProxyHolds'
  BY <1>3, <1>4 DEF UpdateForForward, ProxyTypeOK, ProxyHolds, mapVars, workerVars, ForwardPc
<1>6. KernelTypeOK'
  BY <1>3, KernelUnchanged DEF UpdateForForward, TypeOK
<1>7. TcpTypeOK' /\ MainHolds'
  BY <1>2 DEF TakeBatch, TypeOK, TcpTypeOK, MainHolds, mainVars, loopVars
<1> QED
  BY <1>5, <1>6, <1>7 DEF TypeOK

\* The steps of the forwarding thread that only move it on.
LEMMA ForwardQuietType ==
  ASSUME RTypeInv,
         \/ BatchDone \/ EstablishThrows \/ LookupLink \/ EnterForward(Unaccounted)
         \/ \E f \in Fds : CheckLink(f)
  PROVE  KernelTypeOK' /\ ProxyTypeOK' /\ ProxyHolds'
<1> USE DEF RTypeInv, RTypeOK
<1>1. /\ UNCHANGED <<kernelVars, mapVars, piter_, packet, workerVars, got>>
      /\ fpc' \in ForwardPc /\ todo' \subseteq Fds /\ incoming' \in Fds \cup {None}
      /\ sock' \in Fds \cup {None} /\ source' \in Conns \cup {None}
  <2>1. CASE BatchDone \/ EstablishThrows
    BY <2>1 DEF BatchDone, EstablishThrows, ForwardPc, ProxyTypeOK
  <2>2. CASE LookupLink
    <3>1. incoming \in Fds
      BY <2>2 DEF LookupLink, ProxyHolds
    <3> QED
      BY <2>2, <3>1 DEF LookupLink, ForwardPc, ProxyTypeOK
  <2>3. CASE EnterForward(Unaccounted)
    <3>1. incoming \in Fds
      BY <2>3 DEF EnterForward, ProxyHolds
    <3> QED
      BY <2>3, <3>1 DEF EnterForward, ForwardPc, ProxyTypeOK, TypeOK, KernelTypeOK
  <2>4. CASE \E f \in Fds : CheckLink(f)
    BY <2>4 DEF CheckLink, ForwardPc, ProxyTypeOK
  <2> QED
    BY <2>1, <2>2, <2>3, <2>4
<1>2. KernelTypeOK'
  BY <1>1, KernelUnchanged DEF TypeOK
<1>3. ProxyTypeOK'
  BY <1>1 DEF ProxyTypeOK, mapVars, workerVars
<1>4. ProxyHolds'
  <2>1. UNCHANGED <<wpc, wfd, wdst>>
    BY <1>1 DEF workerVars
  <2>2. CASE BatchDone \/ EstablishThrows
    BY <2>1, <2>2 DEF BatchDone, EstablishThrows, ProxyHolds
  <2>3. CASE LookupLink
    <3>1. incoming \in Fds /\ reversed_map_[incoming] \in Fds \cup {None}
      BY <2>3 DEF LookupLink, ProxyHolds, ProxyTypeOK
    <3> QED
      BY <2>1, <2>3, <3>1 DEF LookupLink, ProxyHolds
  <2>4. CASE EnterForward(Unaccounted)
    BY <2>1, <2>4 DEF EnterForward, ProxyHolds
  <2>5. CASE \E f \in Fds : CheckLink(f)
    BY <2>1, <2>5 DEF CheckLink, ProxyHolds
  <2> QED
    BY <2>2, <2>3, <2>4, <2>5
<1> QED
  BY <1>2, <1>3, <1>4

\* A link is opened, registered and entered into the maps.
LEMMA EstablishType ==
  ASSUME RTypeInv, EmplaceLink \/ \E k \in Links : EstablishWith(k)
  PROVE  KernelTypeOK' /\ ProxyTypeOK' /\ ProxyHolds'
<1> USE DEF RTypeInv, RTypeOK
<1>1. piter_ \in Workers /\ piter_ \in Epolls /\ NextWorker(piter_) \in Workers
  BY WorkersAreEpolls, NextWorkerType DEF ProxyTypeOK
<1>2. CASE \E k \in Links : EstablishWith(k)
  <2>1. PICK k \in Links : EstablishWith(k)
    BY <1>2
  <2>2. PICK f \in Fds : /\ sock' = f /\ file' = [file EXCEPT ![f] = k]
                         /\ interest' = [interest EXCEPT ![piter_] = @ \cup {f}]
    BY <2>1 DEF EstablishWith
  <2>3. /\ peer' = [peer EXCEPT ![k] = "open"] /\ piter_' = NextWorker(piter_)
        /\ fpc = "establish" /\ fpc' = "emplace"
        /\ UNCHANGED <<ready, inq, sent, backlog, mapVars, todo, incoming, source, packet,
                       workerVars, got>>
    BY <2>1 DEF EstablishWith
  <2>4. KernelTypeOK'
    BY <1>1, <2>2, <2>3 DEF TypeOK, KernelTypeOK, Conns
  <2>5. ProxyTypeOK'
    BY <1>1, <2>2, <2>3 DEF ProxyTypeOK, ForwardPc, mapVars, workerVars
  <2>6. ProxyHolds'
    BY <2>2, <2>3 DEF ProxyHolds, workerVars
  <2> QED
    BY <2>4, <2>5, <2>6
<1>3. CASE EmplaceLink
  <2>1. incoming \in Fds /\ sock \in Fds
    BY <1>3 DEF EmplaceLink, ProxyHolds
  <2>2. EpollAdd(piter_, sock) /\ UNCHANGED <<file, inq, peer, sent, backlog>>
    BY <1>3 DEF EmplaceLink
  <2>3. KernelTypeOK'
    BY <2>1, <2>2, EpollAddType DEF TypeOK, KernelTypeOK
  <2>4. ProxyTypeOK'
    BY <1>1, <1>3, <2>1 DEF EmplaceLink, ProxyTypeOK, ForwardPc, workerVars
  <2>5. ProxyHolds'
    BY <1>3 DEF EmplaceLink, ProxyHolds, workerVars
  <2> QED
    BY <2>3, <2>4, <2>5
<1> QED
  BY <1>2, <1>3

\* forward on the balancing thread.
LEMMA ForwardCopyType ==
  ASSUME RTypeInv, ForwardRead \/ ForwardSend PROVE KernelTypeOK' /\ ProxyTypeOK' /\ ProxyHolds'
<1> USE DEF RTypeInv, RTypeOK
<1>1. CASE ForwardRead
  <2>1. packet' \in Seq(Msgs) /\ inq' \in [Conns -> Seq(Msgs)]
    BY <1>1, ReadType DEF ForwardRead, ProxyTypeOK, TypeOK
  <2>2. KernelTypeOK'
    BY <1>1, <2>1 DEF ForwardRead, TypeOK, KernelTypeOK
  <2>3. ProxyTypeOK'
    BY <1>1, <2>1 DEF ForwardRead, ProxyTypeOK, ForwardPc, mapVars, workerVars
  <2>4. ProxyHolds'
    BY <1>1 DEF ForwardRead, ProxyHolds, workerVars
  <2> QED
    BY <2>2, <2>3, <2>4
<1>2. CASE ForwardSend
  <2>1. sock \in Fds
    BY <1>2 DEF ForwardSend, ProxyHolds
  <2>2. got' \in [Conns -> Seq(Msgs)] /\ <<>> \in Seq(Msgs)
    BY <1>2, <2>1, DeliveredType DEF ForwardSend, ProxyTypeOK
  <2>3. fpc' \in {"next", "thrown"}
    BY <1>2 DEF ForwardSend
  <2>4. KernelTypeOK'
    BY <1>2, KernelUnchanged DEF ForwardSend, TypeOK
  <2>5. ProxyTypeOK'
    BY <1>2, <2>2, <2>3 DEF ForwardSend, ProxyTypeOK, ForwardPc, mapVars, workerVars
  <2>6. ProxyHolds'
    BY <1>2, <2>3 DEF ForwardSend, ProxyHolds, workerVars
  <2> QED
    BY <2>4, <2>5, <2>6
<1> QED
  BY <1>1, <1>2

\* A worker takes one answer of epoll_wait off its list.
LEMMA WorkerHandledType ==
  ASSUME RTypeInv, NEW k \in Workers, NEW f \in Fds, wresp' = [wresp EXCEPT ![k][f] = {}]
  PROVE  wresp' \in [Workers -> [Fds -> SUBSET EventT]]
<1>1. wresp \in [Workers -> [Fds -> SUBSET EventT]]
  BY DEF RTypeInv, RTypeOK, ProxyTypeOK
<1>2. [wresp[k] EXCEPT ![f] = {}] \in [Fds -> SUBSET EventT]
  BY <1>1
<1> QED
  BY <1>1, <1>2

\* A worker.
LEMMA WorkerType ==
  ASSUME RTypeInv, NEW k \in Workers, WorkerStep(k)
  PROVE  KernelTypeOK' /\ ProxyTypeOK' /\ ProxyHolds'
<1> USE DEF RTypeInv, RTypeOK
<1>1. CASE WorkerWait(k)
  <2>1. KernelTypeOK'
    BY <1>1 DEF WorkerWait, TypeOK, KernelTypeOK
  <2>2. ProxyTypeOK'
    BY <1>1, HarvestType DEF WorkerWait, ProxyTypeOK, WorkerPc, mapVars, forwardVars
  <2>3. ProxyHolds'
    BY <1>1 DEF WorkerWait, ProxyHolds, ProxyTypeOK, forwardVars
  <2> QED
    BY <2>1, <2>2, <2>3
<1>2. CASE WorkerDone(k) \/ \E f \in Fds : UnmappedThrows(k, f)
  <2>1. /\ UNCHANGED <<kernelVars, mapVars, piter_, forwardVars, wresp, wfd, wdst, wsource,
                       wpacket, got>>
        /\ \E p \in {"wait", "thrown"} : wpc' = [wpc EXCEPT ![k] = p]
    BY <1>2 DEF WorkerDone, UnmappedThrows
  <2>2. KernelTypeOK'
    BY <2>1, KernelUnchanged DEF TypeOK
  <2>3. ProxyTypeOK'
    BY <2>1 DEF ProxyTypeOK, WorkerPc, mapVars, forwardVars
  <2>4. ProxyHolds'
    BY <2>1 DEF ProxyHolds, ProxyTypeOK, forwardVars
  <2> QED
    BY <2>2, <2>3, <2>4
<1>3. CASE \E f \in Fds : ForwardAnswer(k, f)
  <2>1. PICK f \in Fds : ForwardAnswer(k, f)
    BY <1>3
  <2>2. /\ wresp' \in [Workers -> [Fds -> SUBSET EventT]]
        /\ wfd' = [wfd EXCEPT ![k] = f] /\ wdst' = [wdst EXCEPT ![k] = sock_map_[f]]
        /\ wsource' = [wsource EXCEPT ![k] = file[f]] /\ wpc' = [wpc EXCEPT ![k] = "read"]
        /\ sock_map_[f] \in Fds
        /\ UNCHANGED <<kernelVars, mapVars, piter_, forwardVars, wpacket, got>>
    BY <2>1, WorkerHandledType DEF ForwardAnswer, ProxyTypeOK
  <2>3. KernelTypeOK'
    BY <2>2, KernelUnchanged DEF TypeOK
  <2>4. ProxyTypeOK'
    BY <2>2 DEF ProxyTypeOK, TypeOK, KernelTypeOK, WorkerPc, mapVars, forwardVars
  <2>5. ProxyHolds'
    BY <2>2 DEF ProxyHolds, ProxyTypeOK, forwardVars
  <2> QED
    BY <2>3, <2>4, <2>5
<1>4. CASE \E f \in Fds : CloseLink(k, f)
  <2>1. PICK f \in Fds : CloseLink(k, f)
    BY <1>4
  <2>2. /\ wresp' \in [Workers -> [Fds -> SUBSET EventT]]
        /\ wfd' = [wfd EXCEPT ![k] = f] /\ wpc' = [wpc EXCEPT ![k] = "erase"]
        /\ UNCHANGED <<inq, peer, sent, backlog, mapVars, piter_, forwardVars, wdst, wsource,
                       wpacket, got>>
    BY <2>1, WorkerHandledType DEF CloseLink
  <2>3. KernelTypeOK'
    BY <2>1, <2>2, CloseType DEF CloseLink, TypeOK, KernelTypeOK
  <2>4. ProxyTypeOK'
    BY <2>2 DEF ProxyTypeOK, WorkerPc, mapVars, forwardVars
  <2>5. ProxyHolds'
    BY <2>2 DEF ProxyHolds, ProxyTypeOK, forwardVars
  <2> QED
    BY <2>3, <2>4, <2>5
<1>5. CASE EraseLink(k)
  <2>1. /\ UNCHANGED <<kernelVars, piter_, forwardVars, wresp, wfd, wdst, wsource, wpacket, got>>
        /\ wpc' = [wpc EXCEPT ![k] = "dispatch"]
    BY <1>5 DEF EraseLink
  <2>2. /\ sock_map_' \in [Fds -> Fds \cup {None}]
        /\ reversed_map_' \in [Fds -> Fds \cup {None}]
    BY <1>5 DEF EraseLink, ProxyTypeOK, mapVars
  <2>3. KernelTypeOK'
    BY <2>1, KernelUnchanged DEF TypeOK
  <2>4. ProxyTypeOK'
    BY <2>1, <2>2 DEF ProxyTypeOK, WorkerPc, forwardVars
  <2>5. ProxyHolds'
    BY <2>1 DEF ProxyHolds, ProxyTypeOK, forwardVars
  <2> QED
    BY <2>3, <2>4, <2>5
<1>6. CASE WorkerRead(k)
  <2>1. ReadFrom(wsource[k]) \subseteq Seq(Msgs) /\ inq' \in [Conns -> Seq(Msgs)]
    BY <1>6, ReadType DEF WorkerRead, ProxyTypeOK, TypeOK
  <2>2. KernelTypeOK'
    BY <1>6, <2>1 DEF WorkerRead, TypeOK, KernelTypeOK
  <2>3. ProxyTypeOK'
    BY <1>6, <2>1 DEF WorkerRead, ProxyTypeOK, WorkerPc, mapVars, forwardVars
  <2>4. ProxyHolds'
    BY <1>6 DEF WorkerRead, ProxyHolds, ProxyTypeOK, forwardVars
  <2> QED
    BY <2>2, <2>3, <2>4
<1>7. CASE WorkerSend(k)
  <2>1. wdst[k] \in Fds /\ wpacket[k] \in Seq(Msgs) /\ <<>> \in Seq(Msgs)
    BY <1>7 DEF WorkerSend, ProxyHolds, ProxyTypeOK
  <2>2. got' \in [Conns -> Seq(Msgs)]
    BY <1>7, <2>1, DeliveredType DEF WorkerSend
  <2>3. PICK p \in {"dispatch", "thrown"} : wpc' = [wpc EXCEPT ![k] = p]
    BY <1>7 DEF WorkerSend
  <2>4. /\ UNCHANGED <<kernelVars, mapVars, piter_, forwardVars, wresp, wfd, wdst, wsource>>
        /\ wpacket' = [wpacket EXCEPT ![k] = <<>>]
    BY <1>7 DEF WorkerSend
  <2>5. KernelTypeOK'
    BY <2>4, KernelUnchanged DEF TypeOK
  <2>6. ProxyTypeOK'
    BY <2>1, <2>2, <2>3, <2>4 DEF ProxyTypeOK, WorkerPc, mapVars, forwardVars
  <2>7. ProxyHolds'
    BY <2>3, <2>4 DEF ProxyHolds, ProxyTypeOK, forwardVars
  <2> QED
    BY <2>5, <2>6, <2>7
<1> QED
  BY <1>1, <1>2, <1>3, <1>4, <1>5, <1>6, <1>7 DEF WorkerStep

\* The peers.
LEMMA PeerType ==
  ASSUME RTypeInv, (\E c \in Clients : Client(c)) \/ (\E k \in Links : Backend(k))
  PROVE  KernelTypeOK'
<1> USE DEF RTypeInv, RTypeOK, TypeOK
<1>1. Clients \subseteq Conns /\ Links \subseteq Conns
  BY DEF Conns
<1>2. \A c \in Conns : Wake(c) \in [Epolls -> SUBSET Fds]
  BY DEF Wake, KernelTypeOK
<1>3. ASSUME NEW c \in Conns, NEW m \in Msgs, PeerSend(c, m) PROVE KernelTypeOK'
  <2>1. Append(inq[c], m) \in Seq(Msgs)
    BY <1>3 DEF KernelTypeOK
  <2> QED
    BY <1>2, <1>3, <2>1 DEF PeerSend, KernelTypeOK
<1>4. ASSUME NEW c \in Conns, PeerClose(c) PROVE KernelTypeOK'
  BY <1>2, <1>4 DEF PeerClose, KernelTypeOK
<1>5. ASSUME NEW c \in Clients, Client(c) PROVE KernelTypeOK'
  <2>1. CASE ClientConnects(c)
    BY <2>1, <1>1 DEF ClientConnects, Connect, KernelTypeOK
  <2>2. CASE ClientSends(c)
    <3>1. <<c, sent[c] + 1>> \in Msgs
      BY <1>1 DEF KernelTypeOK, Msgs
    <3> QED
      BY <1>1, <1>3, <2>2, <3>1 DEF ClientSends
  <2>3. CASE ClientCloses(c)
    BY <1>1, <1>4, <2>3 DEF ClientCloses
  <2> QED
    BY <1>5, <2>1, <2>2, <2>3 DEF Client
<1>6. ASSUME NEW k \in Links, Backend(k) PROVE KernelTypeOK'
  <2>1. CASE BackendAnswers(k)
    <3>1. got[k] \in Seq(Msgs) /\ sent[k] \in Nat /\ sent[k] < Len(got[k])
      BY <1>1, <2>1 DEF BackendAnswers, ProxyTypeOK, KernelTypeOK
    <3>2. got[k][sent[k] + 1] \in Msgs
      BY <3>1, LenProperties, ElementOfSeq
    <3> QED
      BY <1>1, <1>3, <2>1, <3>2 DEF BackendAnswers
  <2>2. CASE BackendCloses(k)
    BY <1>1, <1>4, <2>2 DEF BackendCloses
  <2> QED
    BY <1>6, <2>1, <2>2 DEF Backend
<1> QED
  BY <1>5, <1>6

\* Every step of the process and of its peers.
LEMMA NextRTypeInv == RTypeInv /\ [RNext]_allVars => RTypeInv'
<1> SUFFICES ASSUME RTypeInv, [RNext]_allVars PROVE RTypeInv'
  OBVIOUS
<1>1. CASE Main \/ \E l \in Loops : Loop(l)
  BY <1>1, TcpStepType, TcpSideType DEF Main, Loop, RTypeInv, RTypeOK
<1>2. CASE TakeBatch
  BY <1>2, TakeBatchType
<1>3. CASE ForwardStep
  BY <1>3, ForwardQuietType, EstablishType, ForwardCopyType, ProxySideType
     DEF ForwardStep, RTypeInv, RTypeOK, TypeOK
<1>4. CASE \E k \in Workers : Worker(k)
  BY <1>4, WorkerType, ProxySideType DEF Worker, WorkerStep, RTypeInv, RTypeOK, TypeOK
<1>5. CASE /\ (\E c \in Clients : Client(c)) \/ (\E k \in Links : Backend(k))
           /\ UNCHANGED <<tcpVars, proxyVars>>
  BY <1>5, PeerType, ProxySideType, TcpSideType DEF RTypeInv, RTypeOK, TypeOK
<1>6. CASE UNCHANGED allVars
  BY <1>6, KernelUnchanged, ProxySideType, TcpSideType DEF allVars, RTypeInv, RTypeOK, TypeOK
<1> QED
  BY <1>1, <1>2, <1>3, <1>4, <1>5, <1>6 DEF RNext, Forwarder

\* The state of the whole process stays well-typed: what every thread reads from the
\* maps and the kernel is what its next step needs, with any number of workers.
THEOREM ProcessTypeCorrect == ASSUME NWorkers # 0 PROVE RSpec => []RTypeOK
<1>1. RInit => RTypeInv
  BY InitRTypeInv
<1>2. RTypeInv => RTypeOK
  BY DEF RTypeInv
<1> QED
  BY <1>1, <1>2, NextRTypeInv, PTL DEF RSpec
-----------------------------------------------------------------------------
(* The way back of an answer.                                              *)

\* While the forwarding thread opens a link for a client descriptor, that descriptor
\* has none: only this thread adds entries.
NewLinkIsFirst == fpc \in {"establish", "emplace"} => reversed_map_[incoming] = None

\* LinksPointBack is inductive together with it.
WayBackInv == RTypeInv /\ LinksPointBack /\ NewLinkIsFirst

\* Steps that change neither map keep it if they do not start to open a link.
LEMMA QuietWayBack ==
  ASSUME WayBackInv, RTypeInv', UNCHANGED mapVars,
         fpc' \in {"establish", "emplace"} => reversed_map_[incoming'] = None
  PROVE  WayBackInv'
BY DEF WayBackInv, LinksPointBack, NewLinkIsFirst, mapVars

\* Both maps get the new link; an old entry of sock_map_ under its number, which emplace
\* keeps, already points back.
LEMMA EmplaceWayBack == ASSUME WayBackInv, RTypeInv', EmplaceLink PROVE WayBackInv'
<1>1. /\ incoming \in Fds /\ sock \in Fds /\ reversed_map_[incoming] = None
      /\ sock_map_ \in [Fds -> Fds \cup {None}] /\ reversed_map_ \in [Fds -> Fds \cup {None}]
  BY DEF EmplaceLink, WayBackInv, RTypeInv, ProxyHolds, NewLinkIsFirst, RTypeOK, ProxyTypeOK
<1>2. /\ reversed_map_' = [reversed_map_ EXCEPT ![incoming] = sock] /\ fpc' = "lookup"
      /\ sock_map_' = IF sock_map_[sock] # None THEN sock_map_
                      ELSE [sock_map_ EXCEPT ![sock] = incoming]
  BY DEF EmplaceLink
<1>3. \A g \in Fds : sock_map_[g] # None => reversed_map_[sock_map_[g]] = g
  BY DEF WayBackInv, LinksPointBack
<1>4. \A g \in Fds : sock_map_[g] # incoming
  BY <1>1, <1>3, SocketsAssumption
<1>5. LinksPointBack'
  BY <1>1, <1>2, <1>3, <1>4 DEF LinksPointBack
<1> QED
  BY <1>2, <1>5 DEF WayBackInv, NewLinkIsFirst

\* A worker forgets a link in both maps.
LEMMA EraseWayBack ==
  ASSUME WayBackInv, RTypeInv', NEW k \in Workers, EraseLink(k) PROVE WayBackInv'
<1>1. /\ wfd[k] \in Fds /\ fpc' = fpc /\ incoming' = incoming
      /\ sock_map_ \in [Fds -> Fds \cup {None}] /\ reversed_map_ \in [Fds -> Fds \cup {None}]
  BY DEF EraseLink, WayBackInv, RTypeInv, ProxyHolds, RTypeOK, ProxyTypeOK, forwardVars
<1>2. CASE sock_map_[wfd[k]] = None
  BY <1>1, <1>2, QuietWayBack DEF EraseLink, WayBackInv, NewLinkIsFirst
<1>3. CASE sock_map_[wfd[k]] # None
  <2>1. /\ reversed_map_' = [reversed_map_ EXCEPT ![sock_map_[wfd[k]]] = None]
        /\ sock_map_' = [sock_map_ EXCEPT ![wfd[k]] = None]
    BY <1>3 DEF EraseLink
  <2>2. \A g \in Fds : sock_map_[g] # None => reversed_map_[sock_map_[g]] = g
    BY DEF WayBackInv, LinksPointBack
  <2>3. \A g \in Fds : g # wfd[k] => sock_map_[g] # sock_map_[wfd[k]]
    BY <1>1, <1>3, <2>2
  <2>4. LinksPointBack'
    BY <1>1, <1>3, <2>1, <2>2, <2>3 DEF LinksPointBack
  <2>5. NewLinkIsFirst'
    <3>1. fpc' \in {"establish", "emplace"} => incoming \in Fds /\ reversed_map_[incoming] = None
      BY <1>1 DEF WayBackInv, NewLinkIsFirst, RTypeInv, ProxyHolds
    <3> QED
      BY <1>1, <1>3, <2>1, <3>1 DEF NewLinkIsFirst
  <2> QED
    BY <2>4, <2>5 DEF WayBackInv
<1> QED
  BY <1>2, <1>3

\* Every step.
LEMMA NextWayBack == WayBackInv /\ [RNext]_allVars => WayBackInv'
<1> SUFFICES ASSUME WayBackInv, [RNext]_allVars PROVE WayBackInv'
  OBVIOUS
<1>1. RTypeInv'
  BY NextRTypeInv DEF WayBackInv
<1>2. CASE UNCHANGED proxyVars
  BY <1>1, <1>2, QuietWayBack DEF proxyVars, forwardVars, WayBackInv, NewLinkIsFirst
<1>3. CASE TakeBatch
  BY <1>1, <1>3, QuietWayBack DEF TakeBatch, UpdateForForward
<1>4. CASE ForwardStep
  <2>1. CASE EmplaceLink
    BY <1>1, <2>1, EmplaceWayBack
  <2>2. CASE \/ BatchDone \/ EstablishThrows \/ LookupLink \/ EnterForward(Unaccounted) \/ ForwardRead
             \/ ForwardSend
    <3>1. UNCHANGED mapVars /\ fpc' \notin {"establish", "emplace"}
      BY <2>2 DEF BatchDone, EstablishThrows, LookupLink, EnterForward, ForwardRead, ForwardSend
    <3> QED
      BY <1>1, <3>1, QuietWayBack
  <2>3. CASE \E f \in Fds : CheckLink(f)
    BY <1>1, <2>3, QuietWayBack DEF CheckLink
  <2>4. CASE \E k \in Links : EstablishWith(k)
    <3>1. UNCHANGED mapVars /\ fpc = "establish" /\ incoming' = incoming
      BY <2>4 DEF EstablishWith
    <3> QED
      BY <1>1, <3>1, QuietWayBack DEF WayBackInv, NewLinkIsFirst
  <2> QED
    BY <1>4, <2>1, <2>2, <2>3, <2>4 DEF ForwardStep
<1>5. ASSUME NEW k \in Workers, WorkerStep(k) PROVE WayBackInv'
  <2>1. CASE EraseLink(k)
    BY <1>1, <2>1, EraseWayBack
  <2>2. CASE ~EraseLink(k)
    <3>1. UNCHANGED mapVars /\ UNCHANGED forwardVars
      BY <1>5, <2>2 DEF WorkerStep, WorkerWait, UnmappedThrows, ForwardAnswer, CloseLink,
         WorkerRead, WorkerSend, WorkerDone
    <3> QED
      BY <1>1, <3>1, QuietWayBack DEF WayBackInv, NewLinkIsFirst, forwardVars
  <2> QED
    BY <2>1, <2>2
<1> QED
  BY <1>2, <1>3, <1>4, <1>5 DEF RNext, Main, Loop, Forwarder, Worker, allVars

\* sock_map_ and reversed_map_: an answer has one way back, and no two links answer to one
\* client descriptor, whatever stale entries are left and however many workers erase.
THEOREM AnswersHaveOneWayBack == ASSUME NWorkers # 0 PROVE RSpec => []LinksPointBack
<1>1. RInit => WayBackInv
  <2> SUFFICES ASSUME RInit PROVE WayBackInv
    OBVIOUS
  <2>1. RTypeInv
    BY InitRTypeInv
  <2> QED
    BY <2>1 DEF RInit, ProxyInit, WayBackInv, LinksPointBack, NewLinkIsFirst
<1>2. WayBackInv => LinksPointBack
  BY DEF WayBackInv
<1> QED
  BY <1>1, <1>2, NextWayBack, PTL DEF RSpec
-----------------------------------------------------------------------------
(* With one worker, ProxyServer keeps what TcpServer relies on.            *)

\* A worker's epoll has links only, ...
WorkersWatchLinks ==
  \A k \in Workers : \A f \in interest[k] \cup ready[k] : file[f] \in Links

\* ... so it has the numbers of links in hand, which nobody else closes.
WorkersReportLinks ==
  \A k \in Workers, f \in Fds : wresp[k][f] # {} => file[f] \in Links

\* A worker has closed link f and is about to take the lock and forget it.
Forgetting(f) == \E k \in Workers : wpc[k] = "erase" /\ wfd[k] = f

\* A number in sock_map_ is a link's, or a worker is about to forget it.
EntriesAreLinks ==
  \A f \in Fds : sock_map_[f] # None => file[f] \in Links \/ Forgetting(f)

\* The link the forwarding thread has just opened stays open until it is in the maps:
\* under its number sock_map_ has nothing a worker could act on.
NewLinkIsOpen ==
  fpc = "emplace" => file[sock] \in Links /\ (sock_map_[sock] # None => Forgetting(sock))

LinksInv == WorkersWatchLinks /\ WorkersReportLinks /\ EntriesAreLinks /\ NewLinkIsOpen

\* What the contract rests on.  TcpServer's invariant is part of it, because TcpServer
\* must not close a link either.
ContractInv == RTypeInv /\ IndInv /\ LinksInv

\* No thread of TcpServer opens or closes a link, or registers with a worker's epoll.
LEMMA TcpSparesLinks ==
  ASSUME IndInv, MainStep \/ \E l \in Loops : LoopStep(l)
  PROVE  /\ \A f \in Fds : file[f] \in Links \/ file'[f] \in Links => file'[f] = file[f]
         /\ \A k \in Workers : interest'[k] \subseteq interest[k] /\ ready'[k] \subseteq ready[k]
<1> DEFINE Goal == /\ \A f \in Fds : file[f] \in Links \/ file'[f] \in Links => file'[f] = file[f]
                   /\ \A k \in Workers : /\ interest'[k] \subseteq interest[k]
                                         /\ ready'[k] \subseteq ready[k]
<1>0. /\ file \in [Fds -> Conns \cup {None}]
      /\ interest \in [Epolls -> SUBSET Fds] /\ ready \in [Epolls -> SUBSET Fds]
      /\ None \notin Links /\ Workers \subseteq Epolls /\ Loops \subseteq Epolls
      /\ Workers \cap Loops = {} /\ Clients \cap Links = {}
  BY WorkersAreEpolls, LoopsAreEpolls, SocketsAssumption DEF IndInv, TypeOK, KernelTypeOK
<1>1. ASSUME NEW c \in Clients, Accept(c) PROVE Goal
  <2>1. PICK f \in Fds : LowestFree(f) /\ file' = [file EXCEPT ![f] = c]
    BY <1>1 DEF Accept
  <2>2. UNCHANGED <<interest, ready>>
    BY <1>1 DEF Accept
  <2> QED
    BY <1>0, <2>1, <2>2 DEF LowestFree
<1>2. ASSUME NEW c \in Clients, AcceptFails(c) PROVE Goal
  BY <1>2 DEF AcceptFails
<1>3. CASE UpdateForRegister
  <2>1. conn_map_[sockfd] = None
    BY <1>3 DEF UpdateForRegister, IndInv, RegisterFindsNoEntry
  <2> QED
    BY <1>3, <2>1 DEF UpdateForRegister
<1>4. CASE RegisterWithEpoll
  <2>1. dmp \in Loops /\ EpollAdd(dmp, sockfd) /\ file' = file
    BY <1>4 DEF RegisterWithEpoll, IndInv, TypeOK, TcpTypeOK
  <2>2. \A k \in Workers : interest'[k] = interest[k] /\ ready'[k] = ready[k]
    BY <1>0, <2>1 DEF EpollAdd
  <2> QED
    BY <2>1, <2>2
<1>5. ASSUME NEW l \in Loops, LoopStep(l) PROVE Goal
  <2>1. CASE DemultiplexWait(l)
    BY <1>0, <2>1 DEF DemultiplexWait
  <2>2. CASE RemoveFromEpoll(l)
    <3>1. EpollDel(home[tcp_conn[l]], cur[l]) /\ file' = file
      BY <2>2 DEF RemoveFromEpoll
    <3>2. \A k \in Workers : interest'[k] \subseteq interest[k] /\ ready'[k] \subseteq ready[k]
      BY <1>0, <3>1 DEF EpollDel
    <3> QED
      BY <3>1, <3>2
  <2>3. CASE EraseConnection(l) \/ EraseAgain(l)
    <3>1. EraseAndClose(l) /\ cur[l] \in Fds
      BY <2>3 DEF EraseConnection, EraseAgain, IndInv, LoopsHold
    <3>2. CASE conn_map_[cur[l]] = None
      BY <3>1, <3>2 DEF EraseAndClose
    <3>3. CASE conn_map_[cur[l]] # None
      <4>1. Close(cur[l]) /\ file[cur[l]] \in Clients
        BY <3>1, <3>3 DEF EraseAndClose, IndInv, ConnMapMatchesDescriptors, TypeOK, TcpTypeOK
      <4> QED
        BY <1>0, <3>1, <4>1 DEF Close
    <3> QED
      BY <3>2, <3>3
  <2>4. CASE UNCHANGED kernelVars
    BY <2>4 DEF kernelVars
  <2>5. \/ UNCHANGED kernelVars \/ DemultiplexWait(l) \/ RemoveFromEpoll(l)
        \/ EraseConnection(l) \/ EraseAgain(l)
    BY <1>5 DEF LoopStep, SkipUnknown, ForwardReadable, Closable, Disconnect, DisconnectFreed,
       RemoveAgain, NotifyBalance, IteratorInvalidated
  <2> QED
    BY <2>1, <2>2, <2>3, <2>4, <2>5
<1> QED
  BY <1>1, <1>2, <1>3, <1>4, <1>5 DEF MainStep

\* So the steps of TcpServer keep what ProxyServer needs.
LEMMA TcpKeepsLinks ==
  ASSUME ContractInv, MainStep \/ \E l \in Loops : LoopStep(l), UNCHANGED proxyVars
  PROVE  LinksInv'
<1>1. /\ \A f \in Fds : file[f] \in Links => file'[f] \in Links
      /\ \A k \in Workers : interest'[k] \subseteq interest[k] /\ ready'[k] \subseteq ready[k]
  BY TcpSparesLinks DEF ContractInv
<1>2. UNCHANGED <<sock_map_, fpc, sock, wpc, wresp, wfd>>
  BY DEF proxyVars, mapVars, forwardVars, workerVars
<1>3. \A k \in Workers : interest[k] \subseteq Fds /\ ready[k] \subseteq Fds
  BY WorkersAreEpolls DEF ContractInv, IndInv, TypeOK, KernelTypeOK
<1>4. fpc = "emplace" => sock \in Fds
  BY DEF ContractInv, RTypeInv, ProxyHolds
<1> USE DEF ContractInv, LinksInv
<1>5. WorkersWatchLinks' /\ WorkersReportLinks'
  BY <1>1, <1>2, <1>3 DEF WorkersWatchLinks, WorkersReportLinks
<1>6. EntriesAreLinks' /\ NewLinkIsOpen'
  BY <1>1, <1>2, <1>4 DEF EntriesAreLinks, NewLinkIsOpen, Forgetting
<1> QED
  BY <1>5, <1>6

\* A step that leaves descriptors, registrations and TcpServer alone is one TcpServer
\* can rely on.
LEMMA QuietRely ==
  ASSUME RTypeInv, RTypeInv', UNCHANGED <<file, interest, peer, backlog, tcpVars>> PROVE Rely
<1>1. KernelTypeOK'
  BY DEF RTypeInv, RTypeOK, TypeOK
<1>2. OthersSpareClients /\ ClientsConnectOnce
  BY DEF OthersSpareClients, ClientsConnectOnce
<1>3. QueueIsOnlyPopped /\ UNCHANGED <<conn_map_, total_conn_, home, mainVars, loopVars>>
  BY DEF QueueIsOnlyPopped, tcpVars
<1> QED
  BY <1>1, <1>2, <1>3 DEF Rely

\* And it keeps the links if it changes neither sock_map_ nor what the workers hold,
\* and does not open one.
LEMMA QuietLinks ==
  ASSUME ContractInv, UNCHANGED <<file, interest, sock_map_, workerVars>>,
         \A k \in Workers : ready'[k] \subseteq ready[k] \cup interest[k],
         fpc' = "emplace" => fpc = "emplace" /\ sock' = sock
  PROVE  LinksInv'
<1> USE DEF ContractInv, LinksInv
<1>1. WorkersWatchLinks' /\ WorkersReportLinks'
  BY DEF WorkersWatchLinks, WorkersReportLinks, workerVars
<1>2. EntriesAreLinks' /\ NewLinkIsOpen'
  BY DEF EntriesAreLinks, NewLinkIsOpen, Forgetting, workerVars
<1> QED
  BY <1>1, <1>2

\* With one worker, a worker that dispatches is not forgetting any link.
LEMMA OneWorker ==
  ASSUME NWorkers = 1, NEW k \in Workers
  PROVE  /\ \A j \in Workers : j = k
         /\ wpc[k] # "erase" => \A f \in Fds : ~Forgetting(f)
<1>1. \A j \in Workers : j = k
  BY SocketsAssumption DEF Workers
<1> QED
  BY <1>1 DEF Forgetting

\* loadbalance takes the first batch.
LEMMA TakeBatchContract ==
  ASSUME ContractInv, RTypeInv', TakeBatch PROVE Rely /\ LinksInv'
<1>1. UNCHANGED kernelVars /\ UNCHANGED mapVars /\ UNCHANGED workerVars /\ fpc' = "next"
  BY DEF TakeBatch, UpdateForForward
<1>2. KernelTypeOK'
  BY DEF RTypeInv, RTypeOK, TypeOK
<1>3. OthersSpareClients /\ ClientsConnectOnce
  BY <1>1 DEF OthersSpareClients, ClientsConnectOnce, kernelVars
<1>4. QueueIsOnlyPopped /\ UNCHANGED <<conn_map_, total_conn_, home, mainVars, loopVars>>
  BY DEF TakeBatch, QueueIsOnlyPopped
<1>5. LinksInv'
  BY <1>1, QuietLinks DEF kernelVars, mapVars
<1> QED
  BY <1>2, <1>3, <1>4, <1>5 DEF Rely

\* connectTo gives the new link a free number, which no client has, and the number is in
\* sock_map_ only if a worker is about to forget it.
LEMMA EstablishContract ==
  ASSUME ContractInv, RTypeInv', UNCHANGED tcpVars, NEW k \in Links, EstablishWith(k)
  PROVE  Rely /\ LinksInv'
<1> USE DEF ContractInv, LinksInv
<1>1. /\ piter_ \in Workers /\ Workers \subseteq Epolls /\ Loops \subseteq Epolls
      /\ Workers \cap Loops = {} /\ k \notin Clients /\ None \notin Links /\ None \notin Clients
      /\ file \in [Fds -> Conns \cup {None}] /\ interest \in [Epolls -> SUBSET Fds]
      /\ ready \in [Epolls -> SUBSET Fds] /\ peer \in [Conns -> {"new", "open", "closed"}]
  BY WorkersAreEpolls, LoopsAreEpolls, SocketsAssumption
     DEF RTypeInv, RTypeOK, TypeOK, KernelTypeOK, ProxyTypeOK
<1>2. PICK f \in Fds : /\ file[f] = None /\ sock' = f /\ file' = [file EXCEPT ![f] = k]
                       /\ interest' = [interest EXCEPT ![piter_] = @ \cup {f}]
  BY DEF EstablishWith, LowestFree
<1>3. /\ peer' = [peer EXCEPT ![k] = "open"] /\ UNCHANGED <<ready, backlog, mapVars, workerVars>>
      /\ fpc' = "emplace"
  BY DEF EstablishWith
<1>4. KernelTypeOK'
  BY DEF RTypeInv, RTypeOK, TypeOK
<1>5. OthersSpareClients
  BY <1>1, <1>2 DEF OthersSpareClients
<1>6. ClientsConnectOnce
  BY <1>1, <1>3 DEF ClientsConnectOnce, Conns
<1>7. Rely
  BY <1>4, <1>5, <1>6 DEF Rely, QueueIsOnlyPopped, tcpVars
<1>8. WorkersWatchLinks'
  <2> SUFFICES ASSUME NEW j \in Workers, NEW g \in interest'[j] \cup ready'[j]
               PROVE  file'[g] \in Links
    BY DEF WorkersWatchLinks
  <2>1. g \in Fds /\ (g = f \/ g \in interest[j] \cup ready[j])
    BY <1>1, <1>2, <1>3
  <2> QED
    BY <1>1, <1>2, <2>1 DEF WorkersWatchLinks
<1>9. WorkersReportLinks' /\ EntriesAreLinks'
  BY <1>1, <1>2, <1>3 DEF WorkersReportLinks, EntriesAreLinks, Forgetting, mapVars, workerVars
<1>10. NewLinkIsOpen'
  BY <1>1, <1>2, <1>3 DEF NewLinkIsOpen, EntriesAreLinks, Forgetting, mapVars, workerVars
<1> QED
  BY <1>7, <1>8, <1>9, <1>10

\* The second registration and the maps: the number is still that of the open link.
LEMMA EmplaceContract ==
  ASSUME ContractInv, RTypeInv', UNCHANGED tcpVars, EmplaceLink PROVE Rely /\ LinksInv'
<1> USE DEF ContractInv, LinksInv
<1>1. /\ piter_ \in Workers /\ Workers \subseteq Epolls /\ Loops \subseteq Epolls
      /\ Workers \cap Loops = {} /\ sock \in Fds /\ file[sock] \in Links
      /\ interest \in [Epolls -> SUBSET Fds] /\ ready \in [Epolls -> SUBSET Fds]
      /\ sock_map_ \in [Fds -> Fds \cup {None}]
  BY WorkersAreEpolls, LoopsAreEpolls
     DEF RTypeInv, RTypeOK, TypeOK, KernelTypeOK, ProxyTypeOK, ProxyHolds, EmplaceLink, NewLinkIsOpen
<1>2. /\ EpollAdd(piter_, sock) /\ UNCHANGED <<file, peer, backlog, workerVars>> /\ fpc' = "lookup"
      /\ \A f \in Fds : sock_map_'[f] # None => f = sock \/ sock_map_[f] # None
  BY <1>1 DEF EmplaceLink
<1>3. /\ \A e \in Epolls : e # piter_ => interest'[e] = interest[e] /\ ready'[e] = ready[e]
      /\ interest'[piter_] \subseteq interest[piter_] \cup {sock}
      /\ ready'[piter_] \subseteq ready[piter_] \cup {sock}
  BY <1>1, <1>2 DEF EpollAdd
<1>4. KernelTypeOK'
  BY DEF RTypeInv, RTypeOK, TypeOK
<1>5. OthersSpareClients
  BY <1>1, <1>2, <1>3 DEF OthersSpareClients
<1>6. ClientsConnectOnce
  BY <1>2 DEF ClientsConnectOnce
<1>7. Rely
  BY <1>4, <1>5, <1>6 DEF Rely, QueueIsOnlyPopped, tcpVars
<1>8. WorkersWatchLinks'
  BY <1>1, <1>2, <1>3 DEF WorkersWatchLinks
<1>9. WorkersReportLinks' /\ EntriesAreLinks' /\ NewLinkIsOpen'
  BY <1>1, <1>2 DEF WorkersReportLinks, EntriesAreLinks, NewLinkIsOpen, Forgetting, workerVars
<1> QED
  BY <1>7, <1>8, <1>9

\* The forwarding thread.
LEMMA ForwardContract ==
  ASSUME ContractInv, RTypeInv', ForwardStep PROVE Rely /\ LinksInv'
<1>0. UNCHANGED tcpVars /\ RTypeInv
  BY DEF ForwardStep, ContractInv
<1>1. CASE EmplaceLink \/ \E k \in Links : EstablishWith(k)
  BY <1>0, <1>1, EstablishContract, EmplaceContract
<1>2. CASE ~(EmplaceLink \/ \E k \in Links : EstablishWith(k))
  <2>1. /\ UNCHANGED <<file, interest, ready, peer, backlog, mapVars, workerVars>>
        /\ fpc' # "emplace"
    BY <1>2 DEF ForwardStep, BatchDone, CheckLink, EstablishThrows, LookupLink, EnterForward,
       ForwardRead, ForwardSend, kernelVars
  <2>2. Rely
    BY <1>0, <2>1, QuietRely
  <2>3. LinksInv'
    BY <2>1, QuietLinks DEF mapVars
  <2> QED
    BY <2>2, <2>3
<1> QED
  BY <1>1, <1>2

\* epoll_wait of a worker reports links.
LEMMA WorkerWaitLinks ==
  ASSUME ContractInv, NEW k \in Workers, WorkerWait(k) PROVE LinksInv'
<1> USE DEF ContractInv, LinksInv
<1>1. /\ wresp' = [wresp EXCEPT ![k] = Harvest(k)] /\ ready' = [ready EXCEPT ![k] = {}]
      /\ wpc[k] = "wait" /\ wpc' = [wpc EXCEPT ![k] = "dispatch"]
      /\ UNCHANGED <<file, interest, sock_map_, fpc, sock, wfd>>
  BY DEF WorkerWait, mapVars, forwardVars
<1>2. /\ wresp \in [Workers -> [Fds -> SUBSET EventT]] /\ wpc \in [Workers -> WorkerPc]
      /\ ready \in [Epolls -> SUBSET Fds] /\ k \in Epolls /\ Workers \subseteq Epolls
  BY WorkersAreEpolls DEF RTypeInv, RTypeOK, TypeOK, KernelTypeOK, ProxyTypeOK
<1>3. \A f \in Fds : Harvest(k)[f] # {} => f \in ready[k]
  BY DEF Harvest, Reportable
<1>4. WorkersWatchLinks'
  BY <1>1, <1>2 DEF WorkersWatchLinks
<1>5. WorkersReportLinks'
  BY <1>1, <1>2, <1>3 DEF WorkersReportLinks, WorkersWatchLinks
<1>6. \A f : Forgetting(f) => Forgetting(f)'
  BY <1>1, <1>2 DEF Forgetting
<1>7. EntriesAreLinks' /\ NewLinkIsOpen'
  BY <1>1, <1>6 DEF EntriesAreLinks, NewLinkIsOpen
<1> QED
  BY <1>4, <1>5, <1>7

\* A worker closes what it has in hand, and that is a link: not a client's number, and
\* not the link the forwarding thread has just opened.
LEMMA CloseLinkContract ==
  ASSUME NWorkers = 1, ContractInv, RTypeInv', UNCHANGED tcpVars,
         NEW k \in Workers, NEW f \in Fds, CloseLink(k, f)
  PROVE  Rely /\ LinksInv'
<1> USE DEF ContractInv, LinksInv
<1>1. /\ wpc[k] = "dispatch" /\ sock_map_[f] # None /\ "CLOSABLE" \in wresp[k][f] /\ Close(f)
      /\ wresp' = [wresp EXCEPT ![k][f] = {}] /\ wfd' = [wfd EXCEPT ![k] = f]
      /\ wpc' = [wpc EXCEPT ![k] = "erase"]
      /\ UNCHANGED <<peer, backlog, sock_map_, fpc, sock>>
  BY DEF CloseLink, mapVars, forwardVars
<1>2. /\ file \in [Fds -> Conns \cup {None}]
      /\ wresp \in [Workers -> [Fds -> SUBSET EventT]] /\ wpc \in [Workers -> WorkerPc]
      /\ wfd \in [Workers -> Fds \cup {None}]
      /\ interest \in [Epolls -> SUBSET Fds] /\ ready \in [Epolls -> SUBSET Fds]
      /\ Workers \subseteq Epolls /\ Loops \subseteq Epolls
      /\ Clients \cap Links = {} /\ None \notin Clients
  BY WorkersAreEpolls, LoopsAreEpolls, SocketsAssumption
     DEF RTypeInv, RTypeOK, TypeOK, KernelTypeOK, ProxyTypeOK
<1>3. file[f] \in Links
  BY <1>1 DEF WorkersReportLinks
<1>4. (\A j \in Workers : j = k) /\ \A g \in Fds : ~Forgetting(g)
  BY <1>1, OneWorker
<1>5. /\ file' = [file EXCEPT ![f] = None]
      /\ \A e \in Epolls : interest'[e] = interest[e] \ {f} /\ ready'[e] = ready[e] \ {f}
  BY <1>1 DEF Close
<1>6. Forgetting(f)'
  BY <1>1, <1>2 DEF Forgetting
<1>7. Rely
  <2>1. KernelTypeOK'
    BY DEF RTypeInv, RTypeOK, TypeOK
  <2>2. OthersSpareClients
    BY <1>2, <1>3, <1>5 DEF OthersSpareClients
  <2>3. ClientsConnectOnce
    BY <1>1 DEF ClientsConnectOnce
  <2> QED
    BY <2>1, <2>2, <2>3 DEF Rely, QueueIsOnlyPopped, tcpVars
<1>8. WorkersWatchLinks'
  BY <1>2, <1>5 DEF WorkersWatchLinks
<1>9. WorkersReportLinks'
  BY <1>1, <1>2, <1>4, <1>5 DEF WorkersReportLinks
<1>10. EntriesAreLinks'
  BY <1>1, <1>2, <1>4, <1>5, <1>6 DEF EntriesAreLinks
<1>11. NewLinkIsOpen'
  <2> SUFFICES ASSUME fpc' = "emplace"
               PROVE  file'[sock'] \in Links /\ (sock_map_'[sock'] # None => Forgetting(sock)')
    BY DEF NewLinkIsOpen
  <2>1. fpc = "emplace" /\ sock \in Fds /\ sock' = sock
    BY <1>1 DEF RTypeInv, ProxyHolds
  <2>2. file[sock] \in Links /\ sock_map_[sock] = None
    BY <1>4, <2>1 DEF NewLinkIsOpen
  <2> QED
    BY <1>1, <1>2, <1>5, <2>1, <2>2
<1> QED
  BY <1>7, <1>8, <1>9, <1>10, <1>11

\* Under the lock the number is forgotten.
LEMMA EraseLinkLinks ==
  ASSUME NWorkers = 1, ContractInv, NEW k \in Workers, EraseLink(k) PROVE LinksInv'
<1> USE DEF ContractInv, LinksInv
<1>1. /\ wpc[k] = "erase" /\ fpc' = fpc /\ fpc # "emplace"
      /\ UNCHANGED <<file, interest, ready, wresp>>
  BY DEF EraseLink, kernelVars, forwardVars
<1>2. /\ wfd[k] \in Fds /\ \A j \in Workers : j = k
      /\ sock_map_ \in [Fds -> Fds \cup {None}]
  BY <1>1, OneWorker DEF RTypeInv, RTypeOK, ProxyTypeOK, ProxyHolds
<1>3. \A f \in Fds : sock_map_'[f] # None => sock_map_[f] # None /\ ~Forgetting(f)
  BY <1>2 DEF EraseLink, Forgetting, mapVars
<1>4. EntriesAreLinks'
  BY <1>1, <1>3 DEF EntriesAreLinks
<1>5. WorkersWatchLinks' /\ WorkersReportLinks' /\ NewLinkIsOpen'
  BY <1>1 DEF WorkersWatchLinks, WorkersReportLinks, NewLinkIsOpen
<1> QED
  BY <1>4, <1>5

\* The other steps of a worker: it takes events off its list, reads, sends and waits.
LEMMA WorkerQuietLinks ==
  ASSUME ContractInv, NEW k \in Workers,
         UNCHANGED <<file, interest, ready, sock_map_, fpc, sock>>,
         wpc[k] # "erase", \E p : wpc' = [wpc EXCEPT ![k] = p],
         \A j \in Workers : j # k => wfd'[j] = wfd[j],
         \A j \in Workers, f \in Fds : wresp'[j][f] # {} => wresp[j][f] # {}
  PROVE  LinksInv'
<1> USE DEF ContractInv, LinksInv
<1>1. \A f : Forgetting(f) => Forgetting(f)'
  BY DEF Forgetting, RTypeInv, RTypeOK, ProxyTypeOK
<1>2. WorkersWatchLinks' /\ WorkersReportLinks'
  BY DEF WorkersWatchLinks, WorkersReportLinks
<1>3. EntriesAreLinks' /\ NewLinkIsOpen'
  BY <1>1 DEF EntriesAreLinks, NewLinkIsOpen
<1> QED
  BY <1>2, <1>3

\* A worker.
LEMMA WorkerContract ==
  ASSUME NWorkers = 1, ContractInv, RTypeInv', NEW k \in Workers, WorkerStep(k)
  PROVE  Rely /\ LinksInv'
<1>0. UNCHANGED tcpVars /\ RTypeInv
  BY DEF WorkerStep, ContractInv
<1>1. CASE \E f \in Fds : CloseLink(k, f)
  BY <1>0, <1>1, CloseLinkContract
<1>2. CASE ~\E f \in Fds : CloseLink(k, f)
  <2>1. UNCHANGED <<file, interest, peer, backlog>>
    BY <1>2 DEF WorkerStep, WorkerWait, UnmappedThrows, ForwardAnswer, EraseLink, WorkerRead,
       WorkerSend, WorkerDone, kernelVars
  <2>2. Rely
    BY <1>0, <2>1, QuietRely
  <2>3. CASE WorkerWait(k)
    BY <2>2, <2>3, WorkerWaitLinks
  <2>4. CASE EraseLink(k)
    BY <2>2, <2>4, EraseLinkLinks
  <2>5. CASE \E f \in Fds : ForwardAnswer(k, f)
    <3>1. PICK f \in Fds : ForwardAnswer(k, f)
      BY <2>5
    <3>2. /\ UNCHANGED <<ready, sock_map_, fpc, sock>> /\ wpc[k] # "erase"
          /\ wpc' = [wpc EXCEPT ![k] = "read"] /\ wfd' = [wfd EXCEPT ![k] = f]
          /\ wresp' = [wresp EXCEPT ![k][f] = {}]
      BY <3>1 DEF ForwardAnswer, kernelVars, mapVars, forwardVars
    <3>3. \A j \in Workers, g \in Fds : wresp'[j][g] # {} => wresp[j][g] # {}
      BY <1>0, <3>2 DEF RTypeInv, RTypeOK, ProxyTypeOK
    <3>4. \A j \in Workers : j # k => wfd'[j] = wfd[j]
      BY <1>0, <3>2 DEF RTypeInv, RTypeOK, ProxyTypeOK
    <3> QED
      BY <2>1, <2>2, <3>2, <3>3, <3>4, WorkerQuietLinks
  <2>6. CASE \/ WorkerRead(k) \/ WorkerSend(k) \/ WorkerDone(k)
             \/ \E f \in Fds : UnmappedThrows(k, f)
    <3>1. /\ UNCHANGED <<ready, sock_map_, fpc, sock, wfd, wresp>> /\ wpc[k] # "erase"
          /\ \E p : wpc' = [wpc EXCEPT ![k] = p]
      BY <2>6 DEF WorkerRead, WorkerSend, WorkerDone, UnmappedThrows, kernelVars, mapVars,
         forwardVars
    <3> QED
      BY <2>1, <2>2, <3>1, WorkerQuietLinks
  <2> QED
    BY <1>2, <2>2, <2>3, <2>4, <2>5, <2>6 DEF WorkerStep
<1> QED
  BY <1>1, <1>2

\* The peers.
LEMMA PeerContract ==
  ASSUME ContractInv, RTypeInv', UNCHANGED <<tcpVars, proxyVars>>,
         (\E c \in Clients : Client(c)) \/ (\E k \in Links : Backend(k))
  PROVE  Rely /\ LinksInv'
<1>0. /\ UNCHANGED <<mapVars, workerVars, fpc, sock>> /\ RTypeInv
      /\ peer \in [Conns -> {"new", "open", "closed"}] /\ Clients \subseteq Conns
      /\ Links \subseteq Conns /\ Workers \subseteq Epolls
  BY WorkersAreEpolls DEF proxyVars, forwardVars, ContractInv, RTypeInv, RTypeOK, TypeOK,
     KernelTypeOK, Conns
<1>1. /\ UNCHANGED <<file, interest>> /\ OthersSpareClients
      /\ \A e \in Epolls : ready'[e] \subseteq ready[e] \cup interest[e]
  <2>1. UNCHANGED <<file, interest>> /\ (ready' = ready \/ \E c : ready' = Wake(c))
    BY DEF Client, Backend, ClientConnects, ClientSends, ClientCloses, BackendAnswers,
       BackendCloses, Connect, PeerSend, PeerClose
  <2> QED
    BY <2>1 DEF OthersSpareClients, Wake
<1>2. ClientsConnectOnce
  <2>1. CASE \E c \in Clients : Connect(c)
    <3>1. PICK c \in Clients : /\ peer[c] = "new" /\ peer' = [peer EXCEPT ![c] = "open"]
                               /\ backlog' = backlog \cup {c}
      BY <2>1 DEF Connect
    <3> QED
      BY <1>0, <3>1 DEF ClientsConnectOnce
  <2>2. CASE \E c \in Conns : PeerClose(c)
    <3>1. PICK c \in Conns : peer' = [peer EXCEPT ![c] = "closed"] /\ UNCHANGED backlog
      BY <2>2 DEF PeerClose
    <3> QED
      BY <1>0, <3>1 DEF ClientsConnectOnce
  <2>3. CASE UNCHANGED <<peer, backlog>>
    BY <2>3 DEF ClientsConnectOnce
  <2>4. \/ \E c \in Clients : Connect(c)
        \/ \E c \in Conns : PeerClose(c)
        \/ UNCHANGED <<peer, backlog>>
    BY <1>0 DEF Client, Backend, ClientConnects, ClientSends, ClientCloses, BackendAnswers,
       BackendCloses, PeerSend
  <2> QED
    BY <2>1, <2>2, <2>3, <2>4
<1>3. Rely
  <2>1. KernelTypeOK'
    BY DEF RTypeInv, RTypeOK, TypeOK
  <2> QED
    BY <1>1, <1>2, <2>1 DEF Rely, QueueIsOnlyPopped, tcpVars
<1>4. LinksInv'
  BY <1>0, <1>1, QuietLinks DEF mapVars
<1> QED
  BY <1>3, <1>4

\* A step of the whole is a step of TcpServer or one TcpServer can rely on, and keeps
\* what that rests on.
LEMMA StepKeepsContract ==
  ASSUME NWorkers = 1, ContractInv, [RNext]_allVars PROVE [Next]_vars /\ ContractInv'
<1>1. RTypeInv'
  BY NextRTypeInv DEF ContractInv
<1>2. [Next]_vars /\ LinksInv'
  <2>1. CASE Main \/ \E l \in Loops : Loop(l)
    <3>1. /\ Alive /\ (MainStep \/ \E l \in Loops : LoopStep(l)) /\ UNCHANGED proxyVars
      BY <2>1 DEF Main, Loop, Terminated
    <3> QED
      BY <3>1, TcpKeepsLinks DEF Next, TcpStep
  <2>2. CASE Forwarder
    BY <1>1, <2>2, TakeBatchContract, ForwardContract DEF Forwarder, Next
  <2>3. CASE \E k \in Workers : Worker(k)
    BY <1>1, <2>3, WorkerContract DEF Worker, Next
  <2>4. CASE /\ (\E c \in Clients : Client(c)) \/ (\E k \in Links : Backend(k))
             /\ UNCHANGED <<tcpVars, proxyVars>>
    BY <1>1, <2>4, PeerContract DEF Next
  <2>5. CASE UNCHANGED allVars
    <3>1. UNCHANGED vars /\ UNCHANGED <<file, interest, ready, mapVars, workerVars, fpc, sock>>
      BY <2>5 DEF allVars, vars, kernelVars, proxyVars, forwardVars
    <3> QED
      BY <3>1, QuietLinks DEF mapVars
  <2> QED
    BY <2>1, <2>2, <2>3, <2>4, <2>5 DEF RNext
<1>3. IndInv'
  BY <1>2, NextIndInv DEF ContractInv
<1> QED
  BY <1>1, <1>2, <1>3 DEF ContractInv

\* At first there is no link and no entry.
LEMMA InitContract == ASSUME NWorkers = 1, RInit PROVE Init /\ ContractInv
<1>1. Init
  BY DEF RInit, Init
<1>2. RTypeInv /\ IndInv
  BY <1>1, InitRTypeInv, InitIndInv
<1>3. LinksInv
  BY WorkersAreEpolls DEF RInit, KernelInit, ProxyInit, LinksInv, WorkersWatchLinks,
     WorkersReportLinks, EntriesAreLinks, NewLinkIsOpen
<1> QED
  BY <1>1, <1>2, <1>3 DEF ContractInv

\* With one worker, what the process rests on holds of every reachable state.
THEOREM ContractHolds == ASSUME NWorkers = 1 PROVE RSpec => []ContractInv
<1>1. RInit => ContractInv
  BY InitContract
<1>2. ContractInv /\ [RNext]_allVars => ContractInv'
  BY StepKeepsContract
<1> QED
  BY <1>1, <1>2, PTL DEF RSpec

\* With one worker, the process seen from TcpServer is TcpServer in an environment it can
\* rely on: ProxyServer closes and registers its own links only, although it acts on
\* numbers it looked up before and closes them before it takes its lock
\* (updateForForward, updateForWait).
THEOREM ProxyKeepsTcpContract == ASSUME NWorkers = 1 PROVE RSpec => KeepsTcpContract
<1>1. RInit => Init
  BY InitContract
<1>2. ContractInv /\ [RNext]_allVars => [Next]_vars
  BY StepKeepsContract
<1> QED
  BY <1>1, <1>2, ContractHolds, PTL DEF RSpec, KeepsTcpContract, Spec

\* So in the whole process, too, an entry of conn_map_ owns its descriptor, ...
THEOREM EntriesOwnTheirDescriptorsInProcess ==
  ASSUME NWorkers = 1 PROVE RSpec => []ConnMapMatchesDescriptors
BY ProxyKeepsTcpContract, EntriesOwnTheirDescriptors, PTL DEF KeepsTcpContract

\* ... and no client is connected but unheard.
THEOREM NoConnectionIsDeafInProcess ==
  ASSUME NWorkers = 1 PROVE RSpec => []NoDeafConnection
BY ProxyKeepsTcpContract, NoConnectionIsDeaf, PTL DEF KeepsTcpContract
=============================================================================
