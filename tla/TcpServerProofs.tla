-------------------------- MODULE TcpServerProofs --------------------------
(***************************************************************************)
(* Proofs about TcpServer, for any number of descriptors, clients and      *)
(* sub-reactors, and in any environment that satisfies Rely.               *)
(***************************************************************************)
EXTENDS TcpServer, SequenceTheorems, FiniteSetTheorems, TLAPS

\* Every loop has an epoll of its own.
LEMMA LoopsAreEpolls == Loops \subseteq Epolls /\ 1 \in Loops
BY SocketsAssumption DEF Loops, Epolls

\* What epoll_wait returns is a set of events for every descriptor.
LEMMA HarvestType ==
  ASSUME NEW e PROVE Harvest(e) \in [Fds -> SUBSET EventT]
BY DEF Harvest, Events, EventT

-----------------------------------------------------------------------------
(* Type correctness.                                                       *)

\* The constructor leaves well-typed state.
LEMMA InitTypeOK == Init => TypeOK
BY LoopsAreEpolls DEF Init, KernelInit, TcpInit, TypeOK, KernelTypeOK, TcpTypeOK, NoEvents, LoopPc

\* iter_ stays on a loop.
LEMMA NextIterType == ASSUME NEW l \in Loops PROVE NextIter(l) \in Loops
BY SocketsAssumption DEF Loops, NextIter

\* Closing a descriptor keeps the kernel's tables well-typed.
LEMMA CloseType ==
  ASSUME NEW f, Close(f), KernelTypeOK
  PROVE  /\ file' \in [Fds -> Conns \cup {None}]
         /\ interest' \in [Epolls -> SUBSET Fds] /\ ready' \in [Epolls -> SUBSET Fds]
BY DEF Close, KernelTypeOK

\* So does registering one with an epoll.
LEMMA EpollAddType ==
  ASSUME NEW e, NEW f \in Fds, EpollAdd(e, f), KernelTypeOK
  PROVE  interest' \in [Epolls -> SUBSET Fds] /\ ready' \in [Epolls -> SUBSET Fds]
BY DEF EpollAdd, KernelTypeOK

\* And removing one.
LEMMA EpollDelType ==
  ASSUME NEW e, NEW f, EpollDel(e, f), KernelTypeOK
  PROVE  interest' \in [Epolls -> SUBSET Fds] /\ ready' \in [Epolls -> SUBSET Fds]
BY DEF EpollDel, KernelTypeOK

\* The main thread keeps the state well-typed.
LEMMA MainTypeOK == ASSUME TypeOK, MainHolds, MainStep PROVE TypeOK'
<1> USE DEF TypeOK, TcpTypeOK, mainVars, loopVars
<1>1. CASE \E c \in Clients : Accept(c)
  <2>1. PICK c \in Clients : Accept(c)
    BY <1>1
  <2>2. NextIter(iter_) \in Loops
    BY NextIterType
  <2>3. KernelTypeOK'
    BY <2>1 DEF Accept, KernelTypeOK, Conns
  <2> QED
    BY <2>1, <2>2, <2>3 DEF Accept
<1>2. CASE \E c \in Clients : AcceptFails(c)
  <2>1. KernelTypeOK'
    BY <1>2 DEF AcceptFails, KernelTypeOK
  <2> QED
    BY <1>2, <2>1 DEF AcceptFails, tcpVars
<1>3. CASE UpdateForRegister
  <2>1. sockfd \in Fds /\ accepted \in Clients
    BY <1>3 DEF UpdateForRegister, MainHolds
  <2>2. CASE conn_map_[sockfd] = None
    <3>1. /\ conn_map_' = [conn_map_ EXCEPT ![sockfd] = accepted]
          /\ home' = [home EXCEPT ![accepted] = dmp]
          /\ total_conn_' = total_conn_ + 1
          /\ mpc' = "add"
          /\ UNCHANGED <<file, interest, ready>>
      BY <1>3, <2>2 DEF UpdateForRegister
    <3>2. UNCHANGED <<inq, peer, sent, backlog, sockfd, accepted, dmp, iter_, loopVars, sock_queue_>>
      BY <1>3 DEF UpdateForRegister
    <3>3. KernelTypeOK'
      BY <3>1, <3>2 DEF KernelTypeOK
    <3>4. TcpTypeOK'
      BY <2>1, <3>1, <3>2
    <3> QED
      BY <3>3, <3>4
  <2>3. CASE conn_map_[sockfd] # None
    <3>1. /\ Close(sockfd)
          /\ total_conn_' = total_conn_ - 1
          /\ mpc' = "deadlock"
          /\ UNCHANGED <<conn_map_, home>>
      BY <1>3, <2>3 DEF UpdateForRegister
    <3>2. UNCHANGED <<inq, peer, sent, backlog, sockfd, accepted, dmp, iter_, loopVars, sock_queue_>>
      BY <1>3 DEF UpdateForRegister
    <3>3. KernelTypeOK'
      BY <3>1, <3>2, CloseType DEF KernelTypeOK
    <3>4. TcpTypeOK'
      BY <3>1, <3>2
    <3> QED
      BY <3>3, <3>4
  <2> QED
    BY <2>2, <2>3
<1>4. CASE RegisterWithEpoll
  <2>1. sockfd \in Fds /\ EpollAdd(dmp, sockfd)
    BY <1>4 DEF RegisterWithEpoll, MainHolds
  <2> QED
    BY <1>4, <2>1, EpollAddType DEF RegisterWithEpoll, KernelTypeOK
<1> QED
  BY <1>1, <1>2, <1>3, <1>4 DEF MainStep

\* Removing an entry with its descriptor keeps map and tables well-typed.
LEMMA EraseType ==
  ASSUME TypeOK, NEW l \in Loops, EraseAndClose(l)
  PROVE  /\ conn_map_' \in [Fds -> Clients \cup {None}]
         /\ file' \in [Fds -> Conns \cup {None}]
         /\ interest' \in [Epolls -> SUBSET Fds] /\ ready' \in [Epolls -> SUBSET Fds]
<1>1. CASE conn_map_[cur[l]] = None
  BY <1>1 DEF EraseAndClose, TypeOK, TcpTypeOK, KernelTypeOK
<1>2. CASE conn_map_[cur[l]] # None
  <2>1. Close(cur[l]) /\ conn_map_' = [conn_map_ EXCEPT ![cur[l]] = None]
    BY <1>2 DEF EraseAndClose
  <2> QED
    BY <2>1, CloseType DEF TypeOK, TcpTypeOK
<1> QED
  BY <1>1, <1>2

\* The counter and the program counter after the unlocked look-up.
LEMMA RemoveFindType ==
  ASSUME TypeOK, NEW l \in Loops, NEW found \in LoopPc, NEW absent \in LoopPc,
         RemoveFind(l, found, absent)
  PROVE  total_conn_' \in Int /\ pc' \in [Loops -> LoopPc]
<1> USE DEF TypeOK, TcpTypeOK
<1>1. CASE conn_map_[cur[l]] = None
  <2>1. pc' = [pc EXCEPT ![l] = absent] /\ UNCHANGED total_conn_
    BY <1>1 DEF RemoveFind
  <2> QED
    BY <2>1
<1>2. CASE conn_map_[cur[l]] # None
  <2>1. pc' = [pc EXCEPT ![l] = found] /\ total_conn_' = total_conn_ - 1
    BY <1>2 DEF RemoveFind
  <2> QED
    BY <2>1
<1> QED
  BY <1>1, <1>2

\* Taking one answer off the list of epoll_wait's answers.
LEMMA HandledType ==
  ASSUME TypeOK, NEW l \in Loops, NEW f \in Fds, Handled(l, f)
  PROVE  resp_events_' \in [Loops -> [Fds -> SUBSET EventT]]
<1>1. [resp_events_[l] EXCEPT ![f] = {}] \in [Fds -> SUBSET EventT]
  BY DEF TypeOK, TcpTypeOK
<1> QED
  BY <1>1 DEF Handled, TypeOK, TcpTypeOK

\* The kernel's tables do not change type when nothing in them changes.
LEMMA KernelUnchanged == ASSUME KernelTypeOK, UNCHANGED kernelVars PROVE KernelTypeOK'
BY DEF KernelTypeOK, kernelVars

\* A sub-reactor keeps the state well-typed.
LEMMA LoopTypeOK == ASSUME TypeOK, NEW l \in Loops, LoopStep(l) PROVE TypeOK'
<1> USE DEF TypeOK, TcpTypeOK, mainVars, loopVars
<1>1. CASE DemultiplexWait(l)
  <2>1. KernelTypeOK'
    BY <1>1 DEF DemultiplexWait, KernelTypeOK
  <2>2. TcpTypeOK'
    BY <1>1, HarvestType DEF DemultiplexWait, LoopPc
  <2> QED
    BY <2>1, <2>2
<1>2. CASE \E f \in Fds : SkipUnknown(l, f) \/ ForwardReadable(l, f) \/ Closable(l, f)
  <2>1. PICK f \in Fds : SkipUnknown(l, f) \/ ForwardReadable(l, f) \/ Closable(l, f)
    BY <1>2
  <2>2. KernelTypeOK'
    BY <2>1, KernelUnchanged DEF SkipUnknown, ForwardReadable, Closable
  <2>3. resp_events_' \in [Loops -> [Fds -> SUBSET EventT]]
    BY <2>1, HandledType DEF SkipUnknown, ForwardReadable, Closable
  <2>4. CASE SkipUnknown(l, f)
    BY <2>2, <2>3, <2>4 DEF SkipUnknown
  <2>5. CASE ForwardReadable(l, f)
    BY <2>2, <2>3, <2>5 DEF ForwardReadable
  <2>6. CASE Closable(l, f)
    BY <2>2, <2>3, <2>6 DEF Closable, LoopPc
  <2> QED
    BY <2>1, <2>4, <2>5, <2>6
<1>3. CASE Disconnect(l) \/ RemoveAgain(l)
  <2>1. KernelTypeOK'
    BY <1>3, KernelUnchanged DEF Disconnect, RemoveAgain
  <2>2. total_conn_' \in Int /\ pc' \in [Loops -> LoopPc]
    BY <1>3, RemoveFindType DEF Disconnect, RemoveAgain, LoopPc
  <2> QED
    BY <1>3, <2>1, <2>2 DEF Disconnect, RemoveAgain
<1>4. CASE DisconnectFreed(l) \/ \E f \in Fds : IteratorInvalidated(l, f)
  <2>1. KernelTypeOK'
    BY <1>4, KernelUnchanged DEF DisconnectFreed, IteratorInvalidated
  <2>2. pc' \in [Loops -> LoopPc]
    BY <1>4 DEF DisconnectFreed, IteratorInvalidated, LoopPc
  <2> QED
    BY <1>4, <2>1, <2>2 DEF DisconnectFreed, IteratorInvalidated
<1>5. CASE EraseConnection(l) \/ EraseAgain(l)
  <2>1. EraseAndClose(l)
    BY <1>5 DEF EraseConnection, EraseAgain
  <2>2. KernelTypeOK'
    BY <1>5, <2>1, EraseType DEF EraseConnection, EraseAgain, KernelTypeOK
  <2>3. pc' \in [Loops -> LoopPc]
    BY <1>5 DEF EraseConnection, EraseAgain, LoopPc
  <2>4. conn_map_' \in [Fds -> Clients \cup {None}]
    BY <2>1, EraseType
  <2> QED
    BY <1>5, <2>2, <2>3, <2>4 DEF EraseConnection, EraseAgain
<1>6. CASE RemoveFromEpoll(l)
  <2>1. KernelTypeOK'
    BY <1>6, EpollDelType DEF RemoveFromEpoll, KernelTypeOK
  <2> QED
    BY <1>6, <2>1 DEF RemoveFromEpoll, LoopPc
<1>7. CASE NotifyBalance(l)
  <2>1. KernelTypeOK'
    BY <1>7, KernelUnchanged DEF NotifyBalance
  <2> QED
    BY <1>7, <2>1 DEF NotifyBalance, LoopPc
<1> QED
  BY <1>1, <1>2, <1>3, <1>4, <1>5, <1>6, <1>7 DEF LoopStep

\* So does the rest of the process.
LEMMA RelyTypeOK == ASSUME TypeOK, Rely PROVE TypeOK'
<1>1. sock_queue_' \in Seq(Seq(Fds))
  <2>1. sock_queue_ \in Seq(Seq(Fds))
    BY DEF TypeOK, TcpTypeOK
  <2>2. sock_queue_ # <<>> => Tail(sock_queue_) \in Seq(Seq(Fds))
    BY <2>1, HeadTailProperties
  <2>3. QueueIsOnlyPopped
    BY DEF Rely
  <2> QED
    BY <2>1, <2>2, <2>3 DEF QueueIsOnlyPopped
<1> QED
  BY <1>1 DEF Rely, TypeOK, TcpTypeOK, mainVars, loopVars

-----------------------------------------------------------------------------
(* The inductive invariant, one lemma per action.                          *)

\* The constructor establishes it.
LEMMA InitIndInv == Init => IndInv
<1> SUFFICES ASSUME Init PROVE IndInv
  OBVIOUS
<1>1. TypeOK
  BY InitTypeOK
<1>2. \A f \in Fds : file[f] = None /\ conn_map_[f] = None
  BY DEF Init, KernelInit, TcpInit
<1>3. ConnMapMatchesDescriptors /\ NoDeafConnection
  BY <1>2 DEF ConnMapMatchesDescriptors, NoDeafConnection
<1>4. OneDescriptorPerClient
  BY <1>2, SocketsAssumption DEF OneDescriptorPerClient
<1>5. BacklogIsFresh
  BY <1>2, SocketsAssumption DEF BacklogIsFresh, Init, KernelInit
<1>6. RegisterFindsNoEntry /\ MainHolds /\ LoopsHold
  BY DEF RegisterFindsNoEntry, MainHolds, LoopsHold, Init, TcpInit
<1> QED
  BY <1>1, <1>3, <1>4, <1>5, <1>6 DEF IndInv

\* Accept gives a fresh client a number that has no entry.
LEMMA AcceptIndInv == ASSUME IndInv, NEW c \in Clients, Accept(c) PROVE IndInv'
<1>1. TypeOK'
  <2>1. MainStep
    BY DEF MainStep
  <2> QED
    BY <2>1, MainTypeOK DEF IndInv
<1>2. PICK f \in Fds : LowestFree(f) /\ file' = [file EXCEPT ![f] = c] /\ sockfd' = f
  BY DEF Accept
<1>3. /\ c \in backlog /\ backlog' = backlog \ {c} /\ accepted' = c
      /\ mpc = "accept" /\ mpc' = "register"
      /\ UNCHANGED <<interest, peer, conn_map_, home, pc, cur, tcp_conn>>
  BY DEF Accept, loopVars
<1>4. file[f] = None /\ conn_map_[f] = None
  BY <1>2 DEF LowestFree, IndInv, ConnMapMatchesDescriptors
<1>5. file'[f] = c /\ \A g \in Fds : g # f => file'[g] = file[g]
  BY <1>2 DEF IndInv, TypeOK, KernelTypeOK
<1>6. \A g \in Fds : file[g] # c
  BY <1>3 DEF IndInv, BacklogIsFresh
<1>7. ConnMapMatchesDescriptors'
  BY <1>3, <1>4, <1>5 DEF IndInv, ConnMapMatchesDescriptors
<1>8. RegisterFindsNoEntry'
  BY <1>2, <1>3, <1>4, <1>5 DEF RegisterFindsNoEntry
<1>9. OneDescriptorPerClient'
  BY <1>5, <1>6 DEF IndInv, OneDescriptorPerClient
<1>10. BacklogIsFresh'
  BY <1>3, <1>5, <1>6 DEF IndInv, BacklogIsFresh
<1>11. MainHolds'
  BY <1>2, <1>3 DEF MainHolds
<1>12. LoopsHold'
  BY <1>3 DEF IndInv, LoopsHold
<1>13. NoDeafConnection'
  BY <1>3 DEF IndInv, NoDeafConnection, AboutToRemoveAgain
<1> QED
  BY <1>1, <1>7, <1>8, <1>9, <1>10, <1>11, <1>12, <1>13 DEF IndInv

\* A connection that accept loses had no descriptor.
LEMMA AcceptFailsIndInv == ASSUME IndInv, NEW c \in Clients, AcceptFails(c) PROVE IndInv'
<1>1. TypeOK'
  <2>1. MainStep
    BY DEF MainStep
  <2> QED
    BY <2>1, MainTypeOK DEF IndInv
<1>2. /\ backlog' = backlog \ {c} /\ peer' = [peer EXCEPT ![c] = "closed"]
      /\ UNCHANGED <<file, interest, conn_map_, home, mainVars, pc, cur, tcp_conn>>
  BY DEF AcceptFails, tcpVars, loopVars
<1>3. BacklogIsFresh'
  BY <1>2 DEF IndInv, BacklogIsFresh, TypeOK, KernelTypeOK, Conns
<1>4. ConnMapMatchesDescriptors' /\ OneDescriptorPerClient' /\ LoopsHold'
  BY <1>2 DEF IndInv, ConnMapMatchesDescriptors, OneDescriptorPerClient, LoopsHold
<1>5. RegisterFindsNoEntry' /\ MainHolds'
  BY <1>2 DEF IndInv, RegisterFindsNoEntry, MainHolds, mainVars
<1>6. NoDeafConnection'
  BY <1>2 DEF IndInv, NoDeafConnection, AboutToRemoveAgain, mainVars
<1> QED
  BY <1>1, <1>3, <1>4, <1>5, <1>6 DEF IndInv

\* updateForRegister maps the number to the connection that is behind it.
LEMMA UpdateForRegisterIndInv == ASSUME IndInv, UpdateForRegister PROVE IndInv'
<1>1. TypeOK'
  <2>1. MainStep
    BY DEF MainStep
  <2> QED
    BY <2>1, MainTypeOK DEF IndInv
<1>2. mpc = "register" /\ sockfd \in Fds /\ accepted \in Clients
  BY DEF UpdateForRegister, IndInv, MainHolds
<1>3. conn_map_[sockfd] = None /\ file[sockfd] = accepted
  BY <1>2 DEF IndInv, RegisterFindsNoEntry
<1>4. /\ conn_map_' = [conn_map_ EXCEPT ![sockfd] = accepted]
      /\ home' = [home EXCEPT ![accepted] = dmp]
      /\ mpc' = "add"
      /\ UNCHANGED <<file, interest>>
  BY <1>3 DEF UpdateForRegister
<1>5. UNCHANGED <<peer, backlog, sockfd, accepted, dmp, pc, cur, tcp_conn>>
  BY DEF UpdateForRegister, loopVars
<1>6. conn_map_'[sockfd] = accepted /\ \A g \in Fds : g # sockfd => conn_map_'[g] = conn_map_[g]
  BY <1>2, <1>4 DEF IndInv, TypeOK, TcpTypeOK
<1>7. home'[accepted] = dmp /\ \A c \in Clients : c # accepted => home'[c] = home[c]
  BY <1>2, <1>4 DEF IndInv, TypeOK, TcpTypeOK
<1>8. ConnMapMatchesDescriptors'
  BY <1>3, <1>4, <1>6 DEF IndInv, ConnMapMatchesDescriptors
<1>9. RegisterFindsNoEntry'
  BY <1>4 DEF RegisterFindsNoEntry
<1>10. OneDescriptorPerClient' /\ BacklogIsFresh' /\ LoopsHold'
  BY <1>4, <1>5 DEF IndInv, OneDescriptorPerClient, BacklogIsFresh, LoopsHold
<1>11. MainHolds'
  BY <1>2, <1>4, <1>5, <1>6, <1>7 DEF MainHolds
<1>12. NoDeafConnection'
  <2>1. SUFFICES ASSUME NEW f \in Fds, f # sockfd, conn_map_[f] # None
                 PROVE  \/ \E l \in Loops : AboutToRemoveAgain(l, f)'
                        \/ f \in interest'[home'[conn_map_'[f]]]
    BY <1>4, <1>5, <1>6 DEF NoDeafConnection
  <2>2. conn_map_[f] \in Clients /\ file[f] = conn_map_[f]
    BY <2>1 DEF IndInv, TypeOK, TcpTypeOK, ConnMapMatchesDescriptors
  <2>3. conn_map_[f] # accepted
    BY <1>2, <1>3, <2>1, <2>2 DEF IndInv, OneDescriptorPerClient
  <2>4. home'[conn_map_'[f]] = home[conn_map_[f]]
    BY <1>6, <1>7, <2>1, <2>2, <2>3
  <2> QED
    BY <1>2, <1>4, <1>5, <2>1, <2>4 DEF IndInv, NoDeafConnection, AboutToRemoveAgain
<1> QED
  BY <1>1, <1>8, <1>9, <1>10, <1>11, <1>12 DEF IndInv

\* epoll_ctl(ADD) registers the entry with the loop it was given to.
LEMMA RegisterWithEpollIndInv == ASSUME IndInv, RegisterWithEpoll PROVE IndInv'
<1>1. TypeOK'
  <2>1. MainStep
    BY DEF MainStep
  <2> QED
    BY <2>1, MainTypeOK DEF IndInv
<1>2. /\ mpc = "add" /\ mpc' = "accept" /\ EpollAdd(dmp, sockfd)
      /\ UNCHANGED <<file, peer, backlog, conn_map_, home, pc, cur, tcp_conn>>
  BY DEF RegisterWithEpoll, loopVars
<1>3. /\ sockfd \in Fds /\ accepted \in Clients /\ home[accepted] = dmp
      /\ conn_map_[sockfd] \in {None, accepted}
  BY <1>2 DEF IndInv, MainHolds
<1>4. dmp \in Epolls
  BY LoopsAreEpolls DEF IndInv, TypeOK, TcpTypeOK
<1>a. interest \in [Epolls -> SUBSET Fds]
  BY DEF IndInv, TypeOK, KernelTypeOK
<1>5. \A e \in Epolls : interest[e] \subseteq interest'[e]
  BY ONLY <1>2, <1>4, <1>a DEF EpollAdd
<1>6. file[sockfd] # None => sockfd \in interest'[dmp]
  BY ONLY <1>2, <1>4, <1>a DEF EpollAdd
<1>7. NoDeafConnection'
  <2>1. SUFFICES ASSUME NEW f \in Fds, conn_map_[f] # None
                 PROVE  \/ \E l \in Loops : AboutToRemoveAgain(l, f)'
                        \/ f \in interest'[home[conn_map_[f]]]
    BY <1>2 DEF NoDeafConnection
  <2>2. home[conn_map_[f]] \in Epolls
    BY <2>1, LoopsAreEpolls DEF IndInv, TypeOK, TcpTypeOK
  <2>3. CASE f = sockfd
    <3>1. file[f] = accepted /\ conn_map_[f] = accepted
      BY <1>3, <2>1, <2>3 DEF IndInv, ConnMapMatchesDescriptors
    <3> QED
      BY <1>3, <1>6, <2>1, <2>3, <3>1
  <2>4. CASE f # sockfd
    BY <1>2, <1>5, <2>1, <2>2, <2>4 DEF IndInv, NoDeafConnection, AboutToRemoveAgain
  <2> QED
    BY <2>3, <2>4
<1>8. ConnMapMatchesDescriptors' /\ OneDescriptorPerClient' /\ BacklogIsFresh' /\ LoopsHold'
  BY <1>2 DEF IndInv, ConnMapMatchesDescriptors, OneDescriptorPerClient, BacklogIsFresh, LoopsHold
<1>9. RegisterFindsNoEntry' /\ MainHolds'
  BY <1>2 DEF RegisterFindsNoEntry, MainHolds
<1> QED
  BY <1>1, <1>7, <1>8, <1>9 DEF IndInv

\* Most steps of a sub-reactor touch no descriptor, entry or registration.  They
\* keep the invariant if the loop still holds what its new place requires, and
\* forgets a second removal only when there is nothing left to remove.
LEMMA QuietStepIndInv ==
  ASSUME IndInv, TypeOK', LoopsHold',
         UNCHANGED <<file, interest, peer, backlog, conn_map_, home, mainVars>>,
         \A f \in Fds : conn_map_[f] # None =>
           \A k \in Loops : AboutToRemoveAgain(k, f) => AboutToRemoveAgain(k, f)'
  PROVE  IndInv'
<1>1. ConnMapMatchesDescriptors' /\ RegisterFindsNoEntry'
  BY DEF IndInv, ConnMapMatchesDescriptors, RegisterFindsNoEntry, mainVars
<1>2. OneDescriptorPerClient' /\ BacklogIsFresh'
  BY DEF IndInv, OneDescriptorPerClient, BacklogIsFresh
<1>3. MainHolds'
  BY DEF IndInv, MainHolds, mainVars
<1>4. NoDeafConnection'
  BY DEF IndInv, NoDeafConnection, mainVars
<1> QED
  BY <1>1, <1>2, <1>3, <1>4 DEF IndInv

\* The steps of updateForWait that only move a loop on.
LEMMA DispatchIndInv ==
  ASSUME IndInv, NEW l \in Loops,
         \/ DemultiplexWait(l) \/ NotifyBalance(l)
         \/ \E f \in Fds : SkipUnknown(l, f) \/ ForwardReadable(l, f)
  PROVE  IndInv'
<1>1. TypeOK'
  BY LoopTypeOK DEF IndInv, LoopStep
<1>2. /\ UNCHANGED <<file, interest, peer, backlog, conn_map_, home, mainVars, cur, tcp_conn>>
      /\ \E p \in {"wait", "dispatch"} : pc' = [pc EXCEPT ![l] = p]
      /\ pc[l] \in {"wait", "dispatch"}
  <2>1. CASE DemultiplexWait(l)
    BY <2>1 DEF DemultiplexWait
  <2>2. CASE NotifyBalance(l)
    BY <2>2 DEF NotifyBalance, kernelVars
  <2>3. CASE \E f \in Fds : SkipUnknown(l, f) \/ ForwardReadable(l, f)
    BY <2>3 DEF SkipUnknown, ForwardReadable, kernelVars, IndInv, TypeOK, TcpTypeOK
  <2> QED
    BY <2>1, <2>2, <2>3
<1>3. LoopsHold'
  BY <1>2 DEF IndInv, LoopsHold, TypeOK, TcpTypeOK
<1>4. \A f \in Fds, k \in Loops : AboutToRemoveAgain(k, f) => AboutToRemoveAgain(k, f)'
  BY <1>2 DEF AboutToRemoveAgain, IndInv, TypeOK, TcpTypeOK
<1> QED
  BY <1>1, <1>2, <1>3, <1>4, QuietStepIndInv

\* CLOSABLE: the loop takes the descriptor and the object mapped to it in hand.
LEMMA ClosableIndInv ==
  ASSUME IndInv, NEW l \in Loops, NEW f \in Fds, Closable(l, f) PROVE IndInv'
<1>1. TypeOK'
  BY LoopTypeOK DEF IndInv, LoopStep
<1>2. /\ UNCHANGED <<file, interest, peer, backlog, conn_map_, home, mainVars>>
      /\ pc[l] = "dispatch" /\ pc' = [pc EXCEPT ![l] = "leave"]
      /\ cur' = [cur EXCEPT ![l] = f] /\ tcp_conn' = [tcp_conn EXCEPT ![l] = conn_map_[f]]
      /\ conn_map_[f] \in Clients
  BY DEF Closable, kernelVars, IndInv, TypeOK, TcpTypeOK
<1>3. LoopsHold'
  BY <1>2 DEF IndInv, LoopsHold, TypeOK, TcpTypeOK
<1>4. \A g \in Fds, k \in Loops : AboutToRemoveAgain(k, g) => AboutToRemoveAgain(k, g)'
  BY <1>2 DEF AboutToRemoveAgain, IndInv, TypeOK, TcpTypeOK
<1> QED
  BY <1>1, <1>2, <1>3, <1>4, QuietStepIndInv

\* The look-ups of removeConnection, and the crash on a destroyed object or an invalid
\* iterator.
LEMMA FindIndInv ==
  ASSUME IndInv, NEW l \in Loops,
         \/ Disconnect(l) \/ DisconnectFreed(l) \/ RemoveAgain(l)
         \/ \E f \in Fds : IteratorInvalidated(l, f)
  PROVE  IndInv'
<1>1. TypeOK'
  BY LoopTypeOK DEF IndInv, LoopStep
<1>2. UNCHANGED <<file, interest, peer, backlog, conn_map_, home, mainVars, cur, tcp_conn>>
  BY DEF Disconnect, DisconnectFreed, RemoveAgain, IteratorInvalidated, kernelVars
<1>3. /\ pc[l] \in {"dispatch", "leave", "again"}
      /\ \E p : /\ pc' = [pc EXCEPT ![l] = p]
                /\ pc[l] = "again" => conn_map_[cur[l]] = None \/ p \in {"eraseAgain", "crash"}
                /\ pc[l] = "dispatch" => p = "crash"
  <2>1. CASE Disconnect(l)
    BY <2>1 DEF Disconnect, RemoveFind
  <2>2. CASE DisconnectFreed(l)
    BY <2>2 DEF DisconnectFreed
  <2>3. CASE RemoveAgain(l)
    BY <2>3 DEF RemoveAgain, RemoveFind
  <2>4. CASE \E f \in Fds : IteratorInvalidated(l, f)
    BY <2>4 DEF IteratorInvalidated
  <2> QED
    BY <2>1, <2>2, <2>3, <2>4
<1>4. LoopsHold'
  BY <1>2, <1>3 DEF IndInv, LoopsHold, TypeOK, TcpTypeOK
<1>5. \A f \in Fds : conn_map_[f] # None =>
        \A k \in Loops : AboutToRemoveAgain(k, f) => AboutToRemoveAgain(k, f)'
  BY <1>2, <1>3 DEF AboutToRemoveAgain, IndInv, TypeOK, TcpTypeOK
<1> QED
  BY <1>1, <1>2, <1>4, <1>5, QuietStepIndInv

\* The late EPOLL_CTL_DEL may unregister another client's number, but the loop is
\* then about to remove that client.
LEMMA RemoveFromEpollIndInv ==
  ASSUME IndInv, NEW l \in Loops, RemoveFromEpoll(l) PROVE IndInv'
<1>1. TypeOK'
  BY LoopTypeOK DEF IndInv, LoopStep
<1>2. /\ pc[l] = "del" /\ pc' = [pc EXCEPT ![l] = "again"]
      /\ EpollDel(home[tcp_conn[l]], cur[l])
      /\ UNCHANGED <<file, peer, backlog, conn_map_, home, mainVars, cur, tcp_conn>>
  BY DEF RemoveFromEpoll
<1>3. \A e \in Epolls, f \in Fds : f # cur[l] /\ f \in interest[e] => f \in interest'[e]
  BY <1>2 DEF EpollDel, IndInv, TypeOK, KernelTypeOK
<1>4. AboutToRemoveAgain(l, cur[l])'
  BY <1>2 DEF AboutToRemoveAgain, IndInv, TypeOK, TcpTypeOK
<1>5. \A f \in Fds, k \in Loops : AboutToRemoveAgain(k, f) => AboutToRemoveAgain(k, f)'
  BY <1>2 DEF AboutToRemoveAgain, IndInv, TypeOK, TcpTypeOK
<1>6. NoDeafConnection'
  <2>1. SUFFICES ASSUME NEW f \in Fds, conn_map_[f] # None, f # cur[l]
                 PROVE  \/ mpc = "add" /\ sockfd = f
                        \/ \E k \in Loops : AboutToRemoveAgain(k, f)'
                        \/ f \in interest'[home[conn_map_[f]]]
    BY <1>2, <1>4 DEF NoDeafConnection, AboutToRemoveAgain, mainVars
  <2>2. home[conn_map_[f]] \in Epolls
    BY <2>1, LoopsAreEpolls DEF IndInv, TypeOK, TcpTypeOK
  <2> QED
    BY <1>3, <1>5, <2>1, <2>2 DEF IndInv, NoDeafConnection
<1>7. LoopsHold'
  BY <1>2 DEF IndInv, LoopsHold, TypeOK, TcpTypeOK
<1>8. ConnMapMatchesDescriptors' /\ OneDescriptorPerClient' /\ BacklogIsFresh'
  BY <1>2 DEF IndInv, ConnMapMatchesDescriptors, OneDescriptorPerClient, BacklogIsFresh
<1>9. RegisterFindsNoEntry' /\ MainHolds'
  BY <1>2 DEF IndInv, RegisterFindsNoEntry, MainHolds, mainVars
<1> QED
  BY <1>1, <1>6, <1>7, <1>8, <1>9 DEF IndInv

\* Entry, descriptor and registrations go in one step; a number that has no entry
\* (one the main thread is about to enter, for instance) is left alone.
LEMMA EraseIndInv ==
  ASSUME IndInv, NEW l \in Loops, EraseConnection(l) \/ EraseAgain(l) PROVE IndInv'
<1>1. TypeOK'
  BY LoopTypeOK DEF IndInv, LoopStep
<1>2. /\ EraseAndClose(l) /\ pc[l] \in {"erase", "eraseAgain"}
      /\ UNCHANGED <<peer, backlog, home, mainVars, cur, tcp_conn>>
      /\ \E p \in {"del", "dispatch"} : pc' = [pc EXCEPT ![l] = p]
  BY DEF EraseConnection, EraseAgain
<1>3. cur[l] \in Fds
  BY <1>2 DEF IndInv, LoopsHold
<1>4. conn_map_'[cur[l]] = None
  BY <1>2, <1>3 DEF EraseAndClose, IndInv, TypeOK, TcpTypeOK
<1>5. /\ \A f \in Fds : f # cur[l] => conn_map_'[f] = conn_map_[f] /\ file'[f] = file[f]
      /\ \A e \in Epolls, f \in Fds : f # cur[l] /\ f \in interest[e] => f \in interest'[e]
      /\ conn_map_[cur[l]] = None => file' = file
      /\ conn_map_[cur[l]] # None => file'[cur[l]] = None
  <2>1. CASE conn_map_[cur[l]] = None
    BY <1>2, <2>1 DEF EraseAndClose
  <2>2. CASE conn_map_[cur[l]] # None
    <3>1. conn_map_' = [conn_map_ EXCEPT ![cur[l]] = None] /\ Close(cur[l])
      BY <1>2, <2>2 DEF EraseAndClose
    <3> QED
      BY <1>3, <2>2, <3>1 DEF Close, IndInv, TypeOK, TcpTypeOK, KernelTypeOK
  <2> QED
    BY <2>1, <2>2
<1>6. \A f \in Fds : file'[f] \in Clients => file'[f] = file[f]
  BY <1>5, SocketsAssumption
<1>7. ConnMapMatchesDescriptors'
  BY <1>4, <1>5 DEF IndInv, ConnMapMatchesDescriptors
<1>8. RegisterFindsNoEntry'
  <2>1. CASE mpc = "register"
    <3>1. sockfd \in Fds /\ conn_map_[sockfd] = None /\ file[sockfd] = accepted
      BY <2>1 DEF IndInv, RegisterFindsNoEntry, MainHolds
    <3> QED
      BY <1>2, <1>4, <1>5, <2>1, <3>1 DEF RegisterFindsNoEntry, mainVars
  <2>2. CASE mpc # "register"
    BY <1>2, <2>2 DEF IndInv, RegisterFindsNoEntry, mainVars
  <2> QED
    BY <2>1, <2>2
<1>9. OneDescriptorPerClient'
  BY <1>6 DEF IndInv, OneDescriptorPerClient
<1>10. BacklogIsFresh'
  <2>1. \A c \in backlog : \A f \in Fds : file'[f] # c
    BY <1>6 DEF IndInv, BacklogIsFresh, TypeOK, KernelTypeOK
  <2>2. \A f \in Fds : file'[f] \in Clients => peer[file'[f]] # "new"
    BY <1>6 DEF IndInv, BacklogIsFresh
  <2> QED
    BY <1>2, <2>1, <2>2 DEF IndInv, BacklogIsFresh
<1>11. MainHolds'
  BY <1>2, <1>4, <1>5 DEF IndInv, MainHolds, mainVars
<1>12. LoopsHold'
  BY <1>2 DEF IndInv, LoopsHold, TypeOK, TcpTypeOK
<1>13. NoDeafConnection'
  <2>1. SUFFICES ASSUME NEW f \in Fds, conn_map_[f] # None, f # cur[l]
                 PROVE  \/ mpc = "add" /\ sockfd = f
                        \/ \E k \in Loops : AboutToRemoveAgain(k, f)'
                        \/ f \in interest'[home[conn_map_[f]]]
    BY <1>2, <1>4, <1>5 DEF NoDeafConnection, mainVars
  <2>2. home[conn_map_[f]] \in Epolls
    BY <2>1, LoopsAreEpolls DEF IndInv, TypeOK, TcpTypeOK
  <2>3. \A k \in Loops : AboutToRemoveAgain(k, f) => AboutToRemoveAgain(k, f)'
    BY <1>2, <2>1 DEF AboutToRemoveAgain, IndInv, TypeOK, TcpTypeOK
  <2> QED
    BY <1>5, <2>1, <2>2, <2>3 DEF IndInv, NoDeafConnection
<1> QED
  BY <1>1, <1>7, <1>8, <1>9, <1>10, <1>11, <1>12, <1>13 DEF IndInv

\* The rest of the process and the peers.
LEMMA RelyIndInv == ASSUME IndInv, Rely PROVE IndInv'
<1>1. TypeOK'
  BY RelyTypeOK DEF IndInv
<1>2. /\ UNCHANGED <<conn_map_, home, mpc, sockfd, accepted, dmp, pc, cur, tcp_conn>>
      /\ OthersSpareClients /\ ClientsConnectOnce
  BY DEF Rely, mainVars, loopVars
<1>3. \A f \in Fds : file[f] \in Clients \/ file'[f] \in Clients => file'[f] = file[f]
  BY <1>2 DEF OthersSpareClients
<1>4. \A f \in Fds : conn_map_[f] # None => conn_map_[f] \in Clients /\ file[f] = conn_map_[f]
  BY DEF IndInv, TypeOK, TcpTypeOK, ConnMapMatchesDescriptors
<1>5. ConnMapMatchesDescriptors'
  BY <1>2, <1>3, <1>4 DEF ConnMapMatchesDescriptors
<1>6. RegisterFindsNoEntry'
  BY <1>2, <1>3 DEF IndInv, RegisterFindsNoEntry, MainHolds
<1>7. OneDescriptorPerClient'
  BY <1>3 DEF IndInv, OneDescriptorPerClient
<1>8. BacklogIsFresh'
  <2>1. \A c \in backlog' : peer'[c] # "new" /\ \A f \in Fds : file'[f] # c
    <3>1. SUFFICES ASSUME NEW c \in backlog'
                   PROVE  peer'[c] # "new" /\ \A f \in Fds : file'[f] # c
      OBVIOUS
    <3>2. c \in Clients
      BY <1>1 DEF TypeOK, KernelTypeOK
    <3>3. peer'[c] # "new" /\ \A f \in Fds : file[f] # c
      BY <1>2, <3>2 DEF ClientsConnectOnce, IndInv, BacklogIsFresh
    <3> QED
      BY <1>3, <3>2, <3>3
  <2>2. \A f \in Fds : file'[f] \in Clients => peer'[file'[f]] # "new"
    BY <1>2, <1>3 DEF ClientsConnectOnce, IndInv, BacklogIsFresh
  <2> QED
    BY <2>1, <2>2 DEF BacklogIsFresh
<1>9. MainHolds' /\ LoopsHold'
  BY <1>2 DEF IndInv, MainHolds, LoopsHold
<1>10. NoDeafConnection'
  <2>1. SUFFICES ASSUME NEW f \in Fds, conn_map_[f] # None, f \in interest[home[conn_map_[f]]]
                 PROVE  f \in interest'[home[conn_map_[f]]]
    BY <1>2 DEF IndInv, NoDeafConnection, AboutToRemoveAgain
  <2>2. home[conn_map_[f]] \in Loops
    BY <2>1, <1>4 DEF IndInv, TypeOK, TcpTypeOK
  <2> QED
    BY <1>2, <1>4, <2>1, <2>2 DEF OthersSpareClients
<1> QED
  BY <1>1, <1>5, <1>6, <1>7, <1>8, <1>9, <1>10 DEF IndInv

\* A step that changes nothing.
LEMMA StutterIndInv == ASSUME IndInv, UNCHANGED vars PROVE IndInv'
<1>1. /\ UNCHANGED <<file, interest, peer, backlog, conn_map_, home, mainVars>>
      /\ UNCHANGED <<pc, cur, tcp_conn>>
  BY DEF vars, kernelVars, tcpVars, loopVars
<1>2. KernelTypeOK'
  BY KernelUnchanged DEF IndInv, TypeOK, vars
<1>3. TcpTypeOK'
  BY DEF IndInv, TypeOK, TcpTypeOK, vars, tcpVars, mainVars, loopVars
<1>4. LoopsHold'
  BY <1>1 DEF IndInv, LoopsHold
<1>5. \A f \in Fds, k \in Loops : AboutToRemoveAgain(k, f) => AboutToRemoveAgain(k, f)'
  BY <1>1 DEF AboutToRemoveAgain
<1> QED
  BY <1>1, <1>2, <1>3, <1>4, <1>5, QuietStepIndInv DEF TypeOK

\* Every step of TcpServer, of its environment or of nobody keeps the invariant.
LEMMA NextIndInv == IndInv /\ [Next]_vars => IndInv'
<1> SUFFICES ASSUME IndInv, [Next]_vars PROVE IndInv'
  OBVIOUS
<1>1. CASE MainStep
  BY <1>1, AcceptIndInv, AcceptFailsIndInv, UpdateForRegisterIndInv,
     RegisterWithEpollIndInv DEF MainStep
<1>2. CASE \E l \in Loops : LoopStep(l)
  <2>1. PICK l \in Loops : LoopStep(l)
    BY <1>2
  <2> QED
    BY <2>1, DispatchIndInv, ClosableIndInv, FindIndInv, RemoveFromEpollIndInv, EraseIndInv
       DEF LoopStep
<1>3. CASE Rely
  BY <1>3, RelyIndInv
<1>4. CASE UNCHANGED vars
  BY <1>4, StutterIndInv
<1> QED
  BY <1>1, <1>2, <1>3, <1>4 DEF Next, TcpStep

\* TcpServer's state stays well-typed, and with it everything a thread may assume
\* of descriptors, entries and registrations between two steps of the others.
THEOREM InductiveInvariant == Spec => []IndInv
BY InitIndInv, NextIndInv, PTL DEF Spec

\* Type correctness of the descriptor table, the epolls, conn_map_ and the threads.
THEOREM TypeCorrect == Spec => []TypeOK
<1>1. IndInv => TypeOK
  BY DEF IndInv
<1> QED
  BY <1>1, InductiveInvariant, PTL

\* removeConnection and ~TcpConnection: an entry of conn_map_ always names the
\* connection that is behind its descriptor, however numbers are reused.
THEOREM EntriesOwnTheirDescriptors == Spec => []ConnMapMatchesDescriptors
<1>1. IndInv => ConnMapMatchesDescriptors
  BY DEF IndInv
<1> QED
  BY <1>1, InductiveInvariant, PTL

\* updateForRegister: emplace never meets an entry, so the main thread never locks
\* mx_ twice.
THEOREM RegistrationNeverCollides == Spec => []RegisterFindsNoEntry
<1>1. IndInv => RegisterFindsNoEntry
  BY DEF IndInv
<1> QED
  BY <1>1, InductiveInvariant, PTL

\* demultiplexRemove's EPOLL_CTL_DEL by number leaves no client connected and
\* unheard, with any number of sub-reactors.
THEOREM NoConnectionIsDeaf == Spec => []NoDeafConnection
<1>1. IndInv => NoDeafConnection
  BY DEF IndInv
<1> QED
  BY <1>1, InductiveInvariant, PTL
-----------------------------------------------------------------------------
(* The counter of connections.                                             *)

\* The numbers conn_map_ has an entry for, and the loops that have found and counted off
\* an entry and not erased it yet.
Mapped   == {f \in Fds : conn_map_[f] # None}
Removing == {l \in Loops : pc[l] \in {"erase", "eraseAgain"}}

\* There may be infinitely many numbers, but only finitely many are in the map.
CountInv == IsFiniteSet(Mapped) /\ total_conn_ <= Cardinality(Mapped) - Cardinality(Removing)

\* Any set of loops is finite.
LEMMA RemovingIsFinite ==
  /\ IsFiniteSet(Removing) /\ Cardinality(Removing) \in Nat
  /\ IsFiniteSet(Removing') /\ Cardinality(Removing') \in Nat
<1>1. IsFiniteSet(Loops)
  BY FS_Interval, SocketsAssumption DEF Loops
<1>2. Removing \subseteq Loops /\ Removing' \subseteq Loops
  BY DEF Removing
<1>3. IsFiniteSet(Removing) /\ IsFiniteSet(Removing')
  BY <1>1, <1>2, FS_Subset
<1> QED
  BY <1>3, FS_CardinalityType

\* A step that changes neither set nor the counter.
LEMMA QuietCount ==
  ASSUME CountInv, UNCHANGED <<total_conn_, conn_map_>>, Removing' = Removing PROVE CountInv'
BY DEF CountInv, Mapped

\* updateForRegister adds an entry and counts it.
LEMMA RegisterCount == ASSUME IndInv, CountInv, UpdateForRegister PROVE CountInv'
<1>1. /\ mpc = "register" /\ sockfd \in Fds /\ accepted \in Clients /\ conn_map_[sockfd] = None
      /\ conn_map_ \in [Fds -> Clients \cup {None}] /\ total_conn_ \in Int
  BY DEF UpdateForRegister, IndInv, MainHolds, RegisterFindsNoEntry, TypeOK, TcpTypeOK
<1>2. /\ conn_map_' = [conn_map_ EXCEPT ![sockfd] = accepted] /\ total_conn_' = total_conn_ + 1
      /\ pc' = pc
  BY <1>1 DEF UpdateForRegister, loopVars
<1>3. Mapped' = Mapped \cup {sockfd} /\ sockfd \notin Mapped /\ Removing' = Removing
  BY <1>1, <1>2, SocketsAssumption DEF Mapped, Removing
<1>4. IsFiniteSet(Mapped') /\ Cardinality(Mapped') = Cardinality(Mapped) + 1
  BY <1>3, FS_AddElement DEF CountInv
<1>5. Cardinality(Mapped) \in Nat /\ Cardinality(Removing) \in Nat
  BY RemovingIsFinite, FS_CardinalityType DEF CountInv
<1> QED
  BY <1>1, <1>2, <1>3, <1>4, <1>5 DEF CountInv

\* removeConnection counts an entry off when it finds it, before it takes the lock.
LEMMA FindCount ==
  ASSUME IndInv, CountInv, NEW l \in Loops, Disconnect(l) \/ RemoveAgain(l) PROVE CountInv'
<1>1. /\ pc[l] \notin {"erase", "eraseAgain"} /\ UNCHANGED conn_map_
      /\ \E found \in {"erase", "eraseAgain"}, absent \in {"del", "dispatch"} :
           RemoveFind(l, found, absent)
      /\ pc \in [Loops -> LoopPc] /\ total_conn_ \in Int
  BY DEF Disconnect, RemoveAgain, IndInv, TypeOK, TcpTypeOK
<1>2. CASE conn_map_[cur[l]] = None
  <2>1. UNCHANGED total_conn_ /\ Removing' = Removing
    BY <1>1, <1>2 DEF RemoveFind, Removing
  <2> QED
    BY <1>1, <2>1, QuietCount
<1>3. CASE conn_map_[cur[l]] # None
  <2>1. /\ total_conn_' = total_conn_ - 1 /\ Removing' = Removing \cup {l} /\ l \notin Removing
    BY <1>1, <1>3 DEF RemoveFind, Removing
  <2>2. Cardinality(Removing') = Cardinality(Removing) + 1
    BY <2>1, RemovingIsFinite, FS_AddElement
  <2>3. Cardinality(Mapped) \in Nat /\ Mapped' = Mapped
    BY <1>1, FS_CardinalityType DEF CountInv, Mapped
  <2> QED
    BY <1>1, <2>1, <2>2, <2>3, RemovingIsFinite DEF CountInv
<1> QED
  BY <1>2, <1>3

\* Under the lock the entry goes, if another loop has not taken it already.
LEMMA EraseCount ==
  ASSUME IndInv, CountInv, NEW l \in Loops, EraseConnection(l) \/ EraseAgain(l) PROVE CountInv'
<1>1. /\ pc[l] \in {"erase", "eraseAgain"} /\ EraseAndClose(l) /\ UNCHANGED total_conn_
      /\ \E p \in {"del", "dispatch"} : pc' = [pc EXCEPT ![l] = p]
      /\ pc \in [Loops -> LoopPc] /\ total_conn_ \in Int /\ cur[l] \in Fds
      /\ conn_map_ \in [Fds -> Clients \cup {None}]
  BY DEF EraseConnection, EraseAgain, IndInv, TypeOK, TcpTypeOK, LoopsHold
<1>2. Removing' = Removing \ {l} /\ l \in Removing
  BY <1>1 DEF Removing
<1>3. Cardinality(Removing') = Cardinality(Removing) - 1
  BY <1>2, RemovingIsFinite, FS_RemoveElement
<1>4. Cardinality(Mapped) \in Nat
  BY FS_CardinalityType DEF CountInv
<1>5. CASE conn_map_[cur[l]] = None
  <2>1. Mapped' = Mapped
    BY <1>1, <1>5 DEF EraseAndClose, Mapped
  <2> QED
    BY <1>1, <1>3, <1>4, <2>1, RemovingIsFinite DEF CountInv
<1>6. CASE conn_map_[cur[l]] # None
  <2>1. Mapped' = Mapped \ {cur[l]} /\ cur[l] \in Mapped
    BY <1>1, <1>6 DEF EraseAndClose, Mapped
  <2>2. IsFiniteSet(Mapped') /\ Cardinality(Mapped') = Cardinality(Mapped) - 1
    BY <2>1, FS_RemoveElement DEF CountInv
  <2> QED
    BY <1>1, <1>3, <1>4, <2>2, RemovingIsFinite DEF CountInv
<1> QED
  BY <1>5, <1>6

\* Every step.
LEMMA NextCount == IndInv /\ CountInv /\ [Next]_vars => CountInv'
<1> SUFFICES ASSUME IndInv, CountInv, [Next]_vars PROVE CountInv'
  OBVIOUS
<1>0. pc \in [Loops -> LoopPc]
  BY DEF IndInv, TypeOK, TcpTypeOK
<1>1. CASE MainStep
  <2>1. CASE UpdateForRegister
    BY <2>1, RegisterCount
  <2>2. CASE ~UpdateForRegister
    <3>1. UNCHANGED <<total_conn_, conn_map_, pc>>
      BY <1>1, <2>2 DEF MainStep, Accept, AcceptFails, RegisterWithEpoll, tcpVars, loopVars
    <3> QED
      BY <3>1, QuietCount DEF Removing
  <2> QED
    BY <2>1, <2>2
<1>2. ASSUME NEW l \in Loops, LoopStep(l) PROVE CountInv'
  <2>1. CASE Disconnect(l) \/ RemoveAgain(l)
    BY <2>1, FindCount
  <2>2. CASE EraseConnection(l) \/ EraseAgain(l)
    BY <2>2, EraseCount
  <2>3. CASE \/ DemultiplexWait(l) \/ DisconnectFreed(l) \/ RemoveFromEpoll(l) \/ NotifyBalance(l)
             \/ \E f \in Fds : \/ SkipUnknown(l, f) \/ ForwardReadable(l, f) \/ Closable(l, f)
                               \/ IteratorInvalidated(l, f)
    <3>1. /\ UNCHANGED <<total_conn_, conn_map_>> /\ pc[l] \notin {"erase", "eraseAgain"}
          /\ \/ pc' = pc
             \/ \E p \in {"dispatch", "crash", "again", "wait", "leave"} : pc' = [pc EXCEPT ![l] = p]
      BY <2>3 DEF DemultiplexWait, DisconnectFreed, RemoveFromEpoll, NotifyBalance, SkipUnknown,
         ForwardReadable, Closable, IteratorInvalidated
    <3>2. Removing' = Removing
      BY <1>0, <3>1 DEF Removing
    <3> QED
      BY <3>1, <3>2, QuietCount
  <2> QED
    BY <1>2, <2>1, <2>2, <2>3 DEF LoopStep
<1>3. CASE Rely \/ UNCHANGED vars
  <2>1. UNCHANGED <<total_conn_, conn_map_, pc>>
    BY <1>3 DEF Rely, vars, tcpVars, loopVars
  <2> QED
    BY <2>1, QuietCount DEF Removing
<1> QED
  BY <1>1, <1>2, <1>3 DEF Next, TcpStep

\* removeConnection and updateForRegister: the counter never says more than the map holds,
\* although it is counted down without the lock and by every loop that finds the entry.
THEOREM CountIsNeverTooHigh == Spec => []CountNeverOverstates
<1>1. Init => CountInv
  <2> SUFFICES ASSUME Init PROVE CountInv
    OBVIOUS
  <2>1. Mapped = {} /\ Removing = {} /\ total_conn_ = 0
    BY DEF Init, TcpInit, Mapped, Removing
  <2> QED
    BY <2>1, FS_EmptySet DEF CountInv
<1>2. CountInv => CountNeverOverstates
  BY DEF CountInv, CountNeverOverstates, Mapped, Removing
<1> QED
  BY <1>1, <1>2, NextCount, InductiveInvariant, PTL DEF Spec
=============================================================================
