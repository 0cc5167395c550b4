----------------------------- MODULE TcpServer -----------------------------
(***************************************************************************)
(* reactor::TcpServer: the main thread accepts clients and hands them to   *)
(* the sub-reactors, each sub-reactor waits on its own epoll, passes the   *)
(* readable clients to the load balancer and tears down the closed ones.   *)
(*                                                                         *)
(* Grain of atomicity.  A section under TcpServer::mx_ is one step, as is  *)
(* a system call.  A look-up of conn_map_ made without the lock is a step  *)
(* of its own and is taken to be atomic.  Everything else a thread does    *)
(* between two of those is folded into the step before it.                 *)
(*                                                                         *)
(* Code the sockets have no part in is left out: the peer address and the  *)
(* traffic account of a client (its address is accounted, with 0 bytes, at *)
(* registration), the log lines, and EPOLLOUT with sendInLoop: only        *)
(* TcpConnection::send asks for it, which the servers never call (see      *)
(* TcpConnection).                                                         *)
(***************************************************************************)
EXTENDS Sockets

CONSTANT
  MayRehash     \* whether conn_map_ may grow while it has entries (from 14 clients on)

ASSUME TcpServerAssumption == MayRehash \in BOOLEAN

VARIABLES
  conn_map_,    \* fd -> the connection of the TcpConnection mapped to it, or None
  total_conn_,  \* the counter of live connections
  home,         \* connection -> the Demultiplex of its Channel
  iter_,        \* LoopThreadGroup::iter_: the loop that gets the next client
  mpc,          \* main thread: "accept", "register", "add", or "deadlock"
  sockfd,       \* main thread: the descriptor accept returned
  accepted,     \* main thread: the connection behind it at that moment
  dmp,          \* main thread: the Demultiplex it is registered with
  pc,           \* loop -> where its thread is, see LoopPc
  resp_events_, \* loop -> fd -> events epoll_wait returned, not yet handled
  sockes,       \* loop -> readable descriptors collected so far
  cur,          \* loop -> the descriptor being disconnected
  tcp_conn,     \* loop -> the connection object found for it
  sock_queue_   \* LoadBalancer::sock_queue_: batches handed over

mainVars == <<mpc, sockfd, accepted, dmp, iter_>>
loopVars == <<pc, resp_events_, sockes, cur, tcp_conn>>
tcpVars  == <<conn_map_, total_conn_, home, mainVars, loopVars, sock_queue_>>

LoopPc == {"wait", "dispatch", "leave", "erase", "del", "again", "eraseAgain", "crash"}

NoEvents == [f \in Fds |-> {}]

\* Type correctness of TcpServer's state.
TcpTypeOK ==
  /\ conn_map_    \in [Fds -> Clients \cup {None}]
  /\ total_conn_  \in Int
  /\ home         \in [Clients -> Loops]
  /\ iter_        \in Loops
  /\ mpc          \in {"accept", "register", "add", "deadlock"}
  /\ sockfd       \in Fds \cup {None}
  /\ accepted     \in Clients \cup {None}
  /\ dmp          \in Loops
  /\ pc           \in [Loops -> LoopPc]
  /\ resp_events_ \in [Loops -> [Fds -> SUBSET EventT]]
  /\ sockes       \in [Loops -> Seq(Fds)]
  /\ cur          \in [Loops -> Fds \cup {None}]
  /\ tcp_conn     \in [Loops -> Clients \cup {None}]
  /\ sock_queue_  \in Seq(Seq(Fds))

TypeOK == KernelTypeOK /\ TcpTypeOK

\* The constructor: epolls and threads exist, nothing is connected.
TcpInit ==
  /\ conn_map_    = [f \in Fds |-> None]
  /\ total_conn_  = 0
  /\ home         = [c \in Clients |-> 1]
  /\ iter_        = 1
  /\ mpc = "accept" /\ sockfd = None /\ accepted = None /\ dmp = 1
  /\ pc           = [l \in Loops |-> "wait"]
  /\ resp_events_ = [l \in Loops |-> NoEvents]
  /\ sockes       = [l \in Loops |-> <<>>]
  /\ cur          = [l \in Loops |-> None]
  /\ tcp_conn     = [l \in Loops |-> None]
  /\ sock_queue_  = <<>>
-----------------------------------------------------------------------------
(* The main thread: EventLoop::loop.                                       *)

NextIterNoWrap(l) == l + 1
\* LoopThreadGroup::registerFd moves iter_ on and wraps it at the end.
NextIter(l) == IF l = NLoops THEN 1 ELSE l + 1

\* Acceptor::accept, then the choice of a loop in registerFd.  With no free
\* descriptor accept fails, its exception is swallowed and the loop tries again.
Accept(c) ==
  /\ mpc = "accept" /\ c \in backlog
  /\ \E f \in Fds :
       /\ LowestFree(f)
       /\ file' = [file EXCEPT ![f] = c]
       /\ sockfd' = f
  /\ backlog' = backlog \ {c}
  /\ accepted' = c /\ dmp' = iter_ /\ iter_' = NextIter(iter_)
  /\ mpc' = "register"
  /\ UNCHANGED <<interest, ready, inq, peer, sent, conn_map_, total_conn_, home, loopVars,
                 sock_queue_>>

AcceptFailsUncaught(c) ==
  /\ mpc = "accept" /\ c \in backlog
  /\ \E f \in Fds : file[f] = None
  /\ backlog' = backlog \ {c}
  /\ peer' = [peer EXCEPT ![c] = "closed"]
  /\ mpc' = "deadlock"
  /\ UNCHANGED <<file, interest, ready, inq, sent, conn_map_, total_conn_, home, sockfd, accepted,
                 dmp, iter_, loopVars, sock_queue_>>
\* Acceptor passes an uninitialised addrLen.  If it happens to be negative, accept
\* fails when it has taken the connection: the kernel closes it, and the exception
\* is swallowed.
AcceptFails(c) ==
  /\ mpc = "accept" /\ c \in backlog
  /\ \E f \in Fds : file[f] = None
  /\ backlog' = backlog \ {c}
  /\ peer' = [peer EXCEPT ![c] = "closed"]
  /\ UNCHANGED <<file, interest, ready, inq, sent, tcpVars>>

\* demultiplexRegister notifies before epoll_ctl: updateForRegister puts a
\* TcpConnection into conn_map_.  Were the number taken, emplace would destroy
\* the new TcpConnection inside the lock: it closes the descriptor, and its
\* Channel's leave comes back to removeConnection, which locks mx_ again.
UpdateForRegister ==
  /\ mpc = "register"
  /\ IF conn_map_[sockfd] = None
     THEN /\ conn_map_' = [conn_map_ EXCEPT ![sockfd] = accepted]
          /\ home' = [home EXCEPT ![accepted] = dmp]
          /\ total_conn_' = total_conn_ + 1
          /\ mpc' = "add"
          /\ UNCHANGED <<file, interest, ready>>
     ELSE /\ Close(sockfd)
          /\ total_conn_' = total_conn_ - 1
          /\ mpc' = "deadlock"
          /\ UNCHANGED <<conn_map_, home>>
  /\ UNCHANGED <<inq, peer, sent, backlog, sockfd, accepted, dmp, iter_, loopVars, sock_queue_>>

RegisterWithNextLoop ==
  /\ mpc = "add"
  /\ EpollAdd(NextIter(dmp), sockfd)
  /\ mpc' = "accept"
  /\ UNCHANGED <<file, inq, peer, sent, backlog, sockfd, accepted, dmp, iter_, conn_map_,
                 total_conn_, home, loopVars, sock_queue_>>
\* The epoll_ctl at the end of demultiplexRegister; its result is ignored.
RegisterWithEpoll ==
  /\ mpc = "add"
  /\ EpollAdd(dmp, sockfd)
  /\ mpc' = "accept"
  /\ UNCHANGED <<file, inq, peer, sent, backlog, sockfd, accepted, dmp, iter_, conn_map_,
                 total_conn_, home, loopVars, sock_queue_>>
-----------------------------------------------------------------------------
(* A sub-reactor: LoopThreadGroup::run.                                    *)

\* demultiplexWait: epoll_wait returns, and clears the edges it reports.
DemultiplexWait(l) ==
  /\ pc[l] = "wait" /\ Reportable(l) # {}
  /\ resp_events_' = [resp_events_ EXCEPT ![l] = Harvest(l)]
  /\ ready' = [ready EXCEPT ![l] = {}]
  /\ pc' = [pc EXCEPT ![l] = "dispatch"]
  /\ UNCHANGED <<file, interest, inq, peer, sent, backlog, conn_map_, total_conn_, home,
                 mainVars, sockes, cur, tcp_conn, sock_queue_>>

\* One entry of resp_events_ leaves the loop of updateForWait.
Handled(l, f) == resp_events_' = [resp_events_ EXCEPT ![l][f] = {}]

\* updateForWait: nothing is mapped to the descriptor any more (`continue`).
SkipUnknown(l, f) ==
  /\ pc[l] = "dispatch" /\ resp_events_[l][f] # {} /\ conn_map_[f] = None
  /\ Handled(l, f)
  /\ UNCHANGED <<kernelVars, conn_map_, total_conn_, home, mainVars, pc, sockes, cur, tcp_conn,
                 sock_queue_>>

ForwardReadableOrClosed(l, f) ==
  /\ pc[l] = "dispatch" /\ conn_map_[f] # None
  /\ "READABLE" \in resp_events_[l][f]
  /\ sockes' = [sockes EXCEPT ![l] = Append(@, f)]
  /\ Handled(l, f)
  /\ UNCHANGED <<kernelVars, conn_map_, total_conn_, home, mainVars, pc, cur, tcp_conn,
                 sock_queue_>>
\* updateForWait: READABLE and not CLOSABLE.
ForwardReadable(l, f) ==
  /\ pc[l] = "dispatch" /\ conn_map_[f] # None
  /\ "READABLE" \in resp_events_[l][f] /\ "CLOSABLE" \notin resp_events_[l][f]
  /\ sockes' = [sockes EXCEPT ![l] = Append(@, f)]
  /\ Handled(l, f)
  /\ UNCHANGED <<kernelVars, conn_map_, total_conn_, home, mainVars, pc, cur, tcp_conn,
                 sock_queue_>>

\* updateForWait: CLOSABLE.  tcp_conn is a reference into conn_map_ that outlives
\* the lock it was looked up under.
Closable(l, f) ==
  /\ pc[l] = "dispatch" /\ conn_map_[f] # None
  /\ "CLOSABLE" \in resp_events_[l][f]
  /\ cur' = [cur EXCEPT ![l] = f]
  /\ tcp_conn' = [tcp_conn EXCEPT ![l] = conn_map_[f]]
  /\ Handled(l, f)
  /\ pc' = [pc EXCEPT ![l] = "leave"]
  /\ UNCHANGED <<kernelVars, conn_map_, total_conn_, home, mainVars, sockes, sock_queue_>>

\* Between the look-up of f and the use of the iterator it returned, another loop erases
\* the entry or the main thread's emplace makes the table grow.  The iterator is used
\* without the lock, at the head of updateForWait's loop and in removeConnection, and the
\* debug-mode containers the build asks for abort the process.
IteratorInvalidated(l, f) ==
  /\ \/ pc[l] = "dispatch" /\ resp_events_[l][f] # {}
     \/ pc[l] \in {"leave", "again"} /\ cur[l] = f
  /\ conn_map_[f] # None
  /\ \/ \E m \in Loops \ {l} : pc[m] \in {"erase", "eraseAgain"} /\ cur[m] = f
     \/ MayRehash /\ mpc = "register"
  /\ pc' = [pc EXCEPT ![l] = "crash"]
  /\ UNCHANGED <<kernelVars, conn_map_, total_conn_, home, mainVars, resp_events_, sockes, cur,
                 tcp_conn, sock_queue_>>

RemoveFindUncounted(l, found, absent) ==
  /\ pc' = [pc EXCEPT ![l] = IF conn_map_[cur[l]] = None THEN absent ELSE found]
  /\ UNCHANGED total_conn_
\* removeConnection up to its lock: the unlocked find, the early return, and
\* the decrement.
RemoveFind(l, found, absent) ==
  IF conn_map_[cur[l]] = None
  THEN pc' = [pc EXCEPT ![l] = absent] /\ UNCHANGED total_conn_
  ELSE pc' = [pc EXCEPT ![l] = found]  /\ total_conn_' = total_conn_ - 1

DisconnectClosingFirst(l) ==
  /\ pc[l] = "leave"
  /\ RemoveFind(l, "erase", "del")
  /\ Close(cur[l])
  /\ UNCHANGED <<inq, peer, sent, backlog, conn_map_, home, mainVars, resp_events_, sockes, cur,
                 tcp_conn, sock_queue_>>
\* TcpConnection::disconnect -> Channel::leave -> demultiplexRemove, which
\* notifies first -> updateForDelete -> removeConnection.  If another loop has
\* destroyed the object in the meantime, this step works on freed memory whose
\* content is still intact; the other outcome is DisconnectFreed.
Disconnect(l) ==
  /\ pc[l] = "leave"
  /\ RemoveFind(l, "erase", "del")
  /\ UNCHANGED <<kernelVars, conn_map_, home, mainVars, resp_events_, sockes, cur, tcp_conn,
                 sock_queue_>>

\* The use of a destroyed TcpConnection ends the process.
DisconnectFreed(l) ==
  /\ pc[l] = "leave" /\ conn_map_[cur[l]] # tcp_conn[l]
  /\ pc' = [pc EXCEPT ![l] = "crash"]
  /\ UNCHANGED <<kernelVars, conn_map_, total_conn_, home, mainVars, resp_events_, sockes, cur,
                 tcp_conn, sock_queue_>>

\* removeConnection under its lock: conn_map_.erase(sockfd) destroys whatever is
\* mapped to the number now; ~TcpConnection closes the descriptor.  (~Channel of an
\* object that has not left calls leave: the number is closed and cannot be
\* registered again before the lock is released, so that changes nothing.)
EraseAndClose(l) ==
  IF conn_map_[cur[l]] = None
  THEN UNCHANGED <<conn_map_, file, interest, ready>>
  ELSE /\ conn_map_' = [conn_map_ EXCEPT ![cur[l]] = None]
       /\ Close(cur[l])

EraseConnection(l) ==
  /\ pc[l] = "erase"
  /\ EraseAndClose(l)
  /\ pc' = [pc EXCEPT ![l] = "del"]
  /\ UNCHANGED <<inq, peer, sent, backlog, total_conn_, home, mainVars, resp_events_, sockes,
                 cur, tcp_conn, sock_queue_>>

RemoveFromEpollAndClose(l) ==
  /\ pc[l] = "del"
  /\ Close(cur[l])
  /\ pc' = [pc EXCEPT ![l] = "again"]
  /\ UNCHANGED <<inq, peer, sent, backlog, conn_map_, total_conn_, home, mainVars,
                 resp_events_, sockes, cur, tcp_conn, sock_queue_>>
\* Back in demultiplexRemove: epoll_ctl(EPOLL_CTL_DEL) by descriptor number.
RemoveFromEpoll(l) ==
  /\ pc[l] = "del"
  /\ EpollDel(home[tcp_conn[l]], cur[l])
  /\ pc' = [pc EXCEPT ![l] = "again"]
  /\ UNCHANGED <<file, inq, peer, sent, backlog, conn_map_, total_conn_, home, mainVars,
                 resp_events_, sockes, cur, tcp_conn, sock_queue_>>

SkipRemoveAgain(l) ==
  /\ pc[l] = "again"
  /\ pc' = [pc EXCEPT ![l] = "dispatch"]
  /\ UNCHANGED <<kernelVars, conn_map_, total_conn_, home, mainVars, resp_events_, sockes, cur,
                 tcp_conn, sock_queue_>>
\* Back in updateForWait: removeConnection(resp.fd) a second time.
RemoveAgain(l) ==
  /\ pc[l] = "again"
  /\ RemoveFind(l, "eraseAgain", "dispatch")
  /\ UNCHANGED <<kernelVars, conn_map_, home, mainVars, resp_events_, sockes, cur, tcp_conn,
                 sock_queue_>>

EraseAgain(l) ==
  /\ pc[l] = "eraseAgain"
  /\ EraseAndClose(l)
  /\ pc' = [pc EXCEPT ![l] = "dispatch"]
  /\ UNCHANGED <<inq, peer, sent, backlog, total_conn_, home, mainVars, resp_events_, sockes,
                 cur, tcp_conn, sock_queue_>>

\* The end of updateForWait: BALANCE is notified even when sockes is empty, and
\* LoadBalancer::updateForLoadbalance queues the batch under its own lock.
NotifyBalance(l) ==
  /\ pc[l] = "dispatch" /\ resp_events_[l] = NoEvents
  /\ sock_queue_' = Append(sock_queue_, sockes[l])
  /\ sockes' = [sockes EXCEPT ![l] = <<>>]
  /\ pc' = [pc EXCEPT ![l] = "wait"]
  /\ UNCHANGED <<kernelVars, conn_map_, total_conn_, home, mainVars, resp_events_, cur,
                 tcp_conn>>
-----------------------------------------------------------------------------
Alive == \A l \in Loops : pc[l] # "crash"

MainStep ==
  \/ \E c \in Clients : Accept(c) \/ AcceptFails(c)
  \/ UpdateForRegister
  \/ RegisterWithEpoll

LoopStep(l) ==
  \/ DemultiplexWait(l)
  \/ \E f \in Fds : \/ SkipUnknown(l, f) \/ ForwardReadable(l, f) \/ Closable(l, f)
                    \/ IteratorInvalidated(l, f)
  \/ Disconnect(l)
  \/ DisconnectFreed(l)
  \/ EraseConnection(l)
  \/ RemoveFromEpoll(l)
  \/ RemoveAgain(l)
  \/ EraseAgain(l)
  \/ NotifyBalance(l)

TcpStep == Alive /\ (MainStep \/ \E l \in Loops : LoopStep(l))
-----------------------------------------------------------------------------
(* What TcpServer relies on: the rest of the process and the peers leave   *)
(* its state and the descriptors of its clients alone.                     *)

\* No other thread closes, re-opens or re-registers a client's descriptor.
OthersSpareClients ==
  /\ \A f \in Fds : file[f] \in Clients \/ file'[f] \in Clients => file'[f] = file[f]
  /\ \A l \in Loops : interest'[l] \subseteq interest[l]
  /\ \A l \in Loops : \A f \in interest[l] : file[f] \in Clients => f \in interest'[l]

\* A client connects once.
ClientsConnectOnce ==
  /\ \A c \in Clients : peer[c] # "new" => peer'[c] # "new"
  /\ backlog \subseteq backlog'
  /\ \A c \in backlog' \ backlog : peer[c] = "new" /\ peer'[c] # "new"

\* The load balancer takes batches from the front of the queue.
QueueIsOnlyPopped ==
  \/ sock_queue_' = sock_queue_
  \/ sock_queue_ # <<>> /\ sock_queue_' = Tail(sock_queue_)

Rely ==
  /\ KernelTypeOK'
  /\ OthersSpareClients
  /\ ClientsConnectOnce
  /\ QueueIsOnlyPopped
  /\ UNCHANGED <<conn_map_, total_conn_, home, mainVars, loopVars>>

Init == KernelInit /\ TcpInit
Next == TcpStep \/ Rely
vars == <<kernelVars, tcpVars>>

\* TcpServer in any environment it can rely on.
Spec == Init /\ [][Next]_vars
-----------------------------------------------------------------------------
(* Properties.                                                             *)

\* A TcpConnection in conn_map_ owns its descriptor: the number is open and
\* still names the connection the object was made for.  (removeConnection and
\* ~TcpConnection: entry and descriptor go in one locked section, so a number
\* that has been reused never has the old object behind it.)
ConnMapMatchesDescriptors ==
  \A f \in Fds : conn_map_[f] # None => file[f] = conn_map_[f]

\* emplace in updateForRegister never meets an entry for the descriptor accept
\* just returned, although numbers are reused at once; with one, the main
\* thread would lock mx_ twice and accept nothing ever after.
RegisterFindsNoEntry ==
  /\ mpc = "register" => conn_map_[sockfd] = None /\ file[sockfd] = accepted
  /\ mpc # "deadlock"

\* Loop l has closed its descriptor f and is about to look f up once more, or has ended
\* the process over it.
AboutToRemoveAgain(l, f) == pc[l] \in {"again", "eraseAgain", "crash"} /\ cur[l] = f

\* No client is connected but unheard: what conn_map_ holds is registered with
\* the epoll of its own loop, unless the main thread is about to register it or
\* some loop is about to remove it.  (demultiplexRemove's late EPOLL_CTL_DEL can
\* hit the registration of a client that reuses the number; the second
\* removeConnection in updateForWait then drops that client.)
NoDeafConnection ==
  \A f \in Fds :
    \/ conn_map_[f] = None
    \/ mpc = "add" /\ sockfd = f
    \/ \E l \in Loops : AboutToRemoveAgain(l, f)
    \/ f \in interest[home[conn_map_[f]]]

-----------------------------------------------------------------------------
(* What makes the three invariants above inductive.                        *)

\* A client connection is behind at most one descriptor.
OneDescriptorPerClient ==
  \A f, g \in Fds : file[f] \in Clients /\ file[f] = file[g] => f = g

\* A connection waiting for accept has no descriptor yet, and a client that has
\* not connected has neither.
BacklogIsFresh ==
  /\ \A c \in backlog : peer[c] # "new" /\ \A f \in Fds : file[f] # c
  /\ \A f \in Fds : file[f] \in Clients => peer[file[f]] # "new"

\* The main thread between accept and epoll_ctl: its entry is its own.
MainHolds ==
  /\ mpc # "accept" => sockfd \in Fds /\ accepted \in Clients
  /\ mpc = "add" => conn_map_[sockfd] \in {None, accepted} /\ home[accepted] = dmp

\* A loop that is disconnecting has a descriptor and an object in hand.
LoopsHold ==
  \A l \in Loops : pc[l] \in {"leave", "erase", "del", "again", "eraseAgain"}
                    => cur[l] \in Fds /\ tcp_conn[l] \in Clients

\* The inductive invariant: what every thread may assume of descriptors, map and
\* registrations between any two steps, with any number of sub-reactors.
IndInv ==
  /\ TypeOK
  /\ ConnMapMatchesDescriptors
  /\ RegisterFindsNoEntry
  /\ OneDescriptorPerClient
  /\ BacklogIsFresh
  /\ MainHolds
  /\ LoopsHold
  /\ NoDeafConnection
-----------------------------------------------------------------------------
\* total_conn_ never overstates the entries of conn_map_ that nobody is removing.  It
\* may fall behind for good: two sub-reactors can both find and count off one entry,
\* which only one of them erases (removeConnection counts before it locks).
CountNeverOverstates ==
  total_conn_ <= Cardinality({f \in Fds : conn_map_[f] # None})
                   - Cardinality({l \in Loops : pc[l] \in {"erase", "eraseAgain"}})

\* What removing a connection is for: a connection leaves conn_map_ only when its
\* peer has closed it.
OnlyClosedPeersDropped ==
  [][\A f \in Fds : conn_map_[f] # None /\ conn_map_'[f] # conn_map_[f]
                      => peer[conn_map_[f]] = "closed"]_vars

\* A client that hangs up is let go: its connection does not keep a descriptor
\* for ever, whatever edge was reported and handled before (edge-triggered epoll
\* reports the end of the stream once), unless a loop has used a destroyed
\* TcpConnection or an invalid iterator and ended the process.
ClosedConnectionIsReleased ==
  \A c \in Clients :
    (peer[c] = "closed" /\ c \notin backlog) ~> (~Alive \/ \A f \in Fds : file[f] # c)

\* A client that connects does not wait in the backlog for ever, whatever accept fails
\* with (EventLoop::loop swallows the exception and goes on), unless the descriptors run
\* out again and again or the process has ended.
BacklogServed ==
  \/ []<>(\A f \in Fds : file[f] # None)
  \/ \A c \in Clients : c \in backlog ~> (c \notin backlog \/ ~Alive)
=============================================================================
