------------------------------- MODULE RProxy -------------------------------
(***************************************************************************)
(* The whole proxy: TcpServer (main thread and sub-reactors), the queue    *)
(* and the thread of LoadBalancer, ProxyServer (its work on that thread    *)
(* and its own workers), and the peers at both ends.  The components share *)
(* the descriptor table, and nothing else but sock_queue_.                 *)
(***************************************************************************)
EXTENDS TcpServer, ProxyServer

CONSTANTS
  ClientsClose,   \* may clients close their connections?
  BackendsClose,  \* may backends close theirs?
  Pipelined,      \* the clients that may send before they have their last answer
  MaxAsked        \* bound: requests of a client that waits for its answers

ASSUME PeersAssumption ==
  /\ {ClientsClose, BackendsClose} \subseteq BOOLEAN /\ Pipelined \subseteq Clients
  /\ MaxAsked \in Nat

allVars == <<kernelVars, tcpVars, proxyVars>>

\* An exception, SIGPIPE, a use of freed memory or of an invalid iterator has ended the
\* process.
Terminated ==
  fpc = "thrown" \/ (\E k \in Workers : wpc[k] = "thrown") \/ ~Alive
-----------------------------------------------------------------------------
TakeLastBatch ==
  /\ sock_queue_ # <<>>
  /\ sock_queue_' = SubSeq(sock_queue_, 1, Len(sock_queue_) - 1)
  /\ UpdateForForward(sock_queue_[Len(sock_queue_)])
  /\ UNCHANGED <<conn_map_, total_conn_, home, mainVars, loopVars>>
\* LoadBalancer::loadbalance: while the queue is not empty take the first batch
\* and notify FORWARD, which runs updateForForward on this thread.
TakeBatch ==
  /\ sock_queue_ # <<>>
  /\ sock_queue_' = Tail(sock_queue_)
  /\ UpdateForForward(Head(sock_queue_))
  /\ UNCHANGED <<conn_map_, total_conn_, home, mainVars, loopVars>>

\* accept has returned the connection, and updateForRegister has not accounted it yet.
Unaccounted == IF mpc = "register" THEN {accepted} ELSE {}

ForwardStep ==
  /\ \/ BatchDone
     \/ \E f \in Fds : CheckLink(f)
     \/ \E k \in Links : EstablishWith(k)
     \/ EstablishThrows
     \/ EmplaceLink
     \/ LookupLink
     \/ EnterForward(Unaccounted)
     \/ ForwardRead
     \/ ForwardSend
  /\ UNCHANGED tcpVars

WorkerStep(k) ==
  /\ \/ WorkerWait(k)
     \/ \E f \in Fds : UnmappedThrows(k, f) \/ ForwardAnswer(k, f) \/ CloseLink(k, f)
     \/ EraseLink(k)
     \/ WorkerRead(k)
     \/ WorkerSend(k)
     \/ WorkerDone(k)
  /\ UNCHANGED tcpVars

Main      == ~Terminated /\ MainStep /\ UNCHANGED proxyVars
Loop(l)   == ~Terminated /\ LoopStep(l) /\ UNCHANGED proxyVars
Forwarder == ~Terminated /\ (TakeBatch \/ ForwardStep)
Worker(k) == ~Terminated /\ WorkerStep(k)
-----------------------------------------------------------------------------
(* The peers.                                                              *)

ClientConnects(c) == Connect(c)

ClientSends(c) ==
  /\ c \in Pipelined \/ (Len(got[c]) = sent[c] /\ sent[c] < MaxAsked)
  /\ PeerSend(c, <<c, sent[c] + 1>>)

ClientCloses(c) == ClientsClose /\ PeerClose(c)

\* A backend answers what it was sent, in order, up to the first junk.
BackendAnswers(k) ==
  /\ sent[k] < Len(got[k]) /\ got[k][sent[k] + 1] # Junk
  /\ PeerSend(k, got[k][sent[k] + 1])

BackendCloses(k) == BackendsClose /\ PeerClose(k)

Client(c)  == ClientConnects(c) \/ ClientSends(c) \/ ClientCloses(c)
Backend(k) == BackendAnswers(k) \/ BackendCloses(k)
-----------------------------------------------------------------------------
RInit == KernelInit /\ TcpInit /\ ProxyInit

RNext ==
  \/ Main
  \/ \E l \in Loops : Loop(l)
  \/ Forwarder
  \/ \E k \in Workers : Worker(k)
  \/ /\ (\E c \in Clients : Client(c)) \/ (\E k \in Links : Backend(k))
     /\ UNCHANGED <<tcpVars, proxyVars>>

RSpec == RInit /\ [][RNext]_allVars

\* Every thread of the process keeps running, and backends answer.  Clients
\* promise nothing.
RFairSpec ==
  /\ RSpec
  /\ WF_allVars(Main)
  /\ \A l \in Loops : WF_allVars(Loop(l))
  /\ WF_allVars(Forwarder)
  /\ \A k \in Workers : WF_allVars(Worker(k))
  /\ \A k \in Links : WF_allVars(BackendAnswers(k) /\ UNCHANGED <<tcpVars, proxyVars>>)
-----------------------------------------------------------------------------
(* Properties.                                                             *)

\* Type correctness of the whole.
RTypeOK == TypeOK /\ ProxyTypeOK

\* The rest of the process keeps what TcpServer relies on: seen from TcpServer, the
\* whole proxy is TcpServer in an environment of its specification.  (No thread of
\* ProxyServer closes or registers a client's descriptor, and the load balancer only
\* takes batches from the front of its queue.)
KeepsTcpContract == Spec

\* Every client is sent answers to its own requests only, each at most once and
\* in the order of the requests (forward, sock_map_ and reversed_map_: README
\* "forwards it back to the original client").
AnswersReachTheirClient ==
  \A c \in Clients : \A i \in 1..Len(got[c]) :
    /\ got[c][i][1] = c
    /\ i > 1 => got[c][i - 1][2] < got[c][i][2]

\* A backend is only ever sent requests of one client on one link, unaltered and
\* in order.
LinksCarryOneClient ==
  \A k \in Links : \A i, j \in 1..Len(got[k]) :
    i < j => got[k][i][1] = got[k][j][1] /\ got[k][i][2] < got[k][j][2]

\* An answer has one way back: the client descriptor that sock_map_ gives for a link
\* is one whose requests go out on that link.  So no two links answer to the same
\* client, whatever entries clients and backends that are gone have left behind.
LinksPointBack ==
  \A g \in Fds : sock_map_[g] # None => reversed_map_[sock_map_[g]] = g

\* No answer the proxy has received is thrown away with the link it came on.
NoAnswerDiscarded ==
  [][\A f \in Fds : file[f] \in Links /\ file'[f] = None => inq[file[f]] = <<>>]_allVars

\* The process keeps running.
NeverTerminated == ~Terminated

\* No answer is owed to client c, or its connection is over (a client that hangs up, or
\* one that accept lost).
NothingOwed(c) == Len(got[c]) >= sent[c] \/ peer[c] = "closed"

\* Every request a client makes is answered: time and again nothing is owed to it.
RequestsAnswered == \A c \in Clients : []<>NothingOwed(c)

\* The forwarding thread waits in read() on a connection with nothing to read.
ForwarderBlocked == fpc = "read" /\ ~CanRead(source)

\* More input of client c, on its own connection or on a link, than one read() takes.
MoreThanAPacket(c) ==
  \/ Len(inq[c]) > ReadMax
  \/ \E k \in Links : Len(inq[k]) > ReadMax /\ Head(inq[k])[1] = c

=============================================================================
