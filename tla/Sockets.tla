------------------------------ MODULE Sockets ------------------------------
(***************************************************************************)
(* The kernel as rproxy uses it: the process's descriptor table, the TCP   *)
(* connections behind the descriptors and the edge-triggered epoll         *)
(* instances of the Demultiplex objects.  None of it is code of the        *)
(* repository; it is modelled from the calls made in src/network and       *)
(* src/proxy (accept, connect, close, read, send, epoll_ctl, epoll_wait).  *)
(*                                                                         *)
(* A connection (a member of Conns) is one TCP connection for its whole    *)
(* life.  A descriptor is a number that names a connection only while it   *)
(* is open: close frees it and the next accept or connect gets the lowest  *)
(* free number back.                                                       *)
(***************************************************************************)
EXTENDS Integers, Sequences, FiniteSets

CONSTANTS
  Fds,       \* descriptor numbers the process may use
  Clients,   \* connections opened by clients
  Links,     \* connections opened by the proxy to backends
  None,      \* "no connection" / "no entry"
  NLoops,    \* sub-reactor threads of TcpServer
  NWorkers,  \* threads of ProxyServer's LoopThreadGroup
  MaxSends   \* bound: messages a peer sends on one connection

ASSUME SocketsAssumption ==
  /\ Fds \subseteq Nat
  /\ Clients \cap Links = {}
  /\ None \notin Fds \cup Clients \cup Links
  /\ NLoops \in Nat \ {0}
  /\ NWorkers \in Nat
  /\ MaxSends \in Nat

Conns   == Clients \cup Links
Loops   == 1..NLoops                         \* one Demultiplex each
Workers == (NLoops + 1)..(NLoops + NWorkers) \* one Demultiplex each
Epolls  == 1..(NLoops + NWorkers)

\* A request is named by the client that made it; its response bears the
\* same name.  Junk is anything that was never received from a peer.
Junk == <<None, 0>>
Msgs == (Clients \X Nat) \cup {Junk}

VARIABLES
  file,      \* the descriptor table: fd -> connection or None
  interest,  \* epoll -> descriptors registered with it
  ready,     \* epoll -> descriptors with an edge not yet reported
  inq,       \* connection -> messages received from the peer, unread
  peer,      \* connection -> "new", "open" or "closed" (by its peer, or lost)
  sent,      \* connection -> number of messages the peer has sent
  backlog    \* client connections waiting for accept

kernelVars == <<file, interest, ready, inq, peer, sent, backlog>>

KernelTypeOK ==
  /\ file     \in [Fds -> Conns \cup {None}]
  /\ interest \in [Epolls -> SUBSET Fds]
  /\ ready    \in [Epolls -> SUBSET Fds]
  /\ inq      \in [Conns -> Seq(Msgs)]
  /\ peer     \in [Conns -> {"new", "open", "closed"}]
  /\ sent     \in [Conns -> Nat]
  /\ backlog  \in SUBSET Clients

KernelInit ==
  /\ file     = [f \in Fds |-> None]
  /\ interest = [e \in Epolls |-> {}]
  /\ ready    = [e \in Epolls |-> {}]
  /\ inq      = [c \in Conns |-> <<>>]
  /\ peer     = [c \in Conns |-> "new"]
  /\ sent     = [c \in Conns |-> 0]
  /\ backlog  = {}
-----------------------------------------------------------------------------
EventT == {"READABLE", "CLOSABLE"}   \* the part of Demultiplex::EventT in use

\* What epoll_wait reports of a connection: the end of the stream is both
\* EPOLLIN and EPOLLRDHUP.
Events(c) ==
  (IF inq[c] # <<>> \/ peer[c] = "closed" THEN {"READABLE"} ELSE {})
    \cup (IF peer[c] = "closed" THEN {"CLOSABLE"} ELSE {})

\* The descriptors epoll_wait has something to report of.
Reportable(e) == {f \in ready[e] : file[f] # None /\ Events(file[f]) # {}}

\* epoll_wait returns every reportable descriptor (up to 1024 of them) with its
\* current events; a descriptor that is not part of the answer has no events.
Harvest(e) == [f \in Fds |-> IF f \in Reportable(e) THEN Events(file[f]) ELSE {}]

\* accept and connect return the lowest descriptor that is not in use.
LowestFree(f) == file[f] = None /\ \A g \in Fds : g < f => file[g] # None

\* New input on c is an edge for every epoll a descriptor of c is registered with.
Wake(c) == [e \in Epolls |-> ready[e] \cup {f \in interest[e] : file[f] = c}]

\* epoll_ctl(EPOLL_CTL_ADD): fails on a closed descriptor, and on one that is
\* registered already; input that is already there is an edge.
EpollAdd(e, f) ==
  IF file[f] = None \/ f \in interest[e]
  THEN UNCHANGED <<interest, ready>>
  ELSE /\ interest' = [interest EXCEPT ![e] = @ \cup {f}]
       /\ ready' = [ready EXCEPT ![e] = IF Events(file[f]) = {} THEN @ ELSE @ \cup {f}]

\* epoll_ctl(EPOLL_CTL_DEL) names the registration by the descriptor number.
EpollDel(e, f) ==
  /\ interest' = [interest EXCEPT ![e] = @ \ {f}]
  /\ ready'    = [ready EXCEPT ![e] = @ \ {f}]

\* close(f) frees the number and drops it from every epoll; on a number that
\* is not open it fails and changes nothing.
Close(f) ==
  /\ file'     = [file EXCEPT ![f] = None]
  /\ interest' = [e \in Epolls |-> interest[e] \ {f}]
  /\ ready'    = [e \in Epolls |-> ready[e] \ {f}]
-----------------------------------------------------------------------------
\* The peers.
Connect(c) ==
  /\ c \in Clients /\ peer[c] = "new"
  /\ peer' = [peer EXCEPT ![c] = "open"]
  /\ backlog' = backlog \cup {c}
  /\ UNCHANGED <<file, interest, ready, inq, sent>>

PeerSend(c, m) ==
  /\ peer[c] = "open" /\ sent[c] < MaxSends
  /\ inq'   = [inq EXCEPT ![c] = Append(@, m)]
  /\ sent'  = [sent EXCEPT ![c] = @ + 1]
  /\ ready' = Wake(c)
  /\ UNCHANGED <<file, interest, peer, backlog>>

PeerClose(c) ==
  /\ peer[c] = "open"
  /\ peer'  = [peer EXCEPT ![c] = "closed"]
  /\ ready' = Wake(c)
  /\ UNCHANGED <<file, interest, inq, sent, backlog>>
=============================================================================
