---------------------------- MODULE MCTcpServer ----------------------------
(***************************************************************************)
(* TcpServer closed with an environment TLC can enumerate: the clients,    *)
(* and the rest of the process (the load balancer, which takes batches and *)
(* reads from clients, and the proxy, which opens and closes descriptors   *)
(* of its own and so takes part in the reuse of descriptor numbers).       *)
(***************************************************************************)
EXTENDS TcpServer, TLC

ClientConnects == \E c \in Clients : Connect(c) /\ UNCHANGED tcpVars

ClientSends == \E c \in Clients : PeerSend(c, <<c, sent[c]>>) /\ UNCHANGED tcpVars

ClientCloses == \E c \in Clients : PeerClose(c) /\ UNCHANGED tcpVars

\* LoadBalancer::loadbalance takes a batch.
TakeBatch ==
  /\ sock_queue_ # <<>>
  /\ sock_queue_' = Tail(sock_queue_)
  /\ UNCHANGED <<kernelVars, conn_map_, total_conn_, home, mainVars, loopVars>>

\* ProxyServer::forward reads from a client.
ReadClient ==
  /\ \E f \in Fds :
       /\ file[f] \in Clients /\ inq[file[f]] # <<>>
       /\ inq' = [inq EXCEPT ![file[f]] = Tail(@)]
  /\ UNCHANGED <<file, interest, ready, peer, sent, backlog, tcpVars>>

\* ProxyServer::establishWith.
OpenLink ==
  /\ \E f \in Fds, k \in Links :
       /\ LowestFree(f) /\ peer[k] = "new"
       /\ file' = [file EXCEPT ![f] = k]
       /\ peer' = [peer EXCEPT ![k] = "open"]
  /\ UNCHANGED <<interest, ready, inq, sent, backlog, tcpVars>>

\* ProxyServer::updateForWait closes a link.
CloseLink ==
  /\ \E f \in Fds : file[f] \in Links /\ Close(f)
  /\ UNCHANGED <<inq, peer, sent, backlog, tcpVars>>

Environment ==
  ClientConnects \/ ClientSends \/ ClientCloses \/ TakeBatch \/ ReadClient
    \/ OpenLink \/ CloseLink

MCNext == TcpStep \/ (Alive /\ Environment)

MCSpec == Init /\ [][MCNext]_vars

\* The two kinds of thread keep running; clients, backends and the rest of the
\* process promise nothing.
MCFairSpec ==
  /\ MCSpec
  /\ WF_vars(Alive /\ MainStep)
  /\ \A l \in Loops : WF_vars(Alive /\ LoopStep(l))

ClientSymmetry == Permutations(Clients)
=============================================================================
