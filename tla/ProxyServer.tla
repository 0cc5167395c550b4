---------------------------- MODULE ProxyServer ----------------------------
(***************************************************************************)
(* proxy::ProxyServer: the load balancer's thread forwards the requests of *)
(* a batch of clients, opening a link to a backend for a client that has   *)
(* none (updateForForward); the threads of group_ forward what the         *)
(* backends answer and close the links the backends close (updateForWait). *)
(* The code is modelled as it is built, with MSG_ATTACH: data goes through *)
(* forward, zeroCopy is not compiled in.                                   *)
(*                                                                         *)
(* The descriptors are blocking: StreamSocket::setNonBlocking passes the   *)
(* flags to fcntl as the command, so O_NONBLOCK is never set.  A read of a *)
(* connection with nothing to read waits, and once it waits it waits on    *)
(* that connection, not on the number.                                     *)
(*                                                                         *)
(* A Packet holds at most ReadMax messages.  An exception that leaves an   *)
(* update handler has no handler anywhere and ends the process ("thrown"), *)
(* as does SIGPIPE.  The traffic account never reaches its limit; it       *)
(* matters only in that an address never accounted counts as over it.      *)
(***************************************************************************)
EXTENDS Sockets

CONSTANTS
  ReadMax,        \* messages that fit into one Packet
  ConnectMayFail  \* whether a backend may refuse a connection

ASSUME ProxyAssumption == ReadMax \in Nat \ {0} /\ ConnectMayFail \in BOOLEAN

VARIABLES
  sock_map_,      \* link fd -> client fd, or None
  reversed_map_,  \* client fd -> link fd, or None
  piter_,         \* group_.iter_: the worker that gets the next link
  fpc,            \* forwarding thread: see ForwardPc
  todo,           \* forwarding thread: clients of the batch still to be served
  incoming,       \* forwarding thread: the client descriptor in hand
  sock,           \* forwarding thread: the link descriptor for it
  source,         \* forwarding thread: the connection read() is on
  packet,         \* forwarding thread: what read() returned
  wpc,            \* worker -> where its thread is, see WorkerPc
  wresp,          \* worker -> fd -> events not yet handled
  wfd,            \* worker -> link descriptor in hand
  wdst,           \* worker -> client descriptor it is mapped to
  wsource,        \* worker -> the connection read() is on
  wpacket,        \* worker -> what read() returned
  got             \* connection -> messages its peer has been sent

mapVars     == <<sock_map_, reversed_map_>>
forwardVars == <<fpc, todo, incoming, sock, source, packet>>
workerVars  == <<wpc, wresp, wfd, wdst, wsource, wpacket>>
proxyVars   == <<mapVars, piter_, forwardVars, workerVars, got>>

ForwardPc == {"idle", "next", "establish", "emplace", "lookup", "enter", "read", "send", "thrown"}
WorkerPc  == {"wait", "dispatch", "read", "send", "erase", "thrown"}

\* Type correctness of ProxyServer's state.
ProxyTypeOK ==
  /\ sock_map_ \in [Fds -> Fds \cup {None}] /\ reversed_map_ \in [Fds -> Fds \cup {None}]
  /\ piter_ \in Workers
  /\ fpc \in ForwardPc /\ todo \subseteq Fds
  /\ {incoming, sock} \subseteq Fds \cup {None} /\ source \in Conns \cup {None}
  /\ packet \in Seq(Msgs)
  /\ wpc \in [Workers -> WorkerPc] /\ wresp \in [Workers -> [Fds -> SUBSET EventT]]
  /\ wfd \in [Workers -> Fds \cup {None}] /\ wdst \in [Workers -> Fds \cup {None}]
  /\ wsource \in [Workers -> Conns \cup {None}] /\ wpacket \in [Workers -> Seq(Msgs)]
  /\ got \in [Conns -> Seq(Msgs)]

ProxyInit ==
  /\ sock_map_ = [f \in Fds |-> None] /\ reversed_map_ = [f \in Fds |-> None]
  /\ piter_ = NLoops + 1
  /\ fpc = "idle" /\ todo = {} /\ incoming = None /\ sock = None
  /\ source = None /\ packet = <<>>
  /\ wpc     = [k \in Workers |-> "wait"]
  /\ wresp   = [k \in Workers |-> [f \in Fds |-> {}]]
  /\ wfd     = [k \in Workers |-> None]
  /\ wdst    = [k \in Workers |-> None]
  /\ wsource = [k \in Workers |-> None]
  /\ wpacket = [k \in Workers |-> <<>>]
  /\ got     = [c \in Conns |-> <<>>]
-----------------------------------------------------------------------------
(* forward(in_fd, out_fd, packet), used by both kinds of thread.           *)

Prefix(s, n) == SubSeq(s, 1, IF Len(s) < n THEN Len(s) ELSE n)
Suffix(s, n) == SubSeq(s, (IF Len(s) < n THEN Len(s) ELSE n) + 1, Len(s))

\* read() on connection c waits while c is open and empty.  On a number that is
\* not open (c = None), and on a connection that its peer has reset, it returns -1,
\* which then becomes the length of a Packet of whatever memory follows; only EAGAIN
\* is checked for.
CanRead(c)   == c # None => inq[c] # <<>> \/ peer[c] = "closed"
MayFail(c)   == c = None \/ (inq[c] = <<>> /\ peer[c] = "closed")
ReadFrom(c)  == (IF c = None THEN {} ELSE {Prefix(inq[c], ReadMax)})
                  \cup (IF MayFail(c) THEN {<<Junk>>} ELSE {})
AfterRead(c) == IF c = None THEN inq ELSE [inq EXCEPT ![c] = Suffix(@, ReadMax)]

\* send() of p to descriptor f reaches the peer if f is open and so is the peer;
\* otherwise perror and break.  A peer that is gone may also have reset the
\* connection, and then SIGPIPE ends the process (killed).
Delivered(f, p) ==
  IF file[f] # None /\ peer[file[f]] = "open"
  THEN [got EXCEPT ![file[f]] = @ \o p]
  ELSE got
MayKill(f) == file[f] # None /\ peer[file[f]] = "closed"
-----------------------------------------------------------------------------
(* The forwarding thread: updateForForward.                                *)

NextWorkerNoWrap(k) == k + 1
\* LoopThreadGroup::registerFd for group_.
NextWorker(k) == IF k = NLoops + NWorkers THEN NLoops + 1 ELSE k + 1

\* The batch arrives: a map, so a client is in it once, in no particular order.
UpdateForForward(batch) ==
  /\ fpc = "idle"
  /\ todo' = {batch[i] : i \in DOMAIN batch}
  /\ fpc' = "next"
  /\ UNCHANGED <<kernelVars, mapVars, piter_, incoming, sock, source, packet, workerVars, got>>

BatchDone ==
  /\ fpc = "next" /\ todo = {}
  /\ fpc' = "idle"
  /\ UNCHANGED <<kernelVars, mapVars, piter_, todo, incoming, sock, source, packet, workerVars, got>>

\* The look-up of reversed_map_ without the lock.
CheckLink(f) ==
  /\ fpc = "next" /\ f \in todo
  /\ todo' = todo \ {f} /\ incoming' = f
  /\ fpc' = IF reversed_map_[f] = None THEN "establish" ELSE "lookup"
  /\ UNCHANGED <<kernelVars, mapVars, piter_, sock, source, packet, workerVars, got>>

\* Under mx_: the second look-up (which finds nothing either: this is the only
\* thread that adds entries), and establishWith: connectTo, then group_.registerFd.
\* The lock is kept (fpc = "emplace").  connect and the epoll_ctl behind it are one
\* step: the link has no input before the proxy has sent on it, so what a worker is told
\* of it is the same.
EstablishWith(k) ==
  /\ fpc = "establish"
  /\ k \in Links /\ peer[k] = "new"
  /\ \E f \in Fds :
       /\ LowestFree(f)
       /\ sock' = f
       /\ file' = [file EXCEPT ![f] = k]
       /\ interest' = [interest EXCEPT ![piter_] = @ \cup {f}]
  /\ peer' = [peer EXCEPT ![k] = "open"]
  /\ piter_' = NextWorker(piter_)
  /\ fpc' = "emplace"
  /\ UNCHANGED <<ready, inq, sent, backlog, mapVars, todo, incoming, source, packet, workerVars,
                 got>>

\* connectTo throws: the backend refuses, or no descriptor is left.
EstablishThrows ==
  /\ fpc = "establish"
  /\ ConnectMayFail \/ \A f \in Fds : file[f] # None
  /\ fpc' = "thrown"
  /\ UNCHANGED <<kernelVars, mapVars, piter_, todo, incoming, sock, source, packet, workerVars, got>>

EmplaceSwapped ==
  /\ fpc = "emplace"
  /\ sock_map_' = IF sock_map_[incoming] # None THEN sock_map_
                  ELSE [sock_map_ EXCEPT ![incoming] = sock]
  /\ reversed_map_' = [reversed_map_ EXCEPT ![incoming] = sock]
  /\ EpollAdd(piter_, sock)
  /\ piter_' = NextWorker(piter_)
  /\ fpc' = "lookup"
  /\ UNCHANGED <<file, inq, peer, sent, backlog, todo, incoming, sock, source, packet,
                 workerVars, got>>
\* Still under mx_: both maps (emplace keeps an entry that is already there) and
\* a second registration, with the next worker.
EmplaceLink ==
  /\ fpc = "emplace"
  /\ sock_map_' = IF sock_map_[sock] # None THEN sock_map_
                  ELSE [sock_map_ EXCEPT ![sock] = incoming]
  /\ reversed_map_' = [reversed_map_ EXCEPT ![incoming] = sock]
  /\ EpollAdd(piter_, sock)
  /\ piter_' = NextWorker(piter_)
  /\ fpc' = "lookup"
  /\ UNCHANGED <<file, inq, peer, sent, backlog, todo, incoming, sock, source, packet,
                 workerVars, got>>

LookupOnlyNewLink ==
  /\ fpc = "lookup"
  /\ sock' = IF sock = None THEN reversed_map_[incoming] ELSE sock
  /\ fpc' = IF reversed_map_[incoming] = None THEN "thrown" ELSE "enter"
  /\ UNCHANGED <<kernelVars, mapVars, piter_, todo, incoming, source, packet, workerVars, got>>
\* sock = reversed_map_.at(incoming), without the lock: throws if a worker has
\* erased the entry.
LookupLink ==
  /\ fpc = "lookup"
  /\ sock' = reversed_map_[incoming]
  /\ fpc' = IF reversed_map_[incoming] = None THEN "thrown" ELSE "enter"
  /\ UNCHANGED <<kernelVars, mapVars, piter_, todo, incoming, source, packet, workerVars, got>>

\* getPeerAddr and isLismited, then forward enters read().  A client was accounted
\* when it registered; a backend's address never is, and counts as limited, as does
\* that of a client the main thread has accepted and not accounted yet (unaccounted),
\* unless it was accounted for an earlier connection; of a number that is not open
\* getPeerAddr returns uninitialised memory.
EnterForward(unaccounted) ==
  /\ fpc = "enter"
  /\ \/ file[incoming] \notin Links /\ source' = file[incoming] /\ fpc' = "read"
     \/ file[incoming] \notin Clients \ unaccounted /\ UNCHANGED source /\ fpc' = "next"
  /\ UNCHANGED <<kernelVars, mapVars, piter_, todo, incoming, sock, packet, workerVars, got>>

ForwardRead ==
  /\ fpc = "read" /\ CanRead(source)
  /\ packet' \in ReadFrom(source) /\ inq' = AfterRead(source)
  /\ source' = None
  /\ fpc' = "send"
  /\ UNCHANGED <<file, interest, ready, peer, sent, backlog, mapVars, piter_, todo, incoming, sock, workerVars, got>>

ForwardSend ==
  /\ fpc = "send"
  /\ got' = Delivered(sock, packet)
  /\ packet' = <<>>
  /\ fpc' \in {"next"} \cup (IF MayKill(sock) THEN {"thrown"} ELSE {})
  /\ UNCHANGED <<kernelVars, mapVars, piter_, todo, incoming, sock, source, workerVars>>
-----------------------------------------------------------------------------
(* A worker: updateForWait.                                                *)

WorkerWait(k) ==
  /\ wpc[k] = "wait" /\ Reportable(k) # {}
  /\ wresp' = [wresp EXCEPT ![k] = Harvest(k)]
  /\ ready' = [ready EXCEPT ![k] = {}]
  /\ wpc' = [wpc EXCEPT ![k] = "dispatch"]
  /\ UNCHANGED <<file, interest, inq, peer, sent, backlog, mapVars, piter_, forwardVars, wfd,
                 wdst, wsource, wpacket, got>>

\* The log line at the head of the loop already needs sock_map_.at(resp.fd).
UnmappedThrows(k, f) ==
  /\ wpc[k] = "dispatch" /\ wresp[k][f] # {} /\ sock_map_[f] = None
  /\ wpc' = [wpc EXCEPT ![k] = "thrown"]
  /\ UNCHANGED <<kernelVars, mapVars, piter_, forwardVars, wresp, wfd, wdst, wsource, wpacket,
                 got>>

ForwardAnswerToFirst(k, f) ==
  /\ wpc[k] = "dispatch" /\ sock_map_[f] # None
  /\ "READABLE" \in wresp[k][f] /\ "CLOSABLE" \notin wresp[k][f]
  /\ wresp' = [wresp EXCEPT ![k][f] = {}]
  /\ wfd' = [wfd EXCEPT ![k] = f]
  /\ wdst' = [wdst EXCEPT ![k] = IF @ = None THEN sock_map_[f] ELSE @]
  /\ wsource' = [wsource EXCEPT ![k] = file[f]]
  /\ wpc' = [wpc EXCEPT ![k] = "read"]
  /\ UNCHANGED <<kernelVars, mapVars, piter_, forwardVars, wpacket, got>>
\* READABLE and not CLOSABLE: forward enters read().
ForwardAnswer(k, f) ==
  /\ wpc[k] = "dispatch" /\ sock_map_[f] # None
  /\ "READABLE" \in wresp[k][f] /\ "CLOSABLE" \notin wresp[k][f]
  /\ wresp' = [wresp EXCEPT ![k][f] = {}]
  /\ wfd' = [wfd EXCEPT ![k] = f]
  /\ wdst' = [wdst EXCEPT ![k] = sock_map_[f]]
  /\ wsource' = [wsource EXCEPT ![k] = file[f]]
  /\ wpc' = [wpc EXCEPT ![k] = "read"]
  /\ UNCHANGED <<kernelVars, mapVars, piter_, forwardVars, wpacket, got>>

CloseClientOfLink(k, f) ==
  /\ wpc[k] = "dispatch" /\ sock_map_[f] # None
  /\ "CLOSABLE" \in wresp[k][f]
  /\ Close(sock_map_[f])
  /\ wresp' = [wresp EXCEPT ![k][f] = {}]
  /\ wfd' = [wfd EXCEPT ![k] = f]
  /\ wpc' = [wpc EXCEPT ![k] = "erase"]
  /\ UNCHANGED <<inq, peer, sent, backlog, mapVars, piter_, forwardVars, wdst, wsource, wpacket,
                 got>>
\* CLOSABLE: the descriptor is closed before the lock is taken.
CloseLink(k, f) ==
  /\ wpc[k] = "dispatch" /\ sock_map_[f] # None
  /\ "CLOSABLE" \in wresp[k][f]
  /\ Close(f)
  /\ wresp' = [wresp EXCEPT ![k][f] = {}]
  /\ wfd' = [wfd EXCEPT ![k] = f]
  /\ wpc' = [wpc EXCEPT ![k] = "erase"]
  /\ UNCHANGED <<inq, peer, sent, backlog, mapVars, piter_, forwardVars, wdst, wsource, wpacket,
                 got>>

\* Under mx_: whatever the number is mapped to by now is forgotten in both maps.
EraseLink(k) ==
  /\ wpc[k] = "erase" /\ fpc # "emplace"
  /\ IF sock_map_[wfd[k]] = None
     THEN UNCHANGED mapVars
     ELSE /\ reversed_map_' = [reversed_map_ EXCEPT ![sock_map_[wfd[k]]] = None]
          /\ sock_map_' = [sock_map_ EXCEPT ![wfd[k]] = None]
  /\ wpc' = [wpc EXCEPT ![k] = "dispatch"]
  /\ UNCHANGED <<kernelVars, piter_, forwardVars, wresp, wfd, wdst, wsource, wpacket, got>>

WorkerRead(k) ==
  /\ wpc[k] = "read" /\ CanRead(wsource[k])
  /\ \E p \in ReadFrom(wsource[k]) : wpacket' = [wpacket EXCEPT ![k] = p]
  /\ inq' = AfterRead(wsource[k])
  /\ wsource' = [wsource EXCEPT ![k] = None]
  /\ wpc' = [wpc EXCEPT ![k] = "send"]
  /\ UNCHANGED <<file, interest, ready, peer, sent, backlog, mapVars, piter_, forwardVars, wresp,
                 wfd, wdst, got>>

WorkerSend(k) ==
  /\ wpc[k] = "send"
  /\ got' = Delivered(wdst[k], wpacket[k])
  /\ wpacket' = [wpacket EXCEPT ![k] = <<>>]
  /\ \E next \in {"dispatch"} \cup (IF MayKill(wdst[k]) THEN {"thrown"} ELSE {}) :
       wpc' = [wpc EXCEPT ![k] = next]
  /\ UNCHANGED <<kernelVars, mapVars, piter_, forwardVars, wresp, wfd, wdst, wsource>>

WorkerDone(k) ==
  /\ wpc[k] = "dispatch" /\ \A f \in Fds : wresp[k][f] = {}
  /\ wpc' = [wpc EXCEPT ![k] = "wait"]
  /\ UNCHANGED <<kernelVars, mapVars, piter_, forwardVars, wresp, wfd, wdst, wsource, wpacket,
                 got>>
=============================================================================
