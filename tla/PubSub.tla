------------------------------- MODULE PubSub -------------------------------
(***************************************************************************)
(* pubsub::PubSubCenter: who is called when a publisher notifies, and what *)
(* the traffic account of an address says.                                 *)
(*                                                                         *)
(* Identifiers.  PublisherID is a static variable of a header, so every    *)
(* translation unit counts from 0 on its own, and publishers of different  *)
(* classes share identifiers.  The centre knows publishers by identifier   *)
(* alone.  The pointer it stores is never used.                            *)
(*                                                                         *)
(* The owner (there is no main in the repository) builds the servers, in   *)
(* any order, makes the balancer hear the server and the proxy hear the    *)
(* balancer, and may destroy what it built.  Construction, subscription    *)
(* and destruction are taken to be the calls of one thread, each is one    *)
(* step: the centre has no lock.  A notification changes nothing in the    *)
(* centre; it is the state function Notified.                              *)
(***************************************************************************)
EXTENDS Integers, FiniteSets

CONSTANTS
  NLoops,      \* sub-reactors of the TcpServer, a Demultiplex each
  NWorkers,    \* threads of the ProxyServer, a Demultiplex each
  NBalancers,  \* LoadBalancers that may be built
  IdBound,     \* identifiers are below it: 2^16
  Addrs,       \* peer addresses
  SizeBound,   \* a size_t is below it: 2^64
  MaxBytes,    \* bytes that fit into one Packet
  MaxReads     \* bound: packets forwarded for one address

ASSUME PubSubAssumption ==
  /\ {NLoops, NWorkers, NBalancers, IdBound} \subseteq Nat \ {0}
  /\ {SizeBound, MaxBytes, MaxReads} \subseteq Nat \ {0}
  /\ MaxBytes <= SizeBound \div 2 - 1
  /\ NLoops + NWorkers <= IdBound /\ NBalancers <= IdBound

LoopDmps   == {<<"Demultiplex", i>> : i \in 1..NLoops}
WorkerDmps == {<<"Demultiplex", i>> : i \in NLoops + 1..NLoops + NWorkers}
Balancers  == {<<"LoadBalancer", i>> : i \in 1..NBalancers}
Server     == <<"TcpServer", 1>>
Acceptor   == <<"Acceptor", 1>>
Proxy      == <<"ProxyServer", 1>>
Objects    == LoopDmps \cup WorkerDmps \cup Balancers \cup {Server, Acceptor, Proxy}

PubType == {"ACCEPTED", "DMPREGISTER", "DMPMODIFY", "DMPDELETE", "DMPWAIT", "FORWARD", "BALANCE"}

\* The counter an object's identifier comes from.
Units == {"demultiplex.cc", "tcp_server.cc", "loader.cc", "proxy_server.cc"}
UnitOf(o) == CASE o[1] = "Demultiplex"               -> "demultiplex.cc"
               [] o[1] \in {"TcpServer", "Acceptor"} -> "tcp_server.cc"
               [] o[1] = "LoadBalancer"              -> "loader.cc"
               [] o[1] = "ProxyServer"               -> "proxy_server.cc"

\* What the code notifies, by publisher.  ProxyServer switches the notifications of
\* its own Demultiplexes off; LoopThreadGroup::run asks for DMPWAIT all the same.
Emits(o) == CASE o \in LoopDmps   -> {"DMPREGISTER", "DMPMODIFY", "DMPDELETE", "DMPWAIT"}
              [] o \in WorkerDmps -> {"DMPWAIT"}
              [] o \in Balancers  -> {"FORWARD"}
              [] o = Server       -> {"BALANCE"}
              [] OTHER            -> {}

VARIABLES
  PublisherID,  \* unit -> its counter
  id,           \* object -> its identifier, NoId before it is built
  publishers_,  \* identifier -> the publisher registered first under it
  subcribers_,  \* set of <<identifier, type, subscriber>>
  life,         \* object -> "unborn", "alive", "dying" (in its destructor) or "destroyed"
  asked,        \* history: <<publisher, type, subscriber>> subscriptions in force
  traffic_,     \* address -> bytes accounted
  carried,      \* history: address -> bytes really forwarded
  reads,        \* address -> packets forwarded for it
  apc           \* thread -> [addr, bytes, seen] of an account in progress, or Idle

centerVars  == <<PublisherID, id, publishers_, subcribers_, life, asked>>
trafficVars == <<traffic_, carried, reads, apc>>
vars == <<centerVars, trafficVars>>

NoId    == -1
Threads == {"main", "forward"}
Idle    == [bytes |-> -1]
Sizes   == 0..SizeBound - 1

\* Type correctness.
TypeOK ==
  /\ PublisherID \in [Units -> 0..IdBound - 1]
  /\ id \in [Objects -> NoId..IdBound - 1]
  /\ DOMAIN publishers_ \subseteq 0..IdBound - 1
  /\ \A i \in DOMAIN publishers_ : publishers_[i] \in Objects
  /\ subcribers_ \subseteq (0..IdBound - 1) \X PubType \X Objects
  /\ life \in [Objects -> {"unborn", "alive", "dying", "destroyed"}]
  /\ asked \subseteq Objects \X PubType \X Objects
  /\ DOMAIN traffic_ \subseteq Addrs /\ \A a \in DOMAIN traffic_ : traffic_[a] \in Sizes
  /\ carried \in [Addrs -> Nat] /\ reads \in [Addrs -> 0..MaxReads]
  /\ apc \in [Threads -> {Idle} \cup [addr : Addrs, bytes : 0..MaxBytes, seen : Sizes]]

Init ==
  /\ PublisherID = [u \in Units |-> 0]
  /\ id = [o \in Objects |-> NoId]
  /\ publishers_ = [i \in {} |-> Server] /\ subcribers_ = {}
  /\ life = [o \in Objects |-> "unborn"]
  /\ asked = {}
  /\ traffic_ = [a \in {} |-> 0]
  /\ carried = [a \in Addrs |-> 0] /\ reads = [a \in Addrs |-> 0]
  /\ apc = [t \in Threads |-> Idle]
-----------------------------------------------------------------------------
(* The centre's operations, as functions of what they change.              *)

pub_idWide(u, n) == PublisherID[u] + n
\* ID::pub_id: the identifier of the n-th object a step builds from unit u.
pub_id(u, n) == (PublisherID[u] + n) % IdBound

\* registerPub: emplace keeps the publisher that is there.
Registered(newId, pubs) ==
  [i \in DOMAIN publishers_ \cup {newId[o] : o \in pubs} |->
     IF i \in DOMAIN publishers_ THEN publishers_[i] ELSE CHOOSE o \in pubs : newId[o] = i]

SubscribedFirstOnly(pubs, subs) ==
  subcribers_ \cup {s \in subs : /\ s[1] \in DOMAIN pubs
                                 /\ \A r \in subcribers_ : r[1] # s[1] \/ r[2] # s[2]}
\* subscribe: silently nothing when the identifier is not registered.
Subscribed(pubs, subs) == subcribers_ \cup {s \in subs : s[1] \in DOMAIN pubs}

\* unSubscribe: the same.
Unsubscribed(subs) == subcribers_ \ {s \in subs : s[1] \in DOMAIN publishers_}

UnRegisterPubIfOwner(o) ==
  IF id[o] \in DOMAIN publishers_ /\ publishers_[id[o]] = o
  THEN /\ publishers_' = [i \in DOMAIN publishers_ \ {id[o]} |-> publishers_[i]]
       /\ subcribers_' = {s \in subcribers_ : s[1] # id[o]}
  ELSE UNCHANGED <<publishers_, subcribers_>>
\* unRegisterPub forgets the identifier and every subscription made under it, no
\* matter who shares it.
UnRegisterPub(o) ==
  IF id[o] \in DOMAIN publishers_
  THEN /\ publishers_' = [i \in DOMAIN publishers_ \ {id[o]} |-> publishers_[i]]
       /\ subcribers_' = {s \in subcribers_ : s[1] # id[o]}
  ELSE UNCHANGED <<publishers_, subcribers_>>

\* notifySubscriber: the subscribers whose update is called.
Notified(p, type) ==
  IF id[p] \in DOMAIN publishers_
  THEN {s \in Objects : <<id[p], type, s>> \in subcribers_}
  ELSE {}

\* Subscriptions made through identifiers.
ById(newId, triples) == {<<newId[t[1]], t[2], t[3]>> : t \in triples}
-----------------------------------------------------------------------------
(* The owner builds, connects and destroys.                                *)

\* The objects built by one step, with their identifiers: nth orders the ones of a unit.
Built(nth) ==
  LET objs == DOMAIN nth
  IN  /\ \A o \in objs : life[o] = "unborn"
      /\ life' = [o \in Objects |-> IF o \in objs THEN "alive" ELSE life[o]]
      /\ id' = [o \in Objects |-> IF o \in objs THEN pub_id(UnitOf(o), nth[o]) ELSE id[o]]
      /\ PublisherID' = [u \in Units |-> pub_id(u, Cardinality({o \in objs : UnitOf(o) = u}))]

\* What TcpServer's constructor subscribes to.
ServerWants ==
  {<<Acceptor, "ACCEPTED", Server>>}
    \cup {<<d, t, Server>> : d \in LoopDmps, t \in {"DMPREGISTER", "DMPMODIFY", "DMPDELETE", "DMPWAIT"}}

\* TcpServer takes an identifier and never registers it; its Acceptor and its
\* Demultiplexes do, and then it subscribes to them.
ConstructTcpServer ==
  /\ Built([o \in {Server, Acceptor} \cup LoopDmps |->
              IF o = Server THEN 0 ELSE IF o = Acceptor THEN 1 ELSE o[2] - 1])
  /\ publishers_' = Registered(id', {Acceptor} \cup LoopDmps)
  /\ subcribers_' = Subscribed(publishers_', ById(id', ServerWants))
  /\ asked' = asked \cup ServerWants
  /\ UNCHANGED trafficVars

ConstructLoadBalancer(b) ==
  /\ Built([o \in {b} |-> 0])
  /\ publishers_' = Registered(id', {b})
  /\ UNCHANGED <<subcribers_, asked, trafficVars>>

ProxyWants == {<<d, "DMPWAIT", Proxy>> : d \in WorkerDmps}

ConstructProxyServer ==
  /\ Built([o \in {Proxy} \cup WorkerDmps |-> IF o = Proxy THEN 0 ELSE o[2] - NLoops - 1])
  /\ publishers_' = Registered(id', {Proxy} \cup WorkerDmps)
  /\ subcribers_' = Subscribed(publishers_', ById(id', ProxyWants))
  /\ asked' = asked \cup ProxyWants
  /\ UNCHANGED trafficVars

\* s.subscribe(p.pubID(), type), called by the owner.
Subscribe(s, p, type) ==
  /\ life[s] = "alive" /\ life[p] = "alive"
  /\ subcribers_' = Subscribed(publishers_, {<<id[p], type, s>>})
  /\ asked' = asked \cup {<<p, type, s>>}
  /\ UNCHANGED <<PublisherID, id, publishers_, life, trafficVars>>

Wire ==
  \E b \in Balancers : Subscribe(b, Server, "BALANCE") \/ Subscribe(Proxy, b, "FORWARD")

\* ~LoadBalancer; it does not unsubscribe from BALANCE.
DestroyLoadBalancer(b) ==
  /\ life[b] = "alive"
  /\ UnRegisterPub(b)
  /\ life' = [life EXCEPT ![b] = "destroyed"]
  /\ UNCHANGED <<PublisherID, id, asked, trafficVars>>

\* ~TcpServer unsubscribes; then it joins threads that nothing tells to stop.
DestroyTcpServer ==
  /\ life[Server] = "alive"
  /\ subcribers_' = Unsubscribed(ById(id, ServerWants))
  /\ asked' = asked \ ServerWants
  /\ life' = [life EXCEPT ![Server] = "dying"]
  /\ UNCHANGED <<PublisherID, id, publishers_, trafficVars>>

\* ~ProxyServer likewise; FORWARD stays subscribed.
DestroyProxyServer ==
  /\ life[Proxy] = "alive"
  /\ subcribers_' = Unsubscribed(ById(id, ProxyWants))
  /\ asked' = asked \ ProxyWants
  /\ life' = [life EXCEPT ![Proxy] = "dying"]
  /\ UNCHANGED <<PublisherID, id, publishers_, trafficVars>>

Owner ==
  \/ ConstructTcpServer
  \/ \E b \in Balancers : ConstructLoadBalancer(b) \/ DestroyLoadBalancer(b)
  \/ ConstructProxyServer
  \/ Wire
  \/ DestroyTcpServer
  \/ DestroyProxyServer
-----------------------------------------------------------------------------
(* The traffic account, used by the main thread and the forwarding thread. *)

\* LONG_LONG_MAX.
MAX_TRAFFIC == SizeBound \div 2 - 1

TrafficUnknownIsZero(a) == IF a \in DOMAIN traffic_ THEN traffic_[a] ELSE 0
\* traffic returns -1, as a size_t, for an address it does not know.
Traffic(a) == IF a \in DOMAIN traffic_ THEN traffic_[a] ELSE SizeBound - 1

isLismited(a) == Traffic(a) > MAX_TRAFFIC

\* account up to the addition: an unknown address is entered with the bytes, which
\* are then added once more.  The addition is a load and a store without a lock.
Account(t, a, n) ==
  LET known == a \in DOMAIN traffic_
      seen  == IF known THEN traffic_[a] ELSE n
  IN  /\ traffic_' = [x \in DOMAIN traffic_ \cup {a} |-> IF x = a THEN seen ELSE traffic_[x]]
      /\ apc' = [apc EXCEPT ![t] = [addr |-> a, bytes |-> n, seen |-> seen]]

AccountStore(t) ==
  /\ apc[t] # Idle
  /\ traffic_' = [traffic_ EXCEPT ![apc[t].addr] = (apc[t].seen + apc[t].bytes) % SizeBound]
  /\ apc' = [apc EXCEPT ![t] = Idle]
  /\ UNCHANGED <<centerVars, carried, reads>>

\* updateForRegister, on the main thread: a client's address is accounted with 0.
AccountClient(a) ==
  /\ life[Server] = "alive" /\ apc["main"] = Idle
  /\ Account("main", a, 0)
  /\ UNCHANGED <<centerVars, carried, reads>>

\* updateForForward, on the forwarding thread: skip a limited address, or forward n
\* bytes and account them.  The address may be one no client was registered with: a
\* backend's, when the descriptor number has been reused.
AccountForward(a, n) ==
  /\ life[Proxy] # "unborn" /\ apc["forward"] = Idle /\ reads[a] < MaxReads
  /\ ~isLismited(a)
  /\ carried' = [carried EXCEPT ![a] = @ + n] /\ reads' = [reads EXCEPT ![a] = @ + 1]
  /\ Account("forward", a, n)
  /\ UNCHANGED centerVars

Accounting ==
  \/ \E a \in Addrs : AccountClient(a)
  \/ \E a \in Addrs, n \in 1..MaxBytes : AccountForward(a, n)
  \/ \E t \in Threads : AccountStore(t)

Next == Owner \/ Accounting

Spec == Init /\ [][Next]_vars
-----------------------------------------------------------------------------
(* Properties.                                                             *)

\* A notification calls exactly the objects that asked for it, of that publisher and
\* that type, although publishers share identifiers and TcpServer is not registered
\* at all (notifySubscriber); the exception are publishers that share the identifier
\* of a balancer that was destroyed, see UnRegisterPub.
DeliveredToAskers ==
  \A p \in Objects : \A t \in Emits(p) :
    /\ life[p] \in {"alive", "dying"}
    /\ \A b \in Balancers : life[b] = "destroyed" => id[b] # id[p]
    => Notified(p, t) = {s \in Objects : <<p, t, s>> \in asked}

\* A balancer that has TcpServer's identifier is not called any more once it is
\* destroyed.  ~LoadBalancer never unsubscribes from BALANCE: it is safe only because
\* unRegisterPub takes along what others subscribed to under the same number, and a
\* balancer with another number stays subscribed.
DestroyedSharerUnheard ==
  \A p \in Objects : \A t \in Emits(p) : \A s \in Notified(p, t) :
    life[s] = "destroyed" => id[s] # id[p]

\* No byte is accounted twice, to whatever address: account doubles the first bytes of
\* an address it does not know, but such an address is never forwarded for, because
\* traffic reports it as over the limit.  (Bytes can go uncounted: the main thread's
\* addition of 0 may overwrite the forwarding thread's.)
NeverOvercounted == \A a \in DOMAIN traffic_ : traffic_[a] <= carried[a]
=============================================================================
