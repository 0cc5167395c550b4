---------------------------- MODULE PubSubProofs ----------------------------
(***************************************************************************)
(* Proofs about PubSubCenter, for any number of loops, workers, balancers  *)
(* and addresses and any widths of identifiers and counters.  First the    *)
(* traffic account: no byte is accounted twice.  Then the identifiers and  *)
(* the subscriptions: a notification reaches those who asked for it,       *)
(* although objects of different kinds share identifiers.  Last the types. *)
(***************************************************************************)
EXTENDS PubSub, FiniteSetTheorems, TLAPS

\* The entries count at most what was carried.
EntriesInv ==
  /\ carried \in [Addrs -> Nat]
  /\ DOMAIN traffic_ \subseteq Addrs
  /\ \A a \in DOMAIN traffic_ : traffic_[a] \in Nat /\ traffic_[a] <= carried[a]

\* An account in progress will store at most what was carried, too: the bytes it adds
\* were carried after it loaded the entry.
PendingInv ==
  /\ apc = [t \in Threads |-> apc[t]]
  /\ \A t \in Threads : apc[t] # Idle =>
       /\ apc[t].addr \in DOMAIN traffic_
       /\ apc[t].seen \in Nat /\ apc[t].bytes \in Nat
       /\ apc[t].seen + apc[t].bytes <= carried[apc[t].addr]

AccountInv == EntriesInv /\ PendingInv

\* A remainder is at most the number.
LEMMA ModAtMost == ASSUME NEW x \in Nat, NEW y \in Nat \ {0} PROVE x % y \in Nat /\ x % y <= x
<1>1. x % y \in 0..(y - 1)
  OBVIOUS
<1>2. CASE x >= y
  BY <1>1, <1>2
<1>3. CASE x < y
  BY <1>3
<1> QED
  BY <1>1, <1>2, <1>3

\* An address that is not limited is a known one: traffic answers with the largest
\* size_t for the others.
LEMMA UnlimitedIsKnown == ASSUME NEW a, ~isLismited(a) PROVE a \in DOMAIN traffic_
BY PubSubAssumption DEF isLismited, Traffic, MAX_TRAFFIC

\* account up to the addition: it enters an unknown address, or loads the entry.
LEMMA AccountKeeps ==
  ASSUME AccountInv, NEW t \in Threads, NEW a \in Addrs, NEW n \in Nat, Account(t, a, n),
         apc[t] = Idle,
         carried' \in [Addrs -> Nat], \A x \in Addrs : carried[x] <= carried'[x],
         a \in DOMAIN traffic_ => carried[a] + n <= carried'[a],
         a \notin DOMAIN traffic_ => n = 0
  PROVE  AccountInv'
<1> DEFINE seen == IF a \in DOMAIN traffic_ THEN traffic_[a] ELSE n
<1>1. /\ traffic_' = [x \in DOMAIN traffic_ \cup {a} |-> IF x = a THEN seen ELSE traffic_[x]]
      /\ apc' = [apc EXCEPT ![t] = [addr |-> a, bytes |-> n, seen |-> seen]]
  BY DEF Account
<1>2. carried \in [Addrs -> Nat]
  BY DEF AccountInv, EntriesInv
<1>3. seen \in Nat /\ seen + n <= carried'[a]
  <2>1. CASE a \in DOMAIN traffic_
    BY <1>2, <2>1 DEF AccountInv, EntriesInv
  <2>2. CASE a \notin DOMAIN traffic_
    BY <1>2, <2>2
  <2> QED
    BY <2>1, <2>2
<1> HIDE DEF seen
<1>4. EntriesInv'
  <2>1. DOMAIN traffic_' = DOMAIN traffic_ \cup {a} /\ DOMAIN traffic_' \subseteq Addrs
    BY <1>1 DEF AccountInv, EntriesInv
  <2>2. ASSUME NEW x \in DOMAIN traffic_'
        PROVE  traffic_'[x] \in Nat /\ traffic_'[x] <= carried'[x]
    <3>1. CASE x = a
      <4>1. traffic_'[x] = seen
        BY <1>1, <2>1, <3>1
      <4> QED
        BY <1>3, <3>1, <4>1
    <3>2. CASE x # a
      <4>1. x \in DOMAIN traffic_ /\ x \in Addrs /\ traffic_'[x] = traffic_[x]
        BY <1>1, <2>1, <3>2
      <4>2. traffic_[x] \in Nat /\ traffic_[x] <= carried[x]
        BY <4>1 DEF AccountInv, EntriesInv
      <4> QED
        BY <1>2, <4>1, <4>2
    <3> QED
      BY <3>1, <3>2
  <2> QED
    BY <2>1, <2>2 DEF EntriesInv
<1>5. PendingInv'
  <2>1. apc = [u \in Threads |-> apc[u]] /\ DOMAIN apc = Threads
    BY DEF AccountInv, PendingInv
  <2>2. apc' = [u \in Threads |-> apc'[u]]
    BY <1>1, <2>1
  <2>3. ASSUME NEW u \in Threads, apc'[u] # Idle
        PROVE  /\ apc'[u].addr \in DOMAIN traffic_'
               /\ apc'[u].seen \in Nat /\ apc'[u].bytes \in Nat
               /\ apc'[u].seen + apc'[u].bytes <= carried'[apc'[u].addr]
    <3>1. CASE u = t
      <4>1. apc'[u] = [addr |-> a, bytes |-> n, seen |-> seen]
        BY <1>1, <2>1, <3>1
      <4>2. a \in DOMAIN traffic_'
        BY <1>1
      <4> QED
        BY <1>3, <4>1, <4>2
    <3>2. CASE u # t
      <4>1. apc'[u] = apc[u]
        BY <1>1, <2>1, <3>2
      <4>2. /\ apc[u].addr \in DOMAIN traffic_ /\ apc[u].seen \in Nat /\ apc[u].bytes \in Nat
            /\ apc[u].seen + apc[u].bytes <= carried[apc[u].addr]
        BY <2>3, <4>1 DEF AccountInv, PendingInv
      <4>3. apc[u].addr \in DOMAIN traffic_' /\ apc[u].addr \in Addrs
        BY <1>1, <4>2 DEF AccountInv, EntriesInv
      <4>4. apc[u].seen + apc[u].bytes <= carried'[apc[u].addr]
        BY <1>2, <4>2, <4>3
      <4> QED
        BY <4>1, <4>2, <4>3, <4>4
    <3> QED
      BY <3>1, <3>2
  <2> QED
    BY <2>2, <2>3 DEF PendingInv
<1> QED
  BY <1>4, <1>5 DEF AccountInv

\* The store of an account's sum.
LEMMA StoreKeeps == ASSUME AccountInv, NEW t \in Threads, AccountStore(t) PROVE AccountInv'
<1> DEFINE a   == apc[t].addr
           sum == (apc[t].seen + apc[t].bytes) % SizeBound
<1>1. /\ apc[t] # Idle
      /\ traffic_' = [traffic_ EXCEPT ![a] = sum]
      /\ apc' = [apc EXCEPT ![t] = Idle]
      /\ carried' = carried
  BY DEF AccountStore
<1>2. /\ a \in DOMAIN traffic_
      /\ apc[t].seen \in Nat /\ apc[t].bytes \in Nat
      /\ apc[t].seen + apc[t].bytes <= carried[a]
  BY <1>1 DEF AccountInv, PendingInv
<1>3. carried \in [Addrs -> Nat] /\ a \in Addrs /\ SizeBound \in Nat \ {0}
  BY <1>2, PubSubAssumption DEF AccountInv, EntriesInv
<1>4. sum \in Nat /\ sum <= carried[a]
  <2>1. apc[t].seen + apc[t].bytes \in Nat
    BY <1>2
  <2>2. sum \in Nat /\ sum <= apc[t].seen + apc[t].bytes
    BY <1>3, <2>1, ModAtMost
  <2> QED
    BY <1>2, <1>3, <2>1, <2>2
<1> HIDE DEF sum, a
<1>5. EntriesInv'
  <2>1. DOMAIN traffic_' = DOMAIN traffic_
    BY <1>1
  <2>2. ASSUME NEW x \in DOMAIN traffic_'
        PROVE  traffic_'[x] \in Nat /\ traffic_'[x] <= carried'[x]
    <3>1. CASE x = a
      BY <1>1, <1>2, <1>4, <2>1, <3>1
    <3>2. CASE x # a
      BY <1>1, <2>1, <3>2 DEF AccountInv, EntriesInv
    <3> QED
      BY <3>1, <3>2
  <2> QED
    BY <1>1, <2>1, <2>2 DEF AccountInv, EntriesInv
<1>6. PendingInv'
  <2>1. apc = [u \in Threads |-> apc[u]] /\ DOMAIN apc = Threads
    BY DEF AccountInv, PendingInv
  <2>2. apc' = [u \in Threads |-> apc'[u]]
    BY <1>1, <2>1
  <2>3. \A u \in Threads : apc'[u] # Idle => apc'[u] = apc[u] /\ apc[u] # Idle
    BY <1>1, <2>1
  <2>4. DOMAIN traffic_' = DOMAIN traffic_
    BY <1>1
  <2> QED
    BY <1>1, <2>2, <2>3, <2>4 DEF AccountInv, PendingInv
<1> QED
  BY <1>5, <1>6 DEF AccountInv

\* Every step keeps the invariant.
LEMMA StepKeeps == AccountInv /\ [Next]_vars => AccountInv'
<1> SUFFICES ASSUME AccountInv, [Next]_vars PROVE AccountInv'
  OBVIOUS
<1>1. carried \in [Addrs -> Nat]
  BY DEF AccountInv, EntriesInv
<1>2. CASE \E a \in Addrs : AccountClient(a)
  <2>1. PICK a \in Addrs : AccountClient(a)
    BY <1>2
  <2>2. /\ "main" \in Threads /\ apc["main"] = Idle /\ Account("main", a, 0) /\ carried' = carried
    BY <2>1 DEF AccountClient, Threads
  <2>3. \A x \in Addrs : carried[x] <= carried'[x] /\ carried[x] + 0 <= carried'[x]
    BY <1>1, <2>2
  <2> QED
    BY <1>1, <2>2, <2>3, AccountKeeps
<1>3. CASE \E a \in Addrs, n \in 1..MaxBytes : AccountForward(a, n)
  <2>1. PICK a \in Addrs, n \in 1..MaxBytes : AccountForward(a, n)
    BY <1>3
  <2>2. /\ "forward" \in Threads /\ apc["forward"] = Idle /\ Account("forward", a, n)
        /\ carried' = [carried EXCEPT ![a] = @ + n] /\ ~isLismited(a)
    BY <2>1 DEF AccountForward, Threads
  <2>3. n \in Nat /\ a \in DOMAIN traffic_
    BY <2>2, PubSubAssumption, UnlimitedIsKnown
  <2>4. /\ carried' \in [Addrs -> Nat] /\ carried[a] + n <= carried'[a]
        /\ \A x \in Addrs : carried[x] <= carried'[x]
    BY <1>1, <2>2, <2>3
  <2> QED
    BY <2>2, <2>3, <2>4, AccountKeeps
<1>4. CASE \E t \in Threads : AccountStore(t)
  BY <1>4, StoreKeeps
<1>5. CASE UNCHANGED trafficVars
  BY <1>5 DEF AccountInv, EntriesInv, PendingInv, trafficVars
<1> QED
  BY <1>2, <1>3, <1>4, <1>5
     DEF Next, Accounting, Owner, ConstructTcpServer, ConstructLoadBalancer, ConstructProxyServer,
         Wire, Subscribe, DestroyLoadBalancer, DestroyTcpServer, DestroyProxyServer, vars

\* No byte is accounted twice, although account adds the first bytes of an unknown
\* address twice and two threads add without a lock (account, traffic, isLismited).
THEOREM TrafficNeverOvercounted == Spec => []NeverOvercounted
<1>1. Init => AccountInv
  BY DEF Init, AccountInv, EntriesInv, PendingInv, Idle
<1>2. AccountInv => NeverOvercounted
  BY DEF AccountInv, EntriesInv, NeverOvercounted
<1> QED
  BY <1>1, <1>2, StepKeeps, PTL DEF Spec
-----------------------------------------------------------------------------
(* Identifiers.                                                            *)

Dmps    == LoopDmps \cup WorkerDmps
Born(o) == life[o] # "unborn"
Dmp(i)  == <<"Demultiplex", i>>

\* The objects a server builds are born with it.
BornTogether ==
  /\ \A o \in LoopDmps \cup {Acceptor} : Born(o) <=> Born(Server)
  /\ \A o \in WorkerDmps : Born(o) <=> Born(Proxy)

\* The Demultiplexes count from 0, in the order in which the two servers are built.
DmpIds ==
  /\ ~(Born(Server) /\ Born(Proxy)) =>
       PublisherID["demultiplex.cc"] = IF Born(Server) THEN NLoops
                                       ELSE IF Born(Proxy) THEN NWorkers ELSE 0
  /\ Born(Server) /\ ~Born(Proxy) => \A i \in 1..NLoops : id[Dmp(i)] = i - 1
  /\ Born(Proxy) /\ ~Born(Server) =>
       \A i \in NLoops + 1..NLoops + NWorkers : id[Dmp(i)] = i - NLoops - 1
  /\ Born(Server) /\ Born(Proxy) =>
       \A i, j \in 1..NLoops + NWorkers : id[Dmp(i)] = id[Dmp(j)] => i = j

\* The servers are the first of their translation units.
ServerIds ==
  /\ IF Born(Server) THEN id[Server] = 0 ELSE PublisherID["tcp_server.cc"] = 0
  /\ IF Born(Proxy) THEN id[Proxy] = 0 ELSE PublisherID["proxy_server.cc"] = 0

\* The balancers count from 0.
BornBalancers == {b \in Balancers : Born(b)}
BalancerIds ==
  /\ PublisherID["loader.cc"] = Cardinality(BornBalancers) % IdBound
  /\ \A b \in BornBalancers : id[b] \in 0..Cardinality(BornBalancers) - 1
  /\ \A b, c \in BornBalancers : id[b] = id[c] => b = c

CenterTypeOK ==
  /\ PublisherID \in [Units -> 0..IdBound - 1]
  /\ id \in [Objects -> NoId..IdBound - 1]
  /\ DOMAIN publishers_ \subseteq 0..IdBound - 1
  /\ \A i \in DOMAIN publishers_ : publishers_[i] \in Objects
  /\ subcribers_ \subseteq (0..IdBound - 1) \X PubType \X Objects
  /\ life \in [Objects -> {"unborn", "alive", "dying", "destroyed"}]
  /\ asked \subseteq Objects \X PubType \X Objects

IdInv == CenterTypeOK /\ BornTogether /\ DmpIds /\ ServerIds /\ BalancerIds
-----------------------------------------------------------------------------
(* Subscriptions.                                                          *)

\* A balancer that is gone had o's identifier: unRegisterPub has forgotten it.
Orphaned(o) == \E b \in Balancers : life[b] = "destroyed" /\ id[b] = id[o]

\* p may notify t, or is the Acceptor, which never does.
MayPublish(p, t) == t \in Emits(p) \/ (p = Acceptor /\ t = "ACCEPTED")

\* Subscriptions are made with objects that exist, for types they publish.
AskedOfPublishers ==
  \A p \in Objects, t \in PubType, s \in Objects :
    <<p, t, s>> \in asked => Born(p) /\ MayPublish(p, t)

\* The centre holds subscriptions under registered identifiers only.
HeldIsRegistered ==
  \A i \in 0..IdBound - 1, t \in PubType, s \in Objects :
    <<i, t, s>> \in subcribers_ => i \in DOMAIN publishers_

\* Every subscription it holds somebody asked for, of an object with that identifier, ...
HeldWasAsked ==
  \A i \in 0..IdBound - 1, t \in PubType, s \in Objects :
    <<i, t, s>> \in subcribers_ => \E p \in Objects : <<p, t, s>> \in asked /\ id[p] = i

\* ... and it holds what was asked for, ...
AskedIsHeld ==
  \A p \in Objects, t \in PubType, s \in Objects :
    <<p, t, s>> \in asked /\ ~Orphaned(p) => <<id[p], t, s>> \in subcribers_

\* ... because the identifier of every object is registered: TcpServer's by another one.
BornIsRegistered == \A o \in Objects : Born(o) /\ ~Orphaned(o) => id[o] \in DOMAIN publishers_

\* Under its own identifier a destroyed balancer is subscribed to nothing.
DestroyedIsForgotten ==
  /\ \A o \in Objects : life[o] = "destroyed" => o \in Balancers
  /\ \A i \in 0..IdBound - 1, t \in PubType, s \in Objects :
       <<i, t, s>> \in subcribers_ /\ life[s] = "destroyed" => id[s] # i

SubInv ==
  /\ AskedOfPublishers /\ HeldIsRegistered /\ HeldWasAsked /\ AskedIsHeld
  /\ BornIsRegistered /\ DestroyedIsForgotten
-----------------------------------------------------------------------------
(* The objects, their units and what they publish.                         *)

\* The kinds of objects are disjoint.
LEMMA Kinds ==
  /\ \A i \in 1..NLoops : Dmp(i) \in LoopDmps
  /\ \A i \in NLoops + 1..NLoops + NWorkers : Dmp(i) \in WorkerDmps
  /\ \A o \in LoopDmps : \E i \in 1..NLoops : o = Dmp(i)
  /\ \A o \in WorkerDmps : \E i \in NLoops + 1..NLoops + NWorkers : o = Dmp(i)
  /\ \A i, j : Dmp(i) = Dmp(j) => i = j
  /\ \A i : Dmp(i)[1] = "Demultiplex" /\ Dmp(i)[2] = i
  /\ \A b \in Balancers : b[1] = "LoadBalancer"
  /\ Server[1] = "TcpServer" /\ Acceptor[1] = "Acceptor" /\ Proxy[1] = "ProxyServer"
<1>1. \A i, j : Dmp(i) = Dmp(j) => i = j
  BY DEF Dmp
<1>2. \A i : Dmp(i)[1] = "Demultiplex" /\ Dmp(i)[2] = i
  BY DEF Dmp
<1>3. /\ LoopDmps = {Dmp(i) : i \in 1..NLoops}
      /\ WorkerDmps = {Dmp(i) : i \in NLoops + 1..NLoops + NWorkers}
  BY DEF LoopDmps, WorkerDmps, Dmp
<1>4. \A b \in Balancers : b[1] = "LoadBalancer"
  BY DEF Balancers
<1>5. Server[1] = "TcpServer" /\ Acceptor[1] = "Acceptor" /\ Proxy[1] = "ProxyServer"
  BY DEF Server, Acceptor, Proxy
<1> QED
  BY <1>1, <1>2, <1>3, <1>4, <1>5

\* So no object is of two of them.
LEMMA Disjoint ==
  /\ LoopDmps \cap WorkerDmps = {} /\ Dmps \cap Balancers = {}
  /\ \A o \in {Server, Acceptor, Proxy} : o \notin Dmps /\ o \notin Balancers
  /\ Server # Acceptor /\ Server # Proxy /\ Acceptor # Proxy
<1>1. \A o \in Dmps : o[1] = "Demultiplex"
  BY Kinds DEF Dmps
<1>2. LoopDmps \cap WorkerDmps = {}
  <2> SUFFICES ASSUME NEW o \in LoopDmps, o \in WorkerDmps PROVE FALSE
    OBVIOUS
  <2>1. PICK i \in 1..NLoops : o = Dmp(i)
    BY Kinds
  <2>2. PICK j \in NLoops + 1..NLoops + NWorkers : o = Dmp(j)
    BY Kinds
  <2>3. i = j
    BY <2>1, <2>2, Kinds
  <2> QED
    BY <2>3, PubSubAssumption
<1> QED
  BY <1>1, <1>2, Kinds

\* The counters.
LEMMA UnitFacts ==
  /\ \A o \in Dmps : UnitOf(o) = "demultiplex.cc"
  /\ \A b \in Balancers : UnitOf(b) = "loader.cc"
  /\ UnitOf(Server) = "tcp_server.cc" /\ UnitOf(Acceptor) = "tcp_server.cc"
  /\ UnitOf(Proxy) = "proxy_server.cc"
<1>1. \A o \in Dmps : o[1] = "Demultiplex"
  BY Kinds DEF Dmps
<1> QED
  BY <1>1, Kinds DEF UnitOf

\* What is published, by kind.
LEMMA EmitFacts ==
  /\ \A o \in LoopDmps : Emits(o) = {"DMPREGISTER", "DMPMODIFY", "DMPDELETE", "DMPWAIT"}
  /\ \A o \in WorkerDmps : Emits(o) = {"DMPWAIT"}
  /\ \A b \in Balancers : Emits(b) = {"FORWARD"}
  /\ Emits(Server) = {"BALANCE"} /\ Emits(Acceptor) = {} /\ Emits(Proxy) = {}
BY Disjoint DEF Emits, Dmps

\* Two publishers of one type are of one kind.
LEMMA SameKind ==
  ASSUME NEW p \in Objects, NEW q \in Objects, NEW t, MayPublish(p, t), MayPublish(q, t)
  PROVE  p = q \/ {p, q} \subseteq Dmps \/ {p, q} \subseteq Balancers
BY EmitFacts DEF MayPublish, Objects, Dmps

\* How many Demultiplexes a server has.
LEMMA DmpCount ==
  /\ IsFiniteSet(LoopDmps) /\ Cardinality(LoopDmps) = NLoops
  /\ IsFiniteSet(WorkerDmps) /\ Cardinality(WorkerDmps) = NWorkers
<1>1. ASSUME NEW a \in Int, NEW b \in Int
      PROVE  /\ IsFiniteSet({Dmp(i) : i \in a..b})
             /\ Cardinality({Dmp(i) : i \in a..b}) = Cardinality(a..b)
  <2> DEFINE T == {Dmp(i) : i \in a..b}
             f == [i \in a..b |-> Dmp(i)]
  <2>1. f \in Bijection(a..b, T)
    <3>1. \A i, j \in a..b : Dmp(i) = Dmp(j) => i = j
      BY Kinds
    <3>2. f \in [a..b -> T] /\ \A i, j \in a..b : f[i] = f[j] => i = j
      BY <3>1
    <3>3. \A o \in T : \E i \in a..b : f[i] = o
      OBVIOUS
    <3> QED
      BY <3>2, <3>3 DEF Bijection, Injection, Surjection, IsInjective
  <2>2. ExistsBijection(a..b, T)
    BY <2>1 DEF ExistsBijection
  <2>3. IsFiniteSet(a..b)
    BY FS_Interval
  <2> QED
    BY <2>2, <2>3, FS_Bijection
<1>2. /\ Cardinality(1..NLoops) = NLoops
      /\ Cardinality(NLoops + 1..NLoops + NWorkers) = NWorkers
  <2>1. NLoops \in Nat \ {0} /\ NWorkers \in Nat \ {0}
    BY PubSubAssumption
  <2>2. Cardinality(1..NLoops) = IF 1 > NLoops THEN 0 ELSE NLoops - 1 + 1
    BY <2>1, FS_Interval
  <2>3. Cardinality(NLoops + 1..NLoops + NWorkers)
          = IF NLoops + 1 > NLoops + NWorkers THEN 0 ELSE (NLoops + NWorkers) - (NLoops + 1) + 1
    BY <2>1, FS_Interval
  <2> QED
    BY <2>1, <2>2, <2>3
<1>3. /\ LoopDmps = {Dmp(i) : i \in 1..NLoops}
      /\ WorkerDmps = {Dmp(i) : i \in NLoops + 1..NLoops + NWorkers}
  BY DEF LoopDmps, WorkerDmps, Dmp
<1>4. NLoops \in Int /\ NWorkers \in Int
  BY PubSubAssumption
<1>5. 1 \in Int /\ NLoops + 1 \in Int /\ NLoops + NWorkers \in Int
  BY <1>4
<1> QED
  BY <1>1, <1>2, <1>3, <1>4, <1>5

\* And balancers.
LEMMA BalancerCount == IsFiniteSet(Balancers) /\ Cardinality(Balancers) <= NBalancers
<1> DEFINE f == [i \in 1..NBalancers |-> <<"LoadBalancer", i>>]
<1>1. f \in Surjection(1..NBalancers, Balancers)
  BY DEF Balancers, Surjection
<1>2. NBalancers \in Nat \ {0}
  BY PubSubAssumption
<1>3. IsFiniteSet(1..NBalancers) /\ Cardinality(1..NBalancers) = NBalancers
  BY <1>2, FS_Interval
<1> QED
  BY <1>1, <1>3, FS_Surjection

\* Identifiers that stay below the bound do not wrap.
LEMMA ModSmall == ASSUME NEW x \in Nat, NEW y \in Nat \ {0}, x < y PROVE x % y = x
OBVIOUS

\* A remainder is below the divisor.
LEMMA ModType == ASSUME NEW x \in Nat, NEW y \in Nat \ {0} PROVE x % y \in 0..y - 1
OBVIOUS
-----------------------------------------------------------------------------
(* Construction.                                                           *)

\* The part of the type invariant that construction changes.
LEMMA BuiltFacts ==
  ASSUME CenterTypeOK, NEW nth, IsFiniteSet(DOMAIN nth), DOMAIN nth \subseteq Objects,
         \A o \in DOMAIN nth : nth[o] \in Nat /\ UnitOf(o) \in Units, Built(nth)
  PROVE  /\ \A o \in DOMAIN nth : /\ life[o] = "unborn" /\ life'[o] = "alive"
                                  /\ id'[o] = pub_id(UnitOf(o), nth[o])
                                  /\ id'[o] \in 0..IdBound - 1
         /\ \A o \in Objects : o \notin DOMAIN nth => life'[o] = life[o] /\ id'[o] = id[o]
         /\ \A u \in Units :
              PublisherID'[u] = pub_id(u, Cardinality({o \in DOMAIN nth : UnitOf(o) = u}))
         /\ PublisherID' \in [Units -> 0..IdBound - 1]
         /\ id' \in [Objects -> NoId..IdBound - 1]
         /\ life' \in [Objects -> {"unborn", "alive", "dying", "destroyed"}]
<1> DEFINE objs    == DOMAIN nth
           From(u) == {o \in objs : UnitOf(o) = u}
<1>1. /\ \A o \in objs : life[o] = "unborn"
      /\ life' = [o \in Objects |-> IF o \in objs THEN "alive" ELSE life[o]]
      /\ id' = [o \in Objects |-> IF o \in objs THEN pub_id(UnitOf(o), nth[o]) ELSE id[o]]
      /\ PublisherID' = [u \in Units |-> pub_id(u, Cardinality(From(u)))]
  BY DEF Built
<1>2. IdBound \in Nat \ {0} /\ \A u \in Units : PublisherID[u] \in Nat
  BY PubSubAssumption DEF CenterTypeOK
<1>3. ASSUME NEW u \in Units, NEW n \in Nat PROVE pub_id(u, n) \in 0..IdBound - 1
  <2>1. PublisherID[u] + n \in Nat
    BY <1>2
  <2>2. (PublisherID[u] + n) % IdBound \in 0..IdBound - 1
    BY ONLY <1>2, <2>1, ModType
  <2> QED
    BY <2>2 DEF pub_id
<1>4. ASSUME NEW u \in Units PROVE Cardinality(From(u)) \in Nat
  <2>1. From(u) \subseteq objs
    OBVIOUS
  <2> QED
    BY <2>1, FS_Subset, FS_CardinalityType
<1>5. PublisherID' \in [Units -> 0..IdBound - 1]
  BY <1>1, <1>3, <1>4
<1>6. \A o \in objs : pub_id(UnitOf(o), nth[o]) \in 0..IdBound - 1
  BY <1>3
<1>7. 0..IdBound - 1 \subseteq NoId..IdBound - 1
  BY <1>2 DEF NoId
<1>8. id' \in [Objects -> NoId..IdBound - 1]
  BY <1>1, <1>6, <1>7 DEF CenterTypeOK
<1>9. life' \in [Objects -> {"unborn", "alive", "dying", "destroyed"}]
  BY <1>1 DEF CenterTypeOK
<1> QED
  BY <1>1, <1>5, <1>6, <1>8, <1>9

\* What registerPub leaves in the centre.
LEMMA RegisteredFacts ==
  ASSUME CenterTypeOK, NEW pubs, pubs \subseteq Objects, \A o \in pubs : id'[o] \in 0..IdBound - 1,
         publishers_' = Registered(id', pubs)
  PROVE  /\ DOMAIN publishers_' = DOMAIN publishers_ \cup {id'[o] : o \in pubs}
         /\ DOMAIN publishers_' \subseteq 0..IdBound - 1
         /\ \A i \in DOMAIN publishers_' : publishers_'[i] \in Objects
<1>1. DOMAIN publishers_' = DOMAIN publishers_ \cup {id'[o] : o \in pubs}
  BY DEF Registered
<1>2. ASSUME NEW i \in DOMAIN publishers_' PROVE publishers_'[i] \in Objects
  <2>1. CASE i \in DOMAIN publishers_
    BY <1>2, <2>1 DEF Registered, CenterTypeOK
  <2>2. CASE i \notin DOMAIN publishers_
    <3>1. \E o \in pubs : id'[o] = i
      BY <1>1, <1>2, <2>2
    <3>2. publishers_'[i] = CHOOSE o \in pubs : id'[o] = i
      BY <1>2, <2>2 DEF Registered
    <3> QED
      BY <3>1, <3>2
  <2> QED
    BY <2>1, <2>2
<1> QED
  BY <1>1, <1>2 DEF CenterTypeOK

\* Subscriptions through identifiers, one by one.
LEMMA ByIdFacts ==
  ASSUME NEW f, NEW T, T \subseteq Objects \X PubType \X Objects
  PROVE  /\ \A i, t, s : <<i, t, s>> \in ById(f, T)
                           <=> \E p \in Objects : <<p, t, s>> \in T /\ f[p] = i
         /\ (\A p \in Objects, t \in PubType, s \in Objects :
               <<p, t, s>> \in T => f[p] \in 0..IdBound - 1)
              => ById(f, T) \subseteq (0..IdBound - 1) \X PubType \X Objects
<1>1. ASSUME NEW i, NEW t, NEW s, <<i, t, s>> \in ById(f, T)
      PROVE  \E p \in Objects : <<p, t, s>> \in T /\ f[p] = i
  <2>1. PICK w \in T : <<i, t, s>> = <<f[w[1]], w[2], w[3]>>
    BY <1>1 DEF ById
  <2>2. w = <<w[1], w[2], w[3]>> /\ w[1] \in Objects
    OBVIOUS
  <2> QED
    BY <2>1, <2>2
<1>2. ASSUME NEW i, NEW t, NEW s, NEW p \in Objects, <<p, t, s>> \in T, f[p] = i
      PROVE  <<i, t, s>> \in ById(f, T)
  <2> DEFINE w == <<p, t, s>>
  <2>1. w[1] = p /\ w[2] = t /\ w[3] = s
    OBVIOUS
  <2> QED
    BY <1>2, <2>1 DEF ById
<1>3. ASSUME \A p \in Objects, t \in PubType, s \in Objects :
               <<p, t, s>> \in T => f[p] \in 0..IdBound - 1,
             NEW r \in ById(f, T)
      PROVE  r \in (0..IdBound - 1) \X PubType \X Objects
  <2>1. PICK w \in T : r = <<f[w[1]], w[2], w[3]>>
    BY DEF ById
  <2>2. w = <<w[1], w[2], w[3]>> /\ w[1] \in Objects /\ w[2] \in PubType /\ w[3] \in Objects
    OBVIOUS
  <2> QED
    BY <1>3, <2>1, <2>2
<1> QED
  BY <1>1, <1>2, <1>3

ServerObjs == {Server, Acceptor} \cup LoopDmps
ProxyObjs  == {Proxy} \cup WorkerDmps

\* What a constructor does to the lives and identifiers of objects.
Births(objs) ==
  /\ \A o \in objs : life[o] = "unborn" /\ life'[o] = "alive" /\ id'[o] \in 0..IdBound - 1
  /\ \A o \in Objects : o \notin objs => life'[o] = life[o] /\ id'[o] = id[o]
  /\ PublisherID' \in [Units -> 0..IdBound - 1]
  /\ id' \in [Objects -> NoId..IdBound - 1]
  /\ life' \in [Objects -> {"unborn", "alive", "dying", "destroyed"}]

\* A unit that none of the objects is built from keeps its counter.
LEMMA OtherUnit ==
  ASSUME CenterTypeOK, NEW u \in Units, NEW T, T = {},
         PublisherID'[u] = pub_id(u, Cardinality(T))
  PROVE  PublisherID'[u] = PublisherID[u]
<1>1. Cardinality(T) = 0
  BY FS_EmptySet
<1>2. PublisherID[u] \in Nat /\ IdBound \in Nat \ {0} /\ PublisherID[u] < IdBound
  BY PubSubAssumption DEF CenterTypeOK
<1>3. PublisherID[u] + 0 = PublisherID[u]
  BY <1>2
<1>4. PublisherID[u] % IdBound = PublisherID[u]
  BY ONLY <1>2, ModSmall
<1> QED
  BY <1>1, <1>3, <1>4 DEF pub_id

\* TcpServer's constructor.
LEMMA ServerBuilt ==
  ASSUME IdInv, ConstructTcpServer
  PROVE  LET base == IF Born(Proxy) THEN NWorkers ELSE 0
         IN  /\ Births(ServerObjs)
             /\ id'[Server] = 0
             /\ \A i \in 1..NLoops : id'[Dmp(i)] = base + i - 1
             /\ PublisherID'["demultiplex.cc"] = (base + NLoops) % IdBound
             /\ PublisherID'["loader.cc"] = PublisherID["loader.cc"]
             /\ PublisherID'["proxy_server.cc"] = PublisherID["proxy_server.cc"]
<1> DEFINE base == IF Born(Proxy) THEN NWorkers ELSE 0
           nth  == [o \in ServerObjs |-> IF o = Server THEN 0 ELSE IF o = Acceptor THEN 1 ELSE o[2] - 1]
<1>1. Built(nth) /\ DOMAIN nth = ServerObjs
  BY DEF ConstructTcpServer, ServerObjs
<1>2. ServerObjs \subseteq Objects /\ IsFiniteSet(ServerObjs)
  <2>1. IsFiniteSet({Server, Acceptor})
    <3>1. IsFiniteSet({Server})
      BY ONLY FS_Singleton
    <3>2. IsFiniteSet({Server} \cup {Acceptor})
      BY ONLY <3>1, FS_AddElement
    <3>3. {Server, Acceptor} = {Server} \cup {Acceptor}
      BY ONLY TRUE
    <3> QED
      BY ONLY <3>2, <3>3
  <2> QED
    BY <2>1, DmpCount, FS_Union DEF ServerObjs, Objects
<1>3. \A i \in 1..NLoops : Dmp(i) \in ServerObjs /\ nth[Dmp(i)] = i - 1
  BY Kinds, Disjoint DEF ServerObjs, Dmps
<1>4. nth[Server] = 0 /\ nth[Acceptor] = 1
  BY Disjoint DEF ServerObjs
<1>5. NLoops \in Nat \ {0} /\ NWorkers \in Nat \ {0} /\ IdBound \in Nat \ {0} /\ NLoops + NWorkers <= IdBound
  BY PubSubAssumption
<1>6. ASSUME NEW o \in ServerObjs PROVE nth[o] \in Nat /\ UnitOf(o) \in Units
  <2>1. CASE o \in {Server, Acceptor}
    BY <1>4, <2>1, UnitFacts DEF Units
  <2>2. CASE o \in LoopDmps
    <3>1. PICK i \in 1..NLoops : o = Dmp(i)
      BY <2>2, Kinds
    <3>2. i - 1 \in Nat
      BY <1>5
    <3>3. UnitOf(o) \in Units
      BY <2>2, UnitFacts DEF Units, Dmps
    <3> QED
      BY <1>3, <3>1, <3>2, <3>3
  <2> QED
    BY <2>1, <2>2 DEF ServerObjs
<1> HIDE DEF nth
<1>7. /\ \A o \in ServerObjs : /\ life[o] = "unborn" /\ life'[o] = "alive"
                               /\ id'[o] = pub_id(UnitOf(o), nth[o])
                               /\ id'[o] \in 0..IdBound - 1
      /\ \A o \in Objects : o \notin ServerObjs => life'[o] = life[o] /\ id'[o] = id[o]
      /\ \A u \in Units :
           PublisherID'[u] = pub_id(u, Cardinality({o \in ServerObjs : UnitOf(o) = u}))
      /\ PublisherID' \in [Units -> 0..IdBound - 1]
      /\ id' \in [Objects -> NoId..IdBound - 1]
      /\ life' \in [Objects -> {"unborn", "alive", "dying", "destroyed"}]
  BY <1>1, <1>2, <1>6, BuiltFacts DEF IdInv
<1>8. Births(ServerObjs)
  BY <1>7 DEF Births
<1>9. ~Born(Server) /\ PublisherID["demultiplex.cc"] = base /\ PublisherID["tcp_server.cc"] = 0
  BY <1>7 DEF Born, IdInv, DmpIds, ServerIds, ServerObjs
<1>10. id'[Server] = 0
  <2>1. id'[Server] = (0 + 0) % IdBound
    BY <1>4, <1>7, <1>9, UnitFacts DEF pub_id, ServerObjs
  <2> QED
    BY <1>5, <2>1
<1>11. base \in Nat /\ base + NLoops <= IdBound
  BY <1>5
<1>12. ASSUME NEW i \in 1..NLoops PROVE id'[Dmp(i)] = base + i - 1
  <2>1. id'[Dmp(i)] = (base + (i - 1)) % IdBound
    <3>1. UnitOf(Dmp(i)) = "demultiplex.cc"
      BY Kinds, UnitFacts DEF Dmps
    <3> QED
      BY <1>3, <1>7, <1>9, <3>1 DEF pub_id
  <2>2. base + (i - 1) \in Nat /\ base + (i - 1) < IdBound /\ base + (i - 1) = base + i - 1
    BY <1>5, <1>11
  <2>3. (base + (i - 1)) % IdBound = base + (i - 1)
    BY ONLY <1>5, <2>2, ModSmall
  <2> QED
    BY <2>1, <2>2, <2>3
<1>13. PublisherID'["demultiplex.cc"] = (base + NLoops) % IdBound
  <2>1. {o \in ServerObjs : UnitOf(o) = "demultiplex.cc"} = LoopDmps
    BY UnitFacts DEF ServerObjs, Dmps
  <2> QED
    BY <1>7, <1>9, <2>1, DmpCount DEF pub_id, Units
<1>14. /\ {o \in ServerObjs : UnitOf(o) = "loader.cc"} = {}
       /\ {o \in ServerObjs : UnitOf(o) = "proxy_server.cc"} = {}
  BY UnitFacts DEF ServerObjs, Dmps
<1>15. /\ PublisherID'["loader.cc"] = PublisherID["loader.cc"]
       /\ PublisherID'["proxy_server.cc"] = PublisherID["proxy_server.cc"]
  BY <1>7, <1>14, OtherUnit DEF Units, IdInv
<1> QED
  BY <1>8, <1>10, <1>12, <1>13, <1>15

\* ProxyServer's constructor.
LEMMA ProxyBuilt ==
  ASSUME IdInv, ConstructProxyServer
  PROVE  LET base == IF Born(Server) THEN NLoops ELSE 0
         IN  /\ Births(ProxyObjs)
             /\ id'[Proxy] = 0
             /\ \A i \in NLoops + 1..NLoops + NWorkers : id'[Dmp(i)] = base + i - NLoops - 1
             /\ PublisherID'["demultiplex.cc"] = (base + NWorkers) % IdBound
             /\ PublisherID'["loader.cc"] = PublisherID["loader.cc"]
             /\ PublisherID'["tcp_server.cc"] = PublisherID["tcp_server.cc"]
<1> DEFINE base == IF Born(Server) THEN NLoops ELSE 0
           nth  == [o \in ProxyObjs |-> IF o = Proxy THEN 0 ELSE o[2] - NLoops - 1]
<1>1. Built(nth) /\ DOMAIN nth = ProxyObjs
  BY DEF ConstructProxyServer, ProxyObjs
<1>2. ProxyObjs \subseteq Objects /\ IsFiniteSet(ProxyObjs)
  BY DmpCount, FS_AddElement, ProxyObjs = WorkerDmps \cup {Proxy} DEF ProxyObjs, Objects
<1>3. \A i \in NLoops + 1..NLoops + NWorkers : Dmp(i) \in ProxyObjs /\ nth[Dmp(i)] = i - NLoops - 1
  BY Kinds, Disjoint DEF ProxyObjs, Dmps
<1>4. nth[Proxy] = 0
  BY DEF ProxyObjs
<1>5. NLoops \in Nat \ {0} /\ NWorkers \in Nat \ {0} /\ IdBound \in Nat \ {0} /\ NLoops + NWorkers <= IdBound
  BY PubSubAssumption
<1>6. ASSUME NEW o \in ProxyObjs PROVE nth[o] \in Nat /\ UnitOf(o) \in Units
  <2>1. CASE o = Proxy
    BY <1>4, <2>1, UnitFacts DEF Units
  <2>2. CASE o \in WorkerDmps
    <3>1. PICK i \in NLoops + 1..NLoops + NWorkers : o = Dmp(i)
      BY <2>2, Kinds
    <3>2. i - NLoops - 1 \in Nat
      BY <1>5
    <3>3. UnitOf(o) \in Units
      BY <2>2, UnitFacts DEF Units, Dmps
    <3> QED
      BY <1>3, <3>1, <3>2, <3>3
  <2> QED
    BY <2>1, <2>2 DEF ProxyObjs
<1> HIDE DEF nth
<1>7. /\ \A o \in ProxyObjs : /\ life[o] = "unborn" /\ life'[o] = "alive"
                              /\ id'[o] = pub_id(UnitOf(o), nth[o])
                              /\ id'[o] \in 0..IdBound - 1
      /\ \A o \in Objects : o \notin ProxyObjs => life'[o] = life[o] /\ id'[o] = id[o]
      /\ \A u \in Units :
           PublisherID'[u] = pub_id(u, Cardinality({o \in ProxyObjs : UnitOf(o) = u}))
      /\ PublisherID' \in [Units -> 0..IdBound - 1]
      /\ id' \in [Objects -> NoId..IdBound - 1]
      /\ life' \in [Objects -> {"unborn", "alive", "dying", "destroyed"}]
  BY <1>1, <1>2, <1>6, BuiltFacts DEF IdInv
<1>8. Births(ProxyObjs)
  BY <1>7 DEF Births
<1>9. ~Born(Proxy) /\ PublisherID["demultiplex.cc"] = base /\ PublisherID["proxy_server.cc"] = 0
  BY <1>7 DEF Born, IdInv, DmpIds, ServerIds, ProxyObjs
<1>10. id'[Proxy] = 0
  <2>1. id'[Proxy] = (0 + 0) % IdBound
    BY <1>4, <1>7, <1>9, UnitFacts DEF pub_id, ProxyObjs
  <2> QED
    BY <1>5, <2>1
<1>11. base \in Nat /\ base + NWorkers <= IdBound
  BY <1>5
<1>12. ASSUME NEW i \in NLoops + 1..NLoops + NWorkers PROVE id'[Dmp(i)] = base + i - NLoops - 1
  <2>1. id'[Dmp(i)] = (base + (i - NLoops - 1)) % IdBound
    <3>1. UnitOf(Dmp(i)) = "demultiplex.cc"
      BY Kinds, UnitFacts DEF Dmps
    <3> QED
      BY <1>3, <1>7, <1>9, <3>1 DEF pub_id
  <2>2. /\ base + (i - NLoops - 1) \in Nat /\ base + (i - NLoops - 1) < IdBound
        /\ base + (i - NLoops - 1) = base + i - NLoops - 1
    BY <1>5, <1>11
  <2>3. (base + (i - NLoops - 1)) % IdBound = base + (i - NLoops - 1)
    BY ONLY <1>5, <2>2, ModSmall
  <2> QED
    BY <2>1, <2>2, <2>3
<1>13. PublisherID'["demultiplex.cc"] = (base + NWorkers) % IdBound
  <2>1. {o \in ProxyObjs : UnitOf(o) = "demultiplex.cc"} = WorkerDmps
    BY UnitFacts DEF ProxyObjs, Dmps
  <2> QED
    BY <1>7, <1>9, <2>1, DmpCount DEF pub_id, Units
<1>14. /\ {o \in ProxyObjs : UnitOf(o) = "loader.cc"} = {}
       /\ {o \in ProxyObjs : UnitOf(o) = "tcp_server.cc"} = {}
  BY UnitFacts DEF ProxyObjs, Dmps
<1>15. /\ PublisherID'["loader.cc"] = PublisherID["loader.cc"]
       /\ PublisherID'["tcp_server.cc"] = PublisherID["tcp_server.cc"]
  BY <1>7, <1>14, OtherUnit DEF Units, IdInv
<1> QED
  BY <1>8, <1>10, <1>12, <1>13, <1>15

\* LoadBalancer's constructor.
LEMMA BalancerBuilt ==
  ASSUME IdInv, NEW b \in Balancers, ConstructLoadBalancer(b)
  PROVE  /\ Births({b})
         /\ id'[b] = PublisherID["loader.cc"]
         /\ PublisherID'["loader.cc"] = (PublisherID["loader.cc"] + 1) % IdBound
         /\ \A u \in Units \ {"loader.cc"} : PublisherID'[u] = PublisherID[u]
<1> DEFINE nth == [o \in {b} |-> 0]
<1>1. Built(nth) /\ DOMAIN nth = {b}
  BY DEF ConstructLoadBalancer
<1>2. b \in Objects /\ IsFiniteSet({b}) /\ Cardinality({b}) = 1
  BY FS_Singleton DEF Objects
<1>3. nth[b] = 0 /\ UnitOf(b) = "loader.cc"
  BY UnitFacts
<1> HIDE DEF nth
<1>4. /\ life[b] = "unborn" /\ life'[b] = "alive"
      /\ id'[b] = pub_id("loader.cc", 0) /\ id'[b] \in 0..IdBound - 1
      /\ \A o \in Objects : o # b => life'[o] = life[o] /\ id'[o] = id[o]
      /\ \A u \in Units : PublisherID'[u] = pub_id(u, Cardinality({o \in {b} : UnitOf(o) = u}))
      /\ PublisherID' \in [Units -> 0..IdBound - 1]
      /\ id' \in [Objects -> NoId..IdBound - 1]
      /\ life' \in [Objects -> {"unborn", "alive", "dying", "destroyed"}]
  <2>1. "loader.cc" \in Units
    BY DEF Units
  <2> QED
    BY <1>1, <1>2, <1>3, <2>1, BuiltFacts DEF IdInv
<1>5. Births({b})
  BY <1>4 DEF Births
<1>6. /\ PublisherID["loader.cc"] \in Nat /\ IdBound \in Nat \ {0} /\ PublisherID["loader.cc"] < IdBound
      /\ PublisherID["loader.cc"] + 0 = PublisherID["loader.cc"]
  BY PubSubAssumption DEF IdInv, CenterTypeOK, Units
<1>7. id'[b] = PublisherID["loader.cc"]
  <2>1. PublisherID["loader.cc"] % IdBound = PublisherID["loader.cc"]
    BY ONLY <1>6, ModSmall
  <2> QED
    BY <1>4, <1>6, <2>1 DEF pub_id
<1>8. PublisherID'["loader.cc"] = (PublisherID["loader.cc"] + 1) % IdBound
  <2>1. {o \in {b} : UnitOf(o) = "loader.cc"} = {b}
    BY <1>3
  <2> QED
    BY <1>2, <1>4, <2>1 DEF pub_id, Units
<1>9. ASSUME NEW u \in Units \ {"loader.cc"} PROVE PublisherID'[u] = PublisherID[u]
  <2>1. {o \in {b} : UnitOf(o) = u} = {}
    BY <1>3
  <2> QED
    BY <1>4, <2>1, OtherUnit DEF IdInv
<1> QED
  BY <1>5, <1>7, <1>8, <1>9
-----------------------------------------------------------------------------
(* Identifiers are distinct within a kind.                                 *)

\* What the servers subscribe to: publishers they build themselves.
LEMMA WantsFacts ==
  /\ ServerWants \subseteq Objects \X PubType \X Objects
  /\ \A p, t, s : <<p, t, s>> \in ServerWants =>
       p \in {Acceptor} \cup LoopDmps /\ MayPublish(p, t) /\ s = Server
  /\ ProxyWants \subseteq Objects \X PubType \X Objects
  /\ \A p, t, s : <<p, t, s>> \in ProxyWants =>
       p \in WorkerDmps /\ MayPublish(p, t) /\ s = Proxy
<1> DEFINE Types == {"DMPREGISTER", "DMPMODIFY", "DMPDELETE", "DMPWAIT"}
<1>1. {Server, Acceptor, Proxy} \cup LoopDmps \cup WorkerDmps \subseteq Objects
  BY DEF Objects
<1>2. Types \subseteq PubType /\ {"ACCEPTED", "DMPWAIT"} \subseteq PubType
  BY DEF PubType
<1>3. ASSUME NEW w \in ServerWants
      PROVE  \E p \in {Acceptor} \cup LoopDmps, t \in PubType :
               w = <<p, t, Server>> /\ MayPublish(p, t)
  <2>1. CASE w = <<Acceptor, "ACCEPTED", Server>>
    BY <1>2, <2>1 DEF MayPublish
  <2>2. CASE \E d \in LoopDmps, t \in Types : w = <<d, t, Server>>
    BY <1>2, <2>2, EmitFacts DEF MayPublish
  <2> QED
    BY <2>1, <2>2 DEF ServerWants
<1>4. ASSUME NEW w \in ProxyWants
      PROVE  \E p \in WorkerDmps, t \in PubType : w = <<p, t, Proxy>> /\ MayPublish(p, t)
  BY <1>2, EmitFacts DEF ProxyWants, MayPublish
<1>5. ServerWants \subseteq Objects \X PubType \X Objects
  BY <1>1, <1>3
<1>6. ProxyWants \subseteq Objects \X PubType \X Objects
  BY <1>1, <1>4
<1>7. ASSUME NEW p, NEW t, NEW s, <<p, t, s>> \in ServerWants
      PROVE  p \in {Acceptor} \cup LoopDmps /\ MayPublish(p, t) /\ s = Server
  <2>1. PICK q \in {Acceptor} \cup LoopDmps, r \in PubType :
          <<p, t, s>> = <<q, r, Server>> /\ MayPublish(q, r)
    BY <1>3, <1>7
  <2> QED
    BY <2>1
<1>8. ASSUME NEW p, NEW t, NEW s, <<p, t, s>> \in ProxyWants
      PROVE  p \in WorkerDmps /\ MayPublish(p, t) /\ s = Proxy
  <2>1. PICK q \in WorkerDmps, r \in PubType : <<p, t, s>> = <<q, r, Proxy>> /\ MayPublish(q, r)
    BY <1>4, <1>8
  <2> QED
    BY <2>1
<1> QED
  BY <1>5, <1>6, <1>7, <1>8

\* A constructor: it builds objs, registers some of them and subscribes W.
Constructs(objs, pubs, W) ==
  /\ objs \subseteq Objects /\ pubs \subseteq objs
  /\ Births(objs)
  /\ publishers_' = Registered(id', pubs)
  /\ W \subseteq Objects \X PubType \X Objects
  /\ \A p, t, s : <<p, t, s>> \in W => p \in objs /\ MayPublish(p, t) /\ s \in objs
  /\ subcribers_' = Subscribed(publishers_', ById(id', W))
  /\ asked' = asked \cup W

\* The three constructors are constructors.
LEMMA Constructors ==
  ASSUME IdInv
  PROVE  /\ ConstructTcpServer => Constructs(ServerObjs, {Acceptor} \cup LoopDmps, ServerWants)
         /\ ConstructProxyServer => Constructs(ProxyObjs, ProxyObjs, ProxyWants)
         /\ \A b \in Balancers : ConstructLoadBalancer(b) => Constructs({b}, {b}, {})
<1>1. ASSUME ConstructTcpServer PROVE Constructs(ServerObjs, {Acceptor} \cup LoopDmps, ServerWants)
  <2>1. ServerObjs \subseteq Objects /\ {Acceptor} \cup LoopDmps \subseteq ServerObjs /\ Server \in ServerObjs
    BY DEF ServerObjs, Objects
  <2>2. Births(ServerObjs)
    BY <1>1, ServerBuilt
  <2> QED
    BY <1>1, <2>1, <2>2, WantsFacts DEF Constructs, ConstructTcpServer
<1>2. ASSUME ConstructProxyServer PROVE Constructs(ProxyObjs, ProxyObjs, ProxyWants)
  <2>1. ProxyObjs \subseteq Objects /\ WorkerDmps \subseteq ProxyObjs /\ Proxy \in ProxyObjs
    BY DEF ProxyObjs, Objects
  <2>2. Births(ProxyObjs)
    BY <1>2, ProxyBuilt
  <2>3. publishers_' = Registered(id', ProxyObjs)
    BY <1>2 DEF ConstructProxyServer, ProxyObjs
  <2> QED
    BY <1>2, <2>1, <2>2, <2>3, WantsFacts DEF Constructs, ConstructProxyServer
<1>3. ASSUME NEW b \in Balancers, ConstructLoadBalancer(b) PROVE Constructs({b}, {b}, {})
  <2>1. b \in Objects
    BY DEF Objects
  <2>2. Births({b})
    BY <1>3, BalancerBuilt
  <2>3. /\ publishers_' = Registered(id', {b})
        /\ subcribers_' = subcribers_ /\ asked' = asked
    BY <1>3 DEF ConstructLoadBalancer
  <2>4. Subscribed(publishers_', ById(id', {})) = subcribers_
    BY DEF Subscribed, ById
  <2> QED
    BY <2>1, <2>2, <2>3, <2>4 DEF Constructs
<1> QED
  BY <1>1, <1>2, <1>3

\* Constructors keep the types of the centre.
LEMMA ConstructsType ==
  ASSUME CenterTypeOK, NEW objs, NEW pubs, NEW W, Constructs(objs, pubs, W)
  PROVE  CenterTypeOK'
<1>1. /\ objs \subseteq Objects /\ pubs \subseteq objs
      /\ Births(objs)
      /\ publishers_' = Registered(id', pubs)
      /\ W \subseteq Objects \X PubType \X Objects
      /\ \A p, t, s : <<p, t, s>> \in W => p \in objs
      /\ subcribers_' = Subscribed(publishers_', ById(id', W))
      /\ asked' = asked \cup W
  BY DEF Constructs
<1>2. \A o \in objs : id'[o] \in 0..IdBound - 1
  BY <1>1 DEF Births
<1>3. /\ DOMAIN publishers_' \subseteq 0..IdBound - 1
      /\ \A i \in DOMAIN publishers_' : publishers_'[i] \in Objects
  <2>1. pubs \subseteq Objects /\ \A o \in pubs : id'[o] \in 0..IdBound - 1
    BY <1>1, <1>2
  <2> QED
    BY <1>1, <2>1, RegisteredFacts
<1>4. ById(id', W) \subseteq (0..IdBound - 1) \X PubType \X Objects
  <2>1. \A p \in Objects, t \in PubType, s \in Objects :
          <<p, t, s>> \in W => id'[p] \in 0..IdBound - 1
    BY <1>1, <1>2
  <2> QED
    BY <1>1, <2>1, ByIdFacts
<1>5. subcribers_' \subseteq (0..IdBound - 1) \X PubType \X Objects
  BY <1>1, <1>4 DEF Subscribed, CenterTypeOK
<1>6. asked' \subseteq Objects \X PubType \X Objects
  BY <1>1 DEF CenterTypeOK
<1> QED
  BY <1>1, <1>3, <1>5, <1>6 DEF CenterTypeOK, Births

\* TcpServer's constructor keeps the identifiers in order.
LEMMA ServerKeepsIds == ASSUME IdInv, ConstructTcpServer PROVE IdInv'
<1> DEFINE base == IF Born(Proxy) THEN NWorkers ELSE 0
<1>1. /\ Births(ServerObjs) /\ id'[Server] = 0
      /\ \A i \in 1..NLoops : id'[Dmp(i)] = base + i - 1
      /\ PublisherID'["demultiplex.cc"] = (base + NLoops) % IdBound
      /\ PublisherID'["loader.cc"] = PublisherID["loader.cc"]
      /\ PublisherID'["proxy_server.cc"] = PublisherID["proxy_server.cc"]
  BY ServerBuilt
<1>2. CenterTypeOK'
  BY Constructors, ConstructsType DEF IdInv
<1>3. \A o \in ServerObjs : ~Born(o) /\ Born(o)'
  BY <1>1 DEF Births, Born
<1>4. \A o \in Objects : o \notin ServerObjs => (Born(o)' <=> Born(o)) /\ id'[o] = id[o]
  BY <1>1 DEF Births, Born
<1>5. /\ Server \in ServerObjs /\ Acceptor \in ServerObjs /\ LoopDmps \subseteq ServerObjs
      /\ Proxy \notin ServerObjs /\ WorkerDmps \cap ServerObjs = {} /\ Balancers \cap ServerObjs = {}
      /\ Proxy \in Objects /\ WorkerDmps \subseteq Objects /\ Balancers \subseteq Objects
  BY Disjoint DEF ServerObjs, Objects, Dmps
<1>6. BornTogether'
  BY <1>3, <1>4, <1>5 DEF BornTogether, IdInv
<1>7. ServerIds'
  BY <1>1, <1>3, <1>4, <1>5 DEF ServerIds, IdInv
<1>8. BalancerIds'
  <2>1. BornBalancers' = BornBalancers /\ \A b \in BornBalancers : id'[b] = id[b]
    BY <1>4, <1>5 DEF BornBalancers
  <2> QED
    BY <1>1, <2>1 DEF BalancerIds, IdInv
<1>9. DmpIds'
  <2>1. NLoops \in Nat \ {0} /\ NWorkers \in Nat \ {0} /\ IdBound \in Nat \ {0} /\ NLoops + NWorkers <= IdBound
    BY PubSubAssumption
  <2>2. CASE ~Born(Proxy)
    <3>1. PublisherID'["demultiplex.cc"] = NLoops
      <4>1. NLoops \in Nat /\ NLoops < IdBound /\ 0 + NLoops = NLoops
        BY <2>1
      <4>2. NLoops % IdBound = NLoops
        BY ONLY <2>1, <4>1, ModSmall
      <4> QED
        BY <1>1, <2>2, <4>1, <4>2
    <3>2. \A i \in 1..NLoops : id'[Dmp(i)] = i - 1
      BY <1>1, <2>1, <2>2
    <3> QED
      BY <1>3, <1>4, <1>5, <2>2, <3>1, <3>2 DEF DmpIds
  <2>3. CASE Born(Proxy)
    <3>1. \A i \in NLoops + 1..NLoops + NWorkers : id'[Dmp(i)] = i - NLoops - 1
      BY <1>3, <1>4, <1>5, <2>3, Kinds DEF IdInv, DmpIds
    <3>2. \A i \in 1..NLoops : id'[Dmp(i)] = NWorkers + i - 1
      BY <1>1, <2>3
    <3>3. \A i, j \in 1..NLoops + NWorkers : id'[Dmp(i)] = id'[Dmp(j)] => i = j
      <4>1. \A i \in 1..NLoops + NWorkers : i \in 1..NLoops \/ i \in NLoops + 1..NLoops + NWorkers
        BY <2>1
      <4> QED
        BY <2>1, <3>1, <3>2, <4>1
    <3> QED
      BY <1>3, <1>4, <1>5, <2>3, <3>3 DEF DmpIds
  <2> QED
    BY <2>2, <2>3
<1> QED
  BY <1>2, <1>6, <1>7, <1>8, <1>9 DEF IdInv

\* ProxyServer's constructor likewise.
LEMMA ProxyKeepsIds == ASSUME IdInv, ConstructProxyServer PROVE IdInv'
<1> DEFINE base == IF Born(Server) THEN NLoops ELSE 0
<1>1. /\ Births(ProxyObjs) /\ id'[Proxy] = 0
      /\ \A i \in NLoops + 1..NLoops + NWorkers : id'[Dmp(i)] = base + i - NLoops - 1
      /\ PublisherID'["demultiplex.cc"] = (base + NWorkers) % IdBound
      /\ PublisherID'["loader.cc"] = PublisherID["loader.cc"]
      /\ PublisherID'["tcp_server.cc"] = PublisherID["tcp_server.cc"]
  BY ProxyBuilt
<1>2. CenterTypeOK'
  BY Constructors, ConstructsType DEF IdInv
<1>3. \A o \in ProxyObjs : ~Born(o) /\ Born(o)'
  BY <1>1 DEF Births, Born
<1>4. \A o \in Objects : o \notin ProxyObjs => (Born(o)' <=> Born(o)) /\ id'[o] = id[o]
  BY <1>1 DEF Births, Born
<1>5. /\ Proxy \in ProxyObjs /\ WorkerDmps \subseteq ProxyObjs
      /\ Server \notin ProxyObjs /\ Acceptor \notin ProxyObjs
      /\ LoopDmps \cap ProxyObjs = {} /\ Balancers \cap ProxyObjs = {}
      /\ Server \in Objects /\ Acceptor \in Objects
      /\ LoopDmps \subseteq Objects /\ Balancers \subseteq Objects
  BY Disjoint DEF ProxyObjs, Objects, Dmps
<1>6. BornTogether'
  BY <1>3, <1>4, <1>5 DEF BornTogether, IdInv
<1>7. ServerIds'
  BY <1>1, <1>3, <1>4, <1>5 DEF ServerIds, IdInv
<1>8. BalancerIds'
  <2>1. BornBalancers' = BornBalancers /\ \A b \in BornBalancers : id'[b] = id[b]
    BY <1>4, <1>5 DEF BornBalancers
  <2> QED
    BY <1>1, <2>1 DEF BalancerIds, IdInv
<1>9. DmpIds'
  <2>1. NLoops \in Nat \ {0} /\ NWorkers \in Nat \ {0} /\ IdBound \in Nat \ {0} /\ NLoops + NWorkers <= IdBound
    BY PubSubAssumption
  <2>2. CASE ~Born(Server)
    <3>1. PublisherID'["demultiplex.cc"] = NWorkers
      <4>1. NWorkers \in Nat /\ NWorkers < IdBound /\ 0 + NWorkers = NWorkers
        BY <2>1
      <4>2. NWorkers % IdBound = NWorkers
        BY ONLY <2>1, <4>1, ModSmall
      <4> QED
        BY <1>1, <2>2, <4>1, <4>2
    <3>2. \A i \in NLoops + 1..NLoops + NWorkers : id'[Dmp(i)] = i - NLoops - 1
      BY <1>1, <2>1, <2>2
    <3> QED
      BY <1>3, <1>4, <1>5, <2>2, <3>1, <3>2 DEF DmpIds
  <2>3. CASE Born(Server)
    <3>1. \A i \in 1..NLoops : id'[Dmp(i)] = i - 1
      BY <1>3, <1>4, <1>5, <2>3, Kinds DEF IdInv, DmpIds
    <3>2. \A i \in NLoops + 1..NLoops + NWorkers : id'[Dmp(i)] = NLoops + i - NLoops - 1
      BY <1>1, <2>3
    <3>3. \A i, j \in 1..NLoops + NWorkers : id'[Dmp(i)] = id'[Dmp(j)] => i = j
      <4>1. \A i \in 1..NLoops + NWorkers : i \in 1..NLoops \/ i \in NLoops + 1..NLoops + NWorkers
        BY <2>1
      <4> QED
        BY <2>1, <3>1, <3>2, <4>1
    <3> QED
      BY <1>3, <1>4, <1>5, <2>3, <3>3 DEF DmpIds
  <2> QED
    BY <2>2, <2>3
<1> QED
  BY <1>2, <1>6, <1>7, <1>8, <1>9 DEF IdInv

\* LoadBalancer's constructor gives out the next number.
LEMMA BalancerKeepsIds ==
  ASSUME IdInv, NEW b \in Balancers, ConstructLoadBalancer(b) PROVE IdInv'
<1>1. /\ Births({b})
      /\ id'[b] = PublisherID["loader.cc"]
      /\ PublisherID'["loader.cc"] = (PublisherID["loader.cc"] + 1) % IdBound
      /\ \A u \in Units \ {"loader.cc"} : PublisherID'[u] = PublisherID[u]
  BY BalancerBuilt
<1>2. CenterTypeOK'
  BY Constructors, ConstructsType DEF IdInv
<1>3. ~Born(b) /\ Born(b)' /\ \A o \in Objects : o # b => (Born(o)' <=> Born(o)) /\ id'[o] = id[o]
  BY <1>1 DEF Births, Born
<1>4. /\ {Server, Acceptor, Proxy} \cup LoopDmps \cup WorkerDmps \cup Balancers \subseteq Objects
      /\ b \notin {Server, Acceptor, Proxy} \cup LoopDmps \cup WorkerDmps
  BY Disjoint DEF Objects, Dmps
<1>5. BornTogether'
  BY <1>3, <1>4 DEF BornTogether, IdInv
<1>6. /\ PublisherID'["demultiplex.cc"] = PublisherID["demultiplex.cc"]
      /\ PublisherID'["tcp_server.cc"] = PublisherID["tcp_server.cc"]
      /\ PublisherID'["proxy_server.cc"] = PublisherID["proxy_server.cc"]
  BY <1>1 DEF Units
<1>7. (Born(Server)' <=> Born(Server)) /\ (Born(Proxy)' <=> Born(Proxy))
      /\ id'[Server] = id[Server] /\ id'[Proxy] = id[Proxy]
  BY <1>3, <1>4
<1>8. ServerIds'
  BY <1>6, <1>7 DEF ServerIds, IdInv
<1>9. DmpIds'
  <2>1. \A i \in 1..NLoops + NWorkers : id'[Dmp(i)] = id[Dmp(i)]
    <3>1. \A i \in 1..NLoops + NWorkers : i \in 1..NLoops \/ i \in NLoops + 1..NLoops + NWorkers
      BY PubSubAssumption
    <3> QED
      BY <1>3, <1>4, <3>1, Kinds
  <2>2. /\ \A i \in 1..NLoops : i \in 1..NLoops + NWorkers
        /\ \A i \in NLoops + 1..NLoops + NWorkers : i \in 1..NLoops + NWorkers
    BY PubSubAssumption
  <2> QED
    BY <1>6, <1>7, <2>1, <2>2 DEF DmpIds, IdInv
<1>10. BalancerIds'
  <2> DEFINE n == Cardinality(BornBalancers)
  <2>1. BornBalancers' = BornBalancers \cup {b} /\ b \notin BornBalancers
    BY <1>3, <1>4 DEF BornBalancers
  <2>2. BornBalancers \subseteq Balancers /\ BornBalancers \cup {b} \subseteq Balancers
    BY DEF BornBalancers
  <2>3. IsFiniteSet(BornBalancers) /\ n \in Nat
    BY <2>2, BalancerCount, FS_Subset, FS_CardinalityType
  <2>4. Cardinality(BornBalancers)' = n + 1
    BY <2>1, <2>3, FS_AddElement
  <2>5. n + 1 <= IdBound /\ IdBound \in Nat \ {0}
    <3>1. Cardinality(BornBalancers \cup {b}) = n + 1
      BY <2>1, <2>3, FS_AddElement
    <3>2. Cardinality(BornBalancers \cup {b}) <= Cardinality(Balancers)
      BY <2>2, BalancerCount, FS_Subset
    <3>3. Cardinality(Balancers) \in Nat /\ NBalancers \in Nat /\ IdBound \in Nat \ {0} /\ NBalancers <= IdBound
      BY BalancerCount, FS_CardinalityType, PubSubAssumption
    <3> QED
      BY <2>3, <3>1, <3>2, <3>3, BalancerCount
  <2>6. PublisherID["loader.cc"] = n
    <3>1. n < IdBound
      BY <2>3, <2>5
    <3>2. n % IdBound = n
      BY ONLY <2>3, <2>5, <3>1, ModSmall
    <3> QED
      BY <3>2 DEF IdInv, BalancerIds
  <2>7. PublisherID'["loader.cc"] = Cardinality(BornBalancers)' % IdBound
    BY <1>1, <2>4, <2>6
  <2>8. id'[b] = n /\ \A c \in BornBalancers : id'[c] = id[c] /\ id[c] \in 0..n - 1
    BY <1>1, <1>3, <1>4, <2>1, <2>2, <2>6 DEF IdInv, BalancerIds
  <2> HIDE DEF n
  <2>9. \A c \in BornBalancers' : id'[c] \in 0..n
    BY <2>1, <2>3, <2>8
  <2>10. \A c, d \in BornBalancers' : id'[c] = id'[d] => c = d
    <3>1. \A c, d \in BornBalancers : id'[c] = id'[d] => c = d
      BY <2>8 DEF IdInv, BalancerIds
    <3>2. \A c \in BornBalancers : id'[c] # id'[b]
      BY <2>3, <2>8
    <3> QED
      BY <2>1, <3>1, <3>2
  <2>11. (n + 1) - 1 = n
    BY <2>3
  <2> QED
    BY <2>4, <2>7, <2>9, <2>10, <2>11 DEF BalancerIds
<1> QED
  BY <1>2, <1>5, <1>8, <1>9, <1>10 DEF IdInv

\* Connecting and destroying leave the identifiers, and what is born, alone.
Settled ==
  /\ PublisherID' = PublisherID /\ id' = id
  /\ \A o \in Objects : Born(o)' <=> Born(o)

\* So they keep the invariant of the identifiers.
LEMMA SettledKeepsIds == ASSUME IdInv, Settled, CenterTypeOK' PROVE IdInv'
<1>1. /\ {Server, Acceptor, Proxy} \cup LoopDmps \cup WorkerDmps \cup Balancers \subseteq Objects
  BY DEF Objects
<1>2. /\ PublisherID' = PublisherID /\ id' = id
      /\ (Born(Server)' <=> Born(Server)) /\ (Born(Proxy)' <=> Born(Proxy))
      /\ \A o \in Objects : Born(o)' <=> Born(o)
  BY <1>1 DEF Settled
<1>3. BornTogether'
  BY <1>1, <1>2 DEF BornTogether, IdInv
<1>4. DmpIds' /\ ServerIds'
  BY <1>2 DEF DmpIds, ServerIds, IdInv
<1>5. BornBalancers' = BornBalancers
  BY <1>1, <1>2 DEF BornBalancers
<1>6. BalancerIds'
  BY <1>2, <1>5 DEF BalancerIds, IdInv
<1> QED
  BY <1>3, <1>4, <1>6 DEF IdInv

\* An object changes its life after it was born.
LEMMA LifeSettled ==
  ASSUME CenterTypeOK, NEW o \in Objects, NEW l \in {"dying", "destroyed"},
         life[o] = "alive", life' = [life EXCEPT ![o] = l], id' = id, PublisherID' = PublisherID
  PROVE  /\ Settled
         /\ life' \in [Objects -> {"unborn", "alive", "dying", "destroyed"}]
         /\ life'[o] = l /\ \A x \in Objects : x # o => life'[x] = life[x]
BY DEF CenterTypeOK, Settled, Born

\* Two objects of one kind do not share an identifier.
LEMMA DistinctIds ==
  ASSUME IdInv, NEW p \in Objects, NEW q \in Objects, NEW t, MayPublish(p, t), MayPublish(q, t),
         Born(p), Born(q), id[p] = id[q]
  PROVE  p = q
<1>1. CASE {p, q} \subseteq Balancers
  BY <1>1 DEF IdInv, BalancerIds, BornBalancers
<1>2. CASE {p, q} \subseteq Dmps
  <2>1. /\ \A o \in LoopDmps : \E i \in 1..NLoops : o = Dmp(i)
        /\ \A o \in WorkerDmps : \E i \in NLoops + 1..NLoops + NWorkers : o = Dmp(i)
    BY Kinds
  <2>2. /\ \A o \in LoopDmps : Born(o) <=> Born(Server)
        /\ \A o \in WorkerDmps : Born(o) <=> Born(Proxy)
    BY DEF IdInv, BornTogether
  <2>3. NLoops \in Nat \ {0} /\ NWorkers \in Nat \ {0}
    BY PubSubAssumption
  <2>4. CASE Born(Server) /\ Born(Proxy)
    <3>1. /\ \A i \in 1..NLoops : i \in 1..NLoops + NWorkers
          /\ \A i \in NLoops + 1..NLoops + NWorkers : i \in 1..NLoops + NWorkers
      BY <2>3
    <3>2. PICK i, j \in 1..NLoops + NWorkers : p = Dmp(i) /\ q = Dmp(j)
      BY <1>2, <2>1, <3>1 DEF Dmps
    <3>3. i = j
      BY <2>4, <3>2 DEF IdInv, DmpIds
    <3> QED
      BY <3>2, <3>3
  <2>5. CASE Born(Server) /\ ~Born(Proxy)
    <3>1. PICK i, j \in 1..NLoops : p = Dmp(i) /\ q = Dmp(j)
      BY <1>2, <2>1, <2>2, <2>5 DEF Dmps
    <3>2. id[Dmp(i)] = i - 1 /\ id[Dmp(j)] = j - 1
      BY <2>5 DEF IdInv, DmpIds
    <3>3. i = j
      BY <2>3, <3>1, <3>2
    <3> QED
      BY <3>1, <3>3
  <2>6. CASE ~Born(Server) /\ Born(Proxy)
    <3>1. PICK i, j \in NLoops + 1..NLoops + NWorkers : p = Dmp(i) /\ q = Dmp(j)
      BY <1>2, <2>1, <2>2, <2>6 DEF Dmps
    <3>2. id[Dmp(i)] = i - NLoops - 1 /\ id[Dmp(j)] = j - NLoops - 1
      BY <2>6 DEF IdInv, DmpIds
    <3>3. i = j
      BY <2>3, <3>1, <3>2
    <3> QED
      BY <3>1, <3>3
  <2>7. CASE ~Born(Server) /\ ~Born(Proxy)
    BY <1>2, <2>2, <2>7 DEF Dmps
  <2> QED
    BY <2>4, <2>5, <2>6, <2>7
<1> QED
  BY <1>1, <1>2, SameKind
-----------------------------------------------------------------------------
(* The centre holds what was asked for.                                    *)

\* Constructors, when the objects they build end up with registered identifiers.
LEMMA ConstructsSubs ==
  ASSUME CenterTypeOK, SubInv, NEW objs, NEW pubs, NEW W, Constructs(objs, pubs, W),
         \A o \in objs : ~Orphaned(o)' => id'[o] \in DOMAIN publishers_'
  PROVE  SubInv'
<1>1. /\ objs \subseteq Objects /\ pubs \subseteq objs
      /\ Births(objs)
      /\ publishers_' = Registered(id', pubs)
      /\ W \subseteq Objects \X PubType \X Objects
      /\ \A p, t, s : <<p, t, s>> \in W => p \in objs /\ MayPublish(p, t) /\ s \in objs
      /\ subcribers_' = Subscribed(publishers_', ById(id', W))
      /\ asked' = asked \cup W
  BY DEF Constructs
<1>2. /\ \A o \in objs : ~Born(o) /\ Born(o)' /\ life'[o] = "alive" /\ id'[o] \in 0..IdBound - 1
      /\ \A o \in Objects : o \notin objs => life'[o] = life[o] /\ id'[o] = id[o]
      /\ \A o \in Objects : Born(o) => o \notin objs /\ life'[o] = life[o] /\ id'[o] = id[o]
      /\ \A o \in Objects : Born(o) => Born(o)'
      /\ \A o \in Objects : life'[o] = "destroyed" => life[o] = "destroyed" /\ o \notin objs
      /\ \A o \in Objects : life[o] = "destroyed" => Born(o)
  BY <1>1 DEF Births, Born
<1>3. DOMAIN publishers_ \subseteq DOMAIN publishers_'
  <2>1. pubs \subseteq Objects /\ \A o \in pubs : id'[o] \in 0..IdBound - 1
    BY <1>1, <1>2
  <2> QED
    BY <1>1, <2>1, RegisteredFacts
<1>4. ASSUME NEW o \in Objects, Born(o), ~Orphaned(o)' PROVE ~Orphaned(o)
  <2>1. Balancers \subseteq Objects
    BY DEF Objects
  <2> QED
    BY <1>2, <1>4, <2>1 DEF Orphaned
<1>5. \A i, t, s : <<i, t, s>> \in ById(id', W) <=> \E p \in Objects : <<p, t, s>> \in W /\ id'[p] = i
  BY <1>1, ByIdFacts
<1>6. \A i, t, s : <<i, t, s>> \in subcribers_' <=>
        \/ <<i, t, s>> \in subcribers_
        \/ i \in DOMAIN publishers_' /\ \E p \in Objects : <<p, t, s>> \in W /\ id'[p] = i
  <2>1. \A i, t, s : <<i, t, s>>[1] = i
    OBVIOUS
  <2> QED
    BY <1>1, <1>5, <2>1 DEF Subscribed
<1>7. AskedOfPublishers'
  BY <1>1, <1>2 DEF AskedOfPublishers, SubInv, MayPublish
<1>8. HeldIsRegistered'
  BY <1>3, <1>6 DEF HeldIsRegistered, SubInv
<1>9. HeldWasAsked'
  <2> SUFFICES ASSUME NEW i \in 0..IdBound - 1, NEW t \in PubType, NEW s \in Objects,
                      <<i, t, s>> \in subcribers_'
               PROVE  \E p \in Objects : <<p, t, s>> \in asked' /\ id'[p] = i
    BY DEF HeldWasAsked
  <2>1. CASE <<i, t, s>> \in subcribers_
    <3>1. PICK p \in Objects : <<p, t, s>> \in asked /\ id[p] = i
      BY <2>1 DEF HeldWasAsked, SubInv
    <3>2. Born(p)
      BY <3>1 DEF AskedOfPublishers, SubInv
    <3> QED
      BY <1>1, <1>2, <3>1, <3>2
  <2>2. CASE \E p \in Objects : <<p, t, s>> \in W /\ id'[p] = i
    BY <1>1, <2>2
  <2> QED
    BY <1>6, <2>1, <2>2
<1>10. AskedIsHeld'
  <2> SUFFICES ASSUME NEW p \in Objects, NEW t \in PubType, NEW s \in Objects,
                      <<p, t, s>> \in asked', ~Orphaned(p)'
               PROVE  <<id'[p], t, s>> \in subcribers_'
    BY DEF AskedIsHeld
  <2>1. CASE <<p, t, s>> \in asked
    <3>1. Born(p)
      BY <2>1 DEF AskedOfPublishers, SubInv
    <3>2. <<id[p], t, s>> \in subcribers_ /\ id'[p] = id[p]
      BY <1>2, <1>4, <2>1, <3>1 DEF AskedIsHeld, SubInv
    <3> QED
      BY <1>6, <3>2
  <2>2. CASE <<p, t, s>> \in W
    BY <1>1, <1>6, <2>2
  <2> QED
    BY <1>1, <2>1, <2>2
<1>11. BornIsRegistered'
  <2> SUFFICES ASSUME NEW o \in Objects, Born(o)', ~Orphaned(o)' PROVE id'[o] \in DOMAIN publishers_'
    BY DEF BornIsRegistered
  <2>1. CASE o \in objs
    BY <2>1
  <2>2. CASE o \notin objs
    <3>1. Born(o) /\ id'[o] = id[o]
      BY <1>2, <2>2 DEF Born
    <3> QED
      BY <1>3, <1>4, <3>1 DEF BornIsRegistered, SubInv
  <2> QED
    BY <2>1, <2>2
<1>12. DestroyedIsForgotten'
  <2>1. \A o \in Objects : life'[o] = "destroyed" => o \in Balancers
    BY <1>2 DEF DestroyedIsForgotten, SubInv
  <2>2. ASSUME NEW i \in 0..IdBound - 1, NEW t \in PubType, NEW s \in Objects,
               <<i, t, s>> \in subcribers_', life'[s] = "destroyed"
        PROVE  id'[s] # i
    <3>1. life[s] = "destroyed" /\ id'[s] = id[s] /\ s \notin objs
      BY <1>2, <2>2
    <3>2. \A p \in Objects : <<p, t, s>> \notin W
      BY <1>1, <3>1
    <3>3. <<i, t, s>> \in subcribers_
      BY <1>6, <2>2, <3>2
    <3> QED
      BY <3>1, <3>3 DEF DestroyedIsForgotten, SubInv
  <2> QED
    BY <2>1, <2>2 DEF DestroyedIsForgotten
<1> QED
  BY <1>7, <1>8, <1>9, <1>10, <1>11, <1>12 DEF SubInv

\* TcpServer does not register its identifier, but another object with the same one has.
LEMMA ServerKeepsSubs == ASSUME IdInv, SubInv, ConstructTcpServer PROVE SubInv'
<1> DEFINE pubs == {Acceptor} \cup LoopDmps
<1>1. Constructs(ServerObjs, pubs, ServerWants) /\ Births(ServerObjs)
  BY Constructors DEF Constructs
<1>2. DOMAIN publishers_' = DOMAIN publishers_ \cup {id'[o] : o \in pubs}
  <2>1. pubs \subseteq Objects /\ \A o \in pubs : id'[o] \in 0..IdBound - 1
    BY <1>1 DEF Constructs, Births
  <2> QED
    BY <1>1, <2>1, RegisteredFacts DEF IdInv, Constructs
<1>3. ASSUME ~Orphaned(Server)' PROVE id'[Server] \in DOMAIN publishers_'
  <2>1. id'[Server] = 0
    BY ServerBuilt
  <2>2. CASE ~Born(Proxy)
    <3>1. NLoops \in Nat \ {0}
      BY PubSubAssumption
    <3>2. 1 \in 1..NLoops
      BY <3>1
    <3>3. id'[Dmp(1)] = 0 + 1 - 1
      BY <2>2, <3>2, ServerBuilt
    <3>4. Dmp(1) \in pubs
      BY <3>2, Kinds
    <3> QED
      BY <1>2, <2>1, <3>3, <3>4
  <2>3. CASE Born(Proxy)
    <3>1. id[Proxy] = 0 /\ Proxy \in Objects
      BY <2>3 DEF IdInv, ServerIds, Objects
    <3>2. ~Orphaned(Proxy)
      <4>1. ASSUME NEW b \in Balancers, life[b] = "destroyed", id[b] = 0 PROVE FALSE
        <5>1. b \in Objects /\ b \notin ServerObjs
          BY Disjoint DEF ServerObjs, Objects, Dmps
        <5>2. life'[b] = "destroyed" /\ id'[b] = 0
          BY <1>1, <4>1, <5>1 DEF Births
        <5> QED
          BY <1>3, <2>1, <5>2 DEF Orphaned
      <4> QED
        BY <3>1, <4>1 DEF Orphaned
    <3>3. id[Proxy] \in DOMAIN publishers_
      BY <2>3, <3>1, <3>2 DEF SubInv, BornIsRegistered
    <3> QED
      BY <1>2, <2>1, <3>1, <3>3
  <2> QED
    BY <2>2, <2>3
<1>4. \A o \in ServerObjs : ~Orphaned(o)' => id'[o] \in DOMAIN publishers_'
  BY <1>2, <1>3 DEF ServerObjs
<1> QED
  BY <1>1, <1>4, ConstructsSubs DEF IdInv

\* The other two register all that they build.
LEMMA OthersKeepSubs ==
  ASSUME IdInv, SubInv, NEW objs, NEW W, Constructs(objs, objs, W) PROVE SubInv'
<1>1. objs \subseteq Objects /\ Births(objs) /\ publishers_' = Registered(id', objs)
  BY DEF Constructs
<1>2. \A o \in objs : id'[o] \in 0..IdBound - 1
  BY <1>1 DEF Births
<1>3. DOMAIN publishers_' = DOMAIN publishers_ \cup {id'[o] : o \in objs}
  BY <1>1, <1>2, RegisteredFacts DEF IdInv
<1>4. \A o \in objs : id'[o] \in DOMAIN publishers_'
  BY <1>3
<1> QED
  BY <1>4, ConstructsSubs DEF IdInv

\* The subscriptions the owner makes.
LEMMA SubscribeKeeps ==
  ASSUME IdInv, SubInv, NEW s \in Objects, NEW p \in Objects, NEW type \in PubType,
         MayPublish(p, type), Subscribe(s, p, type)
  PROVE  IdInv' /\ SubInv'
<1>1. /\ life[s] = "alive" /\ life[p] = "alive"
      /\ subcribers_' = subcribers_ \cup {r \in {<<id[p], type, s>>} : r[1] \in DOMAIN publishers_}
      /\ asked' = asked \cup {<<p, type, s>>}
      /\ PublisherID' = PublisherID /\ id' = id /\ publishers_' = publishers_ /\ life' = life
  BY DEF Subscribe, Subscribed
<1>2. \A i, t, x : <<i, t, x>> \in subcribers_' <=>
        \/ <<i, t, x>> \in subcribers_
        \/ i = id[p] /\ t = type /\ x = s /\ id[p] \in DOMAIN publishers_
  <2>1. \A i, t, x : <<i, t, x>>[1] = i
    OBVIOUS
  <2> QED
    BY <1>1, <2>1
<1>3. \A q, t, x : <<q, t, x>> \in asked' <=>
        <<q, t, x>> \in asked \/ (q = p /\ t = type /\ x = s)
  BY <1>1
<1>4. \A o \in Objects : Born(o)' <=> Born(o)
  BY <1>1 DEF Born
<1>5. \A o \in Objects : Orphaned(o)' <=> Orphaned(o)
  BY <1>1 DEF Orphaned
<1>6. CenterTypeOK'
  <2>1. subcribers_' \subseteq (0..IdBound - 1) \X PubType \X Objects
    <3>1. CASE id[p] \in DOMAIN publishers_
      <4>1. id[p] \in 0..IdBound - 1
        BY <3>1 DEF IdInv, CenterTypeOK
      <4> QED
        BY <1>1, <4>1 DEF IdInv, CenterTypeOK
    <3>2. CASE id[p] \notin DOMAIN publishers_
      <4>1. <<id[p], type, s>>[1] = id[p]
        OBVIOUS
      <4>2. subcribers_' = subcribers_
        BY <1>1, <3>2, <4>1
      <4> QED
        BY <4>2 DEF IdInv, CenterTypeOK
    <3> QED
      BY <3>1, <3>2
  <2>2. asked' \subseteq Objects \X PubType \X Objects
    BY <1>1 DEF IdInv, CenterTypeOK
  <2> QED
    BY <1>1, <2>1, <2>2 DEF IdInv, CenterTypeOK
<1>7. IdInv'
  BY <1>1, <1>4, <1>6, SettledKeepsIds DEF Settled
<1>8. Born(p)
  BY <1>1 DEF Born
<1>9. AskedOfPublishers'
  BY <1>3, <1>4, <1>8 DEF AskedOfPublishers, SubInv, MayPublish
<1>10. HeldIsRegistered'
  BY <1>1, <1>2 DEF HeldIsRegistered, SubInv
<1>11. HeldWasAsked'
  BY <1>1, <1>2, <1>3 DEF HeldWasAsked, SubInv
<1>12. BornIsRegistered'
  BY <1>1, <1>4, <1>5 DEF BornIsRegistered, SubInv
<1>13. AskedIsHeld'
  <2> SUFFICES ASSUME NEW q \in Objects, NEW t \in PubType, NEW x \in Objects,
                      <<q, t, x>> \in asked', ~Orphaned(q)'
               PROVE  <<id'[q], t, x>> \in subcribers_'
    BY DEF AskedIsHeld
  <2>1. CASE <<q, t, x>> \in asked
    BY <1>1, <1>2, <1>5, <2>1 DEF AskedIsHeld, SubInv
  <2>2. CASE q = p /\ t = type /\ x = s
    <3>1. id[p] \in DOMAIN publishers_
      BY <1>5, <1>8, <2>2 DEF BornIsRegistered, SubInv
    <3> QED
      BY <1>1, <1>2, <2>2, <3>1
  <2> QED
    BY <1>3, <2>1, <2>2
<1>14. DestroyedIsForgotten'
  BY <1>1, <1>2 DEF DestroyedIsForgotten, SubInv
<1> QED
  BY <1>7, <1>9, <1>10, <1>11, <1>12, <1>13, <1>14 DEF SubInv

\* The destructors of the servers take back what their constructors asked for, and no
\* subscription of anybody else: identifiers are distinct within a kind.
LEMMA UnsubscribeKeeps ==
  ASSUME IdInv, SubInv, NEW o \in Objects, NEW W, W \subseteq Objects \X PubType \X Objects,
         \A p, t, s : <<p, t, s>> \in W => Born(p) /\ MayPublish(p, t),
         life[o] = "alive", life' = [life EXCEPT ![o] = "dying"],
         subcribers_' = Unsubscribed(ById(id, W)), asked' = asked \ W,
         PublisherID' = PublisherID, id' = id, publishers_' = publishers_
  PROVE  IdInv' /\ SubInv'
<1>1. /\ Settled /\ life' \in [Objects -> {"unborn", "alive", "dying", "destroyed"}]
      /\ life'[o] = "dying" /\ \A x \in Objects : x # o => life'[x] = life[x]
  BY LifeSettled DEF IdInv
<1>2. \A x \in Objects : Born(x)' <=> Born(x)
  BY <1>1 DEF Settled
<1>3. \A x \in Objects : life'[x] = "destroyed" <=> life[x] = "destroyed"
  BY <1>1
<1>4. \A x \in Objects : Orphaned(x)' <=> Orphaned(x)
  <2>1. Balancers \subseteq Objects
    BY DEF Objects
  <2> QED
    BY <1>3, <2>1 DEF Orphaned
<1>5. \A i, t, s : <<i, t, s>> \in ById(id, W) <=> \E p \in Objects : <<p, t, s>> \in W /\ id[p] = i
  BY ByIdFacts
<1>6. \A i, t, s : <<i, t, s>> \in subcribers_' <=>
        /\ <<i, t, s>> \in subcribers_
        /\ ~(i \in DOMAIN publishers_ /\ \E p \in Objects : <<p, t, s>> \in W /\ id[p] = i)
  <2>1. \A i, t, s : <<i, t, s>>[1] = i
    OBVIOUS
  <2> QED
    BY <1>5, <2>1 DEF Unsubscribed
<1>7. subcribers_' \subseteq subcribers_ /\ asked' \subseteq asked
  BY DEF Unsubscribed
<1>8. CenterTypeOK'
  BY <1>1, <1>7 DEF CenterTypeOK, IdInv
<1>9. IdInv'
  BY <1>1, <1>8, SettledKeepsIds
<1>10. AskedOfPublishers'
  BY <1>2, <1>7 DEF AskedOfPublishers, SubInv, MayPublish
<1>11. HeldIsRegistered'
  BY <1>7 DEF HeldIsRegistered, SubInv
<1>12. HeldWasAsked'
  <2> SUFFICES ASSUME NEW i \in 0..IdBound - 1, NEW t \in PubType, NEW s \in Objects,
                      <<i, t, s>> \in subcribers_'
               PROVE  \E p \in Objects : <<p, t, s>> \in asked' /\ id'[p] = i
    BY DEF HeldWasAsked
  <2>1. <<i, t, s>> \in subcribers_
    BY <1>7
  <2>2. PICK p \in Objects : <<p, t, s>> \in asked /\ id[p] = i
    BY <2>1 DEF HeldWasAsked, SubInv
  <2>3. i \in DOMAIN publishers_
    BY <2>1 DEF HeldIsRegistered, SubInv
  <2>4. <<p, t, s>> \notin W
    BY <1>6, <2>2, <2>3
  <2> QED
    BY <2>2, <2>4
<1>13. AskedIsHeld'
  <2> SUFFICES ASSUME NEW p \in Objects, NEW t \in PubType, NEW s \in Objects,
                      <<p, t, s>> \in asked', ~Orphaned(p)'
               PROVE  <<id'[p], t, s>> \in subcribers_'
    BY DEF AskedIsHeld
  <2>1. <<p, t, s>> \in asked /\ <<p, t, s>> \notin W
    OBVIOUS
  <2>2. <<id[p], t, s>> \in subcribers_
    BY <1>4, <2>1 DEF AskedIsHeld, SubInv
  <2>3. Born(p) /\ MayPublish(p, t)
    BY <2>1 DEF AskedOfPublishers, SubInv
  <2>4. ASSUME NEW q \in Objects, <<q, t, s>> \in W, id[q] = id[p] PROVE FALSE
    <3>1. Born(q) /\ MayPublish(q, t)
      BY <2>4
    <3>2. p = q
      BY <2>3, <2>4, <3>1, DistinctIds
    <3> QED
      BY <2>1, <2>4, <3>2
  <2> QED
    BY <1>6, <2>2, <2>4
<1>14. BornIsRegistered'
  BY <1>2, <1>4 DEF BornIsRegistered, SubInv
<1>15. DestroyedIsForgotten'
  BY <1>3, <1>7 DEF DestroyedIsForgotten, SubInv
<1> QED
  BY <1>9, <1>10, <1>11, <1>12, <1>13, <1>14, <1>15 DEF SubInv

\* ~LoadBalancer forgets its identifier and all that was subscribed under it.
LEMMA DestroyBalancerKeeps ==
  ASSUME IdInv, SubInv, NEW b \in Balancers, DestroyLoadBalancer(b)
  PROVE  IdInv' /\ SubInv'
<1>1. b \in Objects /\ Balancers \subseteq Objects
  BY DEF Objects
<1>2. /\ life[b] = "alive" /\ life' = [life EXCEPT ![b] = "destroyed"]
      /\ PublisherID' = PublisherID /\ id' = id /\ asked' = asked /\ UnRegisterPub(b)
  BY DEF DestroyLoadBalancer
<1>3. /\ Settled /\ life' \in [Objects -> {"unborn", "alive", "dying", "destroyed"}]
      /\ life'[b] = "destroyed" /\ \A x \in Objects : x # b => life'[x] = life[x]
  BY <1>1, <1>2, LifeSettled DEF IdInv
<1>4. \A x \in Objects : Born(x)' <=> Born(x)
  BY <1>3 DEF Settled
<1>5. /\ DOMAIN publishers_' = DOMAIN publishers_ \ {id[b]}
      /\ \A i \in DOMAIN publishers_' : publishers_'[i] = publishers_[i]
  BY <1>2 DEF UnRegisterPub
<1>6. subcribers_' \subseteq subcribers_
  BY <1>2 DEF UnRegisterPub
<1>7. \A i \in 0..IdBound - 1, t \in PubType, s \in Objects :
        <<i, t, s>> \in subcribers_' <=> <<i, t, s>> \in subcribers_ /\ i # id[b]
  <2>1. \A i, t, s : <<i, t, s>>[1] = i
    OBVIOUS
  <2>2. CASE id[b] \in DOMAIN publishers_
    <3>1. subcribers_' = {s \in subcribers_ : s[1] # id[b]}
      BY <1>2, <2>2 DEF UnRegisterPub
    <3> QED
      BY <2>1, <3>1
  <2>3. CASE id[b] \notin DOMAIN publishers_
    <3>1. subcribers_' = subcribers_
      BY <1>2, <2>3 DEF UnRegisterPub
    <3> QED
      BY <2>3, <3>1 DEF HeldIsRegistered, SubInv
  <2> QED
    BY <2>2, <2>3
<1>8. ASSUME NEW o \in Objects PROVE Orphaned(o)' <=> Orphaned(o) \/ id[o] = id[b]
  BY <1>1, <1>2, <1>3 DEF Orphaned
<1>9. CenterTypeOK'
  BY <1>2, <1>3, <1>5, <1>6 DEF CenterTypeOK, IdInv
<1>10. IdInv'
  BY <1>3, <1>9, SettledKeepsIds
<1>11. AskedOfPublishers'
  BY <1>2, <1>4 DEF AskedOfPublishers, SubInv, MayPublish
<1>12. HeldIsRegistered'
  BY <1>5, <1>7 DEF HeldIsRegistered, SubInv
<1>13. HeldWasAsked'
  BY <1>2, <1>6 DEF HeldWasAsked, SubInv
<1>14. BornIsRegistered'
  BY <1>2, <1>4, <1>5, <1>8 DEF BornIsRegistered, SubInv
<1>15. AskedIsHeld'
  <2> SUFFICES ASSUME NEW p \in Objects, NEW t \in PubType, NEW s \in Objects,
                      <<p, t, s>> \in asked', ~Orphaned(p)'
               PROVE  <<id'[p], t, s>> \in subcribers_'
    BY DEF AskedIsHeld
  <2>1. <<p, t, s>> \in asked /\ ~Orphaned(p) /\ id[p] # id[b]
    BY <1>2, <1>8
  <2>2. <<id[p], t, s>> \in subcribers_
    BY <2>1 DEF AskedIsHeld, SubInv
  <2>3. id[p] \in 0..IdBound - 1
    BY <2>2 DEF IdInv, CenterTypeOK
  <2> QED
    BY <1>2, <1>7, <2>1, <2>2, <2>3
<1>16. DestroyedIsForgotten'
  <2>1. \A o \in Objects : life'[o] = "destroyed" => o \in Balancers
    BY <1>3 DEF DestroyedIsForgotten, SubInv
  <2>2. ASSUME NEW i \in 0..IdBound - 1, NEW t \in PubType, NEW s \in Objects,
               <<i, t, s>> \in subcribers_', life'[s] = "destroyed"
        PROVE  id'[s] # i
    <3>1. <<i, t, s>> \in subcribers_ /\ i # id[b]
      BY <1>7, <2>2
    <3> QED
      BY <1>2, <1>3, <2>2, <3>1 DEF DestroyedIsForgotten, SubInv
  <2> QED
    BY <2>1, <2>2 DEF DestroyedIsForgotten
<1> QED
  BY <1>10, <1>11, <1>12, <1>13, <1>14, <1>15, <1>16 DEF SubInv

\* Every step keeps both invariants.
LEMMA CenterKeeps == IdInv /\ SubInv /\ [Next]_vars => IdInv' /\ SubInv'
<1> SUFFICES ASSUME IdInv, SubInv, [Next]_vars PROVE IdInv' /\ SubInv'
  OBVIOUS
<1>1. /\ Server \in Objects /\ Proxy \in Objects /\ Balancers \subseteq Objects
      /\ LoopDmps \cup {Acceptor} \subseteq Objects /\ WorkerDmps \subseteq Objects
  BY DEF Objects
<1>2. CASE ConstructTcpServer
  BY <1>2, ServerKeepsIds, ServerKeepsSubs
<1>3. CASE ConstructProxyServer
  <2>1. Constructs(ProxyObjs, ProxyObjs, ProxyWants)
    BY <1>3, Constructors
  <2> QED
    BY <1>3, <2>1, ProxyKeepsIds, OthersKeepSubs
<1>4. ASSUME NEW b \in Balancers, ConstructLoadBalancer(b) PROVE IdInv' /\ SubInv'
  <2>1. Constructs({b}, {b}, {})
    BY <1>4, Constructors
  <2> QED
    BY <1>4, <2>1, BalancerKeepsIds, OthersKeepSubs
<1>5. ASSUME NEW b \in Balancers, DestroyLoadBalancer(b) PROVE IdInv' /\ SubInv'
  BY <1>5, DestroyBalancerKeeps
<1>6. CASE Wire
  <2>1. PICK b \in Balancers : Subscribe(b, Server, "BALANCE") \/ Subscribe(Proxy, b, "FORWARD")
    BY <1>6 DEF Wire
  <2>2. {"BALANCE", "FORWARD"} \subseteq PubType /\ MayPublish(Server, "BALANCE") /\ MayPublish(b, "FORWARD")
    BY EmitFacts DEF PubType, MayPublish
  <2> QED
    BY <1>1, <2>1, <2>2, SubscribeKeeps
<1>7. CASE DestroyTcpServer
  <2>1. /\ life[Server] = "alive" /\ life' = [life EXCEPT ![Server] = "dying"]
        /\ subcribers_' = Unsubscribed(ById(id, ServerWants)) /\ asked' = asked \ ServerWants
        /\ PublisherID' = PublisherID /\ id' = id /\ publishers_' = publishers_
    BY <1>7 DEF DestroyTcpServer
  <2>2. \A p, t, s : <<p, t, s>> \in ServerWants => Born(p) /\ MayPublish(p, t)
    <3>1. \A p \in LoopDmps \cup {Acceptor} : Born(p)
      BY <2>1 DEF IdInv, BornTogether, Born
    <3> QED
      BY <3>1, WantsFacts
  <2> QED
    BY <1>1, <2>1, <2>2, WantsFacts, UnsubscribeKeeps
<1>8. CASE DestroyProxyServer
  <2>1. /\ life[Proxy] = "alive" /\ life' = [life EXCEPT ![Proxy] = "dying"]
        /\ subcribers_' = Unsubscribed(ById(id, ProxyWants)) /\ asked' = asked \ ProxyWants
        /\ PublisherID' = PublisherID /\ id' = id /\ publishers_' = publishers_
    BY <1>8 DEF DestroyProxyServer
  <2>2. \A p, t, s : <<p, t, s>> \in ProxyWants => Born(p) /\ MayPublish(p, t)
    <3>1. \A p \in WorkerDmps : Born(p)
      BY <2>1 DEF IdInv, BornTogether, Born
    <3> QED
      BY <3>1, WantsFacts
  <2> QED
    BY <1>1, <2>1, <2>2, WantsFacts, UnsubscribeKeeps
<1>9. CASE UNCHANGED centerVars
  <2>1. /\ PublisherID' = PublisherID /\ id' = id /\ publishers_' = publishers_
        /\ subcribers_' = subcribers_ /\ life' = life /\ asked' = asked
    BY <1>9 DEF centerVars
  <2>2. IdInv'
    BY <2>1 DEF IdInv, CenterTypeOK, BornTogether, DmpIds, ServerIds, BalancerIds, BornBalancers, Born
  <2>3. SubInv'
    BY <2>1 DEF SubInv, AskedOfPublishers, HeldIsRegistered, HeldWasAsked, AskedIsHeld,
                BornIsRegistered, DestroyedIsForgotten, Orphaned, Born, MayPublish
  <2> QED
    BY <2>2, <2>3
<1> QED
  BY <1>2, <1>3, <1>4, <1>5, <1>6, <1>7, <1>8, <1>9
     DEF Next, Owner, Accounting, AccountClient, AccountForward, AccountStore, vars

\* At first nothing is built and nothing is asked for.
LEMMA InitCenter == Init => IdInv /\ SubInv
<1> SUFFICES ASSUME Init PROVE IdInv /\ SubInv
  OBVIOUS
<1>1. /\ PublisherID = [u \in Units |-> 0] /\ id = [o \in Objects |-> NoId]
      /\ DOMAIN publishers_ = {} /\ subcribers_ = {} /\ life = [o \in Objects |-> "unborn"] /\ asked = {}
  BY DEF Init
<1>2. \A o \in Objects : ~Born(o)
  BY <1>1 DEF Born
<1>3. /\ Server \in Objects /\ Proxy \in Objects /\ Balancers \subseteq Objects
      /\ LoopDmps \cup {Acceptor} \subseteq Objects /\ WorkerDmps \subseteq Objects
  BY DEF Objects
<1>4. IdBound \in Nat \ {0}
  BY PubSubAssumption
<1>5. NoId \in NoId..IdBound - 1 /\ 0 \in 0..IdBound - 1
  BY <1>4 DEF NoId
<1>6. CenterTypeOK
  BY <1>1, <1>5 DEF CenterTypeOK
<1>7. BornTogether
  BY <1>2, <1>3 DEF BornTogether
<1>8. DmpIds /\ ServerIds
  BY <1>1, <1>2, <1>3 DEF DmpIds, ServerIds, Units
<1>9. BalancerIds
  <2>1. BornBalancers = {}
    BY <1>2, <1>3 DEF BornBalancers
  <2>2. Cardinality(BornBalancers) = 0 /\ 0 % IdBound = 0
    BY <1>4, <2>1, FS_EmptySet
  <2> QED
    BY <1>1, <2>1, <2>2 DEF BalancerIds, Units
<1>10. SubInv
  BY <1>1, <1>2 DEF SubInv, AskedOfPublishers, HeldIsRegistered, HeldWasAsked, AskedIsHeld,
                    BornIsRegistered, DestroyedIsForgotten
<1> QED
  BY <1>6, <1>7, <1>8, <1>9, <1>10 DEF IdInv

\* Identifiers and subscriptions are in order in every reachable state.
THEOREM CenterInvariant == Spec => [](IdInv /\ SubInv)
BY InitCenter, CenterKeeps, PTL DEF Spec

\* A notification calls exactly those who asked for it, for any number of loops, workers
\* and balancers: publishers that share an identifier differ in the types they notify
\* (registerPub, subscribe, unSubscribe, notifySubscriber).
THEOREM NotificationsReachAskers == Spec => []DeliveredToAskers
<1>1. ASSUME IdInv, SubInv PROVE DeliveredToAskers
  <2> SUFFICES ASSUME NEW p \in Objects, NEW t \in Emits(p), life[p] \in {"alive", "dying"},
                      \A b \in Balancers : life[b] = "destroyed" => id[b] # id[p]
               PROVE  Notified(p, t) = {s \in Objects : <<p, t, s>> \in asked}
    BY DEF DeliveredToAskers
  <2>1. Born(p) /\ ~Orphaned(p) /\ MayPublish(p, t)
    BY DEF Born, Orphaned, MayPublish
  <2>2. t \in PubType
    BY EmitFacts DEF Objects, PubType
  <2>3. id[p] \in DOMAIN publishers_
    BY <1>1, <2>1 DEF SubInv, BornIsRegistered
  <2>4. id[p] \in 0..IdBound - 1
    BY <1>1, <2>3 DEF IdInv, CenterTypeOK
  <2>5. ASSUME NEW s \in Objects PROVE <<id[p], t, s>> \in subcribers_ <=> <<p, t, s>> \in asked
    <3>1. ASSUME <<p, t, s>> \in asked PROVE <<id[p], t, s>> \in subcribers_
      BY <1>1, <2>1, <2>2, <3>1 DEF SubInv, AskedIsHeld
    <3>2. ASSUME <<id[p], t, s>> \in subcribers_ PROVE <<p, t, s>> \in asked
      <4>1. PICK q \in Objects : <<q, t, s>> \in asked /\ id[q] = id[p]
        BY <1>1, <2>2, <2>4, <3>2 DEF SubInv, HeldWasAsked
      <4>2. Born(q) /\ MayPublish(q, t)
        BY <1>1, <2>2, <4>1 DEF SubInv, AskedOfPublishers
      <4>3. q = p
        BY <1>1, <2>1, <4>1, <4>2, DistinctIds
      <4> QED
        BY <4>1, <4>3
    <3> QED
      BY <3>1, <3>2
  <2> QED
    BY <2>3, <2>5 DEF Notified
<1> QED
  BY <1>1, CenterInvariant, PTL

\* A destroyed balancer is not called under its own identifier (unRegisterPub,
\* ~LoadBalancer).
THEOREM DestroyedSharersAreUnheard == Spec => []DestroyedSharerUnheard
<1>1. ASSUME IdInv, SubInv PROVE DestroyedSharerUnheard
  <2> SUFFICES ASSUME NEW p \in Objects, NEW t \in Emits(p), NEW s \in Notified(p, t),
                      life[s] = "destroyed"
               PROVE  id[s] # id[p]
    BY DEF DestroyedSharerUnheard
  <2>1. t \in PubType
    BY EmitFacts DEF Objects, PubType
  <2>2. id[p] \in DOMAIN publishers_ /\ s \in Objects /\ <<id[p], t, s>> \in subcribers_
    BY DEF Notified
  <2>3. id[p] \in 0..IdBound - 1
    BY <1>1, <2>2 DEF IdInv, CenterTypeOK
  <2> QED
    BY <1>1, <2>1, <2>2, <2>3 DEF SubInv, DestroyedIsForgotten
<1> QED
  BY <1>1, CenterInvariant, PTL
-----------------------------------------------------------------------------
(* Types.                                                                  *)

Pending == [addr : Addrs, bytes : 0..MaxBytes, seen : Sizes]

\* The types of the traffic account.
TrafficTypeOK ==
  /\ DOMAIN traffic_ \subseteq Addrs /\ \A a \in DOMAIN traffic_ : traffic_[a] \in Sizes
  /\ carried \in [Addrs -> Nat] /\ reads \in [Addrs -> 0..MaxReads]
  /\ apc \in [Threads -> {Idle} \cup Pending]

\* account enters a size: the bytes of a packet are one.
LEMMA AccountType ==
  ASSUME TrafficTypeOK, NEW t \in Threads, NEW a \in Addrs, NEW n \in 0..MaxBytes, Account(t, a, n)
  PROVE  /\ DOMAIN traffic_' \subseteq Addrs /\ \A x \in DOMAIN traffic_' : traffic_'[x] \in Sizes
         /\ apc' \in [Threads -> {Idle} \cup Pending]
<1> DEFINE seen == IF a \in DOMAIN traffic_ THEN traffic_[a] ELSE n
<1>1. /\ traffic_' = [x \in DOMAIN traffic_ \cup {a} |-> IF x = a THEN seen ELSE traffic_[x]]
      /\ apc' = [apc EXCEPT ![t] = [addr |-> a, bytes |-> n, seen |-> seen]]
  BY DEF Account
<1>2. n \in Sizes
  <2>1. SizeBound \in Nat \ {0} /\ MaxBytes \in Nat /\ MaxBytes <= SizeBound \div 2 - 1
    BY PubSubAssumption
  <2>2. SizeBound \div 2 <= SizeBound /\ SizeBound \div 2 \in Int
    BY <2>1
  <2> QED
    BY <2>1, <2>2 DEF Sizes
<1>3. seen \in Sizes
  BY <1>2 DEF TrafficTypeOK
<1>4. [addr |-> a, bytes |-> n, seen |-> seen] \in Pending
  BY <1>3 DEF Pending
<1> HIDE DEF seen
<1>5. apc' \in [Threads -> {Idle} \cup Pending]
  <2> HIDE DEF Pending, Idle
  <2> DEFINE rec == [addr |-> a, bytes |-> n, seen |-> seen]
  <2>1. rec \in Pending /\ apc' = [apc EXCEPT ![t] = rec]
    BY <1>1, <1>4
  <2> HIDE DEF rec
  <2> QED
    BY <2>1 DEF TrafficTypeOK
<1> QED
  BY <1>1, <1>3, <1>5 DEF TrafficTypeOK

\* The stored sum wraps like a size_t.
LEMMA StoreType == ASSUME TrafficTypeOK, NEW t \in Threads, AccountStore(t) PROVE TrafficTypeOK'
<1> DEFINE sum == (apc[t].seen + apc[t].bytes) % SizeBound
<1>1. /\ apc[t] # Idle /\ traffic_' = [traffic_ EXCEPT ![apc[t].addr] = sum]
      /\ apc' = [apc EXCEPT ![t] = Idle] /\ carried' = carried /\ reads' = reads
  BY DEF AccountStore
<1>2. apc[t] \in Pending
  <2> HIDE DEF Pending, Idle
  <2> QED
    BY <1>1 DEF TrafficTypeOK
<1>3. SizeBound \in Nat \ {0} /\ MaxBytes \in Nat
  BY PubSubAssumption
<1>4. sum \in Sizes
  <2>1. apc[t].seen \in Nat /\ apc[t].bytes \in Nat
    BY <1>2, <1>3 DEF Pending, Sizes
  <2>2. apc[t].seen + apc[t].bytes \in Nat
    BY <2>1
  <2>3. sum \in 0..SizeBound - 1
    BY ONLY <1>3, <2>2, ModType
  <2> QED
    BY <2>3 DEF Sizes
<1> HIDE DEF sum
<1>5. apc' \in [Threads -> {Idle} \cup Pending]
  <2> HIDE DEF Pending, Idle
  <2> QED
    BY <1>1 DEF TrafficTypeOK
<1> QED
  BY <1>1, <1>4, <1>5 DEF TrafficTypeOK

\* Every step keeps the types of the account.
LEMMA TrafficTypeKeeps == TrafficTypeOK /\ [Next]_vars => TrafficTypeOK'
<1> SUFFICES ASSUME TrafficTypeOK, [Next]_vars PROVE TrafficTypeOK'
  OBVIOUS
<1>1. "main" \in Threads /\ "forward" \in Threads
  BY DEF Threads
<1>2. MaxBytes \in Nat /\ MaxReads \in Nat
  BY PubSubAssumption
<1>3. CASE \E a \in Addrs : AccountClient(a)
  <2>1. PICK a \in Addrs : Account("main", a, 0) /\ carried' = carried /\ reads' = reads
    BY <1>3 DEF AccountClient
  <2>2. 0 \in 0..MaxBytes
    BY <1>2
  <2> QED
    BY <1>1, <2>1, <2>2, AccountType DEF TrafficTypeOK
<1>4. CASE \E a \in Addrs, n \in 1..MaxBytes : AccountForward(a, n)
  <2>1. PICK a \in Addrs, n \in 1..MaxBytes : AccountForward(a, n)
    BY <1>4
  <2>2. /\ reads[a] < MaxReads /\ Account("forward", a, n)
        /\ carried' = [carried EXCEPT ![a] = @ + n] /\ reads' = [reads EXCEPT ![a] = @ + 1]
    BY <2>1 DEF AccountForward
  <2>3. n \in 0..MaxBytes /\ n \in Nat
    BY <1>2
  <2>4. carried' \in [Addrs -> Nat] /\ reads' \in [Addrs -> 0..MaxReads]
    BY <1>2, <2>2, <2>3 DEF TrafficTypeOK
  <2> QED
    BY <1>1, <2>2, <2>3, <2>4, AccountType DEF TrafficTypeOK
<1>5. CASE \E t \in Threads : AccountStore(t)
  BY <1>5, StoreType
<1>6. CASE UNCHANGED trafficVars
  BY <1>6 DEF TrafficTypeOK, trafficVars
<1> QED
  BY <1>3, <1>4, <1>5, <1>6
     DEF Next, Accounting, Owner, ConstructTcpServer, ConstructLoadBalancer, ConstructProxyServer,
         Wire, Subscribe, DestroyLoadBalancer, DestroyTcpServer, DestroyProxyServer, vars

\* Type correctness of PubSubCenter and the identifiers, widths included.
THEOREM PubSubTypeCorrect == Spec => []TypeOK
<1>1. Init => TrafficTypeOK
  BY PubSubAssumption DEF Init, TrafficTypeOK, Idle
<1>2. Spec => []TrafficTypeOK
  BY <1>1, TrafficTypeKeeps, PTL DEF Spec
<1>3. IdInv /\ SubInv /\ TrafficTypeOK => TypeOK
  BY DEF IdInv, CenterTypeOK, TrafficTypeOK, Pending, TypeOK
<1> QED
  BY <1>2, <1>3, CenterInvariant, PTL
=============================================================================
