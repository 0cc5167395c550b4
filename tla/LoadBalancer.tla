---------------------------- MODULE LoadBalancer ----------------------------
(***************************************************************************)
(* proxy::LoadBalancer on its own: the sub-reactors queue batches of       *)
(* readable sockets, the balancing thread takes a batch, gives every       *)
(* socket of it a backend and notifies FORWARD; the owner adds and removes *)
(* backends; a timer runs the health check.                                *)
(*                                                                         *)
(* Sections under LoadBalancer::mx_ are one step.  balancing walks         *)
(* backend_ without the lock, one socket at a time.  backend_ is an        *)
(* unordered_map: it is kept as the sequence in which it is walked, which  *)
(* an insertion may change.  The handler of FORWARD is ProxyServer's and   *)
(* runs on the balancing thread: here it returns, throws or never ends.    *)
(***************************************************************************)
EXTENDS Integers, Sequences, FiniteSets, SequencesExt

CONSTANTS
  Backends,    \* addresses that may be added
  Socks,       \* sockets that become readable
  MaxBatches,  \* bound: batches queued in a behaviour
  MaxChanges,  \* bound: calls of addBackend and removeBackend after the start
  Failures,    \* the ways in which backends fail
  None

ASSUME LoadBalancerAssumption ==
  /\ None \notin Backends
  /\ IsFiniteSet(Backends) /\ Backends # {} /\ IsFiniteSet(Socks)
  /\ MaxBatches \in Nat /\ MaxChanges \in Nat
  /\ Failures \subseteq {"refusing", "silent", "wrong"}

\* How a backend meets the health check: it echoes the text, refuses the
\* connection, accepts it and stays silent, or sends something else.
Status == {"healthy", "refusing", "silent", "wrong"}

VARIABLES
  backend_,     \* the backends, in the order of iteration
  checked_,     \* the backends the health check visits
  sock_queue_,  \* batches waiting
  stop_,        \* what stop has set
  lpc,          \* balancing thread: "check", "idle", "assign", "forward" (the handler
                \* runs), "ended", "thrown" or "crash"
  sockes_,      \* balancing thread: sockets of the batch still to be assigned
  iter,         \* balancing thread: the backend the iterator is at, None if it is at
                \* none or has been invalidated
  sock_map,     \* balancing thread: <<socket, backend>> pairs made so far
  cpc,          \* timer thread: "idle", "visit", "connect", "echo" or "hung"
  unchecked,    \* timer thread: backends still to be visited
  checking,     \* timer thread: the backend in hand
  status,       \* what each backend does when it is checked
  changes,      \* number of addBackend and removeBackend calls
  pushed,       \* history: every batch ever queued
  forwarded,    \* history: every map handed to ProxyServer
  atStop        \* history: how many had been handed over when stop was called

lbVars    == <<lpc, sockes_, iter, sock_map>>
stopVars  == <<stop_, atStop>>
checkVars == <<cpc, unchecked, checking>>
vars == <<backend_, checked_, sock_queue_, lbVars, stopVars, checkVars, status, changes, pushed,
          forwarded>>

\* Batches: epoll_wait reports a socket once.
Batches == SetToAllKPermutations(Socks)

\* Type correctness.
TypeOK ==
  /\ Range(backend_) \subseteq Backends /\ Cardinality(Range(backend_)) = Len(backend_)
  /\ checked_ \subseteq Backends
  /\ Range(sock_queue_) \subseteq Batches
  /\ lpc \in {"check", "idle", "assign", "forward", "ended", "thrown", "crash"}
  /\ stop_ \in BOOLEAN
  /\ Range(sockes_) \subseteq Socks
  /\ iter \in Backends \cup {None}
  /\ sock_map \subseteq Socks \X Backends
  /\ cpc \in {"idle", "visit", "connect", "echo", "hung"}
  /\ unchecked \subseteq Backends /\ checking \in Backends \cup {None}
  /\ status \in [Backends -> Status]
  /\ changes \in 0..MaxChanges
  /\ atStop \in 0..MaxBatches

\* The owner has added every backend before loadbalance is called.
Init ==
  /\ backend_ \in SetToSeqs(Backends) /\ checked_ = Backends
  /\ sock_queue_ = <<>>
  /\ lpc = "check" /\ sockes_ = <<>> /\ iter = None /\ sock_map = {}
  /\ cpc = "idle" /\ unchecked = {} /\ checking = None
  /\ status = [b \in Backends |-> "healthy"]
  /\ stop_ = FALSE /\ atStop = 0
  /\ changes = 0 /\ pushed = <<>> /\ forwarded = <<>>
-----------------------------------------------------------------------------
(* The sub-reactors and the owner.                                         *)

UpdateForLoadbalance(batch) ==
  /\ Len(pushed) < MaxBatches
  /\ sock_queue_' = Append(sock_queue_, batch)
  /\ pushed' = Append(pushed, batch)
  /\ UNCHANGED <<stopVars, backend_, checked_, lbVars, checkVars, status, changes,
                 forwarded>>

AddBackendTwice(b) ==
  /\ changes < MaxChanges /\ changes' = changes + 1
  /\ backend_' = Append(backend_, b)
  /\ checked_' = checked_ \cup {b}
  /\ UNCHANGED <<stopVars, sock_queue_, lbVars, checkVars, status, pushed, forwarded>>
\* addBackend: emplace into both maps keeps an entry that is there.  A new entry comes
\* anywhere in the order; when it makes the table grow, the order is a new one and every
\* iterator becomes invalid.
AddBackend(b) ==
  /\ changes < MaxChanges /\ changes' = changes + 1
  /\ \/ b \in Range(backend_) /\ UNCHANGED <<backend_, iter>>
     \/ /\ b \notin Range(backend_)
        /\ backend_' \in SetToSeqs(Range(backend_) \cup {b})
        /\ \/ iter' = None
           \/ Remove(backend_', b) = backend_ /\ UNCHANGED iter
  /\ checked_' = checked_ \cup {b}
  /\ UNCHANGED <<stopVars, sock_queue_, lpc, sockes_, sock_map, checkVars, status, pushed,
                 forwarded>>

\* Where the iteration over backend_ meets b.
Position(b) == CHOOSE i \in DOMAIN backend_ : backend_[i] = b

\* backend_ without b: nothing changes if it is not there, and the order of the others stays.
Without(b) == IF b \in Range(backend_) THEN RemoveAt(backend_, Position(b)) ELSE backend_

\* backend_.erase(b): an iterator to it becomes invalid.
Erase(b) == backend_' = Without(b) /\ iter' = IF iter = b THEN None ELSE iter

\* Only backend_ forgets the backend, checked_ keeps it.
RemoveBackend(b) ==
  /\ changes < MaxChanges /\ changes' = changes + 1
  /\ Erase(b)
  /\ UNCHANGED <<stopVars, checked_, sock_queue_, lpc, sockes_, sock_map, checkVars, status,
                 pushed, forwarded>>

\* stop: a flag, which wakes nobody up.
Stop ==
  /\ ~stop_ /\ stop_' = TRUE
  /\ atStop' = Len(forwarded)
  /\ UNCHANGED <<backend_, checked_, sock_queue_, lbVars, checkVars, status, changes,
                 pushed, forwarded>>
-----------------------------------------------------------------------------
(* loadbalance and balancing.                                              *)

CheckStopNever ==
  /\ lpc = "check"
  /\ lpc' = "idle"
  /\ UNCHANGED <<stopVars, backend_, checked_, sock_queue_, sockes_, iter, sock_map, checkVars,
                 status, changes, pushed, forwarded>>
CheckStopDraining ==
  /\ lpc = "check"
  /\ lpc' = IF stop_ /\ sock_queue_ = <<>> THEN "ended" ELSE "idle"
  /\ UNCHANGED <<stopVars, backend_, checked_, sock_queue_, sockes_, iter, sock_map,
                 checkVars, status, changes, pushed, forwarded>>
\* while (!stop_): the flag is looked at between two batches, and not while the
\* thread waits for the next one ("idle").
CheckStop ==
  /\ lpc = "check"
  /\ lpc' = IF stop_ THEN "ended" ELSE "idle"
  /\ UNCHANGED <<stopVars, backend_, checked_, sock_queue_, sockes_, iter, sock_map,
                 checkVars, status, changes, pushed, forwarded>>

TakeBatchIfMore ==
  /\ lpc = "idle" /\ Len(sock_queue_) > 1
  /\ sockes_' = Head(sock_queue_) /\ sock_queue_' = Tail(sock_queue_)
  /\ iter' = IF backend_ = <<>> THEN None ELSE backend_[1]
  /\ sock_map' = {}
  /\ lpc' = "assign"
  /\ UNCHANGED <<stopVars, backend_, checked_, checkVars, status, changes, pushed,
                 forwarded>>
TakeBatchWithoutPop ==
  /\ lpc = "idle" /\ sock_queue_ # <<>>
  /\ sockes_' = Head(sock_queue_)
  /\ iter' = IF backend_ = <<>> THEN None ELSE backend_[1]
  /\ sock_map' = {}
  /\ lpc' = "assign"
  /\ UNCHANGED <<stopVars, backend_, checked_, sock_queue_, checkVars, status, changes,
                 pushed, forwarded>>
\* The first batch is copied and popped; balancing starts at backend_.begin().
TakeBatch ==
  /\ lpc = "idle" /\ sock_queue_ # <<>>
  /\ sockes_' = Head(sock_queue_) /\ sock_queue_' = Tail(sock_queue_)
  /\ iter' = IF backend_ = <<>> THEN None ELSE backend_[1]
  /\ sock_map' = {}
  /\ lpc' = "assign"
  /\ UNCHANGED <<stopVars, backend_, checked_, checkVars, status, changes, pushed,
                 forwarded>>

StayPut(b) == b
\* ++iter, and back to begin() at the end.
After(b) ==
  IF Position(b) = Len(backend_) THEN backend_[1] ELSE backend_[Position(b) + 1]

\* One turn of the loop of balancing.
AssignOne ==
  /\ lpc = "assign" /\ sockes_ # <<>> /\ iter \in Range(backend_)
  /\ sock_map' = sock_map \cup {<<Head(sockes_), iter>>}
  /\ iter' = After(iter)
  /\ sockes_' = Tail(sockes_)
  /\ UNCHANGED <<stopVars, backend_, checked_, sock_queue_, lpc, checkVars, status, changes,
                 pushed, forwarded>>

\* iter is end() because there was no backend, its element has been erased, or the
\* table has grown: the debug-mode containers the build asks for abort the process.
InvalidIterator ==
  /\ lpc = "assign" /\ sockes_ # <<>> /\ iter \notin Range(backend_)
  /\ lpc' = "crash"
  /\ UNCHANGED <<stopVars, backend_, checked_, sock_queue_, sockes_, iter, sock_map,
                 checkVars, status, changes, pushed, forwarded>>

\* notifySubscriber calls updateForForward, on this thread.
NotifyForward ==
  /\ lpc = "assign" /\ sockes_ = <<>>
  /\ forwarded' = Append(forwarded, sock_map)
  /\ sock_map' = {} /\ iter' = None
  /\ lpc' = "forward"
  /\ UNCHANGED <<stopVars, backend_, checked_, sock_queue_, sockes_, checkVars, status,
                 changes, pushed>>

\* The handler is ProxyServer's: it returns, throws through loadbalance, or blocks in a
\* read and takes no step.
ForwardReturns ==
  /\ lpc = "forward"
  /\ lpc' = "check"
  /\ UNCHANGED <<stopVars, backend_, checked_, sock_queue_, sockes_, iter, sock_map,
                 checkVars, status, changes, pushed, forwarded>>
ForwardThrows ==
  /\ lpc = "forward"
  /\ lpc' = "thrown"
  /\ UNCHANGED <<stopVars, backend_, checked_, sock_queue_, sockes_, iter, sock_map,
                 checkVars, status, changes, pushed, forwarded>>
-----------------------------------------------------------------------------
(* checkAllBackend, called by a timer, which is taken to survive what the  *)
(* check throws and to call it again.                                      *)

\* checkAllBackend returns or throws.
CheckOver == cpc' = "idle" /\ unchecked' = {} /\ checking' = None

StartCheck ==
  /\ cpc = "idle" /\ checked_ # {}
  /\ unchecked' = checked_ /\ cpc' = "visit"
  /\ UNCHANGED <<stopVars, backend_, checked_, sock_queue_, lbVars, checking, status,
                 changes, pushed, forwarded>>

\* The next entry of checked_.  backend_.at throws for a backend that has been
\* removed, and the rest is not checked.
Visit(b) ==
  /\ cpc = "visit" /\ b \in unchecked
  /\ IF b \in Range(backend_)
     THEN cpc' = "connect" /\ unchecked' = unchecked \ {b} /\ checking' = b
     ELSE CheckOver
  /\ UNCHANGED <<stopVars, backend_, checked_, sock_queue_, lbVars, status, changes, pushed,
                 forwarded>>

\* connectTo returns a socket or throws; it never returns a negative number, so
\* there is neither a second try nor an erase.
CheckConnect ==
  /\ cpc = "connect"
  /\ IF status[checking] = "refusing"
     THEN CheckOver
     ELSE cpc' = "echo" /\ UNCHANGED <<unchecked, checking>>
  /\ UNCHANGED <<stopVars, backend_, checked_, sock_queue_, lbVars, status, changes, pushed,
                 forwarded>>

\* What time is after the loop that receives: `--time` ends it at 0.
TimeLeft(s) == IF s = "healthy" THEN {1, 2, 3} ELSE {0}

\* write and recv: three wrong answers leave time = 0, and `time < 0` erases nothing.
CheckEcho ==
  /\ cpc = "echo" /\ status[checking] # "silent"
  /\ \E time \in TimeLeft(status[checking]) :
       IF time < 0 THEN Erase(checking) ELSE UNCHANGED <<backend_, iter>>
  /\ IF unchecked = {}
     THEN CheckOver
     ELSE cpc' = "visit" /\ checking' = None /\ UNCHANGED unchecked
  /\ UNCHANGED <<stopVars, checked_, sock_queue_, lpc, sockes_, sock_map, status, changes,
                 pushed, forwarded>>

\* The socket is blocking: recv waits for ever for a silent backend, and for one
\* whose only answer compared unequal (buf has no terminator, so even the right
\* answer may).
CheckHangs ==
  /\ cpc = "echo"
  /\ cpc' = "hung"
  /\ UNCHANGED <<stopVars, backend_, checked_, sock_queue_, lbVars, unchecked, checking,
                 status, changes, pushed, forwarded>>

\* A backend fails, in one of the ways the check looks for.
Fail(b, s) ==
  /\ status[b] = "healthy" /\ s \in Failures
  /\ status' = [status EXCEPT ![b] = s]
  /\ UNCHANGED <<stopVars, backend_, checked_, sock_queue_, lbVars, checkVars, changes,
                 pushed, forwarded>>
-----------------------------------------------------------------------------
\* The process has not been aborted or terminated.
Alive == lpc \notin {"crash", "thrown"}

Handler == Alive /\ (ForwardReturns \/ ForwardThrows)
Balance == Alive /\ (CheckStop \/ TakeBatch \/ AssignOne \/ InvalidIterator \/ NotifyForward)
Check   ==
  Alive /\ ( \/ StartCheck
            \/ \E b \in Backends : Visit(b)
            \/ CheckConnect
            \/ CheckEcho
            \/ CheckHangs)

Next ==
  \/ Balance
  \/ Handler
  \/ Check
  \/ Alive /\ \E batch \in Batches : UpdateForLoadbalance(batch)
  \/ Alive /\ \E b \in Backends : AddBackend(b) \/ RemoveBackend(b)
  \/ Alive /\ Stop
  \/ \E b \in Backends, s \in Failures : Fail(b, s)

Spec == Init /\ [][Next]_vars

\* The balancing thread, outside the handler, and the timer keep running.
FairSpec == Spec /\ WF_vars(Balance) /\ WF_vars(Check)
-----------------------------------------------------------------------------
(* Properties.                                                             *)

SocksOf(m) == {p[1] : p \in m}

BatchInHand == lpc \in {"assign", "crash"}

\* No batch is lost, handed over twice or overtaken: what has been forwarded, the
\* batch in hand and the queue are, in this order, what the sub-reactors queued
\* (loadbalance copies under the lock and balances outside it).
BatchesInOrder ==
  /\ Len(forwarded) + (IF BatchInHand THEN 1 ELSE 0) + Len(sock_queue_) = Len(pushed)
  /\ \A i \in 1..Len(forwarded) : SocksOf(forwarded[i]) = Range(pushed[i])
  /\ BatchInHand => SocksOf(sock_map) \cup Range(sockes_) = Range(pushed[Len(forwarded) + 1])

\* The sockets map m gives to backend b.
LoadIn(m, b) == Cardinality({p \in m : p[2] = b})

\* Within one batch the backends that stay listed are loaded evenly, to within one
\* socket, and every socket gets exactly one backend (balancing).  EvenLoad is about
\* several batches.
EvenWithinBatch ==
  \A i \in 1..Len(forwarded) :
    /\ \A p, q \in forwarded[i] : p[1] = q[1] => p = q
    /\ changes = 0 =>
         \A a, b \in Backends : LoadIn(forwarded[i], a) <= LoadIn(forwarded[i], b) + 1

\* The sockets backend b has been given so far.
TotalLoad(b) ==
  Cardinality({ip \in (1..Len(forwarded)) \X (Socks \X Backends) :
                 ip[2] \in forwarded[ip[1]] /\ ip[2][2] = b})

\* The workload is spread evenly over the backends that stay listed, to within one socket
\* (balancing starts at backend_.begin() for every batch).
EvenLoad ==
  changes = 0 => \A a, b \in Backends : TotalLoad(a) <= TotalLoad(b) + 1

\* The health check removes a backend that has died (checkAllBackend).
DeadBackendRemoved ==
  \A b \in Backends : status[b] # "healthy" ~> b \notin Range(backend_)

\* The handler never comes back.
HandlerStuck == <>[](lpc = "forward")

\* A queued batch is forwarded in the end, unless the handler of an earlier one never
\* returns, the process has ended or was told to stop (loadbalance).
BatchesForwarded ==
  \/ HandlerStuck
  \/ \A n \in 1..MaxBatches : Len(pushed) >= n ~> (Len(forwarded) >= n \/ ~Alive \/ stop_)

\* After stop at most one batch more reaches ProxyServer, whatever is queued: the one in
\* hand, or the one the thread was waiting for (loadbalance, ~LoadBalancer).
AtMostOneAfterStop == stop_ => Len(forwarded) <= atStop + 1

\* A stop is heeded as soon as there is a batch to take and the handler returns; without
\* a batch the balancing thread waits for ever (the inner loop of loadbalance does not
\* look at stop_).
StopHeeded ==
  \/ HandlerStuck
  \/ stop_ /\ Len(pushed) > Len(forwarded) ~> (lpc = "ended" \/ ~Alive)
=============================================================================
