------------------------- MODULE RProxyOrderProofs -------------------------
(***************************************************************************)
(* Proofs about the order of requests and answers in the whole process,    *)
(* with one worker and while nobody closes a connection, for any number of *)
(* clients, links, descriptors, sub-reactors and requests: requests go out *)
(* on the client's own link, answers come back to the client that asked,   *)
(* each once and in order, and the process keeps running.                  *)
(***************************************************************************)
EXTENDS RProxyProofs

\* One worker, and connections stay open.
Undisturbed == NWorkers = 1 /\ ~ClientsClose /\ ~BackendsClose

\* The worker.
W == NLoops + 1
-----------------------------------------------------------------------------
(* Nothing is closed.                                                      *)

\* What has a descriptor, or waits for one, is open, and it has one descriptor.
FilesAreOpen ==
  /\ \A c \in backlog : peer[c] = "open"
  /\ \A f \in Fds : file[f] # None => peer[file[f]] = "open"
  /\ \A f, g \in Fds : file[f] # None /\ file[f] = file[g] => f = g

\* No thread tears anything down.
NobodyCloses ==
  /\ \A l \in Loops : pc[l] \in {"wait", "dispatch"} \/ (MayRehash /\ pc[l] = "crash")
  /\ \A l \in Loops, f \in Fds : "CLOSABLE" \notin resp_events_[l][f]
  /\ wpc[W] \in {"wait", "dispatch", "read", "send"}
  /\ \A f \in Fds : "CLOSABLE" \notin wresp[W][f]

OpenInv == FilesAreOpen /\ NobodyCloses
-----------------------------------------------------------------------------
(* Clients and links are in pairs.                                         *)

IsClient(f) == f \in Fds /\ file[f] \in Clients

\* What is handed from thread to thread are numbers of clients.
BatchesAreClients ==
  /\ \A l \in Loops : \A i \in 1..Len(sockes[l]) : IsClient(sockes[l][i])
  /\ \A n \in 1..Len(sock_queue_) : \A i \in 1..Len(sock_queue_[n]) : IsClient(sock_queue_[n][i])
  /\ \A f \in todo : IsClient(f)

\* The maps pair open links with open clients.
Paired ==
  /\ \A g \in Fds : sock_map_[g] # None =>
       file[g] \in Links /\ file[sock_map_[g]] \in Clients /\ reversed_map_[sock_map_[g]] = g
  /\ \A f \in Fds : reversed_map_[f] # None => sock_map_[reversed_map_[f]] = f
  /\ \A g \in Fds : file[g] \in Links => sock_map_[g] # None \/ (fpc = "emplace" /\ sock = g)

\* The forwarding thread has a client in hand, and its link once there is one.
ForwarderHolds ==
  /\ fpc \in {"establish", "emplace", "lookup", "enter", "read", "send"} => file[incoming] \in Clients
  /\ fpc \in {"establish", "emplace"} => reversed_map_[incoming] = None
  /\ fpc = "emplace" => file[sock] \in Links /\ sock_map_[sock] = None
  /\ fpc = "lookup" => reversed_map_[incoming] # None
  /\ fpc \in {"enter", "read", "send"} => reversed_map_[incoming] = sock
  /\ fpc = "read" => source = file[incoming]

\* The worker has a link in hand, with its client.
WorkerHolds ==
  /\ wpc[W] \in {"read", "send"} => sock_map_[wfd[W]] = wdst[W]
  /\ wpc[W] = "read" => wsource[W] = file[wfd[W]]
  /\ \A f \in Fds : wresp[W][f] # {} => sock_map_[f] # None

PairInv == BatchesAreClients /\ Paired /\ ForwarderHolds /\ WorkerHolds
-----------------------------------------------------------------------------
(* Where the messages are.                                                 *)

\* s is the requests n + 1, n + 2, ... of client c, or the answers to them.
Numbered(s, c, n) == \A i \in 1..Len(s) : s[i] = <<c, n + i>>

\* The requests of client number f that the forwarding thread has read and not sent, and
\* the answers the worker has.
PacketOf(f)  == IF fpc = "send" /\ incoming = f THEN packet ELSE <<>>
AnswersOf(f) == IF wpc[W] = "send" /\ wdst[W] = f THEN wpacket[W] ELSE <<>>

\* What was not read of a client's requests are the last ones.
UnreadRequests ==
  \A c \in Clients : Len(inq[c]) <= sent[c] /\ Numbered(inq[c], c, sent[c] - Len(inq[c]))

\* Nothing was read from, or sent to, a client without a link, ...
UnservedClients ==
  \A c \in Clients : (\A f \in Fds : file[f] = c => reversed_map_[f] = None)
                       => Len(inq[c]) = sent[c] /\ got[c] = <<>>

\* ... and nothing was sent on, or received from, a link without a client.
UnusedLinks ==
  \A k \in Links : (\A g \in Fds : file[g] = k => sock_map_[g] = None)
                     => got[k] = <<>> /\ inq[k] = <<>> /\ sent[k] = 0

\* The requests of the client with number f, whose link has number g: first the ones the
\* backend has got, then the packet, then the ones not read.
Requests(f, g) ==
  LET c == file[f]
      k == file[g]
  IN  /\ Numbered(got[k], c, 0)
      /\ Numbered(PacketOf(f), c, Len(got[k]))
      /\ Len(got[k]) + Len(PacketOf(f)) + Len(inq[c]) = sent[c]

\* The answers likewise.  The backend has answered requests it got.
Answers(f, g) ==
  LET c == file[f]
      k == file[g]
  IN  /\ Numbered(got[c], c, 0)
      /\ Numbered(AnswersOf(f), c, Len(got[c]))
      /\ Numbered(inq[k], c, Len(got[c]) + Len(AnswersOf(f)))
      /\ Len(got[c]) + Len(AnswersOf(f)) + Len(inq[k]) = sent[k]
      /\ sent[k] <= Len(got[k])

Streams == \A f, g \in Fds : sock_map_[g] = f => Requests(f, g) /\ Answers(f, g)

StreamInv == UnreadRequests /\ UnservedClients /\ UnusedLinks /\ Streams

\* The inductive invariant, on top of the one about descriptors.
OrderInv == ContractInv /\ OpenInv /\ PairInv /\ StreamInv
-----------------------------------------------------------------------------
(* Numbered messages.                                                      *)

\* Counting goes on over a concatenation.
LEMMA NumberedConcat ==
  ASSUME NEW s \in Seq(Msgs), NEW t \in Seq(Msgs), NEW c, NEW n \in Nat,
         Numbered(s, c, n), Numbered(t, c, n + Len(s))
  PROVE  Numbered(s \o t, c, n) /\ Len(s \o t) = Len(s) + Len(t)
<1>1. /\ Len(s \o t) = Len(s) + Len(t)
      /\ \A i \in 1..Len(s) : (s \o t)[i] = s[i]
      /\ \A i \in Len(s) + 1..Len(s) + Len(t) : (s \o t)[i] = t[i - Len(s)]
  BY ConcatProperties
<1>2. Len(s) \in Nat /\ Len(t) \in Nat
  BY LenProperties
<1>3. ASSUME NEW i \in 1..Len(s) + Len(t) PROVE (s \o t)[i] = <<c, n + i>>
  <2>1. CASE i \in 1..Len(s)
    BY <1>1, <2>1 DEF Numbered
  <2>2. CASE i \in Len(s) + 1..Len(s) + Len(t)
    <3>1. i - Len(s) \in 1..Len(t) /\ (n + Len(s)) + (i - Len(s)) = n + i
      BY <1>2, <2>2
    <3> QED
      BY <1>1, <2>2, <3>1 DEF Numbered
  <2> QED
    BY <1>2, <2>1, <2>2
<1> QED
  BY <1>1, <1>3 DEF Numbered

\* One more message.
LEMMA NumberedAppend ==
  ASSUME NEW s \in Seq(Msgs), NEW c, NEW n \in Nat, Numbered(s, c, n)
  PROVE  /\ Numbered(Append(s, <<c, n + Len(s) + 1>>), c, n)
         /\ Len(Append(s, <<c, n + Len(s) + 1>>)) = Len(s) + 1
<1> DEFINE m == <<c, n + Len(s) + 1>>
<1>1. Len(s) \in Nat
  BY LenProperties
<1>2. /\ Len(Append(s, m)) = Len(s) + 1
      /\ \A i \in 1..Len(s) : Append(s, m)[i] = s[i]
      /\ Append(s, m)[Len(s) + 1] = m
  <2> HIDE DEF m
  <2> QED
    BY AppendProperties
<1>3. n + (Len(s) + 1) = n + Len(s) + 1
  BY <1>1
<1>4. ASSUME NEW i \in 1..Len(s) + 1 PROVE Append(s, m)[i] = <<c, n + i>>
  <2>1. CASE i \in 1..Len(s)
    <3>1. Append(s, m)[i] = s[i]
      BY <1>2, <2>1
    <3> QED
      BY <2>1, <3>1 DEF Numbered
  <2>2. CASE i = Len(s) + 1
    <3>1. Append(s, m)[i] = m
      BY <1>2, <2>2
    <3> QED
      BY <1>3, <2>2, <3>1
  <2> QED
    BY <1>1, <2>1, <2>2
<1> HIDE DEF m
<1>5. Numbered(Append(s, m), c, n)
  BY <1>2, <1>4 DEF Numbered
<1> QED
  BY <1>2, <1>5 DEF m

\* A read takes the first messages and leaves the others.
LEMMA NumberedRead ==
  ASSUME NEW s \in Seq(Msgs), NEW c, NEW n \in Nat, Numbered(s, c, n)
  PROVE  /\ Prefix(s, ReadMax) \in Seq(Msgs) /\ Suffix(s, ReadMax) \in Seq(Msgs)
         /\ Len(Prefix(s, ReadMax)) + Len(Suffix(s, ReadMax)) = Len(s)
         /\ Numbered(Prefix(s, ReadMax), c, n)
         /\ Numbered(Suffix(s, ReadMax), c, n + Len(Prefix(s, ReadMax)))
<1> DEFINE m == IF Len(s) < ReadMax THEN Len(s) ELSE ReadMax
           p == SubSeq(s, 1, m)
           q == SubSeq(s, m + 1, Len(s))
<1>1. Len(s) \in Nat /\ ReadMax \in Nat
  BY LenProperties, ProxyAssumption
<1>2. m \in Nat /\ m <= Len(s)
  BY <1>1
<1>3. p = Prefix(s, ReadMax) /\ q = Suffix(s, ReadMax)
  BY DEF Prefix, Suffix
<1>4. p \in Seq(Msgs) /\ q \in Seq(Msgs)
  BY <1>1, <1>3, PartType
<1> HIDE DEF m
<1>5. /\ Len(p) = m /\ \A i \in 1..m : p[i] = s[i]
      /\ Len(q) = Len(s) - m /\ \A i \in 1..Len(s) - m : q[i] = s[m + i]
  <2>1. \A i \in 1..Len(s) : s[i] \in Msgs
    BY ElementOfSeq
  <2>2. /\ Len(p) = IF 1 <= m THEN m - 1 + 1 ELSE 0
        /\ \A i \in 1..m - 1 + 1 : p[i] = s[1 + i - 1]
    BY <1>1, <1>2, <2>1, SubSeqProperties
  <2>3. /\ Len(q) = IF m + 1 <= Len(s) THEN Len(s) - (m + 1) + 1 ELSE 0
        /\ \A i \in 1..Len(s) - (m + 1) + 1 : q[i] = s[(m + 1) + i - 1]
    BY <1>1, <1>2, <2>1, SubSeqProperties
  <2> HIDE DEF p, q
  <2>4. Len(p) = m /\ \A i \in 1..m : p[i] = s[i]
    BY <1>2, <2>2
  <2>5. Len(q) = Len(s) - m /\ \A i \in 1..Len(s) - m : q[i] = s[m + i]
    BY <1>1, <1>2, <2>3
  <2> QED
    BY <2>4, <2>5
<1> HIDE DEF p, q
<1>6. Numbered(p, c, n)
  <2>1. \A i \in 1..m : i \in 1..Len(s)
    BY <1>1, <1>2
  <2> QED
    BY <1>5, <2>1 DEF Numbered
<1>7. Numbered(q, c, n + m)
  <2>1. \A i \in 1..Len(s) - m : m + i \in 1..Len(s) /\ n + (m + i) = (n + m) + i
    BY <1>1, <1>2
  <2> QED
    BY <1>5, <2>1 DEF Numbered
<1>8. Len(p) + Len(q) = Len(s)
  BY <1>1, <1>2, <1>5
<1> QED
  BY <1>3, <1>4, <1>5, <1>6, <1>7, <1>8

\* Nothing is numbered in any way.
LEMMA NumberedEmpty == \A c, n : Numbered(<<>>, c, n) /\ Len(<<>>) = 0
BY DEF Numbered
-----------------------------------------------------------------------------
(* The state, by pieces.                                                   *)

\* There is one worker, with an epoll of its own.
LEMMA TheWorker ==
  ASSUME NWorkers = 1 PROVE Workers = {W} /\ W \in Epolls /\ W \notin Loops
BY SocketsAssumption DEF Workers, W, Epolls, Loops

\* The types the steps below use.
LEMMA Typed ==
  ASSUME RTypeInv
  PROVE  /\ file \in [Fds -> Conns \cup {None}] /\ inq \in [Conns -> Seq(Msgs)]
         /\ sent \in [Conns -> Nat] /\ got \in [Conns -> Seq(Msgs)]
         /\ peer \in [Conns -> {"new", "open", "closed"}]
         /\ sock_map_ \in [Fds -> Fds \cup {None}] /\ reversed_map_ \in [Fds -> Fds \cup {None}]
         /\ packet \in Seq(Msgs) /\ wpacket \in [Workers -> Seq(Msgs)]
         /\ wpc \in [Workers -> WorkerPc] /\ wresp \in [Workers -> [Fds -> SUBSET EventT]]
         /\ wdst \in [Workers -> Fds \cup {None}] /\ wfd \in [Workers -> Fds \cup {None}]
         /\ wsource \in [Workers -> Conns \cup {None}]
         /\ pc \in [Loops -> LoopPc] /\ resp_events_ \in [Loops -> [Fds -> SUBSET EventT]]
         /\ sockes \in [Loops -> Seq(Fds)] /\ sock_queue_ \in Seq(Seq(Fds))
BY DEF RTypeInv, RTypeOK, TypeOK, KernelTypeOK, TcpTypeOK, ProxyTypeOK

\* Connections and descriptors are not None.
LEMMA NotNone ==
  /\ \A c \in Conns : c # None
  /\ \A f \in Fds : f # None
  /\ Clients \subseteq Conns /\ Links \subseteq Conns /\ Clients \cap Links = {}
BY SocketsAssumption DEF Conns

\* No client without a link is paired, no two links have one client, and so on: the pairs
\* are distinct.
LEMMA PairsAreDistinct ==
  ASSUME RTypeInv, FilesAreOpen, Paired,
         NEW g \in Fds, sock_map_[g] # None, NEW h \in Fds, sock_map_[h] # None, h # g
  PROVE  /\ sock_map_[g] \in Fds /\ sock_map_[h] \in Fds /\ sock_map_[h] # sock_map_[g]
         /\ file[g] # file[h] /\ file[sock_map_[g]] # file[sock_map_[h]]
<1>1. sock_map_[g] \in Fds /\ sock_map_[h] \in Fds
  BY Typed
<1>2. sock_map_[h] # sock_map_[g]
  BY DEF Paired
<1>3. /\ file[g] \in Links /\ file[h] \in Links
      /\ file[sock_map_[g]] \in Clients /\ file[sock_map_[h]] \in Clients
  BY DEF Paired
<1> QED
  BY <1>1, <1>2, <1>3, NotNone DEF FilesAreOpen

\* The links and clients of a pair.
LEMMA PairTypes ==
  ASSUME RTypeInv, Paired, NEW g \in Fds, sock_map_[g] # None
  PROVE  /\ sock_map_[g] \in Fds /\ reversed_map_[sock_map_[g]] = g
         /\ file[g] \in Links /\ file[sock_map_[g]] \in Clients
         /\ file[g] \in Conns /\ file[sock_map_[g]] \in Conns /\ file[g] # file[sock_map_[g]]
BY Typed, NotNone DEF Paired

\* The answers after a step, with the connections named.
LEMMA AnswersNext ==
  ASSUME NEW f \in Fds, NEW g \in Fds, NEW c, NEW k, c = file'[f], k = file'[g],
         Numbered(got'[c], c, 0),
         Numbered(AnswersOf(f)', c, Len(got'[c])),
         Numbered(inq'[k], c, Len(got'[c]) + Len(AnswersOf(f)')),
         Len(got'[c]) + Len(AnswersOf(f)') + Len(inq'[k]) = sent'[k],
         sent'[k] <= Len(got'[k])
  PROVE  Answers(f, g)'
<1> HIDE DEF AnswersOf
<1> QED
  BY DEF Answers, Numbered

\* A stream none of whose parts changes stays as it is.
LEMMA SameStream ==
  ASSUME NEW f \in Fds, NEW g \in Fds, Requests(f, g), Answers(f, g), file' = file,
         inq'[file[g]] = inq[file[g]], sent'[file[g]] = sent[file[g]],
         got'[file[g]] = got[file[g]],
         inq'[file[f]] = inq[file[f]], sent'[file[f]] = sent[file[f]],
         got'[file[f]] = got[file[f]],
         PacketOf(f)' = PacketOf(f), AnswersOf(f)' = AnswersOf(f)
  PROVE  Requests(f, g)' /\ Answers(f, g)'
<1> HIDE DEF PacketOf, AnswersOf
<1>1. Requests(f, g)'
  BY DEF Requests, Numbered
<1>2. Answers(f, g)'
  BY DEF Answers, Numbered
<1> QED
  BY <1>1, <1>2

\* What a step leaves of the streams: all of them, ...
LEMMA QuietStream ==
  ASSUME StreamInv, UNCHANGED <<file, sock_map_, reversed_map_, inq, sent, got>>,
         \A f \in Fds : PacketOf(f)' = PacketOf(f) /\ AnswersOf(f)' = AnswersOf(f)
  PROVE  StreamInv'
<1>1. UnreadRequests' /\ UnservedClients' /\ UnusedLinks'
  BY DEF StreamInv, UnreadRequests, UnservedClients, UnusedLinks, Numbered
<1>2. ASSUME NEW f \in Fds, NEW g \in Fds, sock_map_'[g] = f
      PROVE  Requests(f, g)' /\ Answers(f, g)'
  <2>1. PacketOf(f)' = PacketOf(f) /\ AnswersOf(f)' = AnswersOf(f)
    OBVIOUS
  <2>2. Requests(f, g) /\ Answers(f, g)
    BY <1>2 DEF StreamInv, Streams
  <2> HIDE DEF PacketOf, AnswersOf
  <2>3. Requests(f, g)'
    BY <2>1, <2>2 DEF Requests, Numbered
  <2>4. Answers(f, g)'
    BY <2>1, <2>2 DEF Answers, Numbered
  <2> QED
    BY <2>3, <2>4
<1> QED
  BY <1>1, <1>2 DEF StreamInv, Streams

\* ... or all that there were, when a descriptor is opened, ...
LEMMA GrowStream ==
  ASSUME RTypeInv, Paired, StreamInv, NEW o \in Fds, file[o] = None, NEW x,
         file' = [file EXCEPT ![o] = x],
         UNCHANGED <<sock_map_, reversed_map_, inq, sent, got>>,
         \A f \in Fds : PacketOf(f)' = PacketOf(f) /\ AnswersOf(f)' = AnswersOf(f)
  PROVE  StreamInv'
<1>1. \A h \in Fds : file[h] # None => file'[h] = file[h]
  BY Typed
<1>2. UnreadRequests'
  BY DEF StreamInv, UnreadRequests, Numbered
<1>3. UnservedClients'
  BY <1>1, NotNone DEF StreamInv, UnservedClients
<1>4. UnusedLinks'
  BY <1>1, NotNone DEF StreamInv, UnusedLinks
<1>5. ASSUME NEW f \in Fds, NEW g \in Fds, sock_map_'[g] = f
      PROVE  Requests(f, g)' /\ Answers(f, g)'
  <2>1. PacketOf(f)' = PacketOf(f) /\ AnswersOf(f)' = AnswersOf(f)
    OBVIOUS
  <2>2. Requests(f, g) /\ Answers(f, g)
    BY <1>5 DEF StreamInv, Streams
  <2>3. file'[f] = file[f] /\ file'[g] = file[g]
    BY <1>1, <1>5, NotNone DEF Paired
  <2> HIDE DEF PacketOf, AnswersOf
  <2>4. Requests(f, g)'
    BY <2>1, <2>2, <2>3 DEF Requests, Numbered
  <2>5. Answers(f, g)'
    BY <2>1, <2>2, <2>3 DEF Answers, Numbered
  <2> QED
    BY <2>4, <2>5
<1> QED
  BY <1>2, <1>3, <1>4, <1>5 DEF StreamInv, Streams

\* ... or all but that of one pair, when a message moves along it.
LEMMA OneStream ==
  ASSUME RTypeInv, FilesAreOpen, Paired, StreamInv,
         NEW f \in Fds, NEW g \in Fds, sock_map_[g] = f,
         UNCHANGED <<file, sock_map_, reversed_map_>>,
         \A c \in Conns : c \notin {file[f], file[g]}
                            => inq'[c] = inq[c] /\ sent'[c] = sent[c] /\ got'[c] = got[c],
         \A h \in Fds : h # f => PacketOf(h)' = PacketOf(h) /\ AnswersOf(h)' = AnswersOf(h),
         Len(inq'[file[f]]) <= sent'[file[f]],
         Numbered(inq'[file[f]], file[f], sent'[file[f]] - Len(inq'[file[f]])),
         Requests(f, g)', Answers(f, g)'
  PROVE  StreamInv'
<1>1. /\ file[g] \in Links /\ file[f] \in Clients /\ reversed_map_[f] = g
      /\ file[g] \in Conns /\ file[f] \in Conns /\ sock_map_[g] # None
  BY PairTypes, NotNone
<1>2. UnreadRequests'
  <2> SUFFICES ASSUME NEW c \in Clients
               PROVE  Len(inq'[c]) <= sent'[c] /\ Numbered(inq'[c], c, sent'[c] - Len(inq'[c]))
    BY DEF UnreadRequests, Numbered
  <2>1. CASE c = file[f]
    BY <2>1
  <2>2. CASE c # file[f]
    <3>1. inq'[c] = inq[c] /\ sent'[c] = sent[c]
      BY <1>1, <2>2, NotNone
    <3> QED
      BY <3>1 DEF StreamInv, UnreadRequests
  <2> QED
    BY <2>1, <2>2
<1>3. UnservedClients'
  <2> SUFFICES ASSUME NEW c \in Clients, \A h \in Fds : file[h] = c => reversed_map_[h] = None
               PROVE  Len(inq'[c]) = sent'[c] /\ got'[c] = <<>>
    BY DEF UnservedClients
  <2>1. c # file[f]
    BY <1>1, NotNone
  <2>2. inq'[c] = inq[c] /\ sent'[c] = sent[c] /\ got'[c] = got[c]
    BY <1>1, <2>1, NotNone
  <2> QED
    BY <2>2 DEF StreamInv, UnservedClients
<1>4. UnusedLinks'
  <2> SUFFICES ASSUME NEW k \in Links, \A h \in Fds : file[h] = k => sock_map_[h] = None
               PROVE  got'[k] = <<>> /\ inq'[k] = <<>> /\ sent'[k] = 0
    BY DEF UnusedLinks
  <2>1. k # file[g]
    BY <1>1
  <2>2. inq'[k] = inq[k] /\ sent'[k] = sent[k] /\ got'[k] = got[k]
    BY <1>1, <2>1, NotNone
  <2> QED
    BY <2>2 DEF StreamInv, UnusedLinks
<1>5. ASSUME NEW e \in Fds, NEW h \in Fds, sock_map_'[h] = e, h # g
      PROVE  Requests(e, h)' /\ Answers(e, h)'
  <2>1. /\ e # f /\ file[h] # file[g] /\ file[e] # file[f] /\ file[h] \in Links
        /\ file[e] \in Clients
    BY <1>1, <1>5, PairsAreDistinct, PairTypes, NotNone
  <2>2. /\ inq'[file[h]] = inq[file[h]] /\ sent'[file[h]] = sent[file[h]]
        /\ got'[file[h]] = got[file[h]]
        /\ inq'[file[e]] = inq[file[e]] /\ sent'[file[e]] = sent[file[e]]
        /\ got'[file[e]] = got[file[e]]
    BY <1>1, <2>1, NotNone
  <2>3. PacketOf(e)' = PacketOf(e) /\ AnswersOf(e)' = AnswersOf(e)
    BY <2>1
  <2>4. Requests(e, h) /\ Answers(e, h)
    BY <1>5 DEF StreamInv, Streams
  <2> QED
    BY <2>2, <2>3, <2>4, SameStream
<1>6. Streams'
  BY <1>5 DEF Streams
<1> QED
  BY <1>2, <1>3, <1>4, <1>6 DEF StreamInv
-----------------------------------------------------------------------------
(* Nothing is torn down.                                                   *)

\* Who has a number of a pair in hand has one that is open.
LEMMA HeldIsOpen ==
  ASSUME NWorkers = 1, OrderInv
  PROVE  /\ \A f \in Fds : file[f] \in Conns => peer[file[f]] = "open"
         /\ wpc[W] \in {"read", "send"} => /\ wfd[W] \in Fds /\ wdst[W] \in Fds
                                           /\ sock_map_[wfd[W]] = wdst[W]
                                           /\ file[wfd[W]] \in Links /\ file[wdst[W]] \in Clients
         /\ fpc \in {"enter", "read", "send"} => /\ incoming \in Fds /\ sock \in Fds
                                                 /\ sock_map_[sock] = incoming
                                                 /\ reversed_map_[incoming] = sock
                                                 /\ file[sock] \in Links
                                                 /\ file[incoming] \in Clients
<1> USE DEF OrderInv, ContractInv, OpenInv, PairInv
<1>1. \A f \in Fds : file[f] \in Conns => peer[file[f]] = "open"
  BY NotNone DEF FilesAreOpen
<1>2. ASSUME wpc[W] \in {"read", "send"}
      PROVE  /\ wfd[W] \in Fds /\ wdst[W] \in Fds /\ sock_map_[wfd[W]] = wdst[W]
             /\ file[wfd[W]] \in Links /\ file[wdst[W]] \in Clients
  <2>1. wfd[W] \in Fds /\ wdst[W] \in Fds
    BY <1>2, TheWorker DEF RTypeInv, ProxyHolds
  <2>2. sock_map_[wfd[W]] = wdst[W]
    BY <1>2 DEF WorkerHolds
  <2> QED
    BY <2>1, <2>2, NotNone DEF Paired
<1>3. ASSUME fpc \in {"enter", "read", "send"}
      PROVE  /\ incoming \in Fds /\ sock \in Fds /\ sock_map_[sock] = incoming
             /\ reversed_map_[incoming] = sock
             /\ file[sock] \in Links /\ file[incoming] \in Clients
  <2>1. incoming \in Fds /\ sock \in Fds
    BY <1>3 DEF RTypeInv, ProxyHolds
  <2>2. reversed_map_[incoming] = sock
    BY <1>3 DEF ForwarderHolds
  <2> QED
    BY <2>1, <2>2, NotNone DEF Paired
<1> QED
  BY <1>1, <1>2, <1>3

\* No step that closes, forgets or ends anything is possible, but for a backend that
\* refuses a connection.
LEMMA NothingTearsDown ==
  ASSUME Undisturbed, OrderInv
  PROVE  /\ \A l \in Loops, f \in Fds : ~Closable(l, f)
         /\ \A l \in Loops : /\ ~Disconnect(l) /\ ~DisconnectFreed(l) /\ ~EraseConnection(l)
                             /\ ~RemoveFromEpoll(l) /\ ~RemoveAgain(l) /\ ~EraseAgain(l)
         /\ \A f \in Fds : ~UnmappedThrows(W, f) /\ ~CloseLink(W, f)
         /\ ~EraseLink(W)
         /\ wpc[W] = "send" => ~MayKill(wdst[W])
         /\ fpc = "send" => ~MayKill(sock)
         /\ \A c \in Clients : ~ClientCloses(c)
         /\ \A k \in Links : ~BackendCloses(k)
<1> USE DEF Undisturbed, OrderInv, OpenInv, PairInv
<1>1. \A l \in Loops, f \in Fds : ~Closable(l, f)
  BY DEF Closable, NobodyCloses
<1>2. \A l \in Loops : pc[l] \notin {"leave", "erase", "del", "again", "eraseAgain"}
  BY DEF NobodyCloses
<1>3. \A l \in Loops : /\ ~Disconnect(l) /\ ~DisconnectFreed(l) /\ ~EraseConnection(l)
                       /\ ~RemoveFromEpoll(l) /\ ~RemoveAgain(l) /\ ~EraseAgain(l)
  BY <1>2 DEF Disconnect, DisconnectFreed, EraseConnection, RemoveFromEpoll, RemoveAgain, EraseAgain
<1>4. \A f \in Fds : ~UnmappedThrows(W, f) /\ ~CloseLink(W, f)
  BY DEF UnmappedThrows, CloseLink, NobodyCloses, WorkerHolds
<1>5. ~EraseLink(W)
  BY DEF EraseLink, NobodyCloses
<1>6. wpc[W] = "send" => ~MayKill(wdst[W])
  BY HeldIsOpen, NotNone DEF MayKill
<1>7. fpc = "send" => ~MayKill(sock)
  BY HeldIsOpen, NotNone DEF MayKill
<1>8. (\A c \in Clients : ~ClientCloses(c)) /\ \A k \in Links : ~BackendCloses(k)
  BY DEF ClientCloses, BackendCloses
<1> QED
  BY <1>1, <1>3, <1>4, <1>5, <1>6, <1>7, <1>8
-----------------------------------------------------------------------------
(* The steps of TcpServer.                                                 *)

\* What holds after a step, besides what ContractInv says.
After == OpenInv' /\ PairInv' /\ StreamInv'

\* A step that leaves the proxy alone leaves the packets alone.
LEMMA SamePackets ==
  ASSUME UNCHANGED <<fpc, incoming, packet, wpc, wdst, wpacket>>
  PROVE  \A f \in Fds : PacketOf(f)' = PacketOf(f) /\ AnswersOf(f)' = AnswersOf(f)
BY DEF PacketOf, AnswersOf

\* What is said of the proxy's threads and maps stays true when a descriptor is opened.
LEMMA GrowPairs ==
  ASSUME NWorkers = 1, OrderInv,
         UNCHANGED <<sock_map_, reversed_map_, forwardVars, workerVars>>,
         \A f \in Fds : file[f] # None => file'[f] = file[f],
         \A f \in Fds : file'[f] \in Links => file[f] \in Links
  PROVE  Paired' /\ ForwarderHolds' /\ WorkerHolds'
<1> USE DEF OrderInv, ContractInv, PairInv
<1>0. \A f \in Fds : file[f] \in Conns => file'[f] = file[f]
  BY NotNone
<1>1. Paired'
  <2>1. \A g \in Fds : sock_map_[g] # None =>
          /\ file'[g] \in Links /\ file'[sock_map_[g]] \in Clients
          /\ reversed_map_[sock_map_[g]] = g
    BY <1>0, PairTypes
  <2>2. UNCHANGED <<fpc, sock>>
    BY DEF forwardVars
  <2>3. /\ \A f \in Fds : reversed_map_[f] # None => sock_map_[reversed_map_[f]] = f
        /\ \A g \in Fds : file'[g] \in Links => sock_map_[g] # None \/ (fpc = "emplace" /\ sock = g)
    BY DEF Paired
  <2> QED
    BY <2>1, <2>2, <2>3 DEF Paired
<1>2. ForwarderHolds'
  BY NotNone DEF ForwarderHolds, forwardVars, RTypeInv, ProxyHolds
<1>3. WorkerHolds'
  <2>1. UNCHANGED <<wpc, wfd, wdst, wsource, wresp>>
    BY DEF workerVars
  <2>2. wpc[W] = "read" => wfd[W] \in Fds /\ file[wfd[W]] \in Conns
    BY HeldIsOpen, NotNone
  <2> QED
    BY <1>0, <2>1, <2>2 DEF WorkerHolds
<1> QED
  BY <1>1, <1>2, <1>3

\* The main thread accepts a client: the client is new to all.
LEMMA AcceptOrder ==
  ASSUME Undisturbed, OrderInv, NEW c \in Clients, Accept(c), UNCHANGED proxyVars PROVE After
<1> USE DEF OrderInv, ContractInv, OpenInv, PairInv
<1>1. PICK o \in Fds : file[o] = None /\ file' = [file EXCEPT ![o] = c]
  BY DEF Accept, LowestFree
<1>2. /\ c \in backlog /\ backlog' \subseteq backlog
      /\ UNCHANGED <<inq, peer, sent, pc, resp_events_, sockes, sock_queue_>>
  BY DEF Accept, loopVars
<1>3. /\ UNCHANGED <<sock_map_, reversed_map_, forwardVars, workerVars, got>>
      /\ UNCHANGED <<fpc, todo, incoming, packet, wpc, wdst, wpacket, wresp>>
  BY DEF proxyVars, mapVars, forwardVars, workerVars
<1>4. /\ \A f \in Fds : file[f] # None => file'[f] = file[f]
      /\ \A f \in Fds : file'[f] # None => file'[f] = file[f] \/ (f = o /\ file'[f] = c)
      /\ \A f \in Fds : file'[f] \in Links => file[f] \in Links
      /\ peer[c] = "open" /\ \A f \in Fds : file[f] # c
  BY <1>1, <1>2, Typed, NotNone DEF IndInv, BacklogIsFresh, FilesAreOpen
<1>5. FilesAreOpen'
  BY <1>2, <1>4 DEF FilesAreOpen
<1>6. NobodyCloses'
  BY <1>2, <1>3 DEF NobodyCloses
<1>7. BatchesAreClients'
  BY <1>2, <1>3, <1>4, NotNone DEF BatchesAreClients, IsClient
<1>8. Paired' /\ ForwarderHolds' /\ WorkerHolds'
  BY <1>3, <1>4, GrowPairs DEF Undisturbed
<1>9. StreamInv'
  BY <1>1, <1>2, <1>3, SamePackets, GrowStream
<1> QED
  BY <1>5, <1>6, <1>7, <1>8, <1>9 DEF After

\* Every other step of TcpServer leaves the descriptors and the messages alone.
LEMMA TcpOrder ==
  ASSUME Undisturbed, OrderInv, UNCHANGED proxyVars, UNCHANGED <<file, inq, sent>>,
         OpenInv', BatchesAreClients'
  PROVE  After
<1> USE DEF OrderInv, ContractInv, OpenInv, PairInv
<1>1. /\ UNCHANGED <<sock_map_, reversed_map_, forwardVars, workerVars, got>>
      /\ UNCHANGED <<fpc, incoming, packet, wpc, wdst, wpacket>>
  BY DEF proxyVars, mapVars, forwardVars, workerVars
<1>2. Paired' /\ ForwarderHolds' /\ WorkerHolds'
  BY <1>1, GrowPairs DEF Undisturbed
<1>3. StreamInv'
  BY <1>1, SamePackets, QuietStream
<1> QED
  BY <1>2, <1>3 DEF After

\* The rest of the main thread.
LEMMA MainOrder ==
  ASSUME Undisturbed, OrderInv, MainStep, UNCHANGED proxyVars PROVE After
<1> USE DEF OrderInv, ContractInv, OpenInv, PairInv
<1>1. CASE \E c \in Clients : Accept(c)
  BY <1>1, AcceptOrder
<1>2. UNCHANGED <<todo, wpc, wresp>>
  BY DEF proxyVars, forwardVars, workerVars
<1>3. CASE \E c \in Clients : AcceptFails(c)
  <2>1. PICK c \in Clients : AcceptFails(c)
    BY <1>3
  <2>2. /\ c \in backlog /\ backlog' = backlog \ {c} /\ peer' = [peer EXCEPT ![c] = "closed"]
        /\ UNCHANGED <<file, inq, sent, pc, resp_events_, sockes, sock_queue_>>
    BY <2>1 DEF AcceptFails, tcpVars, loopVars
  <2>3. \A f \in Fds : file[f] # c
    BY <2>2 DEF IndInv, BacklogIsFresh
  <2>4. FilesAreOpen'
    BY <2>2, <2>3, Typed DEF FilesAreOpen
  <2>5. NobodyCloses' /\ BatchesAreClients'
    BY <1>2, <2>2 DEF NobodyCloses, BatchesAreClients, IsClient
  <2> QED
    BY <2>2, <2>4, <2>5, TcpOrder
<1>4. CASE UpdateForRegister \/ RegisterWithEpoll
  <2>1. UNCHANGED <<file, inq, sent, peer, backlog, pc, resp_events_, sockes, sock_queue_>>
    <3>1. CASE UpdateForRegister
      <4>1. conn_map_[sockfd] = None
        BY <3>1 DEF UpdateForRegister, IndInv, RegisterFindsNoEntry
      <4> QED
        BY <3>1, <4>1 DEF UpdateForRegister, loopVars
    <3>2. CASE RegisterWithEpoll
      BY <3>2 DEF RegisterWithEpoll, loopVars
    <3> QED
      BY <1>4, <3>1, <3>2
  <2>2. FilesAreOpen' /\ NobodyCloses' /\ BatchesAreClients'
    BY <1>2, <2>1 DEF FilesAreOpen, NobodyCloses, BatchesAreClients, IsClient
  <2> QED
    BY <2>1, <2>2, TcpOrder
<1> QED
  BY <1>1, <1>3, <1>4 DEF MainStep

\* What epoll_wait reports while nothing is closed.
LEMMA NoClosableReported ==
  ASSUME OrderInv, NEW e, NEW f \in Fds
  PROVE  "CLOSABLE" \notin Harvest(e)[f] /\ (Harvest(e)[f] # {} =>
           f \in ready[e] /\ file[f] \in Conns /\ inq[file[f]] # <<>>)
<1> USE DEF OrderInv, ContractInv, OpenInv
<1>1. CASE f \notin Reportable(e)
  BY <1>1 DEF Harvest
<1>2. CASE f \in Reportable(e)
  <2>1. f \in ready[e] /\ file[f] # None
    BY <1>2 DEF Reportable
  <2>2. file[f] \in Conns /\ peer[file[f]] = "open"
    BY <2>1, Typed DEF FilesAreOpen
  <2>3. Harvest(e)[f] = Events(file[f])
    BY <1>2 DEF Harvest
  <2> QED
    BY <2>1, <2>2, <2>3 DEF Events
<1> QED
  BY <1>1, <1>2

\* A sub-reactor.  What it hands over are clients, because conn_map_ holds nothing else.
LEMMA LoopOrder ==
  ASSUME Undisturbed, OrderInv, NEW l \in Loops, LoopStep(l), UNCHANGED proxyVars PROVE After
<1> USE DEF OrderInv, ContractInv, OpenInv, PairInv
<1>0. /\ UNCHANGED <<todo, wpc, wresp>>
      /\ pc \in [Loops -> LoopPc] /\ resp_events_ \in [Loops -> [Fds -> SUBSET EventT]]
      /\ sockes \in [Loops -> Seq(Fds)] /\ sock_queue_ \in Seq(Seq(Fds))
  BY Typed DEF proxyVars, forwardVars, workerVars
<1>1. CASE DemultiplexWait(l)
  <2>1. /\ UNCHANGED <<file, inq, sent, peer, backlog, sockes, sock_queue_>>
        /\ pc' = [pc EXCEPT ![l] = "dispatch"]
        /\ resp_events_' = [resp_events_ EXCEPT ![l] = Harvest(l)]
    BY <1>1 DEF DemultiplexWait
  <2>2. \A j \in Loops, f \in Fds : "CLOSABLE" \notin resp_events_'[j][f]
    BY <1>0, <2>1, NoClosableReported DEF NobodyCloses
  <2>3. FilesAreOpen' /\ BatchesAreClients'
    BY <1>0, <2>1 DEF FilesAreOpen, BatchesAreClients, IsClient
  <2>4. NobodyCloses'
    BY <1>0, <2>1, <2>2 DEF NobodyCloses
  <2> QED
    BY <2>1, <2>3, <2>4, TcpOrder
<1>2. ASSUME NEW f \in Fds, SkipUnknown(l, f) \/ ForwardReadable(l, f) PROVE After
  <2>1. /\ UNCHANGED <<file, inq, sent, peer, backlog, sock_queue_, pc>>
        /\ resp_events_' = [resp_events_ EXCEPT ![l][f] = {}]
        /\ \/ sockes' = sockes
           \/ conn_map_[f] # None /\ sockes' = [sockes EXCEPT ![l] = Append(@, f)]
    BY <1>2 DEF SkipUnknown, ForwardReadable, Handled, kernelVars
  <2>2. \A j \in Loops, g \in Fds : "CLOSABLE" \notin resp_events_'[j][g]
    BY <1>0, <2>1 DEF NobodyCloses
  <2>3. FilesAreOpen' /\ NobodyCloses'
    BY <1>0, <2>1, <2>2 DEF FilesAreOpen, NobodyCloses
  <2>4. BatchesAreClients'
    <3>1. CASE sockes' = sockes
      BY <1>0, <2>1, <3>1 DEF BatchesAreClients, IsClient
    <3>2. CASE conn_map_[f] # None /\ sockes' = [sockes EXCEPT ![l] = Append(@, f)]
      <4>1. IsClient(f)
        BY <3>2 DEF IsClient, IndInv, TypeOK, TcpTypeOK, ConnMapMatchesDescriptors
      <4>2. sockes[l] \in Seq(Fds) /\ sockes'[l] = Append(sockes[l], f)
        BY <1>0, <3>2
      <4>3. \A i \in 1..Len(sockes'[l]) : sockes'[l][i] = f
                                            \/ (i \in 1..Len(sockes[l]) /\ sockes'[l][i] = sockes[l][i])
        BY <4>2, AppendProperties, LenProperties
      <4>4. \A j \in Loops : j # l => sockes'[j] = sockes[j]
        BY <1>0, <3>2
      <4>5. \A j \in Loops : \A i \in 1..Len(sockes'[j]) : IsClient(sockes'[j][i])
        BY <4>1, <4>3, <4>4 DEF BatchesAreClients
      <4> QED
        BY <1>0, <2>1, <4>5 DEF BatchesAreClients, IsClient
    <3> QED
      BY <2>1, <3>1, <3>2
  <2> QED
    BY <2>1, <2>3, <2>4, TcpOrder
<1>3. CASE NotifyBalance(l)
  <2>1. /\ UNCHANGED <<file, inq, sent, peer, backlog, resp_events_>>
        /\ sock_queue_' = Append(sock_queue_, sockes[l])
        /\ sockes' = [sockes EXCEPT ![l] = <<>>]
        /\ pc' = [pc EXCEPT ![l] = "wait"]
    BY <1>3 DEF NotifyBalance, kernelVars
  <2>2. FilesAreOpen' /\ NobodyCloses'
    BY <1>0, <2>1 DEF FilesAreOpen, NobodyCloses
  <2>3. \A n \in 1..Len(sock_queue_') :
          \/ n \in 1..Len(sock_queue_) /\ sock_queue_'[n] = sock_queue_[n]
          \/ sock_queue_'[n] = sockes[l]
    <3>1. sockes[l] \in Seq(Fds)
      BY <1>0
    <3> QED
      BY <1>0, <2>1, <3>1, AppendProperties, LenProperties
  <2>4. \A j \in Loops : sockes'[j] \in {sockes[j], <<>>}
    BY <1>0, <2>1
  <2>5. \A j \in Loops : \A i \in 1..Len(sockes'[j]) : IsClient(sockes'[j][i])
    BY <2>4 DEF BatchesAreClients
  <2>6. \A n \in 1..Len(sock_queue_') : \A i \in 1..Len(sock_queue_'[n]) :
          IsClient(sock_queue_'[n][i])
    BY <2>3 DEF BatchesAreClients
  <2>7. BatchesAreClients'
    BY <1>0, <2>1, <2>5, <2>6 DEF BatchesAreClients, IsClient
  <2> QED
    BY <2>1, <2>2, <2>7, TcpOrder
<1>4. ASSUME NEW f \in Fds, IteratorInvalidated(l, f) PROVE After
  <2>1. /\ UNCHANGED <<file, inq, sent, peer, backlog, resp_events_, sockes, sock_queue_>>
        /\ pc' = [pc EXCEPT ![l] = "crash"]
        /\ MayRehash \/ \E m \in Loops : pc[m] \in {"erase", "eraseAgain"}
    BY <1>4 DEF IteratorInvalidated, kernelVars
  <2>2. MayRehash
    BY <2>1 DEF NobodyCloses
  <2>3. FilesAreOpen' /\ NobodyCloses'
    BY <1>0, <2>1, <2>2 DEF FilesAreOpen, NobodyCloses
  <2>4. BatchesAreClients'
    BY <1>0, <2>1 DEF BatchesAreClients, IsClient
  <2> QED
    BY <2>1, <2>3, <2>4, TcpOrder
<1> QED
  BY <1>1, <1>2, <1>3, <1>4, NothingTearsDown DEF LoopStep
-----------------------------------------------------------------------------
(* The steps of the forwarding thread.                                     *)

\* What these steps have in common: nothing is opened or closed, and the maps stay.
LEMMA ForwardOrder ==
  ASSUME Undisturbed, OrderInv,
         UNCHANGED <<file, peer, backlog, pc, resp_events_, sockes, mapVars, workerVars>>,
         \A n \in 1..Len(sock_queue_') : \A i \in 1..Len(sock_queue_'[n]) :
           IsClient(sock_queue_'[n][i]),
         \A f \in todo' : IsClient(f),
         fpc # "emplace", ForwarderHolds'
  PROVE  OpenInv' /\ PairInv'
<1> USE DEF OrderInv, ContractInv, OpenInv, PairInv, mapVars, workerVars
<1>1. FilesAreOpen' /\ NobodyCloses'
  BY DEF FilesAreOpen, NobodyCloses
<1>2. BatchesAreClients'
  BY DEF BatchesAreClients, IsClient
<1>3. Paired'
  BY DEF Paired
<1>4. WorkerHolds'
  BY DEF WorkerHolds
<1> QED
  BY <1>1, <1>2, <1>3, <1>4

\* The steps that move no message.
LEMMA ForwardQuietOrder ==
  ASSUME Undisturbed, OrderInv, UNCHANGED tcpVars,
         \/ BatchDone \/ EstablishThrows \/ LookupLink \/ EnterForward(Unaccounted)
         \/ \E f \in Fds : CheckLink(f)
  PROVE  After
<1> USE DEF OrderInv, ContractInv, OpenInv, PairInv
<1>1. /\ UNCHANGED <<file, peer, backlog, inq, sent, got, pc, resp_events_, sockes, sock_queue_,
                     mapVars, workerVars, packet>>
      /\ fpc \notin {"emplace", "send"} /\ fpc' # "send" /\ todo' \subseteq todo
  BY DEF BatchDone, EstablishThrows, LookupLink, EnterForward, CheckLink, kernelVars, tcpVars, loopVars
<1>2. ForwarderHolds'
  <2>1. UNCHANGED <<file, reversed_map_>>
    BY <1>1 DEF mapVars
  <2>2. CASE BatchDone \/ EstablishThrows
    BY <2>2 DEF BatchDone, EstablishThrows, ForwarderHolds
  <2>3. CASE LookupLink
    BY <2>1, <2>3 DEF LookupLink, ForwarderHolds
  <2>4. CASE EnterForward(Unaccounted)
    BY <2>1, <2>4, NotNone DEF EnterForward, ForwarderHolds
  <2>5. CASE \E f \in Fds : CheckLink(f)
    BY <2>1, <2>5 DEF CheckLink, ForwarderHolds, BatchesAreClients, IsClient
  <2> QED
    BY <2>2, <2>3, <2>4, <2>5
<1>3. OpenInv' /\ PairInv'
  <2>1. \A n \in 1..Len(sock_queue_') : \A i \in 1..Len(sock_queue_'[n]) :
          IsClient(sock_queue_'[n][i])
    BY <1>1 DEF BatchesAreClients
  <2>2. \A f \in todo' : IsClient(f)
    BY <1>1 DEF BatchesAreClients
  <2> QED
    BY <1>1, <1>2, <2>1, <2>2, ForwardOrder
<1>4. StreamInv'
  <2>1. \A f \in Fds : PacketOf(f)' = PacketOf(f) /\ AnswersOf(f)' = AnswersOf(f)
    BY <1>1 DEF PacketOf, AnswersOf, workerVars
  <2> QED
    BY <1>1, <2>1, QuietStream DEF mapVars
<1> QED
  BY <1>3, <1>4 DEF After

\* A batch is taken.
LEMMA TakeBatchOrder == ASSUME Undisturbed, OrderInv, TakeBatch PROVE After
<1> USE DEF OrderInv, ContractInv, OpenInv, PairInv
<1>1. /\ UNCHANGED <<file, peer, backlog, inq, sent, got, pc, resp_events_, sockes, mapVars,
                     workerVars, packet, incoming>>
      /\ fpc = "idle" /\ fpc' = "next"
      /\ todo' = {Head(sock_queue_)[i] : i \in DOMAIN Head(sock_queue_)}
      /\ sock_queue_ # <<>> /\ sock_queue_' = Tail(sock_queue_)
  BY DEF TakeBatch, UpdateForForward, kernelVars, loopVars
<1>2. /\ sock_queue_ \in Seq(Seq(Fds)) /\ Head(sock_queue_) = sock_queue_[1]
      /\ Head(sock_queue_) \in Seq(Fds)
      /\ 1 \in 1..Len(sock_queue_) /\ Len(sock_queue_') = Len(sock_queue_) - 1
      /\ \A n \in 1..Len(sock_queue_') : n + 1 \in 1..Len(sock_queue_)
                                           /\ sock_queue_'[n] = sock_queue_[n + 1]
  BY <1>1, Typed, HeadTailProperties, LenProperties
<1>3. DOMAIN Head(sock_queue_) = 1..Len(Head(sock_queue_))
  BY <1>2, LenProperties
<1>4. ASSUME NEW f \in todo' PROVE IsClient(f)
  <2>1. PICK i \in 1..Len(Head(sock_queue_)) : f = Head(sock_queue_)[i]
    BY <1>1, <1>3
  <2>2. i \in 1..Len(sock_queue_[1]) /\ f = sock_queue_[1][i]
    BY <1>2, <2>1
  <2> QED
    BY <1>2, <2>2 DEF BatchesAreClients
<1>5. \A n \in 1..Len(sock_queue_') : \A i \in 1..Len(sock_queue_'[n]) :
        IsClient(sock_queue_'[n][i])
  BY <1>2 DEF BatchesAreClients
<1>6. ForwarderHolds'
  BY <1>1 DEF ForwarderHolds
<1>7. OpenInv' /\ PairInv'
  BY <1>1, <1>4, <1>5, <1>6, ForwardOrder
<1>8. StreamInv'
  <2>1. \A f \in Fds : PacketOf(f)' = PacketOf(f) /\ AnswersOf(f)' = AnswersOf(f)
    BY <1>1 DEF PacketOf, AnswersOf, workerVars
  <2> QED
    BY <1>1, <2>1, QuietStream DEF mapVars
<1> QED
  BY <1>7, <1>8 DEF After

\* A link is opened for a client that has none.
LEMMA EstablishOrder ==
  ASSUME Undisturbed, OrderInv, UNCHANGED tcpVars, NEW k \in Links, EstablishWith(k) PROVE After
<1> USE DEF OrderInv, ContractInv, OpenInv, PairInv
<1>1. PICK o \in Fds : file[o] = None /\ sock' = o /\ file' = [file EXCEPT ![o] = k]
  BY DEF EstablishWith, LowestFree
<1>2. /\ peer[k] = "new" /\ peer' = [peer EXCEPT ![k] = "open"]
      /\ fpc = "establish" /\ fpc' = "emplace"
      /\ UNCHANGED <<inq, sent, backlog, mapVars, todo, incoming, source, packet, workerVars, got,
                     pc, resp_events_, sockes, sock_queue_>>
  BY DEF EstablishWith, tcpVars, loopVars
<1>3. /\ \A f \in Fds : file[f] # None => file'[f] = file[f]
      /\ \A f \in Fds : file'[f] # None => file'[f] = file[f] \/ (f = o /\ file'[f] = k)
      /\ file'[o] = k /\ k # None /\ k \notin Clients
      /\ \A f \in Fds : file[f] # k
      /\ \A c \in Conns : c # k => peer'[c] = peer[c]
      /\ peer'[k] = "open"
  <2>1. k \in Conns /\ k # None /\ k \notin Clients
    BY NotNone
  <2>2. \A f \in Fds : file[f] # k
    BY <1>2, <2>1 DEF FilesAreOpen
  <2> QED
    BY <1>1, <1>2, <2>1, <2>2, Typed
<1>4. FilesAreOpen'
  <2>1. \A c \in backlog : c \in Conns /\ c # k
    BY <1>3, NotNone DEF RTypeInv, RTypeOK, TypeOK, KernelTypeOK
  <2>2. \A f \in Fds : file[f] # None => file[f] \in Conns
    BY Typed
  <2> QED
    BY <1>2, <1>3, <2>1, <2>2 DEF FilesAreOpen
<1>5. NobodyCloses'
  BY <1>2 DEF NobodyCloses, workerVars
<1>6. BatchesAreClients'
  BY <1>2, <1>3, NotNone DEF BatchesAreClients, IsClient
<1>7. sock_map_[o] = None
  BY <1>1, NotNone DEF Paired
<1>8. Paired'
  <2>1. \A g \in Fds : sock_map_[g] # None =>
          /\ file'[g] \in Links /\ file'[sock_map_[g]] \in Clients
          /\ reversed_map_[sock_map_[g]] = g
    BY <1>3, PairTypes, NotNone
  <2>2. \A g \in Fds : file'[g] \in Links => sock_map_[g] # None \/ g = o
    BY <1>2, <1>3, NotNone DEF Paired
  <2>3. \A f \in Fds : reversed_map_[f] # None => sock_map_[reversed_map_[f]] = f
    BY DEF Paired
  <2> QED
    BY <1>1, <1>2, <2>1, <2>2, <2>3 DEF Paired, mapVars
<1>9. ForwarderHolds'
  <2>1. incoming \in Fds /\ file[incoming] \in Clients /\ reversed_map_[incoming] = None
    BY <1>2 DEF ForwarderHolds, RTypeInv, ProxyHolds
  <2>2. file'[incoming] \in Clients
    BY <1>3, <2>1, NotNone
  <2> QED
    BY <1>1, <1>2, <1>3, <1>7, <2>1, <2>2 DEF ForwarderHolds, mapVars
<1>10. WorkerHolds'
  <2>1. wpc[W] = "read" => wfd[W] \in Fds /\ file'[wfd[W]] = file[wfd[W]]
    BY <1>3, HeldIsOpen, NotNone DEF Undisturbed
  <2> QED
    BY <1>2, <2>1 DEF WorkerHolds, workerVars, mapVars
<1>11. StreamInv'
  <2>1. \A f \in Fds : PacketOf(f)' = PacketOf(f) /\ AnswersOf(f)' = AnswersOf(f)
    BY <1>2 DEF PacketOf, AnswersOf, workerVars
  <2> QED
    BY <1>1, <1>2, <2>1, GrowStream DEF mapVars
<1> QED
  BY <1>4, <1>5, <1>6, <1>8, <1>9, <1>10, <1>11 DEF After

\* The new pair enters the maps: nothing has been read from the client, or sent on the link.
LEMMA EmplaceOrder ==
  ASSUME Undisturbed, OrderInv, UNCHANGED tcpVars, EmplaceLink PROVE After
<1> USE DEF OrderInv, ContractInv, OpenInv, PairInv
<1>1. /\ fpc = "emplace" /\ fpc' = "lookup"
      /\ UNCHANGED <<file, inq, peer, sent, backlog, todo, incoming, sock, source, packet,
                     workerVars, got, pc, resp_events_, sockes, sock_queue_>>
      /\ reversed_map_' = [reversed_map_ EXCEPT ![incoming] = sock]
  BY DEF EmplaceLink, tcpVars, loopVars
<1>0. PICK f \in Fds, g \in Fds : f = incoming /\ g = sock
  BY <1>1 DEF RTypeInv, ProxyHolds
<1>2. /\ f \in Fds /\ g \in Fds /\ file[f] \in Clients /\ file[g] \in Links
      /\ reversed_map_[f] = None /\ sock_map_[g] = None
  BY <1>0, <1>1 DEF ForwarderHolds
<1>3. sock_map_' = [sock_map_ EXCEPT ![g] = f]
  BY <1>0, <1>2 DEF EmplaceLink
<1>4. /\ f # None /\ g # None
      /\ sock_map_'[g] = f /\ \A h \in Fds : h # g => sock_map_'[h] = sock_map_[h]
      /\ reversed_map_'[f] = g /\ \A h \in Fds : h # f => reversed_map_'[h] = reversed_map_[h]
  BY <1>0, <1>1, <1>2, <1>3, Typed, NotNone
<1>5. FilesAreOpen' /\ NobodyCloses' /\ BatchesAreClients'
  BY <1>1 DEF FilesAreOpen, NobodyCloses, BatchesAreClients, IsClient, workerVars
<1>6. \A h \in Fds : sock_map_[h] # None =>
        h # g /\ sock_map_[h] \in Fds /\ sock_map_[h] # f /\ reversed_map_[sock_map_[h]] = h
          /\ file[h] \in Links /\ file[sock_map_[h]] \in Clients
  BY <1>2, PairTypes, NotNone
<1>7. Paired'
  <2>1. \A h \in Fds : sock_map_'[h] # None =>
          /\ file'[h] \in Links /\ file'[sock_map_'[h]] \in Clients
          /\ reversed_map_'[sock_map_'[h]] = h
    BY <1>1, <1>2, <1>4, <1>6
  <2>2. \A h \in Fds : reversed_map_'[h] # None => sock_map_'[reversed_map_'[h]] = h
    <3> SUFFICES ASSUME NEW h \in Fds, reversed_map_'[h] # None
                 PROVE  sock_map_'[reversed_map_'[h]] = h
      OBVIOUS
    <3>1. CASE h = f
      BY <1>4, <3>1
    <3>2. CASE h # f
      <4>1. reversed_map_'[h] = reversed_map_[h] /\ reversed_map_[h] \in Fds
        BY <1>4, <3>2, Typed
      <4>2. sock_map_[reversed_map_[h]] = h
        BY <4>1, NotNone DEF Paired
      <4>3. reversed_map_[h] # g
        BY <1>2, <4>2, NotNone
      <4> QED
        BY <1>4, <4>1, <4>2, <4>3
    <3> QED
      BY <3>1, <3>2
  <2>3. \A h \in Fds : file'[h] \in Links => sock_map_'[h] # None
    BY <1>0, <1>1, <1>2, <1>4 DEF Paired
  <2> QED
    BY <2>1, <2>2, <2>3 DEF Paired
<1>8. ForwarderHolds'
  BY <1>0, <1>1, <1>2, <1>4 DEF ForwarderHolds
<1>9. WorkerHolds'
  <2>1. wpc[W] \in {"read", "send"} => wfd[W] \in Fds /\ wfd[W] # g /\ sock_map_[wfd[W]] = wdst[W]
    BY <1>2, HeldIsOpen, NotNone DEF Undisturbed
  <2> QED
    BY <1>1, <1>2, <1>4, <2>1 DEF WorkerHolds, workerVars
<1>10. \A h \in Fds : PacketOf(h)' = <<>> /\ PacketOf(h) = <<>> /\ AnswersOf(h)' = AnswersOf(h)
  BY <1>1 DEF PacketOf, AnswersOf, workerVars
<1>11. AnswersOf(f) = <<>>
  BY <1>2, HeldIsOpen, NotNone DEF AnswersOf, Undisturbed, Paired
<1>12. StreamInv'
  <2>1. UnreadRequests'
    BY <1>1 DEF StreamInv, UnreadRequests, Numbered
  <2>2. UnservedClients'
    <3> SUFFICES ASSUME NEW c \in Clients, \A h \in Fds : file[h] = c => reversed_map_'[h] = None
                 PROVE  Len(inq[c]) = sent[c] /\ got[c] = <<>>
      BY <1>1 DEF UnservedClients
    <3>1. \A h \in Fds : file[h] = c => reversed_map_[h] = None
      BY <1>2, <1>4
    <3> QED
      BY <3>1 DEF StreamInv, UnservedClients
  <2>3. UnusedLinks'
    <3> SUFFICES ASSUME NEW k \in Links, \A h \in Fds : file[h] = k => sock_map_'[h] = None
                 PROVE  got[k] = <<>> /\ inq[k] = <<>> /\ sent[k] = 0
      BY <1>1 DEF UnusedLinks
    <3>1. \A h \in Fds : file[h] = k => sock_map_[h] = None
      BY <1>2, <1>4
    <3> QED
      BY <3>1 DEF StreamInv, UnusedLinks
  <2>4. Len(inq[file[f]]) = sent[file[f]] /\ got[file[f]] = <<>>
    <3>1. \A h \in Fds : file[h] = file[f] => reversed_map_[h] = None
      BY <1>2, NotNone DEF FilesAreOpen
    <3> QED
      BY <1>2, <3>1 DEF StreamInv, UnservedClients
  <2>5. got[file[g]] = <<>> /\ inq[file[g]] = <<>> /\ sent[file[g]] = 0
    <3>1. \A h \in Fds : file[h] = file[g] => sock_map_[h] = None
      BY <1>2, NotNone DEF FilesAreOpen
    <3> QED
      BY <1>2, <3>1 DEF StreamInv, UnusedLinks
  <2>6. Requests(f, g)' /\ Answers(f, g)'
    <3>1. PacketOf(f)' = <<>> /\ AnswersOf(f)' = <<>>
      BY <1>2, <1>10, <1>11
    <3>2. sent[file[f]] \in Nat
      BY <1>2, Typed, NotNone
    <3> HIDE DEF PacketOf, AnswersOf
    <3>4. Requests(f, g)'
      BY <1>1, <2>4, <2>5, <3>1, <3>2, NumberedEmpty DEF Requests, Numbered
    <3>5. Answers(f, g)'
      BY <1>1, <2>4, <2>5, <3>1, NumberedEmpty DEF Answers, Numbered
    <3> QED
      BY <3>4, <3>5
  <2>7. ASSUME NEW e \in Fds, NEW h \in Fds, sock_map_'[h] = e, h # g
        PROVE  Requests(e, h)' /\ Answers(e, h)'
    <3>1. sock_map_[h] = e
      BY <1>4, <2>7
    <3>2. Requests(e, h) /\ Answers(e, h)
      BY <3>1 DEF StreamInv, Streams
    <3>3. PacketOf(e)' = PacketOf(e) /\ AnswersOf(e)' = AnswersOf(e)
      BY <1>10
    <3> QED
      BY <1>1, <3>2, <3>3, SameStream
  <2>8. Streams'
    BY <1>4, <2>6, <2>7 DEF Streams
  <2> QED
    BY <2>1, <2>2, <2>3, <2>8 DEF StreamInv
<1> QED
  BY <1>5, <1>7, <1>8, <1>9, <1>12 DEF After

\* read(): the first of the unread requests become the packet.
LEMMA ForwardReadOrder ==
  ASSUME Undisturbed, OrderInv, UNCHANGED tcpVars, ForwardRead PROVE After
<1> USE DEF OrderInv, ContractInv, OpenInv, PairInv
<1>1. /\ fpc = "read" /\ fpc' = "send" /\ packet' \in ReadFrom(source) /\ inq' = AfterRead(source)
      /\ UNCHANGED <<file, peer, backlog, sent, got, mapVars, workerVars, todo, incoming, sock,
                     pc, resp_events_, sockes, sock_queue_>>
  BY DEF ForwardRead, tcpVars, loopVars
<1>2. PICK f \in Fds, g \in Fds :
        /\ f = incoming /\ g = sock /\ sock_map_[g] = f /\ reversed_map_[f] = g
        /\ file[f] \in Clients /\ file[g] \in Links
  BY <1>1, HeldIsOpen DEF Undisturbed
<1>3. PICK c \in Clients, k \in Links : c = file[f] /\ k = file[g]
  BY <1>2
<1>4. /\ c \in Conns /\ k \in Conns /\ c # k /\ source = c /\ c # None
      /\ inq[c] \in Seq(Msgs) /\ got[k] \in Seq(Msgs) /\ sent[c] \in Nat /\ peer[c] = "open"
  BY <1>1, <1>2, <1>3, Typed, NotNone DEF ForwarderHolds, FilesAreOpen
<1>n. PICK x \in Nat, y \in Nat, z \in Nat :
        x = Len(got[k]) /\ y = Len(inq[c]) /\ z = sent[c]
  BY <1>4, LenProperties
<1>d. x \in Nat /\ y \in Nat /\ z \in Nat
  OBVIOUS
<1>5. /\ packet' = Prefix(inq[c], ReadMax) /\ inq'[c] = Suffix(inq[c], ReadMax)
      /\ \A d \in Conns : d # c => inq'[d] = inq[d]
  BY <1>1, <1>4, Typed DEF ReadFrom, MayFail, AfterRead
<1>6. OpenInv' /\ PairInv'
  <2>1. ForwarderHolds'
    BY <1>1, <1>2 DEF ForwarderHolds, mapVars
  <2>2. \A n \in 1..Len(sock_queue_') : \A i \in 1..Len(sock_queue_'[n]) :
          IsClient(sock_queue_'[n][i])
    BY <1>1 DEF BatchesAreClients
  <2>3. \A h \in todo' : IsClient(h)
    BY <1>1 DEF BatchesAreClients
  <2> QED
    BY <1>1, <2>1, <2>2, <2>3, ForwardOrder
<1>7. PacketOf(f) = <<>> /\ PacketOf(f)' = packet' /\ AnswersOf(f)' = AnswersOf(f)
  BY <1>1, <1>2 DEF PacketOf, AnswersOf, workerVars
<1>8. \A h \in Fds : h # f => PacketOf(h)' = PacketOf(h) /\ AnswersOf(h)' = AnswersOf(h)
  BY <1>1, <1>2 DEF PacketOf, AnswersOf, workerVars
<1>9. Requests(f, g) /\ Answers(f, g)
  BY <1>2 DEF StreamInv, Streams
<1>10. Numbered(got[k], c, 0) /\ x + y = z
  <2>1. Numbered(got[k], c, 0) /\ Len(got[k]) + Len(PacketOf(f)) + Len(inq[c]) = sent[c]
    BY <1>3, <1>9 DEF Requests
  <2>2. Len(PacketOf(f)) = 0
    BY <1>7
  <2>3. x + 0 + y = z
    BY <1>n, <2>1, <2>2
  <2> QED
    BY <1>d, <2>1, <2>3
<1>11. Numbered(inq[c], c, Len(got[k]))
  <2>1. Numbered(inq[c], c, z - y)
    BY <1>n DEF StreamInv, UnreadRequests
  <2>2. z - y = x
    BY <1>d, <1>10
  <2> QED
    BY <1>n, <2>1, <2>2
<1>12. /\ packet' \in Seq(Msgs) /\ inq'[c] \in Seq(Msgs)
       /\ Numbered(packet', c, Len(got[k]))
       /\ Numbered(inq'[c], c, Len(got[k]) + Len(packet'))
       /\ Len(packet') + Len(inq'[c]) = Len(inq[c])
  <2>1. PICK s \in Seq(Msgs) : s = inq[c]
    BY <1>4
  <2>2. Numbered(s, c, x)
    BY <1>11, <1>n, <2>1
  <2>3. /\ Prefix(s, ReadMax) \in Seq(Msgs) /\ Suffix(s, ReadMax) \in Seq(Msgs)
        /\ Len(Prefix(s, ReadMax)) + Len(Suffix(s, ReadMax)) = Len(s)
        /\ Numbered(Prefix(s, ReadMax), c, x)
        /\ Numbered(Suffix(s, ReadMax), c, x + Len(Prefix(s, ReadMax)))
    BY <2>2, NumberedRead
  <2> QED
    BY <1>5, <1>n, <2>1, <2>3
<1>13. PICK p \in Nat, q \in Nat : p = Len(packet') /\ q = Len(inq'[c]) /\ p + q = Len(inq[c])
  BY <1>12, LenProperties
<1>m. p \in Nat /\ q \in Nat /\ p + q = y
  BY <1>n, <1>13
<1>14. Requests(f, g)'
  <2>1. x + p + q = z
    BY <1>d, <1>10, <1>m
  <2>2. Len(got[k]) + Len(packet') + Len(inq'[c]) = sent[c]
    BY <1>n, <1>13, <2>1
  <2> HIDE DEF PacketOf
  <2> QED
    BY <1>1, <1>3, <1>7, <1>10, <1>12, <2>2 DEF Requests, Numbered
<1>15. Answers(f, g)'
  <2>1. inq'[k] = inq[k]
    BY <1>4, <1>5
  <2> HIDE DEF AnswersOf
  <2> QED
    BY <1>1, <1>3, <1>7, <1>9, <2>1 DEF Answers, Numbered
<1>16. /\ Len(inq'[c]) <= sent'[c] /\ Numbered(inq'[c], c, sent'[c] - Len(inq'[c]))
  <2>1. sent'[c] = z /\ Len(inq'[c]) = q /\ Len(got[k]) + Len(packet') = x + p
    BY <1>1, <1>n, <1>13
  <2>2. z - q = x + p /\ q <= z
    BY <1>d, <1>10, <1>m
  <2>3. Numbered(inq'[c], c, x + p)
    BY <1>12, <2>1
  <2> QED
    BY <2>1, <2>2, <2>3
<1>17. StreamInv'
  BY <1>1, <1>2, <1>3, <1>5, <1>8, <1>14, <1>15, <1>16, OneStream DEF mapVars
<1> QED
  BY <1>6, <1>17 DEF After

\* send(): the packet goes out on the client's own link.
LEMMA ForwardSendOrder ==
  ASSUME Undisturbed, OrderInv, UNCHANGED tcpVars, ForwardSend PROVE After
<1> USE DEF OrderInv, ContractInv, OpenInv, PairInv
<1>1. /\ fpc = "send" /\ fpc' = "next" /\ got' = Delivered(sock, packet)
      /\ UNCHANGED <<file, peer, backlog, inq, sent, mapVars, workerVars, todo, incoming, sock,
                     pc, resp_events_, sockes, sock_queue_>>
  BY NothingTearsDown DEF ForwardSend, tcpVars, loopVars, kernelVars
<1>2. PICK f \in Fds, g \in Fds :
        /\ f = incoming /\ g = sock /\ sock_map_[g] = f /\ reversed_map_[f] = g
        /\ file[f] \in Clients /\ file[g] \in Links
  BY <1>1, HeldIsOpen DEF Undisturbed
<1>3. PICK c \in Clients, k \in Links : c = file[f] /\ k = file[g]
  BY <1>2
<1>4. /\ c \in Conns /\ k \in Conns /\ c # k /\ k # None /\ peer[k] = "open"
      /\ packet \in Seq(Msgs) /\ got[k] \in Seq(Msgs) /\ inq[c] \in Seq(Msgs)
      /\ sent[k] \in Nat /\ sent[c] \in Nat
  BY <1>2, <1>3, Typed, NotNone DEF FilesAreOpen
<1>n. PICK x \in Nat, y \in Nat, z \in Nat, p \in Nat, t \in Nat :
        /\ x = Len(got[k]) /\ y = Len(inq[c]) /\ z = sent[c]
        /\ p = Len(packet) /\ t = sent[k]
  BY <1>4, LenProperties
<1>d. x \in Nat /\ y \in Nat /\ z \in Nat /\ p \in Nat /\ t \in Nat
  OBVIOUS
<1>5. got'[k] = got[k] \o packet /\ \A d \in Conns : d # k => got'[d] = got[d]
  BY <1>1, <1>2, <1>3, <1>4, Typed DEF Delivered
<1>6. OpenInv' /\ PairInv'
  <2>1. ForwarderHolds'
    BY <1>1 DEF ForwarderHolds
  <2>2. \A n \in 1..Len(sock_queue_') : \A i \in 1..Len(sock_queue_'[n]) :
          IsClient(sock_queue_'[n][i])
    BY <1>1 DEF BatchesAreClients
  <2>3. \A h \in todo' : IsClient(h)
    BY <1>1 DEF BatchesAreClients
  <2> QED
    BY <1>1, <2>1, <2>2, <2>3, ForwardOrder
<1>7. PacketOf(f) = packet /\ PacketOf(f)' = <<>> /\ AnswersOf(f)' = AnswersOf(f)
  BY <1>1, <1>2 DEF PacketOf, AnswersOf, workerVars
<1>8. \A h \in Fds : h # f => PacketOf(h)' = PacketOf(h) /\ AnswersOf(h)' = AnswersOf(h)
  BY <1>1, <1>2 DEF PacketOf, AnswersOf, workerVars
<1>9. Requests(f, g) /\ Answers(f, g)
  BY <1>2 DEF StreamInv, Streams
<1>10. /\ Numbered(got[k], c, 0) /\ Numbered(packet, c, 0 + Len(got[k]))
       /\ Len(got[k]) + Len(packet) + Len(inq[c]) = sent[c]
  <2>1. 0 + Len(got[k]) = Len(got[k])
    BY <1>n, <1>d
  <2> HIDE DEF PacketOf
  <2> QED
    BY <1>3, <1>7, <1>9, <2>1 DEF Requests
<1>11. Numbered(got'[k], c, 0) /\ Len(got'[k]) = Len(got[k]) + Len(packet)
  BY <1>4, <1>5, <1>10, NumberedConcat
<1>12. Requests(f, g)'
  <2>0. x + p + y = z
    BY <1>n, <1>10
  <2>1. Len(got'[k]) + 0 + Len(inq[c]) = sent[c]
    <3>1. (x + p) + 0 + y = z
      BY <1>d, <2>0
    <3> QED
      BY <1>n, <1>11, <3>1
  <2>2. Numbered(<<>>, c, Len(got'[k])) /\ Len(<<>>) = 0
    BY NumberedEmpty
  <2> HIDE DEF PacketOf
  <2> QED
    BY <1>1, <1>3, <1>7, <1>11, <2>1, <2>2 DEF Requests, Numbered
<1>13. Answers(f, g)'
  <2>1. got'[c] = got[c]
    BY <1>4, <1>5
  <2>2. sent[k] <= Len(got'[k])
    <3>1. t <= x
      BY <1>3, <1>9, <1>n DEF Answers
    <3>2. t <= x + p
      BY <1>d, <3>1
    <3> QED
      BY <1>n, <1>11, <3>2
  <2> HIDE DEF AnswersOf
  <2> QED
    BY <1>1, <1>3, <1>7, <1>9, <2>1, <2>2 DEF Answers, Numbered
<1>14. /\ Len(inq'[c]) <= sent'[c] /\ Numbered(inq'[c], c, sent'[c] - Len(inq'[c]))
  BY <1>1 DEF StreamInv, UnreadRequests, Numbered
<1>15. StreamInv'
  BY <1>1, <1>2, <1>3, <1>5, <1>8, <1>12, <1>13, <1>14, OneStream DEF mapVars
<1> QED
  BY <1>6, <1>15 DEF After

\* The forwarding thread.
LEMMA ForwarderOrder ==
  ASSUME Undisturbed, OrderInv, TakeBatch \/ ForwardStep PROVE After
BY TakeBatchOrder, ForwardQuietOrder, EstablishOrder, EmplaceOrder, ForwardReadOrder,
   ForwardSendOrder DEF ForwardStep
-----------------------------------------------------------------------------
(* The steps of the worker.                                                *)

\* What these steps have in common.
LEMMA WorkerOrder ==
  ASSUME Undisturbed, OrderInv, UNCHANGED tcpVars,
         UNCHANGED <<file, peer, backlog, mapVars, forwardVars>>,
         wpc'[W] \in {"wait", "dispatch", "read", "send"},
         \A f \in Fds : "CLOSABLE" \notin wresp'[W][f],
         WorkerHolds'
  PROVE  OpenInv' /\ PairInv'
<1> USE DEF OrderInv, ContractInv, OpenInv, PairInv, mapVars, forwardVars
<1>1. UNCHANGED <<pc, resp_events_, sockes, sock_queue_>>
  BY DEF tcpVars, loopVars
<1>2. FilesAreOpen' /\ NobodyCloses'
  BY <1>1 DEF FilesAreOpen, NobodyCloses
<1>3. BatchesAreClients'
  BY <1>1 DEF BatchesAreClients, IsClient
<1>4. Paired' /\ ForwarderHolds'
  BY DEF Paired, ForwarderHolds
<1> QED
  BY <1>2, <1>3, <1>4

\* epoll_wait reports links that have answers, and those are in the maps: that updateForWait
\* finds an entry is what at() relies on.
LEMMA WorkerWaitOrder ==
  ASSUME Undisturbed, OrderInv, UNCHANGED tcpVars, WorkerWait(W) PROVE After
<1> USE DEF OrderInv, ContractInv, OpenInv, PairInv
<1>1. /\ wresp' = [wresp EXCEPT ![W] = Harvest(W)] /\ wpc' = [wpc EXCEPT ![W] = "dispatch"]
      /\ wpc[W] = "wait"
      /\ UNCHANGED <<file, inq, peer, sent, backlog, mapVars, forwardVars, wfd, wdst, wsource,
                     wpacket, got>>
  BY DEF WorkerWait
<1>2. W \in Workers /\ wresp'[W] = Harvest(W) /\ wpc'[W] = "dispatch"
  BY <1>1, TheWorker, Typed DEF Undisturbed
<1>3. \A f \in Fds : "CLOSABLE" \notin wresp'[W][f]
  BY <1>2, NoClosableReported
<1>4. ASSUME NEW f \in Fds, wresp'[W][f] # {} PROVE sock_map_[f] # None
  <2>1. f \in ready[W] /\ inq[file[f]] # <<>> /\ file[f] \in Conns
    BY <1>2, <1>4, NoClosableReported
  <2>2. file[f] \in Links
    BY <1>2, <2>1, NotNone DEF LinksInv, WorkersWatchLinks
  <2>3. \E h \in Fds : file[h] = file[f] /\ sock_map_[h] # None
    BY <2>1, <2>2 DEF StreamInv, UnusedLinks
  <2> QED
    BY <2>1, <2>3, NotNone DEF FilesAreOpen
<1>5. WorkerHolds'
  BY <1>1, <1>2, <1>4 DEF WorkerHolds, mapVars
<1>6. OpenInv' /\ PairInv'
  BY <1>1, <1>2, <1>3, <1>5, WorkerOrder
<1>7. \A f \in Fds : PacketOf(f)' = PacketOf(f) /\ AnswersOf(f)' = AnswersOf(f)
  BY <1>1, <1>2 DEF PacketOf, AnswersOf, forwardVars
<1>8. StreamInv'
  BY <1>1, <1>7, QuietStream DEF mapVars
<1> QED
  BY <1>6, <1>8 DEF After

\* The steps between that move no message.
LEMMA WorkerQuietOrder ==
  ASSUME Undisturbed, OrderInv, UNCHANGED tcpVars,
         WorkerDone(W) \/ \E f \in Fds : ForwardAnswer(W, f)
  PROVE  After
<1> USE DEF OrderInv, ContractInv, OpenInv, PairInv
<1>0. /\ W \in Workers /\ wpc \in [Workers -> WorkerPc]
      /\ wresp \in [Workers -> [Fds -> SUBSET EventT]]
      /\ wdst \in [Workers -> Fds \cup {None}] /\ wfd \in [Workers -> Fds \cup {None}]
      /\ wsource \in [Workers -> Conns \cup {None}]
  BY TheWorker, Typed DEF Undisturbed
<1>1. /\ wpc[W] = "dispatch" /\ wpc'[W] \in {"wait", "read"}
      /\ UNCHANGED <<file, inq, peer, sent, backlog, mapVars, forwardVars, got>>
  BY <1>0 DEF WorkerDone, ForwardAnswer, kernelVars
<1>2. \A f \in Fds : wresp'[W][f] \in {{}, wresp[W][f]}
  BY <1>0 DEF WorkerDone, ForwardAnswer
<1>3. \A f \in Fds : "CLOSABLE" \notin wresp'[W][f]
  BY <1>2 DEF NobodyCloses
<1>4. WorkerHolds'
  <2>1. \A f \in Fds : wresp'[W][f] # {} => sock_map_'[f] # None
    BY <1>1, <1>2 DEF WorkerHolds, mapVars
  <2>2. CASE WorkerDone(W)
    <3>1. wpc'[W] = "wait"
      BY <1>0, <2>2 DEF WorkerDone
    <3> QED
      BY <2>1, <3>1 DEF WorkerHolds
  <2>3. ASSUME NEW f \in Fds, ForwardAnswer(W, f) PROVE WorkerHolds'
    <3>1. wfd'[W] = f /\ wdst'[W] = sock_map_[f] /\ wsource'[W] = file[f]
      BY <1>0, <2>3 DEF ForwardAnswer
    <3> QED
      BY <1>1, <2>1, <3>1 DEF WorkerHolds, mapVars
  <2> QED
    BY <2>2, <2>3
<1>5. OpenInv' /\ PairInv'
  BY <1>1, <1>3, <1>4, WorkerOrder
<1>6. \A f \in Fds : PacketOf(f)' = PacketOf(f) /\ AnswersOf(f)' = AnswersOf(f)
  BY <1>1 DEF PacketOf, AnswersOf, forwardVars
<1>7. StreamInv'
  BY <1>1, <1>6, QuietStream DEF mapVars
<1> QED
  BY <1>5, <1>7 DEF After

\* read(): the first of the unread answers become the packet.
LEMMA WorkerReadOrder ==
  ASSUME Undisturbed, OrderInv, UNCHANGED tcpVars, WorkerRead(W) PROVE After
<1> USE DEF OrderInv, ContractInv, OpenInv, PairInv
<1>0. /\ W \in Workers /\ wpc \in [Workers -> WorkerPc] /\ wpacket \in [Workers -> Seq(Msgs)]
  BY TheWorker, Typed DEF Undisturbed
<1>1. /\ wpc[W] = "read" /\ wpc'[W] = "send" /\ wpacket'[W] \in ReadFrom(wsource[W])
      /\ inq' = AfterRead(wsource[W])
      /\ UNCHANGED <<file, peer, backlog, sent, got, mapVars, forwardVars, wresp, wfd, wdst>>
  BY <1>0 DEF WorkerRead
<1>2. PICK f \in Fds, g \in Fds :
        /\ f = wdst[W] /\ g = wfd[W] /\ sock_map_[g] = f
        /\ file[f] \in Clients /\ file[g] \in Links
  BY <1>1, HeldIsOpen DEF Undisturbed
<1>3. PICK c \in Clients, k \in Links : c = file[f] /\ k = file[g]
  BY <1>2
<1>4. /\ c \in Conns /\ k \in Conns /\ c # k /\ wsource[W] = k /\ k # None
      /\ inq[k] \in Seq(Msgs) /\ got[c] \in Seq(Msgs) /\ sent[k] \in Nat /\ peer[k] = "open"
  BY <1>1, <1>2, <1>3, Typed, NotNone DEF WorkerHolds, FilesAreOpen
<1>n. PICK x \in Nat, y \in Nat, z \in Nat :
        x = Len(got[c]) /\ y = Len(inq[k]) /\ z = sent[k]
  BY <1>4, LenProperties
<1>d. x \in Nat /\ y \in Nat /\ z \in Nat
  OBVIOUS
<1>5. /\ wpacket'[W] = Prefix(inq[k], ReadMax) /\ inq'[k] = Suffix(inq[k], ReadMax)
      /\ \A d \in Conns : d # k => inq'[d] = inq[d]
  BY <1>1, <1>4, Typed DEF ReadFrom, MayFail, AfterRead
<1>6. OpenInv' /\ PairInv'
  <2>1. WorkerHolds'
    BY <1>1 DEF WorkerHolds, mapVars
  <2>2. \A h \in Fds : "CLOSABLE" \notin wresp'[W][h]
    BY <1>1 DEF NobodyCloses
  <2> QED
    BY <1>1, <2>1, <2>2, WorkerOrder
<1>7. AnswersOf(f) = <<>> /\ AnswersOf(f)' = wpacket'[W] /\ PacketOf(f)' = PacketOf(f)
  BY <1>1, <1>2 DEF PacketOf, AnswersOf, forwardVars
<1>8. \A h \in Fds : h # f => PacketOf(h)' = PacketOf(h) /\ AnswersOf(h)' = AnswersOf(h)
  BY <1>1, <1>2 DEF PacketOf, AnswersOf, forwardVars
<1>9. Requests(f, g) /\ Answers(f, g)
  BY <1>2 DEF StreamInv, Streams
<1>10. Numbered(got[c], c, 0) /\ Numbered(inq[k], c, x) /\ x + y = z /\ sent[k] <= Len(got[k])
  <2>1. /\ Numbered(got[c], c, 0) /\ Numbered(inq[k], c, Len(got[c]) + Len(AnswersOf(f)))
        /\ Len(got[c]) + Len(AnswersOf(f)) + Len(inq[k]) = sent[k] /\ sent[k] <= Len(got[k])
    BY <1>3, <1>9 DEF Answers
  <2>2. Len(AnswersOf(f)) = 0
    BY <1>7
  <2>3. x + 0 + y = z /\ Numbered(inq[k], c, x + 0)
    BY <1>n, <2>1, <2>2
  <2>4. x + 0 = x
    BY <1>d
  <2>5. x + y = z
    BY <1>d, <2>3
  <2> QED
    BY <2>1, <2>3, <2>4, <2>5
<1>11. /\ wpacket'[W] \in Seq(Msgs) /\ inq'[k] \in Seq(Msgs)
       /\ Numbered(wpacket'[W], c, x)
       /\ Numbered(inq'[k], c, x + Len(wpacket'[W]))
       /\ Len(wpacket'[W]) + Len(inq'[k]) = Len(inq[k])
  <2>1. PICK s \in Seq(Msgs) : s = inq[k]
    BY <1>4
  <2>2. Numbered(s, c, x)
    BY <1>10, <2>1
  <2>3. /\ Prefix(s, ReadMax) \in Seq(Msgs) /\ Suffix(s, ReadMax) \in Seq(Msgs)
        /\ Len(Prefix(s, ReadMax)) + Len(Suffix(s, ReadMax)) = Len(s)
        /\ Numbered(Prefix(s, ReadMax), c, x)
        /\ Numbered(Suffix(s, ReadMax), c, x + Len(Prefix(s, ReadMax)))
    BY <2>2, NumberedRead
  <2> QED
    BY <1>5, <2>1, <2>3
<1>12. PICK p \in Nat, q \in Nat : p = Len(wpacket'[W]) /\ q = Len(inq'[k]) /\ p + q = Len(inq[k])
  BY <1>11, LenProperties
<1>m. p \in Nat /\ q \in Nat /\ p + q = y
  BY <1>n, <1>12
<1>13. Answers(f, g)'
  <2>1. x + p + q = z
    BY <1>d, <1>10, <1>m
  <2>2. Len(got[c]) + Len(wpacket'[W]) + Len(inq'[k]) = sent[k]
    BY <1>n, <1>12, <2>1
  <2>3. /\ Numbered(wpacket'[W], c, Len(got[c]))
        /\ Numbered(inq'[k], c, Len(got[c]) + Len(wpacket'[W]))
    BY <1>n, <1>11
  <2> HIDE DEF AnswersOf
  <2> QED
    BY <1>1, <1>3, <1>7, <1>10, <2>2, <2>3 DEF Answers, Numbered
<1>14. Requests(f, g)'
  <2>1. inq'[c] = inq[c]
    BY <1>4, <1>5
  <2> HIDE DEF PacketOf
  <2> QED
    BY <1>1, <1>3, <1>7, <1>9, <2>1 DEF Requests, Numbered
<1>15. Len(inq'[c]) <= sent'[c] /\ Numbered(inq'[c], c, sent'[c] - Len(inq'[c]))
  <2>1. inq'[c] = inq[c] /\ sent'[c] = sent[c]
    BY <1>1, <1>4, <1>5
  <2> QED
    BY <2>1 DEF StreamInv, UnreadRequests, Numbered
<1>16. StreamInv'
  BY <1>1, <1>2, <1>3, <1>5, <1>8, <1>13, <1>14, <1>15, OneStream DEF mapVars
<1> QED
  BY <1>6, <1>16 DEF After

\* send(): the answers go to the client whose link they came on.
LEMMA WorkerSendOrder ==
  ASSUME Undisturbed, OrderInv, UNCHANGED tcpVars, WorkerSend(W) PROVE After
<1> USE DEF OrderInv, ContractInv, OpenInv, PairInv
<1>0. W \in Workers /\ wpc \in [Workers -> WorkerPc] /\ wpacket \in [Workers -> Seq(Msgs)]
  BY TheWorker, Typed DEF Undisturbed
<1>1. /\ wpc[W] = "send" /\ wpc'[W] = "dispatch" /\ got' = Delivered(wdst[W], wpacket[W])
      /\ UNCHANGED <<file, peer, backlog, inq, sent, mapVars, forwardVars, wresp, wfd, wdst>>
  BY <1>0, NothingTearsDown DEF WorkerSend, kernelVars
<1>2. PICK f \in Fds, g \in Fds :
        /\ f = wdst[W] /\ g = wfd[W] /\ sock_map_[g] = f
        /\ file[f] \in Clients /\ file[g] \in Links
  BY <1>1, HeldIsOpen DEF Undisturbed
<1>3. PICK c \in Clients, k \in Links : c = file[f] /\ k = file[g]
  BY <1>2
<1>4. /\ c \in Conns /\ k \in Conns /\ c # k /\ c # None /\ peer[c] = "open"
      /\ wpacket[W] \in Seq(Msgs) /\ got[c] \in Seq(Msgs) /\ inq[k] \in Seq(Msgs)
      /\ sent[k] \in Nat
  BY <1>0, <1>2, <1>3, Typed, NotNone DEF FilesAreOpen
<1>n. PICK x \in Nat, y \in Nat, z \in Nat, p \in Nat :
        x = Len(got[c]) /\ y = Len(inq[k]) /\ z = sent[k] /\ p = Len(wpacket[W])
  BY <1>4, LenProperties
<1>d. x \in Nat /\ y \in Nat /\ z \in Nat /\ p \in Nat
  OBVIOUS
<1>5. got'[c] = got[c] \o wpacket[W] /\ \A d \in Conns : d # c => got'[d] = got[d]
  BY <1>1, <1>2, <1>3, <1>4, Typed DEF Delivered
<1>6. OpenInv' /\ PairInv'
  <2>1. WorkerHolds'
    BY <1>1 DEF WorkerHolds, mapVars
  <2>2. \A h \in Fds : "CLOSABLE" \notin wresp'[W][h]
    BY <1>1 DEF NobodyCloses
  <2> QED
    BY <1>1, <2>1, <2>2, WorkerOrder
<1>7. AnswersOf(f) = wpacket[W] /\ AnswersOf(f)' = <<>> /\ PacketOf(f)' = PacketOf(f)
  BY <1>1, <1>2 DEF PacketOf, AnswersOf, forwardVars
<1>8. \A h \in Fds : h # f => PacketOf(h)' = PacketOf(h) /\ AnswersOf(h)' = AnswersOf(h)
  BY <1>1, <1>2 DEF PacketOf, AnswersOf, forwardVars
<1>9. Requests(f, g) /\ Answers(f, g)
  BY <1>2 DEF StreamInv, Streams
<1>10. /\ Numbered(got[c], c, 0) /\ Numbered(wpacket[W], c, 0 + Len(got[c]))
       /\ Numbered(inq[k], c, x + p) /\ x + p + y = z /\ sent[k] <= Len(got[k])
  <2>1. 0 + Len(got[c]) = Len(got[c])
    BY <1>n, <1>d
  <2>2. /\ Numbered(got[c], c, 0) /\ Numbered(AnswersOf(f), c, Len(got[c]))
        /\ Numbered(inq[k], c, Len(got[c]) + Len(AnswersOf(f)))
        /\ Len(got[c]) + Len(AnswersOf(f)) + Len(inq[k]) = sent[k] /\ sent[k] <= Len(got[k])
    BY <1>3, <1>9 DEF Answers
  <2> HIDE DEF AnswersOf
  <2> QED
    BY <1>7, <1>n, <2>1, <2>2
<1>11. Numbered(got'[c], c, 0) /\ Len(got'[c]) = x + p
  BY <1>4, <1>5, <1>10, <1>n, NumberedConcat
<1>12. Answers(f, g)'
  <2>1. (x + p) + 0 + y = z /\ (x + p) + 0 = x + p
    BY <1>d, <1>10
  <2>2. Len(got'[c]) + 0 + Len(inq[k]) = sent[k] /\ Numbered(inq[k], c, Len(got'[c]) + 0)
    BY <1>n, <1>10, <1>11, <2>1
  <2>3. Numbered(<<>>, c, Len(got'[c])) /\ Len(<<>>) = 0 /\ got'[k] = got[k]
    BY <1>4, <1>5, NumberedEmpty
  <2> HIDE DEF AnswersOf
  <2> QED
    BY <1>1, <1>3, <1>7, <1>10, <1>11, <2>2, <2>3, AnswersNext
<1>13. Requests(f, g)'
  <2>1. got'[k] = got[k]
    BY <1>4, <1>5
  <2> HIDE DEF PacketOf
  <2> QED
    BY <1>1, <1>3, <1>7, <1>9, <2>1 DEF Requests, Numbered
<1>14. Len(inq'[c]) <= sent'[c] /\ Numbered(inq'[c], c, sent'[c] - Len(inq'[c]))
  BY <1>1 DEF StreamInv, UnreadRequests, Numbered
<1>15. StreamInv'
  BY <1>1, <1>2, <1>3, <1>5, <1>8, <1>12, <1>13, <1>14, OneStream DEF mapVars
<1> QED
  BY <1>6, <1>15 DEF After

\* The worker.
LEMMA WorkersOrder ==
  ASSUME Undisturbed, OrderInv, NEW k \in Workers, WorkerStep(k) PROVE After
<1>1. k = W
  BY TheWorker DEF Undisturbed
<1> QED
  BY <1>1, WorkerWaitOrder, WorkerQuietOrder, WorkerReadOrder, WorkerSendOrder, NothingTearsDown
     DEF WorkerStep
-----------------------------------------------------------------------------
(* The steps of the peers.                                                 *)

\* A peer that connects or sends leaves the proxy alone.
LEMMA PeerOrder ==
  ASSUME Undisturbed, OrderInv, UNCHANGED <<tcpVars, proxyVars, file>>, FilesAreOpen'
  PROVE  /\ OpenInv' /\ PairInv' /\ UNCHANGED <<sock_map_, reversed_map_, got>>
         /\ \A f \in Fds : PacketOf(f)' = PacketOf(f) /\ AnswersOf(f)' = AnswersOf(f)
<1> USE DEF OrderInv, ContractInv, OpenInv, PairInv
<1>1. UNCHANGED <<pc, resp_events_, sockes, sock_queue_, sock_map_, reversed_map_, forwardVars,
                  workerVars, got>>
  BY DEF tcpVars, loopVars, proxyVars, mapVars
<1>2. NobodyCloses' /\ BatchesAreClients'
  BY <1>1 DEF NobodyCloses, BatchesAreClients, IsClient, forwardVars, workerVars
<1>3. Paired' /\ ForwarderHolds' /\ WorkerHolds'
  BY <1>1, GrowPairs DEF Undisturbed
<1>4. UNCHANGED <<fpc, incoming, packet, wpc, wdst, wpacket>>
  BY <1>1 DEF forwardVars, workerVars
<1> QED
  BY <1>1, <1>2, <1>3, <1>4, SamePackets

\* A client connects.
LEMMA ConnectOrder ==
  ASSUME Undisturbed, OrderInv, UNCHANGED <<tcpVars, proxyVars>>, NEW c \in Clients, Connect(c)
  PROVE  After
<1> USE DEF OrderInv, ContractInv, OpenInv
<1>1. /\ peer' = [peer EXCEPT ![c] = "open"] /\ backlog' = backlog \cup {c}
      /\ UNCHANGED <<file, inq, sent>>
  BY DEF Connect
<1>2. FilesAreOpen'
  <2>1. \A d \in Conns : peer'[d] \in {peer[d], "open"}
    BY <1>1, Typed
  <2>2. peer'[c] = "open"
    BY <1>1, Typed, NotNone
  <2>3. (\A f \in Fds : file[f] # None => file[f] \in Conns) /\ backlog \subseteq Conns
    BY Typed, NotNone DEF RTypeInv, RTypeOK, TypeOK, KernelTypeOK
  <2> QED
    BY <1>1, <2>1, <2>2, <2>3 DEF FilesAreOpen
<1>3. StreamInv'
  BY <1>1, <1>2, PeerOrder, QuietStream
<1> QED
  BY <1>1, <1>2, <1>3, PeerOrder DEF After

\* A client sends its next request, whether it has a link, a descriptor, or neither.
LEMMA ClientSendsOrder ==
  ASSUME Undisturbed, OrderInv, UNCHANGED <<tcpVars, proxyVars>>, NEW c \in Clients, ClientSends(c)
  PROVE  After
<1> USE DEF OrderInv, ContractInv, OpenInv
<1>1. /\ inq' = [inq EXCEPT ![c] = Append(@, <<c, sent[c] + 1>>)]
      /\ sent' = [sent EXCEPT ![c] = @ + 1] /\ UNCHANGED <<file, peer, backlog>>
  BY DEF ClientSends, PeerSend
<1>2. FilesAreOpen'
  BY <1>1 DEF FilesAreOpen
<1>3. /\ OpenInv' /\ PairInv' /\ UNCHANGED <<sock_map_, reversed_map_, got>>
      /\ \A f \in Fds : PacketOf(f)' = PacketOf(f) /\ AnswersOf(f)' = AnswersOf(f)
  BY <1>1, <1>2, PeerOrder
<1>4. /\ c \in Conns /\ inq[c] \in Seq(Msgs) /\ sent[c] \in Nat
      /\ \A d \in Conns : d # c => inq'[d] = inq[d] /\ sent'[d] = sent[d]
      /\ inq'[c] = Append(inq[c], <<c, sent[c] + 1>>) /\ sent'[c] = sent[c] + 1
  BY <1>1, Typed, NotNone
<1>n. PICK y \in Nat, z \in Nat : y = Len(inq[c]) /\ z = sent[c] /\ y <= z
  BY <1>4, LenProperties DEF StreamInv, UnreadRequests
<1>d. y \in Nat /\ z \in Nat /\ z - y \in Nat
  BY <1>n
<1>5. Numbered(inq'[c], c, z - y) /\ Len(inq'[c]) = y + 1 /\ sent'[c] = z + 1
  <2>1. Numbered(inq[c], c, z - y)
    BY <1>n DEF StreamInv, UnreadRequests
  <2>2. z - y + y + 1 = z + 1
    BY <1>d
  <2>3. PICK n \in Nat : n = z - y
    BY <1>d
  <2>4. inq'[c] = Append(inq[c], <<c, n + Len(inq[c]) + 1>>)
    BY <1>4, <1>n, <2>2, <2>3
  <2>5. Numbered(inq[c], c, n)
    BY <2>1, <2>3
  <2>6. Numbered(inq'[c], c, n) /\ Len(inq'[c]) = Len(inq[c]) + 1
    <3>1. PICK s \in Seq(Msgs) : s = inq[c]
      BY <1>4
    <3>2. /\ Numbered(Append(s, <<c, n + Len(s) + 1>>), c, n)
          /\ Len(Append(s, <<c, n + Len(s) + 1>>)) = Len(s) + 1
      <4>1. Numbered(s, c, n)
        BY <2>5, <3>1
      <4> QED
        BY <4>1, NumberedAppend
    <3> QED
      BY <2>4, <3>1, <3>2
  <2>7. Len(inq'[c]) = y + 1 /\ sent'[c] = z + 1
    BY <1>4, <1>n, <2>6
  <2> QED
    BY <2>3, <2>6, <2>7
<1>6. UnreadRequests'
  <2> SUFFICES ASSUME NEW d \in Clients
               PROVE  Len(inq'[d]) <= sent'[d] /\ Numbered(inq'[d], d, sent'[d] - Len(inq'[d]))
    BY DEF UnreadRequests, Numbered
  <2>1. CASE d = c
    <3>1. y + 1 <= z + 1 /\ (z + 1) - (y + 1) = z - y
      BY <1>n, <1>d
    <3> QED
      BY <1>5, <2>1, <3>1
  <2>2. CASE d # c
    <3>1. inq'[d] = inq[d] /\ sent'[d] = sent[d]
      BY <1>4, <2>2, NotNone
    <3> QED
      BY <3>1 DEF StreamInv, UnreadRequests
  <2> QED
    BY <2>1, <2>2
<1>7. UnservedClients'
  <2> SUFFICES ASSUME NEW d \in Clients, \A h \in Fds : file[h] = d => reversed_map_[h] = None
               PROVE  Len(inq'[d]) = sent'[d] /\ got[d] = <<>>
    BY <1>1, <1>3 DEF UnservedClients
  <2>1. Len(inq[d]) = sent[d] /\ got[d] = <<>>
    BY DEF StreamInv, UnservedClients
  <2>2. CASE d = c
    BY <1>5, <1>n, <2>1, <2>2
  <2>3. CASE d # c
    BY <1>4, <2>1, <2>3, NotNone
  <2> QED
    BY <2>2, <2>3
<1>8. UnusedLinks'
  <2>1. \A k \in Links : inq'[k] = inq[k] /\ sent'[k] = sent[k]
    BY <1>4, NotNone
  <2> QED
    BY <1>1, <1>3, <2>1 DEF StreamInv, UnusedLinks
<1>9. ASSUME NEW f \in Fds, NEW g \in Fds, sock_map_'[g] = f
      PROVE  Requests(f, g)' /\ Answers(f, g)'
  <2>1. sock_map_[g] = f /\ file[g] \in Links /\ file[f] \in Clients
    BY <1>3, <1>9, PairTypes, NotNone DEF PairInv
  <2>2. Requests(f, g) /\ Answers(f, g)
    BY <2>1 DEF StreamInv, Streams
  <2>3. inq'[file[g]] = inq[file[g]] /\ sent'[file[g]] = sent[file[g]]
    BY <1>4, <2>1, NotNone
  <2>4. PacketOf(f)' = PacketOf(f) /\ AnswersOf(f)' = AnswersOf(f)
    BY <1>3
  <2>5. CASE file[f] # c
    <3>1. inq'[file[f]] = inq[file[f]] /\ sent'[file[f]] = sent[file[f]]
      BY <1>4, <2>1, <2>5, NotNone
    <3> QED
      BY <1>1, <1>3, <2>2, <2>3, <2>4, <3>1, SameStream
  <2>6. CASE file[f] = c
    <3> HIDE DEF PacketOf, AnswersOf
    <3>1. Answers(f, g)'
      BY <1>1, <1>3, <2>2, <2>3, <2>4 DEF Answers, Numbered
    <3>2. PICK x \in Nat, p \in Nat : x = Len(got[file[g]]) /\ p = Len(PacketOf(f))
      <4>1. got[file[g]] \in Seq(Msgs) /\ PacketOf(f) \in Seq(Msgs)
        BY <2>1, Typed, NotNone DEF PacketOf
      <4> QED
        BY <4>1, LenProperties
    <3>3. x + p + y = z
      BY <1>n, <2>2, <2>6, <3>2 DEF Requests
    <3>4. x \in Nat /\ p \in Nat
      OBVIOUS
    <3>5. x + p + (y + 1) = z + 1
      BY <1>d, <3>3, <3>4
    <3>6. Len(got[file[g]]) + Len(PacketOf(f)) + Len(inq'[c]) = sent'[c]
      BY <1>5, <3>2, <3>5
    <3>7. Requests(f, g)'
      BY <1>1, <1>3, <2>2, <2>4, <2>6, <3>6 DEF Requests, Numbered
    <3> QED
      BY <3>1, <3>7
  <2> QED
    BY <2>5, <2>6
<1>10. StreamInv'
  BY <1>6, <1>7, <1>8, <1>9 DEF StreamInv, Streams
<1> QED
  BY <1>3, <1>10 DEF After

\* A backend answers the next request it got, and nothing else.
LEMMA BackendAnswersOrder ==
  ASSUME Undisturbed, OrderInv, UNCHANGED <<tcpVars, proxyVars>>, NEW k \in Links, BackendAnswers(k)
  PROVE  After
<1> USE DEF OrderInv, ContractInv, OpenInv
<1>1. /\ sent[k] < Len(got[k]) /\ inq' = [inq EXCEPT ![k] = Append(@, got[k][sent[k] + 1])]
      /\ sent' = [sent EXCEPT ![k] = @ + 1] /\ UNCHANGED <<file, peer, backlog>>
  BY DEF BackendAnswers, PeerSend
<1>2. FilesAreOpen'
  BY <1>1 DEF FilesAreOpen
<1>3. /\ OpenInv' /\ PairInv' /\ UNCHANGED <<sock_map_, reversed_map_, got>>
      /\ \A f \in Fds : PacketOf(f)' = PacketOf(f) /\ AnswersOf(f)' = AnswersOf(f)
  BY <1>1, <1>2, PeerOrder
<1>4. /\ k \in Conns /\ inq[k] \in Seq(Msgs) /\ got[k] \in Seq(Msgs) /\ sent[k] \in Nat
      /\ \A d \in Conns : d # k => inq'[d] = inq[d] /\ sent'[d] = sent[d]
      /\ inq'[k] = Append(inq[k], got[k][sent[k] + 1]) /\ sent'[k] = sent[k] + 1
  BY <1>1, Typed, NotNone
<1>5. PICK g \in Fds : file[g] = k /\ sock_map_[g] # None
  <2>1. ~(got[k] = <<>> /\ inq[k] = <<>> /\ sent[k] = 0)
    BY <1>1
  <2> QED
    BY <2>1 DEF StreamInv, UnusedLinks
<1>6. PICK f \in Fds : sock_map_[g] = f
  BY <1>5, PairTypes DEF PairInv
<1>7. PICK c \in Clients : c = file[f]
  BY <1>5, <1>6, PairTypes DEF PairInv
<1>8. /\ c \in Conns /\ c # k /\ got[c] \in Seq(Msgs) /\ AnswersOf(f) \in Seq(Msgs)
  <2>1. AnswersOf(f) \in Seq(Msgs)
    BY TheWorker, Typed DEF AnswersOf, Undisturbed
  <2> QED
    BY <2>1, Typed, NotNone
<1>9. Requests(f, g) /\ Answers(f, g)
  BY <1>6 DEF StreamInv, Streams
<1>n. PICK x \in Nat, a \in Nat, y \in Nat, z \in Nat, t \in Nat :
        /\ x = Len(got[c]) /\ a = Len(AnswersOf(f)) /\ y = Len(inq[k]) /\ z = sent[k]
        /\ t = Len(got[k])
  BY <1>4, <1>8, LenProperties
<1>d. x \in Nat /\ a \in Nat /\ y \in Nat /\ z \in Nat /\ t \in Nat
  OBVIOUS
<1>10. /\ Numbered(got[c], c, 0) /\ Numbered(AnswersOf(f), c, Len(got[c]))
       /\ Numbered(inq[k], c, x + a) /\ x + a + y = z /\ Numbered(got[k], c, 0) /\ z < t
  <2> HIDE DEF PacketOf, AnswersOf
  <2> QED
    BY <1>1, <1>5, <1>7, <1>9, <1>n DEF Requests, Answers
<1>11. got[k][sent[k] + 1] = <<c, z + 1>>
  <2>1. z + 1 \in 1..t /\ 0 + (z + 1) = z + 1
    BY <1>d, <1>10
  <2>2. got[k][z + 1] = <<c, 0 + (z + 1)>>
    BY <1>10, <1>n, <2>1 DEF Numbered
  <2> QED
    BY <1>n, <2>1, <2>2
<1>12. Numbered(inq'[k], c, x + a) /\ Len(inq'[k]) = y + 1
  <2>1. x + a + y + 1 = z + 1 /\ x + a \in Nat
    BY <1>d, <1>10
  <2>2. PICK n \in Nat : n = x + a
    BY <2>1
  <2>3. inq'[k] = Append(inq[k], <<c, n + Len(inq[k]) + 1>>)
    BY <1>4, <1>11, <1>n, <2>1, <2>2
  <2>4. Numbered(inq[k], c, n)
    BY <1>10, <2>2
  <2>5. Numbered(inq'[k], c, n) /\ Len(inq'[k]) = Len(inq[k]) + 1
    <3>1. PICK s \in Seq(Msgs) : s = inq[k]
      BY <1>4
    <3>2. /\ Numbered(Append(s, <<c, n + Len(s) + 1>>), c, n)
          /\ Len(Append(s, <<c, n + Len(s) + 1>>)) = Len(s) + 1
      <4>1. Numbered(s, c, n)
        BY <2>4, <3>1
      <4> QED
        BY <4>1, NumberedAppend
    <3> QED
      BY <2>3, <3>1, <3>2
  <2> QED
    BY <1>n, <2>2, <2>5
<1>13. Answers(f, g)'
  <2>1. x + a + (y + 1) = z + 1 /\ z + 1 <= t
    BY <1>d, <1>10
  <2>2. /\ Numbered(inq'[k], c, Len(got[c]) + Len(AnswersOf(f)))
        /\ Len(got[c]) + Len(AnswersOf(f)) + Len(inq'[k]) = sent'[k] /\ sent'[k] <= Len(got[k])
    BY <1>4, <1>12, <1>n, <2>1
  <2>3. AnswersOf(f)' = AnswersOf(f)
    BY <1>3
  <2> HIDE DEF AnswersOf
  <2> QED
    BY <1>1, <1>3, <1>5, <1>7, <1>10, <2>2, <2>3 DEF Answers, Numbered
<1>14. Requests(f, g)'
  <2>1. inq'[c] = inq[c] /\ sent'[c] = sent[c] /\ PacketOf(f)' = PacketOf(f)
    BY <1>3, <1>4, <1>8
  <2> HIDE DEF PacketOf
  <2> QED
    BY <1>1, <1>3, <1>7, <1>9, <2>1 DEF Requests, Numbered
<1>15. Len(inq'[c]) <= sent'[c] /\ Numbered(inq'[c], c, sent'[c] - Len(inq'[c]))
  <2>1. inq'[c] = inq[c] /\ sent'[c] = sent[c]
    BY <1>4, <1>8
  <2> QED
    BY <2>1 DEF StreamInv, UnreadRequests, Numbered
<1>16. StreamInv'
  BY <1>1, <1>3, <1>4, <1>5, <1>6, <1>7, <1>13, <1>14, <1>15, OneStream DEF PairInv
<1> QED
  BY <1>3, <1>16 DEF After
-----------------------------------------------------------------------------
(* The theorems.                                                           *)

\* At first nothing is open and nothing was sent.
LEMMA InitOrder == ASSUME Undisturbed, RInit PROVE OrderInv
<1> USE DEF RInit, KernelInit, TcpInit, ProxyInit
<1>1. ContractInv
  BY InitContract DEF Undisturbed
<1>2. W \in Workers
  BY TheWorker DEF Undisturbed
<1>3. OpenInv
  BY <1>2 DEF OpenInv, FilesAreOpen, NobodyCloses, NoEvents
<1>4. PairInv
  BY <1>2, NotNone DEF PairInv, BatchesAreClients, Paired, ForwarderHolds, WorkerHolds
<1>5. StreamInv
  <2>1. \A c \in Conns : inq[c] = <<>> /\ got[c] = <<>> /\ sent[c] = 0
    OBVIOUS
  <2>2. UnreadRequests
    <3> SUFFICES ASSUME NEW c \in Clients
                 PROVE  Len(inq[c]) <= sent[c] /\ Numbered(inq[c], c, sent[c] - Len(inq[c]))
      BY DEF UnreadRequests
    <3>1. inq[c] = <<>> /\ sent[c] = 0
      BY <2>1, NotNone
    <3> QED
      BY <3>1, NumberedEmpty
  <2>3. UnservedClients /\ UnusedLinks
    BY <2>1, NotNone, NumberedEmpty DEF UnservedClients, UnusedLinks
  <2>4. Streams
    BY NotNone DEF Streams
  <2> QED
    BY <2>2, <2>3, <2>4 DEF StreamInv
<1> QED
  BY <1>1, <1>3, <1>4, <1>5 DEF OrderInv

\* Every step keeps the invariant.
LEMMA NextOrder == ASSUME Undisturbed, OrderInv, [RNext]_allVars PROVE OrderInv'
<1>1. ContractInv'
  BY StepKeepsContract DEF Undisturbed, OrderInv
<1>2. After
  <2>1. CASE Main
    BY <2>1, MainOrder DEF Main
  <2>2. CASE \E l \in Loops : Loop(l)
    BY <2>2, LoopOrder DEF Loop
  <2>3. CASE Forwarder
    BY <2>3, ForwarderOrder DEF Forwarder
  <2>4. CASE \E k \in Workers : Worker(k)
    BY <2>4, WorkersOrder DEF Worker
  <2>5. CASE /\ (\E c \in Clients : Client(c)) \/ (\E k \in Links : Backend(k))
             /\ UNCHANGED <<tcpVars, proxyVars>>
    BY <2>5, ConnectOrder, ClientSendsOrder, BackendAnswersOrder, NothingTearsDown
       DEF Client, Backend, ClientConnects
  <2>6. CASE UNCHANGED allVars
    <3>1. UNCHANGED <<tcpVars, proxyVars, file, inq, sent, peer, backlog>>
      BY <2>6 DEF allVars, kernelVars
    <3>2. FilesAreOpen'
      BY <3>1 DEF OrderInv, OpenInv, FilesAreOpen
    <3> QED
      BY <3>1, <3>2, PeerOrder, QuietStream DEF After, OrderInv
  <2> QED
    BY <2>1, <2>2, <2>3, <2>4, <2>5, <2>6 DEF RNext
<1> QED
  BY <1>1, <1>2 DEF After, OrderInv

\* With one worker, and while nobody closes, every message is where it belongs.
THEOREM OrderHolds == ASSUME Undisturbed PROVE RSpec => []OrderInv
<1>1. RInit => OrderInv
  BY InitOrder
<1>2. OrderInv /\ [RNext]_allVars => OrderInv'
  BY NextOrder
<1> QED
  BY <1>1, <1>2, PTL DEF RSpec

\* Messages that are numbered from 1 on are of one client, and in order.
LEMMA NumberedInOrder ==
  ASSUME NEW s \in Seq(Msgs), NEW c, Numbered(s, c, 0),
         NEW i \in 1..Len(s), NEW j \in 1..Len(s), i < j
  PROVE  s[i][1] = c /\ s[j][1] = c /\ s[i][2] < s[j][2]
<1>1. Len(s) \in Nat
  BY LenProperties
<1>2. 0 + i = i /\ 0 + j = j
  BY <1>1
<1>3. s[i] = <<c, i>> /\ s[j] = <<c, j>>
  BY <1>2 DEF Numbered
<1> QED
  BY <1>3

\* What clients and links have got.
LEMMA OrderImplies == ASSUME OrderInv PROVE AnswersReachTheirClient /\ LinksCarryOneClient
<1> USE DEF OrderInv, ContractInv, PairInv, StreamInv
<1>1. ASSUME NEW c \in Clients PROVE Numbered(got[c], c, 0)
  <2>1. CASE \A f \in Fds : file[f] = c => reversed_map_[f] = None
    <3>1. got[c] = <<>>
      BY <2>1 DEF UnservedClients
    <3> QED
      BY <3>1, NumberedEmpty
  <2>2. ASSUME NEW f \in Fds, file[f] = c, reversed_map_[f] # None PROVE Numbered(got[c], c, 0)
    <3>1. PICK g \in Fds : sock_map_[g] = f
      BY <2>2, Typed DEF Paired
    <3>2. Answers(f, g)
      BY <3>1 DEF Streams
    <3> QED
      BY <2>2, <3>2 DEF Answers
  <2> QED
    BY <2>1, <2>2
<1>2. ASSUME NEW k \in Links PROVE \E c : Numbered(got[k], c, 0)
  <2>1. CASE \A g \in Fds : file[g] = k => sock_map_[g] = None
    <3>1. got[k] = <<>>
      BY <2>1 DEF UnusedLinks
    <3> QED
      BY <3>1, NumberedEmpty
  <2>2. ASSUME NEW g \in Fds, file[g] = k, sock_map_[g] # None PROVE \E c : Numbered(got[k], c, 0)
    <3>1. PICK f \in Fds : sock_map_[g] = f
      BY <2>2, Typed
    <3>2. Requests(f, g)
      BY <3>1 DEF Streams
    <3> QED
      BY <2>2, <3>2 DEF Requests
  <2> QED
    BY <2>1, <2>2
<1>3. AnswersReachTheirClient
  <2> SUFFICES ASSUME NEW c \in Clients, NEW i \in 1..Len(got[c])
               PROVE  got[c][i][1] = c /\ (i > 1 => got[c][i - 1][2] < got[c][i][2])
    BY DEF AnswersReachTheirClient
  <2>1. got[c] \in Seq(Msgs) /\ Len(got[c]) \in Nat
    BY Typed, NotNone, LenProperties
  <2>2. Numbered(got[c], c, 0)
    BY <1>1
  <2>3. got[c][i][1] = c
    <3>1. got[c][i] = <<c, 0 + i>>
      BY <2>2 DEF Numbered
    <3> QED
      BY <3>1
  <2>4. ASSUME i > 1 PROVE got[c][i - 1][2] < got[c][i][2]
    <3>1. i - 1 \in 1..Len(got[c]) /\ i - 1 < i
      BY <2>1, <2>4
    <3> QED
      BY <2>1, <2>2, <3>1, NumberedInOrder
  <2> QED
    BY <2>3, <2>4
<1>4. LinksCarryOneClient
  <2> SUFFICES ASSUME NEW k \in Links, NEW i \in 1..Len(got[k]), NEW j \in 1..Len(got[k]), i < j
               PROVE  got[k][i][1] = got[k][j][1] /\ got[k][i][2] < got[k][j][2]
    BY DEF LinksCarryOneClient
  <2>1. got[k] \in Seq(Msgs)
    BY Typed, NotNone
  <2>2. PICK c : Numbered(got[k], c, 0)
    BY <1>2
  <2> QED
    BY <2>1, <2>2, NumberedInOrder
<1> QED
  BY <1>3, <1>4

\* With one worker, and while nobody closes, a client is sent the answers to its own
\* requests, each once and in order, however the threads interleave (forward, sock_map_
\* and reversed_map_).
THEOREM AnswersReachTheirClients ==
  ASSUME Undisturbed PROVE RSpec => []AnswersReachTheirClient
<1>1. OrderInv => AnswersReachTheirClient
  BY OrderImplies
<1> QED
  BY <1>1, OrderHolds, PTL

\* And a link carries the requests of one client, in order.
THEOREM LinksCarryOneClientEach ==
  ASSUME Undisturbed PROVE RSpec => []LinksCarryOneClient
<1>1. OrderInv => LinksCarryOneClient
  BY OrderImplies
<1> QED
  BY <1>1, OrderHolds, PTL
-----------------------------------------------------------------------------
(* The process keeps running.                                              *)

\* Two descriptors for every client: its own and that of its link.
EnoughDescriptors ==
  /\ IsFiniteSet(Fds) /\ IsFiniteSet(Clients)
  /\ Cardinality(Fds) >= 2 * Cardinality(Clients)

\* A set that a function maps into a finite set without collisions is no larger.
LEMMA NoLarger ==
  ASSUME NEW S, IsFiniteSet(S), NEW T, IsFiniteSet(T), NEW m \in [S -> T],
         \A a, b \in S : m[a] = m[b] => a = b
  PROVE  Cardinality(S) <= Cardinality(T)
<1>1. Cardinality(S) \in Nat /\ Cardinality(T) \in Nat
  BY FS_CardinalityType
<1>2. ~(Cardinality(T) < Cardinality(S))
  BY FS_PigeonHole
<1> QED
  BY <1>1, <1>2

\* Whenever a link is needed there is a descriptor for it: each link in use belongs to
\* another client than the one in hand.
LEMMA DescriptorLeft ==
  ASSUME Undisturbed, EnoughDescriptors, OrderInv, fpc = "establish"
  PROVE  \E f \in Fds : file[f] = None
<1> USE DEF OrderInv, ContractInv, OpenInv, PairInv
<1> SUFFICES ASSUME \A f \in Fds : file[f] # None PROVE FALSE
  OBVIOUS
<1> DEFINE A == {f \in Fds : file[f] \in Clients}
           B == {f \in Fds : file[f] \in Links}
           D == Clients \ {file[incoming]}
<1>1. Fds = A \cup B /\ A \cap B = {} /\ A \subseteq Fds /\ B \subseteq Fds
  BY Typed, NotNone DEF Conns
<1>2. file[incoming] \in Clients /\ incoming \in Fds /\ reversed_map_[incoming] = None
  BY DEF ForwarderHolds, RTypeInv, ProxyHolds
<1>3. IsFiniteSet(A) /\ IsFiniteSet(B) /\ IsFiniteSet(Clients) /\ IsFiniteSet(D)
  BY <1>1, FS_Subset, FS_RemoveElement DEF EnoughDescriptors
<1>4. Cardinality(A) <= Cardinality(Clients)
  <2> DEFINE m == [f \in A |-> file[f]]
  <2>1. m \in [A -> Clients] /\ \A a, b \in A : m[a] = m[b] => a = b
    BY NotNone DEF FilesAreOpen
  <2> HIDE DEF m, A
  <2> QED
    BY <1>3, <2>1, NoLarger
<1>5. Cardinality(B) <= Cardinality(D)
  <2> DEFINE m == [g \in B |-> file[sock_map_[g]]]
  <2>1. \A g \in B : sock_map_[g] # None
    BY DEF Paired
  <2>2. \A g \in B : file[sock_map_[g]] \in D
    <3> SUFFICES ASSUME NEW g \in B PROVE file[sock_map_[g]] \in D
      OBVIOUS
    <3>1. /\ sock_map_[g] \in Fds /\ reversed_map_[sock_map_[g]] = g
          /\ file[sock_map_[g]] \in Clients
      BY <2>1, PairTypes
    <3>2. sock_map_[g] # incoming
      BY <1>2, <3>1, NotNone
    <3> QED
      BY <1>2, <3>1, <3>2, NotNone DEF FilesAreOpen
  <2>3. \A a, b \in B : file[sock_map_[a]] = file[sock_map_[b]] => a = b
    BY <2>1, PairsAreDistinct
  <2>4. m \in [B -> D] /\ \A a, b \in B : m[a] = m[b] => a = b
    BY <2>2, <2>3
  <2> HIDE DEF m, B, D
  <2> QED
    BY <1>3, <2>4, NoLarger
<1>6. Cardinality(D) = Cardinality(Clients) - 1
  BY <1>2, <1>3, FS_RemoveElement
<1>7. Cardinality(Fds) = Cardinality(A) + Cardinality(B)
  <2>1. Cardinality(A \cup B) = Cardinality(A) + Cardinality(B) - Cardinality(A \cap B)
    BY <1>3, FS_Union
  <2>2. Cardinality(A \cap B) = 0
    BY <1>1, FS_EmptySet
  <2>3. Cardinality(A) \in Nat /\ Cardinality(B) \in Nat
    BY <1>3, FS_CardinalityType
  <2> HIDE DEF A, B
  <2> QED
    BY <1>1, <2>1, <2>2, <2>3
<1>8. Cardinality(A) \in Nat /\ Cardinality(B) \in Nat /\ Cardinality(Clients) \in Nat
  BY <1>3, FS_CardinalityType
<1> HIDE DEF A, B, D
<1> QED
  BY <1>4, <1>5, <1>6, <1>7, <1>8 DEF EnoughDescriptors

\* No step throws or ends the process.
LEMMA NothingThrows ==
  ASSUME Undisturbed, ~ConnectMayFail, EnoughDescriptors, OrderInv, [RNext]_allVars,
         fpc # "thrown"
  PROVE  fpc' # "thrown"
<1>1. ~EstablishThrows
  BY DescriptorLeft DEF EstablishThrows
<1>2. CASE LookupLink
  BY <1>2 DEF LookupLink, OrderInv, PairInv, ForwarderHolds
<1>3. CASE ForwardSend
  BY <1>3, NothingTearsDown DEF ForwardSend
<1>4. CASE Forwarder /\ ~LookupLink /\ ~ForwardSend
  BY <1>1, <1>4 DEF Forwarder, TakeBatch, UpdateForForward, ForwardStep, BatchDone, CheckLink,
     EstablishWith, EmplaceLink, EnterForward, ForwardRead
<1>5. CASE ~Forwarder
  <2>1. CASE UNCHANGED proxyVars
    BY <2>1 DEF proxyVars, forwardVars
  <2>2. CASE \E k \in Workers : Worker(k)
    BY <2>2 DEF Worker, WorkerStep, WorkerWait, UnmappedThrows, ForwardAnswer, CloseLink,
       EraseLink, WorkerRead, WorkerSend, WorkerDone, forwardVars
  <2> QED
    BY <1>5, <2>1, <2>2 DEF RNext, Main, Loop, allVars
<1> QED
  BY <1>2, <1>3, <1>4, <1>5

\* With one worker, while nobody closes, no backend refuses and conn_map_ does not outgrow
\* its table, and with two descriptors for every client, the process keeps running: no
\* look-up with at() throws, no iterator is used that is not valid, no connection is written
\* to that is gone, and no link is opened without a descriptor to spare.
THEOREM ProcessKeepsRunning ==
  ASSUME Undisturbed, ~ConnectMayFail, ~MayRehash, EnoughDescriptors
  PROVE  RSpec => []NeverTerminated
<1> DEFINE Unthrown == fpc # "thrown"
<1>1. RInit => Unthrown
  BY DEF RInit, ProxyInit
<1>2. OrderInv /\ Unthrown /\ [RNext]_allVars => Unthrown'
  BY NothingThrows
<1>3. OrderInv /\ Unthrown => NeverTerminated
  BY TheWorker DEF OrderInv, OpenInv, NobodyCloses, NeverTerminated, Terminated, Alive, Undisturbed
<1>4. RSpec => []OrderInv
  BY OrderHolds
<1> HIDE DEF Unthrown
<1> QED
  BY <1>1, <1>2, <1>3, <1>4, PTL DEF RSpec
=============================================================================
