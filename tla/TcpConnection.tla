--------------------------- MODULE TcpConnection ---------------------------
(***************************************************************************)
(* reactor::TcpConnection with its Channel: reading into recv_buffer_,     *)
(* sending directly or through send_buffer_, and what epoll is asked for   *)
(* meanwhile.  The servers do not call read and send: the calls in         *)
(* updateForWait that echo a client's bytes are commented out.  The        *)
(* application here runs on the sub-reactor the connection belongs to and  *)
(* calls read, send and shutdownWrite, works on recvBuffer() and changes   *)
(* the channel's events; updateForWait calls sendInLoop and disconnect.    *)
(* It reads only when it has retrieved everything, as the commented-out    *)
(* calls do.  It leaves sendBuffer() alone, which would let it change the  *)
(* waiting output.                                                         *)
(*                                                                         *)
(* recv_buffer_ is the ArrayBuffer this module extends, and the            *)
(* application has all its operations.  read(buf, len) into memory of the  *)
(* application's own still moves recv_buffer_'s writer index: it is the    *)
(* HasWritten among them.  send_buffer_ is kept as its content:            *)
(* ArrayBufferProofs shows that append adds exactly its argument and       *)
(* retrieve takes from the front.  The bytes passed to send are numbered   *)
(* 1, 2, ... in the order of the calls.                                    *)
(*                                                                         *)
(* write() returns any number of bytes up to what it is given, or fails.   *)
(***************************************************************************)
EXTENDS ArrayBuffer

CONSTANTS
  MaxSend,     \* bound: bytes passed to one send
  MaxGiven,    \* bound: bytes passed to send altogether
  AppContexts  \* what the application's DmpModifyContexts hold


\* EPOLLET and the events of Demultiplex::EventT.
EventT        == {"READABLE", "WRITABLE", "CLOSABLE", "ET"}
DefaultEvents == {"READABLE", "CLOSABLE", "ET"}

ASSUME ConnectionAssumption ==
  MaxSend \in Nat /\ MaxGiven \in Nat /\ AppContexts \subseteq SUBSET EventT

VARIABLES
  state_,        \* "CONNECTED", "DISCONNECT" (and destroyed), or "crash" of the process
  events_,       \* context_->events_, and what epoll watches for the descriptor
  send_buffer_,  \* its content
  written,       \* the bytes the kernel has taken
  given,         \* number of bytes passed to send so far
  channelUsed    \* history: the application has changed the channel's events itself

connVars == <<state_, events_, send_buffer_, written, given, channelUsed>>
recvVars == vars

\* updateForRegister: the constructor, and the registration with DefaultEvents.
ConnInit ==
  /\ Init
  /\ state_ = "CONNECTED" /\ events_ = DefaultEvents
  /\ send_buffer_ = <<>> /\ written = <<>> /\ given = 0
  /\ channelUsed = FALSE
-----------------------------------------------------------------------------
(* Asking epoll for something else.                                        *)

\* demultiplexModify: DMPMODIFY makes TcpServer copy the context's events into the
\* connection's, then epoll_ctl(EPOLL_CTL_MOD) replaces what is watched by the same.
Modify(ev) == events_' = ev

\* disconnect: leave notifies DMPDELETE, removeConnection destroys this object, and
\* epoll forgets the descriptor.
Disconnect ==
  /\ state_' = "DISCONNECT"
  /\ UNCHANGED <<events_, send_buffer_, written, given, channelUsed>>

\* disableWrite casts its argument to a DmpModifyContext.  The connection passes its
\* own context, which is a DmpRegisterContext: a null pointer is dereferenced.
DisableWriteOwnContext == state_' = "crash" /\ UNCHANGED events_
-----------------------------------------------------------------------------
(* Output.                                                                 *)

NextBytes(n) == [i \in 1..n |-> given + i]

SendRepeating(n) ==
  LET direct == "WRITABLE" \notin events_ /\ send_buffer_ = <<>>
  IN  /\ given' = given + n
      /\ \E wrote \in IF direct THEN 0..n ELSE {0} :
           /\ written' = written \o SubSeq(NextBytes(n), 1, wrote)
           /\ IF wrote = n
              THEN UNCHANGED <<send_buffer_, events_>>
              ELSE /\ send_buffer_' = send_buffer_ \o NextBytes(n)
                   /\ IF "WRITABLE" \in events_ THEN UNCHANGED events_
                                                ELSE Modify({"WRITABLE"})
      /\ UNCHANGED <<state_, channelUsed>>
SendKeepingEvents(n) ==
  LET direct == "WRITABLE" \notin events_ /\ send_buffer_ = <<>>
  IN  /\ given' = given + n
      /\ \E wrote \in IF direct THEN 0..n ELSE {0} :
           /\ written' = written \o SubSeq(NextBytes(n), 1, wrote)
           /\ IF wrote = n
              THEN UNCHANGED <<send_buffer_, events_>>
              ELSE /\ send_buffer_' = send_buffer_ \o SubSeq(NextBytes(n), wrote + 1, n)
                   /\ Modify(events_ \cup {"WRITABLE"})
      /\ UNCHANGED <<state_, channelUsed>>
\* send: write at once if nothing is waiting, keep what the kernel did not take (all
\* of it when write fails) and ask for EPOLLOUT, with a context that holds nothing else.
Send(n) ==
  LET direct == "WRITABLE" \notin events_ /\ send_buffer_ = <<>>
  IN  /\ given' = given + n
      /\ \E wrote \in IF direct THEN 0..n ELSE {0} :
           /\ written' = written \o SubSeq(NextBytes(n), 1, wrote)
           /\ IF wrote = n
              THEN UNCHANGED <<send_buffer_, events_>>
              ELSE /\ send_buffer_' = send_buffer_ \o SubSeq(NextBytes(n), wrote + 1, n)
                   /\ IF "WRITABLE" \in events_ THEN UNCHANGED events_
                                                ELSE Modify({"WRITABLE"})
      /\ UNCHANGED <<state_, channelUsed>>

\* sendInLoop writes only while READABLE is among the connection's events.
SendInLoop ==
  /\ UNCHANGED <<given, channelUsed>>
  /\ IF send_buffer_ = <<>> \/ "READABLE" \notin events_
     THEN UNCHANGED <<state_, events_, send_buffer_, written>>
     ELSE \E wrote \in 0..Len(send_buffer_) :
            /\ written' = written \o SubSeq(send_buffer_, 1, wrote)
            /\ send_buffer_' = SubSeq(send_buffer_, wrote + 1, Len(send_buffer_))
            /\ IF send_buffer_' = <<>> THEN DisableWriteOwnContext
                                       ELSE UNCHANGED <<state_, events_>>
-----------------------------------------------------------------------------
(* The sub-reactor: TcpServer::updateForWait for this connection, with the *)
(* application in the place of the commented-out calls.                    *)

Connected == state_ = "CONNECTED"

\* read: into recv_buffer_.peek(), however much of it is unread, with as much room as
\* there is behind the unread bytes; nothing unless READABLE is among the events.
Read(bytes) ==
  /\ "READABLE" \in events_
  /\ Len(bytes) <= writableBytes
  /\ buffer_' = Copy(buffer_, readerIndex_, bytes)
  /\ writerIndex_' = writerIndex_ + Len(bytes)
  /\ UNCHANGED <<readerIndex_, out>>

ReadWhenever ==
  /\ Connected
  /\ \E bytes \in Chunks : Read(bytes)
  /\ UNCHANGED connVars
\* The application reads when it has retrieved what was read before.  The guard on
\* readableBytes is the discipline of the commented-out calls, which retrieve all they
\* read, and not a condition of read.
ReadWhenEmpty ==
  /\ Connected /\ readableBytes = 0
  /\ \E bytes \in Chunks : Read(bytes)
  /\ UNCHANGED connVars

\* read fails and disconnects.
ReadFails ==
  /\ Connected /\ "READABLE" \in events_
  /\ Disconnect
  /\ UNCHANGED recvVars

\* The application works on recvBuffer(), or reads into memory of its own: HasWritten,
\* which asks less than read(buf, len) does.
UseRecvBuffer == Connected /\ Next /\ UNCHANGED connVars

SendSome(n) == Connected /\ given + n <= MaxGiven /\ Send(n) /\ UNCHANGED recvVars

\* epoll reports EPOLLOUT, level-triggered unless EPOLLET is asked for, and no input.
Writable == Connected /\ "WRITABLE" \in events_ /\ SendInLoop /\ UNCHANGED recvVars

\* epoll reports EPOLLHUP or EPOLLERR, whatever it was asked for, but then EPOLLOUT
\* too, and its branch comes first; or EPOLLRDHUP, if asked for.
Closable ==
  /\ Connected /\ ("WRITABLE" \in events_ => "CLOSABLE" \in events_)
  /\ Disconnect
  /\ UNCHANGED recvVars

\* Channel::enableRead, enableWrite and disableRead with a context of the
\* application's own, and disableWrite, which sets the default.
UseChannel ==
  /\ Connected
  /\ \E ev \in AppContexts : \/ Modify(ev \cup {"READABLE"})
                            \/ Modify(ev \cup {"WRITABLE"})
                            \/ Modify(ev \ {"READABLE"})
                            \/ Modify(DefaultEvents)
  /\ channelUsed' = TRUE
  /\ UNCHANGED <<state_, send_buffer_, written, given, recvVars>>

\* shutdownWrite.
ShutdownWrite ==
  /\ Connected
  /\ DisableWriteOwnContext
  /\ UNCHANGED <<send_buffer_, written, given, channelUsed, recvVars>>

ConnNext ==
  \/ ReadWhenEmpty
  \/ ReadFails
  \/ UseRecvBuffer
  \/ \E n \in 1..MaxSend : SendSome(n)
  \/ Writable
  \/ Closable
  \/ UseChannel
  \/ ShutdownWrite

ConnSpec == ConnInit /\ [][ConnNext]_<<recvVars, connVars>>
-----------------------------------------------------------------------------
(* Properties.                                                             *)

\* What the application sends goes out in the order of the calls, nothing lost, nothing
\* twice, through every mixture of direct, short and failed writes: the bytes the
\* kernel has taken and the ones waiting are, in this order, the ones given to send.
OutputInOrder == written \o send_buffer_ = [i \in 1..given |-> i]

\* Once output has to wait, the connection is silent in both directions until the
\* application changes the events itself: enableWrite, called by send, replaces what is
\* watched, READABLE with it, so that read returns at once and so does every
\* sendInLoop, which writes only while READABLE is watched.
WaitingOutputSilences ==
  [][~channelUsed' /\ send_buffer_ # <<>>
       => written' = written /\ "READABLE" \notin events_']_connVars
=============================================================================
