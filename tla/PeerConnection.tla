--------------------------- MODULE PeerConnection ---------------------------
(***************************************************************************)
(* peer_connection (peer_connection.cpp) with the pingpong_task it owns,   *)
(* for a set of connections that share one io_service.  Each action is one *)
(* handler, or one early return of it, with every call it makes: the task  *)
(* calls back on_detect_finished from inside its own handlers, and         *)
(* shutdown_and_close aborts the task.  One thread runs the io_service, so *)
(* a handler is one step; which queued handler is next is not assumed.     *)
(***************************************************************************)
EXTENDS PingPongTask, AmibMessage, Integers, FiniteSets

CONSTANTS
  Conn,     \* the connections
  Message   \* what their clients may send

ASSUME MessageAssumption == Message \subseteq Bytes

VARIABLES
  peer,     \* peer[c]: the peer_connection object of c
  io,       \* "running", or the exception that left io_service::run
  debug     \* built with _DEBUG: BASSERT throws

Exceptions == {"system_error", "assert m_start_time", "assert m_closed"}

(***************************************************************************)
(* The members by their names; m_data_received and m_send_buffer by their  *)
(* sizes; m_pingpong_task with started, TRUE once the pointer is set; then *)
(* the operations in flight.  History: disconnects counts the calls of     *)
(* m_disconnect_cbk, acks those of async_send for a new reply, wire the    *)
(* bytes of the reply sent.                                                *)
(***************************************************************************)
Peer == [m_closed : BOOLEAN, m_is_watch_dog_finish_work : BOOLEAN,
         m_pingpong_task_finished : BOOLEAN, started : BOOLEAN, m_pingpong_task : Task,
         pending_io_count : Int, m_data_received : Nat, m_send_buffer : Nat,
         reply_code : 0..3, read : SockOp, write : SockOp, watch_dog : TimerOp,
         disconnects : Nat, acks : Nat, wire : Nat]

NoTask == [NewTask EXCEPT !.connect = "idle", !.send_to = "idle", !.timer = "idle"]

(* No object yet: nothing is in flight.                                     *)
Unborn ==
  [m_closed |-> FALSE, m_is_watch_dog_finish_work |-> FALSE,
   m_pingpong_task_finished |-> FALSE, started |-> FALSE, m_pingpong_task |-> NoTask,
   pending_io_count |-> 0, m_data_received |-> 0, m_send_buffer |-> 3,
   reply_code |-> 0, read |-> "idle", write |-> "idle", watch_dog |-> "idle",
   disconnects |-> 0, acks |-> 0, wire |-> 0]

AsyncReadSome(p) ==
  IF p.m_closed THEN p ELSE [p EXCEPT !.read = "wait", !.pending_io_count = @ + 1]

(* The constructor: the first read and the watch dog.                       *)
NewConnection == AsyncReadSome([Unborn EXCEPT !.watch_dog = "wait"])
-----------------------------------------------------------------------------
(* Mistake: closing forgets the task.                                       *)
ShutdownAndCloseLeavesTask(p, w) ==
  [p EXCEPT
     !.watch_dog = IF w = "close_by_watch_dog" THEN @ ELSE Canceled(@),
     !.read = Closed(@), !.write = Closed(@),
     !.disconnects = @ + 1,
     !.m_closed = TRUE]

(* Closing aborts a task with a probe still running, cancels what is in     *)
(* flight on the socket and, unless the watch dog closes, the watch dog.    *)
ShutdownAndClose(p, w) ==
  [p EXCEPT
     !.watch_dog = IF w = "close_by_watch_dog" THEN @ ELSE Canceled(@),
     !.m_pingpong_task = IF p.started /\ ~Completed(@)
                         THEN Abort(@, "abort_by_external") ELSE @,
     !.read = Closed(@), !.write = Closed(@),
     !.disconnects = @ + 1,
     !.m_closed = TRUE]

(* Mistake: the bits one place too high.                                    *)
ReplyCodeShifted(verdict) ==
  (IF "tcp" \in verdict THEN 2 ELSE 0) + (IF "udp" \in verdict THEN 4 ELSE 0)

ReplyCode(verdict) == (IF "tcp" \in verdict THEN 1 ELSE 0) + (IF "udp" \in verdict THEN 2 ELSE 0)

(* Mistakes: a reply on a closed connection, and the watch dog called off   *)
(* as the reply is sent.                                                    *)
SendAckUnchecked(p, verdict) ==
  [p EXCEPT !.reply_code = ReplyCode(verdict), !.write = "wait",
            !.pending_io_count = @ + 1, !.acks = @ + 1]

SendAckUnwatched(p, verdict) ==
  IF p.m_closed
  THEN p
  ELSE [p EXCEPT !.reply_code = ReplyCode(verdict), !.write = "wait",
                 !.pending_io_count = @ + 1, !.acks = @ + 1, !.watch_dog = Canceled(@)]

SendAck(p, verdict) ==
  IF p.m_closed
  THEN p
  ELSE [p EXCEPT !.reply_code = ReplyCode(verdict), !.write = "wait",
                 !.pending_io_count = @ + 1, !.acks = @ + 1]

(* Mistake: a closed connection does not note that its task has finished.   *)
OnDetectFinishedUnlessClosed(p, verdict) ==
  IF p.m_closed THEN p ELSE [SendAck(p, verdict) EXCEPT !.m_pingpong_task_finished = TRUE]

OnDetectFinished(p, verdict) ==
  [SendAck(p, verdict) EXCEPT !.m_pingpong_task_finished = TRUE]

(* A handler of p's task leaves it as t, having called back if it notified. *)
WithTask(p, t) ==
  LET q == [p EXCEPT !.m_pingpong_task = t]
  IN  IF t.calls # p.m_pingpong_task.calls THEN OnDetectFinished(q, t.verdict) ELSE q

ReadReturned(p) == [p EXCEPT !.read = "idle", !.pending_io_count = @ - 1]

WriteReturned(p) == [p EXCEPT !.write = "idle", !.pending_io_count = @ - 1]

(* Whatever the read returned, the whole buffer is appended.                *)
DataReceived(p) == [ReadReturned(p) EXCEPT !.m_data_received = @ + AMIB_MESSAGE_LENTH]

FullPacket(p) == p.m_data_received = AMIB_MESSAGE_LENTH

(* No request to serve in what was received: wait for more, or close.       *)
Unserved(p) ==
  IF p.m_data_received < AMIB_MESSAGE_LENTH
  THEN [p EXCEPT !.read = "wait", !.pending_io_count = @ + 1]
  ELSE ShutdownAndClose(p, "close_by_read_handler")

(* Mistakes: the rest of a reply not counted, the whole of it sent again,   *)
(* and the connection left open once all of it was sent.                    *)
SentUncounted(p, n) ==
  LET q == [p EXCEPT !.wire = @ + n]
  IN  IF n # p.m_send_buffer
      THEN [q EXCEPT !.m_send_buffer = @ - n, !.write = "wait"]
      ELSE ShutdownAndClose(q, "close_by_write_handler")

SentAgain(p, n) ==
  LET q == [p EXCEPT !.wire = @ + n]
  IN  IF n # p.m_send_buffer
      THEN [q EXCEPT !.write = "wait", !.pending_io_count = @ + 1]
      ELSE ShutdownAndClose(q, "close_by_write_handler")

SentStaysOpen(p, n) ==
  LET q == [p EXCEPT !.wire = @ + n]
  IN  IF n # p.m_send_buffer
      THEN [q EXCEPT !.m_send_buffer = @ - n, !.write = "wait", !.pending_io_count = @ + 1]
      ELSE q

(* n of the bytes left were sent: the rest is sent next, or all is done.    *)
Sent(p, n) ==
  LET q == [p EXCEPT !.wire = @ + n]
  IN  IF n # p.m_send_buffer
      THEN [q EXCEPT !.m_send_buffer = @ - n, !.write = "wait", !.pending_io_count = @ + 1]
      ELSE ShutdownAndClose(q, "close_by_write_handler")

WatchDogDone(p) == [p EXCEPT !.m_is_watch_dog_finish_work = TRUE]

(* Mistakes: erased without regard to the watch dog, or to the task.        *)
RemovableUnwatched(p) ==
  p.m_closed /\ p.pending_io_count = 0 /\ (p.started => p.m_pingpong_task_finished)

RemovableTaskless(p) ==
  p.m_closed /\ p.pending_io_count = 0 /\ p.m_is_watch_dog_finish_work

(* When tcp_server may erase the connection: its four getters.              *)
Removable(p) ==
  /\ p.m_closed
  /\ p.pending_io_count = 0
  /\ p.m_is_watch_dog_finish_work
  /\ p.started => p.m_pingpong_task_finished
-----------------------------------------------------------------------------
vars == <<peer, io, debug>>

Init ==
  /\ peer = [c \in Conn |-> NewConnection]
  /\ io = "running"
  /\ debug \in BOOLEAN

(* A step of connection c that leaves it as p.                              *)
Step(c, p) ==
  /\ io = "running"
  /\ peer' = [peer EXCEPT ![c] = p]
  /\ UNCHANGED <<io, debug>>

(* A handler of c throws e: io_service::run is left and runs no more.       *)
Throw(c, p, e) ==
  /\ io = "running"
  /\ peer' = [peer EXCEPT ![c] = p]
  /\ io' = e
  /\ UNCHANGED debug
-----------------------------------------------------------------------------
(* The reactor: an operation on the socket completes, or the watch dog's 30 *)
(* seconds pass.                                                            *)
SocketCompletes(c) ==
  \E res \in {"ok", "err"} :
    \/ peer[c].read = "wait" /\ Step(c, [peer[c] EXCEPT !.read = res])
    \/ peer[c].write = "wait" /\ Step(c, [peer[c] EXCEPT !.write = res])

WatchDogExpires(c) ==
  /\ peer[c].watch_dog = "wait"
  /\ Step(c, [peer[c] EXCEPT !.watch_dog = "expired"])

(* read_handler, by its returns.                                            *)
ReadAfterClose(c) ==
  /\ Queued(peer[c].read) /\ peer[c].m_closed
  /\ Step(c, ReadReturned(peer[c]))

ReadFails(c) ==
  /\ peer[c].read = "err" /\ ~peer[c].m_closed
  /\ Step(c, ShutdownAndClose(ReadReturned(peer[c]), "close_by_read_handler"))

(* n bytes of msg were read.                                                *)
Requests(p, msg, n) == FullPacket(DataReceived(p)) /\ Accepted(RecvBuffer(msg, n))

ReadsRequest(c, msg, n) ==
  /\ peer[c].read = "ok" /\ ~peer[c].m_closed
  /\ Requests(peer[c], msg, n)
  /\ Step(c, [DataReceived(peer[c]) EXCEPT !.started = TRUE, !.m_pingpong_task = NewTask])

ReadsOther(c, msg, n) ==
  /\ peer[c].read = "ok" /\ ~peer[c].m_closed
  /\ ~Requests(peer[c], msg, n)
  /\ Step(c, Unserved(DataReceived(peer[c])))

(* remote_endpoint() throws when the client has reset the connection, and   *)
(* the task's UDP socket when none can be opened.  In a debug build start() *)
(* asserts on m_start_time, which nothing has initialised: it passes or not.*)
RequestThrows(c, msg, n) ==
  /\ peer[c].read = "ok" /\ ~peer[c].m_closed
  /\ Requests(peer[c], msg, n)
  /\ \E e \in {"system_error"} \cup (IF debug THEN {"assert m_start_time"} ELSE {}) :
       Throw(c, DataReceived(peer[c]), e)

(* write_handler, by its returns.                                           *)
WriteAfterClose(c) ==
  /\ Queued(peer[c].write) /\ peer[c].m_closed
  /\ Step(c, WriteReturned(peer[c]))

WriteFails(c) ==
  /\ peer[c].write = "err" /\ ~peer[c].m_closed
  /\ Step(c, ShutdownAndClose(WriteReturned(peer[c]), "close_by_write_handler"))

WriteSends(c) ==
  /\ peer[c].write = "ok" /\ ~peer[c].m_closed
  /\ \E n \in 1..peer[c].m_send_buffer : Step(c, Sent(WriteReturned(peer[c]), n))
-----------------------------------------------------------------------------
(* watch_dog_handler.  expires_at finds no wait left to cancel.             *)
WatchDogCanceled(c) ==
  /\ peer[c].watch_dog = "canceled"
  /\ Step(c, WatchDogDone([peer[c] EXCEPT !.watch_dog = "idle"]))

WatchDogWolf(c) ==
  LET p == [peer[c] EXCEPT !.watch_dog = "idle"]
  IN  /\ peer[c].watch_dog = "expired" /\ ~(debug /\ p.m_closed)
      /\ Step(c, WatchDogDone(ShutdownAndClose(p, "close_by_watch_dog")))

WatchDogAsserts(c) ==
  /\ peer[c].watch_dog = "expired" /\ debug /\ peer[c].m_closed
  /\ Throw(c, [peer[c] EXCEPT !.watch_dog = "idle"], "assert m_closed")

(* The steps of the task that c owns, in its object.                        *)
TaskCompletes(c) ==
  LET t == peer[c].m_pingpong_task
  IN  \E res \in {"ok", "err"} :
        \/ t.connect = "wait" /\ Step(c, WithTask(peer[c], ConnectDone(t, res)))
        \/ t.send_to = "wait" /\ Step(c, WithTask(peer[c], SendToDone(t, res)))
        \/ t.receive_from = "wait" /\ Step(c, WithTask(peer[c], ReceiveFromDone(t, res)))

TaskExpires(c) ==
  /\ peer[c].m_pingpong_task.timer = "wait"
  /\ Step(c, WithTask(peer[c], TimerExpired(peer[c].m_pingpong_task)))

ConnectReturns(c) ==
  /\ Queued(peer[c].m_pingpong_task.connect)
  /\ Step(c, WithTask(peer[c], TcpConnectHandler(peer[c].m_pingpong_task)))

SendToReturns(c) ==
  /\ Queued(peer[c].m_pingpong_task.send_to)
  /\ Step(c, WithTask(peer[c], UdpSendToHandler(peer[c].m_pingpong_task)))

ReceiveFromReturns(c) ==
  /\ Queued(peer[c].m_pingpong_task.receive_from)
  /\ Step(c, WithTask(peer[c], UdpRcvHandler(peer[c].m_pingpong_task)))

TimerReturns(c) ==
  /\ Queued(peer[c].m_pingpong_task.timer)
  /\ Step(c, WithTask(peer[c], TaskTimeoutHandler(peer[c].m_pingpong_task)))
-----------------------------------------------------------------------------
ReadHandler(c) ==
  \/ ReadAfterClose(c)
  \/ ReadFails(c)
  \/ \E msg \in Message, n \in 1..AMIB_MESSAGE_LENTH :
       ReadsRequest(c, msg, n) \/ ReadsOther(c, msg, n) \/ RequestThrows(c, msg, n)

WriteHandler(c) == WriteAfterClose(c) \/ WriteFails(c) \/ WriteSends(c)

WatchDogHandler(c) == WatchDogCanceled(c) \/ WatchDogWolf(c) \/ WatchDogAsserts(c)

Expires(c)  == WatchDogExpires(c) \/ TaskExpires(c)
Reactor(c)  == SocketCompletes(c) \/ TaskCompletes(c) \/ Expires(c)
Handlers(c) ==
  \/ ReadHandler(c) \/ WriteHandler(c) \/ WatchDogHandler(c)
  \/ ConnectReturns(c) \/ SendToReturns(c) \/ ReceiveFromReturns(c) \/ TimerReturns(c)

Next == \E c \in Conn : Reactor(c) \/ Handlers(c)

Spec == Init /\ [][Next]_vars

(* Every queued handler is called and every deadline passes.  The client    *)
(* and the network owe nothing.                                             *)
Fairness ==
  \A c \in Conn :
    /\ WF_vars(ReadHandler(c)) /\ WF_vars(WriteHandler(c)) /\ WF_vars(WatchDogHandler(c))
    /\ WF_vars(ConnectReturns(c)) /\ WF_vars(SendToReturns(c))
    /\ WF_vars(ReceiveFromReturns(c)) /\ WF_vars(TimerReturns(c))
    /\ WF_vars(WatchDogExpires(c)) /\ WF_vars(TaskExpires(c))
FairSpec == Spec /\ Fairness
-----------------------------------------------------------------------------
TypeOK ==
  /\ peer \in [Conn -> Peer]
  /\ io \in {"running"} \cup Exceptions
  /\ debug \in BOOLEAN

TaskOutstanding(t) == TcpOutstanding(t) \/ UdpOutstanding(t) \/ Outstanding(t.timer)

Waiting(p) ==
  {p.read, p.write, p.watch_dog, p.m_pingpong_task.connect, p.m_pingpong_task.send_to,
   p.m_pingpong_task.receive_from, p.m_pingpong_task.timer}

(* pending_io_count is what peer_connection.h:38 needs it to be: the number *)
(* of read and write handlers that will still run on this object, through   *)
(* every early return, partial write and close.                             *)
PendingIsExact ==
  \A c \in Conn :
    peer[c].pending_io_count = Cardinality({op \in {"read", "write"} : Outstanding(peer[c][op])})

(* tcp_server may free a connection it finds removable: no handler bound to *)
(* the object is outstanding, and its task has nothing to say any more      *)
(* (peer_connection.h:96).                                                  *)
RemovableIsQuiet ==
  \A c \in Conn : Removable(peer[c]) =>
    /\ "idle" = peer[c].read /\ "idle" = peer[c].write /\ "idle" = peer[c].watch_dog
    /\ peer[c].started => peer[c].m_pingpong_task.m_is_notified

(* A connection found removable stays so, its members untouched: the next   *)
(* sweep of the list, whenever another connection closes, may still free it.*)
RemovableForGood ==
  [][\A c \in Conn :
       Removable(peer[c]) =>
         [peer[c] EXCEPT !.m_pingpong_task = NoTask] = [peer'[c] EXCEPT !.m_pingpong_task = NoTask]]_vars

(* A close leaves nothing that only the network or a deadline could end,    *)
(* neither of the connection nor of its task.                               *)
ClosedWindsDown == \A c \in Conn : peer[c].m_closed => "wait" \notin Waiting(peer[c])

(* The watch dog guards a connection until it is closed: it is not canceled *)
(* or spent before (peer_connection.h:103).                                 *)
OpenIsWatched ==
  \A c \in Conn : ~peer[c].m_closed => peer[c].watch_dog \in {"wait", "expired"}

(* The client is sent one reply, with the verdict of the finished task: the *)
(* bytes on the wire and those left make up the reply however the write was *)
(* split, and a task that was not timed out tells all that it reached.      *)
ReplyFaithful ==
  \A c \in Conn :
    LET p == peer[c]  t == peer[c].m_pingpong_task
    IN  /\ p.acks <= 1
        /\ Outstanding(p.write) => p.acks = 1 /\ p.wire + p.m_send_buffer = 3
        /\ p.acks = 1 => /\ p.m_pingpong_task_finished
                         /\ p.reply_code = ReplyCode(t.verdict)
                         /\ t.verdict \subseteq t.reached
                         /\ ~t.m_abort => t.verdict = t.reached

(* An open connection has business: it is being read, probed or replied to. *)
(* Once replied to it is closed, and does not hold the client's socket until*)
(* the watch dog comes.                                                     *)
OpenIsBusy ==
  io = "running" =>
    \A c \in Conn : ~peer[c].m_closed =>
      \/ Outstanding(peer[c].read) \/ Outstanding(peer[c].write)
      \/ peer[c].started /\ ~peer[c].m_pingpong_task_finished

(* Whatever the client, the network and the deadlines do, the connection    *)
(* becomes removable, unless an exception ends the server.                  *)
EventuallyRemovable == \A c \in Conn : <>(Removable(peer[c]) \/ io # "running")

(* The connections keep the contract that tcp_server relies on.             *)
Getters(p) ==
  [closed |-> p.m_closed, pending |-> p.pending_io_count,
   watched |-> ~p.m_is_watch_dog_finish_work,
   started |-> p.started, finished |-> p.m_pingpong_task_finished]

Contract == INSTANCE PeerContract WITH life    <- [c \in Conn |-> Getters(peer[c])],
                                       running <- (io = "running")
ImplementsContract == Contract!Spec

(* Part of a good request: read_handler:107 takes it for data "still on the *)
(* way", to be read on.                                                     *)
PartialRequestWaits ==
  [][\A c \in Conn, msg \in Message, n \in 1..AMIB_MESSAGE_LENTH - 1 :
       Accepted(msg) /\ ReadsOther(c, msg, n) => ~peer'[c].m_closed]_vars

(* BASSERT(!m_closed) at the head of shutdown_and_close never fires.        *)
ClosesOnce == io # "assert m_closed"
=============================================================================
