--------------------------- MODULE FifoConnection ---------------------------
(***************************************************************************)
(* PeerConnection when the io_service calls its handlers in the order in   *)
(* which they were queued, which asio does though it does not promise it:  *)
(* what that order saves, and what it does not.                            *)
(***************************************************************************)
EXTENDS PeerConnection, Functions

VARIABLE queue     \* <<connection, operation>>: the handlers, in their order

fifo_vars == <<vars, queue>>

SocketOps == {"read", "write", "connect", "send_to", "receive_from"}
Ops       == SocketOps \cup {"watch_dog", "timer"}

OpOf(p, op) ==
  IF op \in {"read", "write", "watch_dog"} THEN p[op] ELSE p.m_pingpong_task[op]

InQueue(c, op) == <<c, op>> \in Range(queue)

(* An operation on a socket that can be performed as it is started is, and  *)
(* is queued at once: immediate is the set of those.  The others follow     *)
(* when the reactor completes them.                                         *)
Joins(c, op, immediate) ==
  \/ op \in immediate
  \/ /\ ~Queued(OpOf(peer[c], op)) /\ Queued(OpOf(peer'[c], op))
     /\ ~InQueue(c, op)

IfJoins(c, op, immediate) == IF Joins(c, op, immediate) THEN <<<<c, op>>>> ELSE <<>>

(* A step that queues several handlers does it in the order of its calls.   *)
(* shutdown_and_close cancels the watch dog, aborts the task (its timer and *)
(* then its sockets) and closes its own socket; check_notify cancels the    *)
(* timer and replies, before a send handler goes on to receive.             *)
Enqueued(c, immediate) ==
  LET Call(op) == IfJoins(c, op, immediate)
  IN  Call("watch_dog") \o Call("timer") \o Call("connect") \o Call("write")
        \o Call("send_to") \o Call("receive_from") \o Call("read")

Startable(c) ==
  {op \in SocketOps : OpOf(peer[c], op) # "wait" /\ OpOf(peer'[c], op) = "wait"}

FifoInit == Init /\ queue = <<>>

Completes(c) == Reactor(c) /\ queue' = queue \o Enqueued(c, {})

(* The handler is the first in the queue.                                   *)
Turn(c, op) ==
  /\ queue # <<>> /\ Head(queue) = <<c, op>>
  /\ \E immediate \in SUBSET Startable(c) : queue' = Tail(queue) \o Enqueued(c, immediate)

Runs(c) ==
  \/ ReadHandler(c) /\ Turn(c, "read")
  \/ WriteHandler(c) /\ Turn(c, "write")
  \/ WatchDogHandler(c) /\ Turn(c, "watch_dog")
  \/ ConnectReturns(c) /\ Turn(c, "connect")
  \/ SendToReturns(c) /\ Turn(c, "send_to")
  \/ ReceiveFromReturns(c) /\ Turn(c, "receive_from")
  \/ TimerReturns(c) /\ Turn(c, "timer")

FifoNext == \E c \in Conn : Completes(c) \/ Runs(c)

FifoSpec == FifoInit /\ [][FifoNext]_fifo_vars
-----------------------------------------------------------------------------
(* The queue holds each handler that is to be called once, and none whose   *)
(* operation is not outstanding: nothing is called twice, or out of the blue.*)
QueueIsExact ==
  \A c \in Conn, op \in Ops :
    LET n == Cardinality({i \in DOMAIN queue : queue[i] = <<c, op>>})
    IN  /\ n <= 1
        /\ Queued(OpOf(peer[c], op)) => n = 1
        /\ n = 1 => Outstanding(OpOf(peer[c], op))

(* The task goes with its connection: unless it was aborted, every handler  *)
(* bound to the bare task has run by the time its connection may be freed.  *)
(* No flag says so of its timer, canceled as the task notifies: the place in*)
(* the queue, before the handler of the reply, does.                        *)
FinishedTaskGone ==
  \A c \in Conn : Removable(peer[c]) /\ ~peer[c].m_pingpong_task.m_abort =>
    ~TaskOutstanding(peer[c].m_pingpong_task)

(* The same of every task (peer_connection.h:97: a connection that waited   *)
(* for its task to finish is deleted without conflict).                     *)
TaskGoneWhenRemovable ==
  \A c \in Conn : Removable(peer[c]) => ~TaskOutstanding(peer[c].m_pingpong_task)
=============================================================================
