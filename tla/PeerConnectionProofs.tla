------------------------ MODULE PeerConnectionProofs ------------------------
(***************************************************************************)
(* The theorems of PeerConnection, for any set of connections and any      *)
(* messages.  Connections do not touch each other, so the invariant is one *)
(* of a connection, ConnInv, and the lemmas speak of the operators that    *)
(* make up its handlers; what a handler does to the task inside is taken   *)
(* from PingPongTaskLemmas.  Lemma Steps puts them together: all that the  *)
(* theorems need to know of a step.                                        *)
(***************************************************************************)
EXTENDS PeerConnection, PingPongTaskLemmas, FiniteSetTheorems

(* The task is in order from the moment it is there, and the connection     *)
(* knows that it has finished as soon as it has notified.                   *)
TaskPart(p) ==
  /\ p.started => TaskInv(p.m_pingpong_task)
  /\ ~p.started => p.m_pingpong_task = NoTask
  /\ p.m_pingpong_task_finished <=> p.started /\ p.m_pingpong_task.m_is_notified

(* The count, and the order that keeps it small: the read ends before the   *)
(* task begins.                                                             *)
IoPart(p) ==
  /\ p.pending_io_count = (IF Outstanding(p.read) THEN 1 ELSE 0)
                        + (IF Outstanding(p.write) THEN 1 ELSE 0)
  /\ Outstanding(p.read) => ~p.started /\ p.m_data_received = 0

(* Nothing is written before the one reply, which comes after the task.     *)
ReplyPart(p) ==
  /\ p.acks \in {0, 1} /\ p.wire <= 3
  /\ p.acks = 0 => p.write = "idle" /\ p.wire = 0 /\ p.m_send_buffer = 3
  /\ p.acks = 1 => /\ p.m_pingpong_task_finished
                   /\ p.reply_code = ReplyCode(p.m_pingpong_task.verdict)
  /\ Outstanding(p.write) => p.wire + p.m_send_buffer = 3

(* The watch dog waits or bites while the connection is open.               *)
WatchPart(p) ==
  /\ ~p.m_closed => p.watch_dog \in {"wait", "expired"}
  /\ p.m_closed => p.watch_dog # "wait"
  /\ p.m_is_watch_dog_finish_work => p.watch_dog = "idle"

(* Closing has told everybody.                                              *)
ClosedPart(p) ==
  p.m_closed => /\ p.read # "wait" /\ p.write # "wait"
                /\ p.started => p.m_pingpong_task.m_abort \/ Completed(p.m_pingpong_task)

ConnInv(p) ==
  p \in Peer /\ TaskPart(p) /\ IoPart(p) /\ ReplyPart(p) /\ WatchPart(p) /\ ClosedPart(p)

(* An open connection has business, as OpenIsBusy asks.                     *)
Busy(p) ==
  ~p.m_closed =>
    \/ Outstanding(p.read) \/ Outstanding(p.write)
    \/ p.started /\ ~p.m_pingpong_task_finished
-----------------------------------------------------------------------------
LEMMA NoTaskType == NoTask \in Task /\ ~NoTask.m_is_notified
BY DEF NoTask, NewTask, Task, SockOp, TimerOp

LEMMA ReplyCodeType == \A v : ReplyCode(v) \in 0..3
BY DEF ReplyCode

(* Nothing of a task that was aborted or is complete waits.                 *)
LEMMA TaskWoundDown ==
  ASSUME NEW t, TaskInv(t), t.m_abort \/ Completed(t)
  PROVE  "wait" \notin {t.connect, t.send_to, t.receive_from, t.timer}
BY DEF TaskInv, NotifyInv, PendingInv, ProgressInv, TcpOutstanding, Outstanding, Completed

(* The object before its constructor has started anything.                  *)
LEMMA UnbornFields ==
  /\ Unborn \in Peer
  /\ ~Unborn.started /\ Unborn.m_pingpong_task = NoTask /\ ~Unborn.m_pingpong_task_finished
  /\ Unborn.pending_io_count = 0 /\ Unborn.read = "idle" /\ Unborn.write = "idle"
  /\ Unborn.watch_dog = "idle" /\ Unborn.m_data_received = 0
  /\ Unborn.acks = 0 /\ Unborn.wire = 0 /\ Unborn.m_send_buffer = 3
  /\ ~Unborn.m_closed /\ ~Unborn.m_is_watch_dog_finish_work
BY NoTaskType DEF Unborn, Peer, SockOp, TimerOp

(* The fields that an operator leaves alone, by the parts of ConnInv.       *)
SameTask(p, q) ==
  /\ q.started = p.started /\ q.m_pingpong_task = p.m_pingpong_task
  /\ q.m_pingpong_task_finished = p.m_pingpong_task_finished
SameReply(p, q) ==
  /\ q.acks = p.acks /\ q.wire = p.wire
  /\ q.reply_code = p.reply_code /\ q.m_send_buffer = p.m_send_buffer
SameWatch(p, q) ==
  /\ q.m_closed = p.m_closed /\ q.watch_dog = p.watch_dog
  /\ q.m_is_watch_dog_finish_work = p.m_is_watch_dog_finish_work

(* What starting a read, and the return of a read or a write, change.       *)
LEMMA AsyncReadSomeFields ==
  ASSUME NEW p \in Peer, ~p.m_closed
  PROVE  LET q == AsyncReadSome(p)
         IN  /\ q \in Peer /\ SameTask(p, q) /\ SameReply(p, q) /\ SameWatch(p, q)
             /\ q.read = "wait" /\ q.write = p.write
             /\ q.pending_io_count = p.pending_io_count + 1
             /\ q.m_data_received = p.m_data_received
<1> DEFINE n == p.pending_io_count + 1
<1>1. n \in Int /\ "wait" \in SockOp
  BY DEF Peer, SockOp
<1>2. AsyncReadSome(p) = [p EXCEPT !.read = "wait", !.pending_io_count = n]
  BY DEF AsyncReadSome
<1> HIDE DEF n
<1>3. LET q == AsyncReadSome(p)
      IN  /\ q \in Peer /\ SameTask(p, q) /\ SameReply(p, q) /\ SameWatch(p, q)
          /\ q.read = "wait" /\ q.write = p.write /\ q.pending_io_count = n
          /\ q.m_data_received = p.m_data_received
  BY <1>1, <1>2 DEF Peer, SameTask, SameReply, SameWatch
<1> QED BY <1>3 DEF n

LEMMA ReadReturnedFields ==
  ASSUME NEW p \in Peer
  PROVE  LET q == ReadReturned(p)
         IN  /\ q \in Peer /\ SameTask(p, q) /\ SameReply(p, q) /\ SameWatch(p, q)
             /\ q.read = "idle" /\ q.write = p.write
             /\ q.pending_io_count = p.pending_io_count - 1
             /\ q.m_data_received = p.m_data_received
<1> DEFINE n == p.pending_io_count - 1
<1>1. n \in Int /\ "idle" \in SockOp
  BY DEF Peer, SockOp
<1>2. ReadReturned(p) = [p EXCEPT !.read = "idle", !.pending_io_count = n]
  BY DEF ReadReturned
<1> HIDE DEF n
<1>3. LET q == ReadReturned(p)
      IN  /\ q \in Peer /\ SameTask(p, q) /\ SameReply(p, q) /\ SameWatch(p, q)
          /\ q.read = "idle" /\ q.write = p.write /\ q.pending_io_count = n
          /\ q.m_data_received = p.m_data_received
  BY <1>1, <1>2 DEF Peer, SameTask, SameReply, SameWatch
<1> QED BY <1>3 DEF n

LEMMA WriteReturnedFields ==
  ASSUME NEW p \in Peer
  PROVE  LET q == WriteReturned(p)
         IN  /\ q \in Peer /\ SameTask(p, q) /\ SameReply(p, q) /\ SameWatch(p, q)
             /\ q.write = "idle" /\ q.read = p.read
             /\ q.pending_io_count = p.pending_io_count - 1
             /\ q.m_data_received = p.m_data_received
<1> DEFINE n == p.pending_io_count - 1
<1>1. n \in Int /\ "idle" \in SockOp
  BY DEF Peer, SockOp
<1>2. WriteReturned(p) = [p EXCEPT !.write = "idle", !.pending_io_count = n]
  BY DEF WriteReturned
<1> HIDE DEF n
<1>3. LET q == WriteReturned(p)
      IN  /\ q \in Peer /\ SameTask(p, q) /\ SameReply(p, q) /\ SameWatch(p, q)
          /\ q.write = "idle" /\ q.read = p.read /\ q.pending_io_count = n
          /\ q.m_data_received = p.m_data_received
  BY <1>1, <1>2 DEF Peer, SameTask, SameReply, SameWatch
<1> QED BY <1>3 DEF n

LEMMA DataReceivedFields ==
  ASSUME NEW p \in Peer
  PROVE  LET q == DataReceived(p)
         IN  /\ q \in Peer /\ SameTask(p, q) /\ SameReply(p, q) /\ SameWatch(p, q)
             /\ q.read = "idle" /\ q.write = p.write
             /\ q.pending_io_count = p.pending_io_count - 1
             /\ q.m_data_received = p.m_data_received + 11
<1> DEFINE r == ReadReturned(p)
<1>1. /\ r \in Peer /\ SameTask(p, r) /\ SameReply(p, r) /\ SameWatch(p, r)
      /\ r.read = "idle" /\ r.write = p.write
      /\ r.pending_io_count = p.pending_io_count - 1
      /\ r.m_data_received = p.m_data_received
  BY ReadReturnedFields
<1>2. DataReceived(p) = [r EXCEPT !.m_data_received = @ + 11]
  BY DEF DataReceived, AMIB_MESSAGE_LENTH
<1> HIDE DEF r
<1> QED BY <1>1, <1>2 DEF Peer, SameTask, SameReply, SameWatch

(* A connection as its constructor leaves it is in order.                   *)
LEMMA NewConnectionInv == ConnInv(NewConnection) /\ Busy(NewConnection)
<1> DEFINE u == [Unborn EXCEPT !.watch_dog = "wait"]
           p == NewConnection
<1>1. /\ u \in Peer /\ SameTask(Unborn, u) /\ SameReply(Unborn, u)
      /\ u.pending_io_count = 0 /\ u.write = "idle" /\ u.m_data_received = 0
      /\ u.watch_dog = "wait" /\ ~u.m_closed /\ ~u.m_is_watch_dog_finish_work
  BY UnbornFields DEF Peer, TimerOp, SameTask, SameReply
<1>2. p = AsyncReadSome(u)
  BY DEF NewConnection
<1> HIDE DEF u, p
<1>3. /\ p \in Peer /\ SameTask(u, p) /\ SameReply(u, p) /\ SameWatch(u, p)
      /\ p.read = "wait" /\ p.write = "idle" /\ p.pending_io_count = 1
      /\ p.m_data_received = 0
  BY <1>1, <1>2, AsyncReadSomeFields
<1>4. ConnInv(p)
  BY <1>1, <1>3, UnbornFields
     DEF ConnInv, TaskPart, IoPart, ReplyPart, WatchPart, ClosedPart, Outstanding,
         SameTask, SameReply, SameWatch
<1>5. Busy(p)
  BY <1>3 DEF Busy, Outstanding
<1> QED BY <1>4, <1>5 DEF p

(* What shutdown_and_close sets, and what it leaves.                        *)
LEMMA CloseFields ==
  ASSUME NEW p \in Peer, NEW w, TaskPart(p)
  PROVE  LET q == ShutdownAndClose(p, w)
             t == p.m_pingpong_task
         IN  /\ q \in Peer /\ q.m_closed
             /\ q.m_pingpong_task = IF p.started /\ ~Completed(t)
                                    THEN Abort(t, "abort_by_external") ELSE t
             /\ q.watch_dog = IF w = "close_by_watch_dog" THEN p.watch_dog
                                                           ELSE Canceled(p.watch_dog)
             /\ q.read = Closed(p.read) /\ q.write = Closed(p.write)
             /\ q.m_is_watch_dog_finish_work = p.m_is_watch_dog_finish_work
             /\ q.m_pingpong_task_finished = p.m_pingpong_task_finished
             /\ q.started = p.started /\ q.pending_io_count = p.pending_io_count
             /\ q.m_data_received = p.m_data_received /\ q.m_send_buffer = p.m_send_buffer
             /\ q.reply_code = p.reply_code /\ q.acks = p.acks /\ q.wire = p.wire
<1> DEFINE t == p.m_pingpong_task
           a == IF p.started /\ ~Completed(t) THEN Abort(t, "abort_by_external") ELSE t
           d == IF w = "close_by_watch_dog" THEN p.watch_dog ELSE Canceled(p.watch_dog)
           x == Closed(p.read)
           y == Closed(p.write)
           n == p.disconnects + 1
<1>1. t \in Task /\ p.watch_dog \in TimerOp /\ p.read \in SockOp /\ p.write \in SockOp /\ n \in Nat
  BY DEF Peer
<1>2. d \in TimerOp /\ x \in SockOp /\ y \in SockOp
  BY <1>1, OpTypes
<1>3. a \in Task
  BY <1>1, AbortInv DEF TaskPart, TaskInv
<1>4. ShutdownAndClose(p, w) = [p EXCEPT !.watch_dog = d, !.m_pingpong_task = a, !.read = x,
                                        !.write = y, !.disconnects = n, !.m_closed = TRUE]
  BY DEF ShutdownAndClose
<1> HIDE DEF a, d, x, y, n
<1>5. LET q == ShutdownAndClose(p, w)
      IN  /\ q \in Peer /\ q.m_closed
          /\ q.m_pingpong_task = a /\ q.watch_dog = d /\ q.read = x /\ q.write = y
          /\ q.m_is_watch_dog_finish_work = p.m_is_watch_dog_finish_work
          /\ q.m_pingpong_task_finished = p.m_pingpong_task_finished
          /\ q.started = p.started /\ q.pending_io_count = p.pending_io_count
          /\ q.m_data_received = p.m_data_received /\ q.m_send_buffer = p.m_send_buffer
          /\ q.reply_code = p.reply_code /\ q.acks = p.acks /\ q.wire = p.wire
  BY <1>1, <1>2, <1>3, <1>4 DEF Peer
<1> QED BY <1>5 DEF a, d, x, y

(* shutdown_and_close puts a connection in order whose handler has counted  *)
(* itself out, whether it comes from a handler of an open connection or     *)
(* from the watch dog, which may find it closed.                            *)
LEMMA CloseInv ==
  ASSUME NEW p \in Peer, NEW w, TaskPart(p), IoPart(p), ReplyPart(p),
         \/ w = "close_by_watch_dog" /\ p.watch_dog = "idle"
         \/ w # "close_by_watch_dog" /\ ~p.m_closed /\ WatchPart(p)
  PROVE  LET q == ShutdownAndClose(p, w)
         IN  /\ ConnInv(q) /\ Busy(q)
             /\ q \in Peer /\ q.m_closed /\ q.pending_io_count = p.pending_io_count
             /\ q.m_is_watch_dog_finish_work = p.m_is_watch_dog_finish_work
             /\ q.m_pingpong_task_finished = p.m_pingpong_task_finished
             /\ q.started = p.started /\ q.acks = p.acks
             /\ p.acks = 1 => q.m_pingpong_task = p.m_pingpong_task
             /\ q.watch_dog = "idle" <=> p.watch_dog = "idle"
<1> DEFINE q == ShutdownAndClose(p, w)
           t == p.m_pingpong_task
           u == q.m_pingpong_task
<1>1. /\ q \in Peer /\ q.m_closed
      /\ u = IF p.started /\ ~Completed(t) THEN Abort(t, "abort_by_external") ELSE t
      /\ q.watch_dog = IF w = "close_by_watch_dog" THEN p.watch_dog ELSE Canceled(p.watch_dog)
      /\ q.read = Closed(p.read) /\ q.write = Closed(p.write)
      /\ q.m_is_watch_dog_finish_work = p.m_is_watch_dog_finish_work
      /\ q.m_pingpong_task_finished = p.m_pingpong_task_finished
      /\ q.started = p.started /\ q.pending_io_count = p.pending_io_count
      /\ q.m_data_received = p.m_data_received /\ q.m_send_buffer = p.m_send_buffer
      /\ q.reply_code = p.reply_code /\ q.acks = p.acks /\ q.wire = p.wire
  BY CloseFields
<1> HIDE DEF q
<1>2. /\ p.started => /\ TaskInv(u) /\ (u.m_abort \/ Completed(u))
                      /\ u.m_is_notified = t.m_is_notified
                      /\ t.m_is_notified => u = t
      /\ ~p.started => u = t
  <2>1. CASE p.started /\ ~Completed(t)
    <3>1. /\ t \in Task /\ ~t.m_is_notified
          /\ TaskInv(Abort(t, "abort_by_external"))
          /\ Abort(t, "abort_by_external").m_abort
          /\ Abort(t, "abort_by_external").m_is_notified = t.m_is_notified
      BY <2>1, AbortInv DEF TaskPart, TaskInv, NotifyInv
    <3> QED BY <1>1, <2>1, <3>1
  <2>2. CASE ~p.started \/ Completed(t)
    BY <1>1, <2>2 DEF TaskPart
  <2> QED BY <2>1, <2>2
<1>3. TaskPart(q)
  BY <1>1, <1>2 DEF TaskPart
<1>4. /\ Outstanding(q.read) = Outstanding(p.read) /\ Outstanding(q.write) = Outstanding(p.write)
      /\ q.read # "wait" /\ q.write # "wait"
  BY <1>1 DEF Outstanding, Closed
<1>5. IoPart(q)
  BY <1>1, <1>4 DEF IoPart
<1>6. ReplyPart(q)
  <2>1. p.acks = 1 => u = t
    BY <1>2 DEF ReplyPart, TaskPart
  <2>2. p.write = "idle" => q.write = "idle"
    BY <1>1 DEF Closed
  <2> QED BY <1>1, <1>4, <2>1, <2>2 DEF ReplyPart
<1>7. WatchPart(q) /\ (q.watch_dog = "idle" <=> p.watch_dog = "idle")
  BY <1>1 DEF WatchPart, Canceled
<1>8. ClosedPart(q)
  BY <1>1, <1>2, <1>4 DEF ClosedPart
<1>9. Busy(q)
  BY <1>1 DEF Busy
<1>10. p.acks = 1 => u = p.m_pingpong_task
  BY <1>2 DEF ReplyPart, TaskPart
<1> QED BY <1>1, <1>3, <1>5, <1>6, <1>7, <1>8, <1>9, <1>10 DEF ConnInv, q
-----------------------------------------------------------------------------
(* What a step from p to q looks like to tcp_server: a step of PeerContract *)
(* or none.                                                                 *)
SeenAs(p, q) ==
  LET l == Getters(p)  m == Getters(q)
  IN  \/ m = l
      \/ l.pending = 1 /\ m \in Contract!AfterIo(l)
      \/ l.started /\ ~l.finished /\ m = Contract!AfterTask(l)
      \/ l.watched /\ m = Contract!AfterWatchDog(l)

(* What a step leaves of a removable connection, and of a reply once begun. *)
Keeps(p, q) ==
  /\ Removable(p) => [q EXCEPT !.m_pingpong_task = NoTask] = [p EXCEPT !.m_pingpong_task = NoTask]
  /\ p.acks = 1 => q.acks = 1 /\ q.m_pingpong_task.verdict = p.m_pingpong_task.verdict

Seen == [closed : BOOLEAN, pending : Int, watched : BOOLEAN, started : BOOLEAN, finished : BOOLEAN]

LEMMA GettersFields ==
  ASSUME NEW p \in Peer
  PROVE  LET l == Getters(p)
         IN  /\ l \in Seen
             /\ l.closed = p.m_closed /\ l.pending = p.pending_io_count
             /\ l.watched = ~p.m_is_watch_dog_finish_work
             /\ l.started = p.started /\ l.finished = p.m_pingpong_task_finished
BY DEF Getters, Seen, Peer

(* The four kinds of steps, told by the members.                            *)
LEMMA SeenNothing ==
  ASSUME NEW p \in Peer, NEW q \in Peer,
         q.m_closed = p.m_closed, q.pending_io_count = p.pending_io_count,
         q.m_is_watch_dog_finish_work = p.m_is_watch_dog_finish_work,
         q.started = p.started, q.m_pingpong_task_finished = p.m_pingpong_task_finished
  PROVE  Getters(q) = Getters(p)
BY GettersFields DEF Getters

LEMMA SeenIo ==
  ASSUME NEW p \in Peer, NEW q \in Peer, p.pending_io_count = 1, q.pending_io_count = 0,
         q.m_is_watch_dog_finish_work = p.m_is_watch_dog_finish_work,
         q.m_pingpong_task_finished = p.m_pingpong_task_finished,
         \/ q.m_closed /\ q.started = p.started
         \/ ~p.m_closed /\ ~p.started /\ ~q.m_closed /\ q.started
  PROVE  SeenAs(p, q)
<1> DEFINE l == Getters(p)
           m == Getters(q)
<1>1. /\ l \in Seen /\ m \in Seen /\ l.pending = 1 /\ m.pending = 0
      /\ m.watched = l.watched /\ m.finished = l.finished
      /\ \/ m.closed = TRUE /\ m.started = l.started
         \/ l.closed = FALSE /\ l.started = FALSE /\ m.closed = FALSE /\ m.started = TRUE
  BY GettersFields DEF Seen
<1> HIDE DEF l, m
<1>2. m \in Contract!AfterIo(l)
  <2>1. CASE l.closed
    BY <1>1, <2>1 DEF Seen, Contract!AfterIo, Contract!Returned
  <2>2. CASE ~l.closed /\ m.closed
    <3>1. m = [Contract!Returned(l) EXCEPT !.closed = TRUE]
      BY <1>1, <2>2 DEF Seen, Contract!Returned
    <3> QED BY <2>2, <3>1 DEF Contract!AfterIo
  <2>3. CASE ~m.closed
    <3>1. m = [Contract!Returned(l) EXCEPT !.started = TRUE]
      BY <1>1, <2>3 DEF Seen, Contract!Returned
    <3> QED BY <1>1, <2>3, <3>1 DEF Contract!AfterIo
  <2> QED BY <2>1, <2>2, <2>3
<1> QED BY <1>1, <1>2 DEF SeenAs, l, m

LEMMA SeenTask ==
  ASSUME NEW p \in Peer, NEW q \in Peer, p.started, ~p.m_pingpong_task_finished,
         q.started, q.m_pingpong_task_finished, q.m_closed = p.m_closed,
         q.m_is_watch_dog_finish_work = p.m_is_watch_dog_finish_work,
         q.pending_io_count = IF p.m_closed THEN p.pending_io_count ELSE 1
  PROVE  SeenAs(p, q)
<1> DEFINE l == Getters(p)
           m == Getters(q)
<1>1. /\ l \in Seen /\ m \in Seen /\ l.started /\ ~l.finished
      /\ m.started = l.started /\ m.finished = TRUE /\ m.closed = l.closed
      /\ m.watched = l.watched /\ m.pending = IF l.closed THEN l.pending ELSE 1
  BY GettersFields DEF Seen
<1> HIDE DEF l, m
<1>2. m = Contract!AfterTask(l)
  BY <1>1 DEF Seen, Contract!AfterTask
<1> QED BY <1>1, <1>2 DEF SeenAs, l, m

LEMMA SeenWatchDog ==
  ASSUME NEW p \in Peer, NEW q \in Peer,
         ~p.m_is_watch_dog_finish_work, q.m_is_watch_dog_finish_work, q.m_closed,
         q.pending_io_count = p.pending_io_count, q.started = p.started,
         q.m_pingpong_task_finished = p.m_pingpong_task_finished
  PROVE  SeenAs(p, q)
<1> DEFINE l == Getters(p)
           m == Getters(q)
<1>1. /\ l \in Seen /\ m \in Seen /\ l.watched /\ m.watched = FALSE /\ m.closed = TRUE
      /\ m.pending = l.pending /\ m.started = l.started /\ m.finished = l.finished
  BY GettersFields DEF Seen
<1> HIDE DEF l, m
<1>2. m = Contract!AfterWatchDog(l)
  BY <1>1 DEF Seen, Contract!AfterWatchDog
<1> QED BY <1>1, <1>2 DEF SeenAs, l, m

(* A removable connection has no operation of its own, and no task that     *)
(* could still call it back.                                                *)
LEMMA RemovableIdle ==
  ASSUME NEW p, ConnInv(p), Removable(p)
  PROVE  /\ p.read = "idle" /\ p.write = "idle" /\ p.watch_dog = "idle"
         /\ p.started => p.m_pingpong_task.m_is_notified
BY DEF ConnInv, Peer, TaskPart, IoPart, WatchPart, Removable, Outstanding
-----------------------------------------------------------------------------
(* on_detect_finished notes the end of the task, and starts the reply if    *)
(* the connection is open.                                                  *)
LEMMA OnDetectFinishedFields ==
  ASSUME NEW p \in Peer, NEW v
  PROVE  LET q == OnDetectFinished(p, v)
         IN  /\ q \in Peer /\ SameWatch(p, q) /\ q.m_pingpong_task_finished
             /\ q.started = p.started /\ q.m_pingpong_task = p.m_pingpong_task
             /\ q.read = p.read /\ q.m_data_received = p.m_data_received
             /\ q.wire = p.wire /\ q.m_send_buffer = p.m_send_buffer
             /\ p.m_closed => /\ q.write = p.write /\ q.acks = p.acks
                              /\ q.pending_io_count = p.pending_io_count
                              /\ q.reply_code = p.reply_code
             /\ ~p.m_closed => /\ q.write = "wait" /\ q.acks = p.acks + 1
                               /\ q.pending_io_count = p.pending_io_count + 1
                               /\ q.reply_code = ReplyCode(v)
<1> DEFINE n == p.pending_io_count + 1
           k == p.acks + 1
           code == ReplyCode(v)
           a == SendAck(p, v)
<1>1. n \in Int /\ k \in Nat /\ code \in 0..3 /\ "wait" \in SockOp
  BY ReplyCodeType DEF Peer, SockOp
<1>2. a = IF p.m_closed
          THEN p
          ELSE [p EXCEPT !.reply_code = code, !.write = "wait", !.pending_io_count = n, !.acks = k]
  BY DEF SendAck
<1> HIDE DEF n, k, code, a
<1>3. /\ a \in Peer /\ SameWatch(p, a) /\ SameTask(p, a)
      /\ a.read = p.read /\ a.m_data_received = p.m_data_received
      /\ a.wire = p.wire /\ a.m_send_buffer = p.m_send_buffer
      /\ p.m_closed => a = p
      /\ ~p.m_closed => /\ a.write = "wait" /\ a.acks = k /\ a.pending_io_count = n
                        /\ a.reply_code = code
  BY <1>1, <1>2 DEF Peer, SameWatch, SameTask
<1> DEFINE q == OnDetectFinished(p, v)
<1>4. q = [a EXCEPT !.m_pingpong_task_finished = TRUE]
  BY DEF OnDetectFinished, a
<1> HIDE DEF q
<1>5. /\ q \in Peer /\ SameWatch(a, q) /\ q.m_pingpong_task_finished
      /\ q.started = a.started /\ q.m_pingpong_task = a.m_pingpong_task
      /\ q.read = a.read /\ q.m_data_received = a.m_data_received
      /\ q.wire = a.wire /\ q.m_send_buffer = a.m_send_buffer
      /\ q.write = a.write /\ q.acks = a.acks /\ q.reply_code = a.reply_code
      /\ q.pending_io_count = a.pending_io_count
  BY <1>3, <1>4 DEF Peer, SameWatch
<1> QED BY <1>3, <1>5 DEF SameWatch, SameTask, n, k, code, q

(* What the owner may rely on when its task t has become r.                 *)
TaskGoesOn(t, r) ==
  /\ TaskInv(r)
  /\ t.m_is_notified => r.m_is_notified /\ r.verdict = t.verdict
  /\ t.m_abort => r.m_abort

(* A step of the task, the callback included if it notifies: the reply is   *)
(* begun at most once, and only by a task that had not finished.            *)
LEMMA WithTaskInv ==
  ASSUME NEW p, ConnInv(p), Busy(p), p.started,
         NEW r, TaskGoesOn(p.m_pingpong_task, r)
  PROVE  LET q == WithTask(p, r)
         IN  ConnInv(q) /\ Busy(q) /\ SeenAs(p, q) /\ Keeps(p, q)
<1> DEFINE t == p.m_pingpong_task
           b == [p EXCEPT !.m_pingpong_task = r]
           q == WithTask(p, r)
<1>1. p \in Peer /\ TaskInv(t) /\ TaskInv(r) /\ r \in Task
  BY DEF ConnInv, TaskPart, TaskGoesOn, TaskInv
<1>2. /\ b \in Peer /\ SameWatch(p, b) /\ SameReply(p, b) /\ b.m_pingpong_task = r
      /\ b.started = p.started /\ b.m_pingpong_task_finished = p.m_pingpong_task_finished
      /\ b.read = p.read /\ b.write = p.write /\ b.pending_io_count = p.pending_io_count
      /\ b.m_data_received = p.m_data_received
  BY <1>1 DEF Peer, SameWatch, SameReply
<1>3. [b EXCEPT !.m_pingpong_task = NoTask] = [p EXCEPT !.m_pingpong_task = NoTask]
  BY <1>1 DEF Peer
<1>4. q = IF r.calls # t.calls THEN OnDetectFinished(b, r.verdict) ELSE b
  BY DEF WithTask
<1> HIDE DEF b, q, t
<1>5. /\ r.calls = t.calls <=> r.m_is_notified = t.m_is_notified
      /\ t.m_is_notified => r.m_is_notified /\ r.verdict = t.verdict
      /\ t.m_abort \/ Completed(t) => r.m_abort \/ Completed(r)
  BY <1>1 DEF TaskGoesOn, TaskInv, NotifyInv, Task, t
<1>6. /\ p.m_pingpong_task_finished <=> t.m_is_notified
      /\ p.read = "idle"
      /\ ~t.m_is_notified => p.write = "idle" /\ p.acks = 0 /\ p.pending_io_count = 0
  BY DEF ConnInv, Peer, TaskPart, IoPart, ReplyPart, Outstanding, t
<1>7. CASE r.calls = t.calls
  <2>1. q = b /\ r.m_is_notified = t.m_is_notified
    BY <1>4, <1>5, <1>7
  <2>2. TaskPart(q)
    BY <1>1, <1>2, <1>6, <2>1 DEF TaskPart
  <2>3. IoPart(q)
    BY <1>2, <2>1 DEF ConnInv, IoPart
  <2>4. ReplyPart(q)
    BY <1>2, <1>5, <1>6, <2>1 DEF ConnInv, ReplyPart, SameReply, t
  <2>5. WatchPart(q)
    BY <1>2, <2>1 DEF ConnInv, WatchPart, SameWatch
  <2>6. ClosedPart(q)
    BY <1>2, <1>5, <2>1 DEF ConnInv, ClosedPart, SameWatch, t
  <2>7. ConnInv(q)
    BY <1>2, <2>1, <2>2, <2>3, <2>4, <2>5, <2>6 DEF ConnInv
  <2>8. Busy(q)
    BY <1>2, <2>1 DEF Busy, SameWatch
  <2>9. SeenAs(p, q)
    BY <1>1, <1>2, <2>1, SeenNothing DEF SeenAs, SameWatch
  <2>10. Keeps(p, q)
    BY <1>2, <1>3, <1>5, <1>6, <2>1 DEF Keeps, ConnInv, ReplyPart, SameReply, t
  <2> QED BY <2>7, <2>8, <2>9, <2>10 DEF q
<1>8. CASE r.calls # t.calls
  <2>1. q = OnDetectFinished(b, r.verdict) /\ ~t.m_is_notified /\ r.m_is_notified
    BY <1>1, <1>4, <1>5, <1>8 DEF TaskInv, Task
  <2>2. /\ q \in Peer /\ SameWatch(p, q) /\ q.m_pingpong_task_finished
        /\ q.started /\ q.m_pingpong_task = r /\ q.read = "idle"
        /\ q.m_data_received = p.m_data_received
        /\ q.wire = p.wire /\ q.m_send_buffer = p.m_send_buffer
        /\ p.m_closed => q.write = "idle" /\ q.acks = 0 /\ q.pending_io_count = 0
        /\ ~p.m_closed => /\ q.write = "wait" /\ q.acks = 1 /\ q.pending_io_count = 1
                          /\ q.reply_code = ReplyCode(r.verdict)
    <3>1. /\ q \in Peer /\ SameWatch(b, q) /\ q.m_pingpong_task_finished
          /\ q.started = b.started /\ q.m_pingpong_task = b.m_pingpong_task
          /\ q.read = b.read /\ q.m_data_received = b.m_data_received
          /\ q.wire = b.wire /\ q.m_send_buffer = b.m_send_buffer
          /\ b.m_closed => /\ q.write = b.write /\ q.acks = b.acks
                           /\ q.pending_io_count = b.pending_io_count
          /\ ~b.m_closed => /\ q.write = "wait" /\ q.acks = b.acks + 1
                            /\ q.pending_io_count = b.pending_io_count + 1
                            /\ q.reply_code = ReplyCode(r.verdict)
      <4>1. b \in Peer /\ q = OnDetectFinished(b, r.verdict)
        BY <1>2, <2>1
      <4> QED BY <4>1, OnDetectFinishedFields
    <3> QED BY <1>2, <1>6, <2>1, <3>1 DEF SameWatch, SameReply
  <2>3. TaskPart(q)
    BY <1>1, <2>1, <2>2 DEF TaskPart
  <2>4. IoPart(q)
    BY <2>2 DEF IoPart, Outstanding
  <2>5. ReplyPart(q)
    BY <1>6, <2>1, <2>2 DEF ConnInv, ReplyPart, Outstanding
  <2>6. WatchPart(q)
    BY <2>2 DEF ConnInv, WatchPart, SameWatch
  <2>7. ClosedPart(q)
    BY <1>5, <2>2 DEF ConnInv, ClosedPart, SameWatch, t
  <2>8. ConnInv(q)
    BY <2>2, <2>3, <2>4, <2>5, <2>6, <2>7 DEF ConnInv
  <2>9. Busy(q)
    BY <2>2 DEF Busy, Outstanding, SameWatch
  <2>10. SeenAs(p, q)
    BY <1>1, <1>6, <2>1, <2>2, SeenTask DEF SameWatch
  <2>11. Keeps(p, q)
    BY <1>6, <2>1, RemovableIdle DEF Keeps, t
  <2> QED BY <2>8, <2>9, <2>10, <2>11 DEF q
<1> QED BY <1>7, <1>8

(* Whatever the handlers and the network do to a task, the owner may rely   *)
(* on it.                                                                   *)
LEMMA TaskDone ==
  ASSUME NEW t, TaskInv(t), NEW res \in {"ok", "err"}
  PROVE  /\ t.connect = "wait" => TaskGoesOn(t, ConnectDone(t, res))
         /\ t.send_to = "wait" => TaskGoesOn(t, SendToDone(t, res))
         /\ t.receive_from = "wait" => TaskGoesOn(t, ReceiveFromDone(t, res))
<1>1. t \in Task
  BY DEF TaskInv
<1>2. ASSUME t.connect = "wait"
      PROVE  TaskGoesOn(t, ConnectDone(t, res))
  <2>1. /\ ConnectDone(t, res).m_is_notified = t.m_is_notified
        /\ ConnectDone(t, res).verdict = t.verdict /\ ConnectDone(t, res).m_abort = t.m_abort
    BY <1>1 DEF ConnectDone, Task
  <2> QED BY <1>2, <2>1, ConnectDoneInv DEF TaskGoesOn
<1>3. ASSUME t.send_to = "wait"
      PROVE  TaskGoesOn(t, SendToDone(t, res))
  <2>1. /\ SendToDone(t, res).m_is_notified = t.m_is_notified
        /\ SendToDone(t, res).verdict = t.verdict /\ SendToDone(t, res).m_abort = t.m_abort
    BY <1>1 DEF SendToDone, Task
  <2> QED BY <1>3, <2>1, SendToDoneInv DEF TaskGoesOn
<1>4. ASSUME t.receive_from = "wait"
      PROVE  TaskGoesOn(t, ReceiveFromDone(t, res))
  <2>1. /\ ReceiveFromDone(t, res).m_is_notified = t.m_is_notified
        /\ ReceiveFromDone(t, res).verdict = t.verdict
        /\ ReceiveFromDone(t, res).m_abort = t.m_abort
    BY <1>1 DEF ReceiveFromDone, Task
  <2> QED BY <1>4, <2>1, ReceiveFromDoneInv DEF TaskGoesOn
<1> QED BY <1>2, <1>3, <1>4

LEMMA TaskExpired ==
  ASSUME NEW t, TaskInv(t), t.timer = "wait"
  PROVE  TaskGoesOn(t, TimerExpired(t))
<1>1. /\ TimerExpired(t).m_is_notified = t.m_is_notified
      /\ TimerExpired(t).verdict = t.verdict /\ TimerExpired(t).m_abort = t.m_abort
  BY DEF TaskInv, TimerExpired, Task
<1> QED BY <1>1, TimerExpiredInv DEF TaskGoesOn

LEMMA TaskHandled ==
  ASSUME NEW t, TaskInv(t)
  PROVE  /\ Queued(t.connect) => TaskGoesOn(t, TcpConnectHandler(t))
         /\ Queued(t.send_to) => TaskGoesOn(t, UdpSendToHandler(t))
         /\ Queued(t.receive_from) => TaskGoesOn(t, UdpRcvHandler(t))
         /\ Queued(t.timer) => TaskGoesOn(t, TaskTimeoutHandler(t))
BY TcpConnectHandlerInv, UdpSendToHandlerInv, UdpRcvHandlerInv, TaskTimeoutHandlerInv
   DEF TaskGoesOn, Follows
-----------------------------------------------------------------------------
(* What is proved of a step that leaves a connection p as q.                *)
Good(p, q) == ConnInv(q) /\ Busy(q) /\ SeenAs(p, q) /\ Keeps(p, q)

(* The network ends a read or a write, and time the wait of the watch dog:  *)
(* tcp_server sees nothing.                                                 *)
LEMMA ReadCompletes ==
  ASSUME NEW p, ConnInv(p), Busy(p), p.read = "wait", NEW res \in {"ok", "err"}
  PROVE  Good(p, [p EXCEPT !.read = res])
<1> DEFINE q == [p EXCEPT !.read = res]
<1>1. p \in Peer /\ res \in SockOp
  BY DEF ConnInv, SockOp
<1>2. /\ q \in Peer /\ SameTask(p, q) /\ SameReply(p, q) /\ SameWatch(p, q)
      /\ q.read = res /\ q.write = p.write /\ q.pending_io_count = p.pending_io_count
      /\ q.m_data_received = p.m_data_received
  BY <1>1 DEF Peer, SameTask, SameReply, SameWatch
<1> HIDE DEF q
<1>3. ConnInv(q)
  <2>1. TaskPart(q) /\ ReplyPart(q)
    BY <1>2 DEF ConnInv, TaskPart, ReplyPart, SameTask, SameReply
  <2>2. IoPart(q)
    BY <1>2 DEF ConnInv, IoPart, Outstanding, SameTask
  <2>3. WatchPart(q) /\ ClosedPart(q)
    BY <1>2 DEF ConnInv, WatchPart, ClosedPart, SameTask, SameWatch
  <2> QED BY <1>2, <2>1, <2>2, <2>3 DEF ConnInv
<1>4. Busy(q)
  BY <1>2 DEF Busy, Outstanding
<1>5. SeenAs(p, q)
  BY <1>1, <1>2, SeenNothing DEF SeenAs, SameTask, SameWatch
<1>6. Keeps(p, q)
  BY <1>2, RemovableIdle DEF Keeps, SameTask, SameReply
<1> QED BY <1>3, <1>4, <1>5, <1>6 DEF Good, q

LEMMA WriteCompletes ==
  ASSUME NEW p, ConnInv(p), Busy(p), p.write = "wait", NEW res \in {"ok", "err"}
  PROVE  Good(p, [p EXCEPT !.write = res])
<1> DEFINE q == [p EXCEPT !.write = res]
<1>1. p \in Peer /\ res \in SockOp
  BY DEF ConnInv, SockOp
<1>2. /\ q \in Peer /\ SameTask(p, q) /\ SameReply(p, q) /\ SameWatch(p, q)
      /\ q.write = res /\ q.read = p.read /\ q.pending_io_count = p.pending_io_count
      /\ q.m_data_received = p.m_data_received
  BY <1>1 DEF Peer, SameTask, SameReply, SameWatch
<1> HIDE DEF q
<1>3. ConnInv(q)
  <2>1. TaskPart(q)
    BY <1>2 DEF ConnInv, TaskPart, SameTask
  <2>2. IoPart(q)
    BY <1>2 DEF ConnInv, IoPart, Outstanding, SameTask
  <2>3. ReplyPart(q)
    BY <1>2 DEF ConnInv, ReplyPart, Outstanding, SameTask, SameReply
  <2>4. WatchPart(q) /\ ClosedPart(q)
    BY <1>2 DEF ConnInv, WatchPart, ClosedPart, SameTask, SameWatch
  <2> QED BY <1>2, <2>1, <2>2, <2>3, <2>4 DEF ConnInv
<1>4. Busy(q)
  BY <1>2 DEF Busy, Outstanding
<1>5. SeenAs(p, q)
  BY <1>1, <1>2, SeenNothing DEF SeenAs, SameTask, SameWatch
<1>6. Keeps(p, q)
  BY <1>2, RemovableIdle DEF Keeps, SameTask, SameReply
<1> QED BY <1>3, <1>4, <1>5, <1>6 DEF Good, q

LEMMA WatchDogWakes ==
  ASSUME NEW p, ConnInv(p), Busy(p), p.watch_dog = "wait"
  PROVE  Good(p, [p EXCEPT !.watch_dog = "expired"])
<1> DEFINE q == [p EXCEPT !.watch_dog = "expired"]
<1>1. p \in Peer /\ "expired" \in TimerOp
  BY DEF ConnInv, TimerOp
<1>2. /\ q \in Peer /\ SameTask(p, q) /\ SameReply(p, q)
      /\ q.m_closed = p.m_closed /\ q.watch_dog = "expired"
      /\ q.m_is_watch_dog_finish_work = p.m_is_watch_dog_finish_work
      /\ q.read = p.read /\ q.write = p.write /\ q.pending_io_count = p.pending_io_count
      /\ q.m_data_received = p.m_data_received
  BY <1>1 DEF Peer, SameTask, SameReply
<1> HIDE DEF q
<1>3. ConnInv(q)
  <2>1. TaskPart(q) /\ ReplyPart(q)
    BY <1>2 DEF ConnInv, TaskPart, ReplyPart, SameTask, SameReply
  <2>2. IoPart(q)
    BY <1>2 DEF ConnInv, IoPart, SameTask
  <2>3. WatchPart(q) /\ ClosedPart(q)
    BY <1>2 DEF ConnInv, WatchPart, ClosedPart, SameTask
  <2> QED BY <1>2, <2>1, <2>2, <2>3 DEF ConnInv
<1>4. Busy(q)
  BY <1>2 DEF Busy, SameTask
<1>5. SeenAs(p, q)
  BY <1>1, <1>2, SeenNothing DEF SeenAs, SameTask
<1>6. Keeps(p, q)
  BY <1>2, RemovableIdle DEF Keeps, SameTask, SameReply
<1> QED BY <1>3, <1>4, <1>5, <1>6 DEF Good, q
-----------------------------------------------------------------------------
(* A read or write handler that finds the connection closed only counts     *)
(* itself out.                                                              *)
LEMMA ReturnsToClosed ==
  ASSUME NEW p, ConnInv(p), p.m_closed
  PROVE  /\ Queued(p.read) => Good(p, ReadReturned(p))
         /\ Queued(p.write) => Good(p, WriteReturned(p))
<1>1. p \in Peer
  BY DEF ConnInv
<1>2. ASSUME Queued(p.read)
      PROVE  Good(p, ReadReturned(p))
  <2> DEFINE q == ReadReturned(p)
  <2>1. /\ q \in Peer /\ SameTask(p, q) /\ SameReply(p, q) /\ SameWatch(p, q)
        /\ q.read = "idle" /\ q.write = p.write
        /\ q.pending_io_count = p.pending_io_count - 1
        /\ q.m_data_received = p.m_data_received
    BY <1>1, ReadReturnedFields
  <2> HIDE DEF q
  <2>2. /\ p.write = "idle" /\ p.acks = 0 /\ p.pending_io_count = 1
        /\ ~p.started /\ ~p.m_pingpong_task_finished
    BY <1>2 DEF ConnInv, IoPart, TaskPart, ReplyPart, Outstanding, Queued
  <2>3. ConnInv(q)
    <3>1. TaskPart(q) /\ ReplyPart(q)
      BY <2>1 DEF ConnInv, TaskPart, ReplyPart, SameTask, SameReply
    <3>2. IoPart(q)
      BY <2>1, <2>2 DEF IoPart, Outstanding
    <3>3. WatchPart(q) /\ ClosedPart(q)
      BY <2>1 DEF ConnInv, WatchPart, ClosedPart, SameTask, SameWatch
    <3> QED BY <2>1, <3>1, <3>2, <3>3 DEF ConnInv
  <2>4. Busy(q)
    BY <2>1 DEF Busy, SameWatch
  <2>5. SeenAs(p, q)
    <3>1. q.pending_io_count = 0
      BY <2>1, <2>2
    <3> QED BY <1>1, <2>1, <2>2, <3>1, SeenIo DEF SameTask, SameWatch
  <2>6. Keeps(p, q)
    BY <2>2 DEF Keeps, Removable
  <2> QED BY <2>3, <2>4, <2>5, <2>6 DEF Good, q
<1>3. ASSUME Queued(p.write)
      PROVE  Good(p, WriteReturned(p))
  <2> DEFINE q == WriteReturned(p)
  <2>1. /\ q \in Peer /\ SameTask(p, q) /\ SameReply(p, q) /\ SameWatch(p, q)
        /\ q.write = "idle" /\ q.read = p.read
        /\ q.pending_io_count = p.pending_io_count - 1
        /\ q.m_data_received = p.m_data_received
    BY <1>1, WriteReturnedFields
  <2> HIDE DEF q
  <2>2. p.read = "idle" /\ p.acks = 1 /\ p.pending_io_count = 1
    BY <1>3 DEF ConnInv, IoPart, TaskPart, ReplyPart, Outstanding, Queued
  <2>3. ConnInv(q)
    <3>1. TaskPart(q)
      BY <2>1 DEF ConnInv, TaskPart, SameTask
    <3>2. ReplyPart(q)
      BY <2>1, <2>2 DEF ConnInv, ReplyPart, Outstanding, SameTask, SameReply
    <3>3. IoPart(q)
      BY <2>1, <2>2 DEF IoPart, Outstanding
    <3>4. WatchPart(q) /\ ClosedPart(q)
      BY <2>1 DEF ConnInv, WatchPart, ClosedPart, SameTask, SameWatch
    <3> QED BY <2>1, <3>1, <3>2, <3>3, <3>4 DEF ConnInv
  <2>4. Busy(q)
    BY <2>1 DEF Busy, SameWatch
  <2>5. SeenAs(p, q)
    <3>1. q.pending_io_count = 0
      BY <2>1, <2>2
    <3> QED BY <1>1, <2>1, <2>2, <3>1, SeenIo DEF SameTask, SameWatch
  <2>6. Keeps(p, q)
    BY <2>1, <2>2 DEF Keeps, Removable, SameTask, SameReply
  <2> QED BY <2>3, <2>4, <2>5, <2>6 DEF Good, q
<1> QED BY <1>2, <1>3
(* The first handler of an open connection's read or write finds it alone:  *)
(* counted out, it leaves nothing counted.                                  *)
LEMMA OpenReads ==
  ASSUME NEW p, ConnInv(p), ~p.m_closed, Queued(p.read)
  PROVE  /\ p \in Peer /\ p.write = "idle" /\ p.acks = 0 /\ p.pending_io_count = 1
         /\ ~p.started /\ ~p.m_pingpong_task_finished /\ p.m_pingpong_task = NoTask
         /\ p.m_data_received = 0 /\ ~p.m_is_watch_dog_finish_work
BY DEF ConnInv, TaskPart, IoPart, ReplyPart, WatchPart, Outstanding, Queued

LEMMA OpenWrites ==
  ASSUME NEW p, ConnInv(p), ~p.m_closed, Queued(p.write)
  PROVE  /\ p \in Peer /\ p.read = "idle" /\ p.acks = 1 /\ p.pending_io_count = 1
         /\ p.started /\ p.m_pingpong_task_finished
         /\ p.wire + p.m_send_buffer = 3 /\ ~p.m_is_watch_dog_finish_work
BY DEF ConnInv, TaskPart, IoPart, ReplyPart, WatchPart, Outstanding, Queued

(* A handler of an open connection has counted itself out, and closes it.   *)
LEMMA ClosesAfterIo ==
  ASSUME NEW p, ConnInv(p), ~p.m_closed, p.pending_io_count = 1,
         NEW r \in Peer, SameTask(p, r), SameWatch(p, r), IoPart(r), ReplyPart(r),
         r.pending_io_count = 0, r.acks = p.acks,
         NEW w, w # "close_by_watch_dog"
  PROVE  Good(p, ShutdownAndClose(r, w))
<1> DEFINE q == ShutdownAndClose(r, w)
<1>1. TaskPart(r) /\ WatchPart(r) /\ ~r.m_closed
  BY DEF ConnInv, TaskPart, WatchPart, SameTask, SameWatch
<1>2. /\ ConnInv(q) /\ Busy(q)
      /\ q \in Peer /\ q.m_closed /\ q.pending_io_count = r.pending_io_count
      /\ q.m_is_watch_dog_finish_work = r.m_is_watch_dog_finish_work
      /\ q.m_pingpong_task_finished = r.m_pingpong_task_finished
      /\ q.started = r.started /\ q.acks = r.acks
      /\ r.acks = 1 => q.m_pingpong_task = r.m_pingpong_task
  BY <1>1, CloseInv
<1> HIDE DEF q
<1>3. SeenAs(p, q)
  <2>1. p \in Peer
    BY DEF ConnInv
  <2> QED BY <1>2, <2>1, SeenIo DEF SameTask, SameWatch
<1>4. Keeps(p, q)
  BY <1>2 DEF Keeps, Removable, SameTask
<1> QED BY <1>2, <1>3, <1>4 DEF Good, q

(* A read that failed, and one that brought no request to serve: what is    *)
(* left of a first read is always the whole buffer.                         *)
LEMMA ReadCloses ==
  ASSUME NEW p, ConnInv(p), ~p.m_closed, Queued(p.read)
  PROVE  /\ Good(p, ShutdownAndClose(ReadReturned(p), "close_by_read_handler"))
         /\ Good(p, Unserved(DataReceived(p)))
<1>1. /\ p \in Peer /\ p.write = "idle" /\ p.acks = 0 /\ p.pending_io_count = 1
      /\ ~p.started /\ p.m_data_received = 0
  BY OpenReads
<1>2. ASSUME NEW r \in Peer, SameTask(p, r), SameReply(p, r), SameWatch(p, r),
             r.read = "idle", r.write = p.write, r.pending_io_count = p.pending_io_count - 1
      PROVE  Good(p, ShutdownAndClose(r, "close_by_read_handler"))
  <2>1. IoPart(r) /\ r.pending_io_count = 0
    BY <1>1, <1>2 DEF IoPart, Outstanding
  <2>2. ReplyPart(r) /\ r.acks = p.acks
    BY <1>1, <1>2 DEF ConnInv, ReplyPart, SameTask, SameReply
  <2> QED BY <1>1, <1>2, <2>1, <2>2, ClosesAfterIo
<1>3. Good(p, ShutdownAndClose(ReadReturned(p), "close_by_read_handler"))
  BY <1>1, <1>2, ReadReturnedFields
<1>4. Unserved(DataReceived(p)) = ShutdownAndClose(DataReceived(p), "close_by_read_handler")
  <2>1. DataReceived(p).m_data_received = 11
    BY <1>1, DataReceivedFields
  <2> QED BY <2>1 DEF Unserved, AMIB_MESSAGE_LENTH
<1>5. Good(p, Unserved(DataReceived(p)))
  BY <1>1, <1>2, <1>4, DataReceivedFields
<1> QED BY <1>3, <1>5

(* The request starts the task.                                             *)
LEMMA RequestStarts ==
  ASSUME NEW p, ConnInv(p), ~p.m_closed, Queued(p.read)
  PROVE  Good(p, [DataReceived(p) EXCEPT !.started = TRUE, !.m_pingpong_task = NewTask])
<1> DEFINE r == DataReceived(p)
           q == [r EXCEPT !.started = TRUE, !.m_pingpong_task = NewTask]
<1>1. /\ p \in Peer /\ p.write = "idle" /\ p.acks = 0 /\ p.pending_io_count = 1
      /\ ~p.started /\ ~p.m_pingpong_task_finished /\ ~p.m_is_watch_dog_finish_work
  BY OpenReads
<1>2. /\ r \in Peer /\ SameTask(p, r) /\ SameReply(p, r) /\ SameWatch(p, r)
      /\ r.read = "idle" /\ r.write = "idle" /\ r.pending_io_count = 0
  BY <1>1, DataReceivedFields
<1>3. NewTask \in Task /\ TaskInv(NewTask) /\ ~NewTask.m_is_notified
  BY NewTaskInv DEF TaskInv, NewTask
<1> HIDE DEF r
<1>4. /\ q \in Peer /\ SameReply(p, q) /\ SameWatch(p, q)
      /\ q.started /\ q.m_pingpong_task = NewTask
      /\ q.m_pingpong_task_finished = p.m_pingpong_task_finished
      /\ q.read = "idle" /\ q.write = "idle" /\ q.pending_io_count = 0
  BY <1>1, <1>2, <1>3 DEF Peer, SameTask, SameReply, SameWatch
<1> HIDE DEF q
<1>5. ConnInv(q)
  <2>1. TaskPart(q) /\ IoPart(q)
    BY <1>1, <1>3, <1>4 DEF TaskPart, IoPart, Outstanding
  <2>2. ReplyPart(q)
    BY <1>1, <1>4 DEF ConnInv, ReplyPart, SameReply, Outstanding
  <2>3. WatchPart(q) /\ ClosedPart(q)
    BY <1>4 DEF ConnInv, WatchPart, ClosedPart, SameWatch
  <2> QED BY <1>4, <2>1, <2>2, <2>3 DEF ConnInv
<1>6. Busy(q)
  BY <1>1, <1>4 DEF Busy
<1>7. SeenAs(p, q)
  BY <1>1, <1>4, SeenIo DEF SameWatch
<1>8. Keeps(p, q)
  BY <1>1 DEF Keeps, Removable
<1> QED BY <1>5, <1>6, <1>7, <1>8 DEF Good, q, r

(* A write that failed, and one that sent n bytes of what was left.         *)
LEMMA WriteCloses ==
  ASSUME NEW p, ConnInv(p), ~p.m_closed, Queued(p.write)
  PROVE  Good(p, ShutdownAndClose(WriteReturned(p), "close_by_write_handler"))
<1> DEFINE r == WriteReturned(p)
<1>1. /\ p \in Peer /\ p.read = "idle" /\ p.acks = 1 /\ p.pending_io_count = 1
  BY OpenWrites
<1>2. /\ r \in Peer /\ SameTask(p, r) /\ SameReply(p, r) /\ SameWatch(p, r)
      /\ r.read = "idle" /\ r.write = "idle" /\ r.pending_io_count = 0
  BY <1>1, WriteReturnedFields
<1> HIDE DEF r
<1>3. IoPart(r)
  BY <1>2 DEF IoPart, Outstanding
<1>4. ReplyPart(r) /\ r.acks = p.acks
  BY <1>1, <1>2 DEF ConnInv, ReplyPart, SameTask, SameReply, Outstanding
<1> QED BY <1>1, <1>2, <1>3, <1>4, ClosesAfterIo DEF r

LEMMA SentInv ==
  ASSUME NEW p, ConnInv(p), ~p.m_closed, Queued(p.write), NEW n \in 1..p.m_send_buffer
  PROVE  Good(p, Sent(WriteReturned(p), n))
<1> DEFINE r == WriteReturned(p)
           k == r.wire + n
           s == [r EXCEPT !.wire = k]
<1>1. /\ p \in Peer /\ p.read = "idle" /\ p.acks = 1 /\ p.pending_io_count = 1
      /\ p.started /\ p.m_pingpong_task_finished
      /\ p.wire + p.m_send_buffer = 3 /\ ~p.m_is_watch_dog_finish_work
  BY OpenWrites
<1>2. /\ r \in Peer /\ SameTask(p, r) /\ SameReply(p, r) /\ SameWatch(p, r)
      /\ r.read = "idle" /\ r.write = "idle" /\ r.pending_io_count = 0
  BY <1>1, WriteReturnedFields
<1> HIDE DEF r
<1>3. k \in Nat /\ k <= 3 /\ k + (p.m_send_buffer - n) = 3 /\ p.m_send_buffer - n \in Nat
  BY <1>1, <1>2 DEF Peer, SameReply
<1> HIDE DEF k
<1>4. /\ s \in Peer /\ SameTask(p, s) /\ SameWatch(p, s)
      /\ s.acks = 1 /\ s.reply_code = p.reply_code /\ s.m_send_buffer = p.m_send_buffer
      /\ s.wire = k /\ s.read = "idle" /\ s.write = "idle" /\ s.pending_io_count = 0
  BY <1>1, <1>2, <1>3 DEF Peer, SameTask, SameReply, SameWatch
<1>5. Sent(r, n) = IF n # r.m_send_buffer
                   THEN [s EXCEPT !.m_send_buffer = @ - n, !.write = "wait",
                                  !.pending_io_count = @ + 1]
                   ELSE ShutdownAndClose(s, "close_by_write_handler")
  BY DEF Sent, k, r
<1> HIDE DEF s
<1>6. CASE n = r.m_send_buffer
  <2>1. IoPart(s) /\ ReplyPart(s)
    BY <1>1, <1>3, <1>4 DEF ConnInv, IoPart, ReplyPart, SameTask, Outstanding
  <2>2. Good(p, ShutdownAndClose(s, "close_by_write_handler"))
    BY <1>1, <1>4, <2>1, ClosesAfterIo
  <2> QED BY <1>5, <1>6, <2>2 DEF r
<1>7. CASE n # r.m_send_buffer
  <2> DEFINE left == s.m_send_buffer - n
             pend == s.pending_io_count + 1
             q == [s EXCEPT !.m_send_buffer = left, !.write = "wait", !.pending_io_count = pend]
  <2>1. left \in Nat /\ pend \in Int /\ pend = 1 /\ k + left = 3 /\ "wait" \in SockOp
    BY <1>3, <1>4 DEF SockOp
  <2> HIDE DEF left, pend
  <2>2. /\ q \in Peer /\ SameTask(p, q) /\ SameWatch(p, q)
        /\ q.acks = 1 /\ q.reply_code = p.reply_code /\ q.m_send_buffer = left
        /\ q.wire = k /\ q.read = "idle" /\ q.write = "wait" /\ q.pending_io_count = pend
    <3>1. left \in Nat /\ pend \in Int /\ "wait" \in SockOp
      BY <2>1
    <3> QED BY <1>4, <3>1 DEF Peer, SameTask, SameWatch
  <2> HIDE DEF q
  <2>3. TaskPart(q)
    BY <2>2 DEF ConnInv, TaskPart, SameTask
  <2>4. IoPart(q)
    BY <2>1, <2>2 DEF IoPart, Outstanding
  <2>5. ReplyPart(q)
    BY <1>1, <1>3, <2>1, <2>2 DEF ConnInv, ReplyPart, SameTask
  <2>6. WatchPart(q) /\ ClosedPart(q)
    BY <2>2 DEF ConnInv, WatchPart, ClosedPart, SameTask, SameWatch
  <2>7. Busy(q)
    BY <2>2 DEF Busy, Outstanding
  <2>8. SeenAs(p, q)
    BY <1>1, <2>1, <2>2, SeenNothing DEF SeenAs, SameTask, SameWatch
  <2>9. Keeps(p, q)
    BY <2>2 DEF Keeps, Removable, SameTask
  <2>10. Good(p, q)
    BY <2>2, <2>3, <2>4, <2>5, <2>6, <2>7, <2>8, <2>9 DEF ConnInv, Good
  <2>11. q = Sent(r, n)
    BY <1>5, <1>7 DEF q, left, pend
  <2> QED BY <2>10, <2>11 DEF r
<1> QED BY <1>6, <1>7
-----------------------------------------------------------------------------
(* The watch dog, called off or come to bite: it has finished its work, and *)
(* the connection is closed.                                                *)
LEMMA WatchDogDoneFields ==
  ASSUME NEW p \in Peer
  PROVE  LET q == WatchDogDone(p)
         IN  /\ q \in Peer /\ SameTask(p, q) /\ SameReply(p, q)
             /\ q.m_closed = p.m_closed /\ q.watch_dog = p.watch_dog
             /\ q.m_is_watch_dog_finish_work
             /\ q.read = p.read /\ q.write = p.write
             /\ q.pending_io_count = p.pending_io_count
             /\ q.m_data_received = p.m_data_received
BY DEF WatchDogDone, Peer, SameTask, SameReply

LEMMA WatchDogDoneInv ==
  ASSUME NEW p, ConnInv(p), p.m_closed, p.watch_dog = "idle"
  PROVE  ConnInv(WatchDogDone(p)) /\ Busy(WatchDogDone(p))
<1> DEFINE q == WatchDogDone(p)
<1>1. /\ q \in Peer /\ SameTask(p, q) /\ SameReply(p, q)
      /\ q.m_closed = p.m_closed /\ q.watch_dog = p.watch_dog
      /\ q.read = p.read /\ q.write = p.write
      /\ q.pending_io_count = p.pending_io_count /\ q.m_data_received = p.m_data_received
  BY WatchDogDoneFields DEF ConnInv
<1> HIDE DEF q
<1>2. TaskPart(q) /\ ReplyPart(q)
  BY <1>1 DEF ConnInv, TaskPart, ReplyPart, SameTask, SameReply
<1>3. IoPart(q)
  BY <1>1 DEF ConnInv, IoPart, SameTask
<1>4. WatchPart(q) /\ ClosedPart(q)
  BY <1>1 DEF ConnInv, WatchPart, ClosedPart, SameTask
<1>5. Busy(q)
  BY <1>1 DEF Busy
<1> QED BY <1>1, <1>2, <1>3, <1>4, <1>5 DEF ConnInv, q

(* The return of its wait changes nothing else.                             *)
LEMMA WatchDogIdle ==
  ASSUME NEW p, ConnInv(p), p.watch_dog # "idle"
  PROVE  LET q == [p EXCEPT !.watch_dog = "idle"]
         IN  /\ q \in Peer /\ SameTask(p, q) /\ SameReply(p, q)
             /\ q.m_closed = p.m_closed /\ q.watch_dog = "idle"
             /\ q.m_is_watch_dog_finish_work = p.m_is_watch_dog_finish_work
             /\ ~p.m_is_watch_dog_finish_work
             /\ q.pending_io_count = p.pending_io_count
             /\ TaskPart(q) /\ IoPart(q) /\ ReplyPart(q)
             /\ p.m_closed => ConnInv(q)
<1> DEFINE q == [p EXCEPT !.watch_dog = "idle"]
<1>1. p \in Peer /\ "idle" \in TimerOp /\ ~p.m_is_watch_dog_finish_work
  BY DEF ConnInv, TimerOp, WatchPart
<1>2. /\ q \in Peer /\ SameTask(p, q) /\ SameReply(p, q)
      /\ q.m_closed = p.m_closed /\ q.watch_dog = "idle"
      /\ q.m_is_watch_dog_finish_work = p.m_is_watch_dog_finish_work
      /\ q.read = p.read /\ q.write = p.write /\ q.pending_io_count = p.pending_io_count
      /\ q.m_data_received = p.m_data_received
  BY <1>1 DEF Peer, SameTask, SameReply
<1> HIDE DEF q
<1>3. TaskPart(q) /\ ReplyPart(q)
  BY <1>2 DEF ConnInv, TaskPart, ReplyPart, SameTask, SameReply
<1>4. IoPart(q)
  BY <1>2 DEF ConnInv, IoPart, SameTask
<1>5. p.m_closed => WatchPart(q) /\ ClosedPart(q)
  BY <1>2 DEF ConnInv, WatchPart, ClosedPart, SameTask
<1> QED BY <1>1, <1>2, <1>3, <1>4, <1>5 DEF ConnInv, q

(* A watch dog that leaves r as done is seen to have finished its work.     *)
LEMMA WatchDogLeaves ==
  ASSUME NEW p, ConnInv(p), ~p.m_is_watch_dog_finish_work,
         NEW r, ConnInv(r), r.m_closed, r.watch_dog = "idle",
         r.pending_io_count = p.pending_io_count, r.started = p.started,
         r.m_pingpong_task_finished = p.m_pingpong_task_finished,
         p.acks = 1 => r.acks = 1 /\ r.m_pingpong_task = p.m_pingpong_task
  PROVE  Good(p, WatchDogDone(r))
<1> DEFINE q == WatchDogDone(r)
<1>1. p \in Peer /\ r \in Peer
  BY DEF ConnInv
<1>2. /\ q \in Peer /\ SameTask(r, q) /\ SameReply(r, q)
      /\ q.m_closed = r.m_closed /\ q.watch_dog = r.watch_dog
      /\ q.m_is_watch_dog_finish_work
      /\ q.pending_io_count = r.pending_io_count
  BY <1>1, WatchDogDoneFields
<1>3. ConnInv(q) /\ Busy(q)
  BY WatchDogDoneInv
<1> HIDE DEF q
<1>4. SeenAs(p, q)
  BY <1>1, <1>2, SeenWatchDog DEF SameTask
<1>5. Keeps(p, q)
  BY <1>2 DEF Keeps, Removable, SameTask, SameReply
<1> QED BY <1>3, <1>4, <1>5 DEF Good, q

(* watch_dog_handler, called off: the connection has been closed.           *)
LEMMA CalledOff ==
  ASSUME NEW p, ConnInv(p), p.watch_dog = "canceled"
  PROVE  Good(p, WatchDogDone([p EXCEPT !.watch_dog = "idle"]))
<1> DEFINE r == [p EXCEPT !.watch_dog = "idle"]
<1>1. p.m_closed
  BY DEF ConnInv, WatchPart
<1>2. /\ r \in Peer /\ SameTask(p, r) /\ SameReply(p, r)
      /\ r.m_closed = p.m_closed /\ r.watch_dog = "idle"
      /\ ~p.m_is_watch_dog_finish_work
      /\ r.pending_io_count = p.pending_io_count /\ ConnInv(r)
  BY <1>1, WatchDogIdle
<1> HIDE DEF r
<1>3. Good(p, WatchDogDone(r))
  BY <1>1, <1>2, WatchDogLeaves DEF SameTask, SameReply
<1> QED BY <1>3 DEF r

(* It bites, and closes, a second time perhaps.                             *)
LEMMA Bites ==
  ASSUME NEW p, ConnInv(p), p.watch_dog = "expired"
  PROVE  Good(p, WatchDogDone(ShutdownAndClose([p EXCEPT !.watch_dog = "idle"],
                                               "close_by_watch_dog")))
<1> DEFINE r == [p EXCEPT !.watch_dog = "idle"]
           s == ShutdownAndClose(r, "close_by_watch_dog")
<1>1. /\ r \in Peer /\ SameTask(p, r) /\ SameReply(p, r)
      /\ r.watch_dog = "idle" /\ ~p.m_is_watch_dog_finish_work
      /\ r.pending_io_count = p.pending_io_count
      /\ TaskPart(r) /\ IoPart(r) /\ ReplyPart(r)
  BY WatchDogIdle
<1> HIDE DEF r
<1>2. /\ ConnInv(s) /\ s.m_closed /\ s.pending_io_count = r.pending_io_count
      /\ s.m_pingpong_task_finished = r.m_pingpong_task_finished
      /\ s.started = r.started /\ s.acks = r.acks
      /\ r.acks = 1 => s.m_pingpong_task = r.m_pingpong_task
      /\ s.watch_dog = "idle"
  BY <1>1, CloseInv
<1> HIDE DEF s
<1>3. Good(p, WatchDogDone(s))
  BY <1>1, <1>2, WatchDogLeaves DEF SameTask, SameReply
<1> QED BY <1>3 DEF r, s
-----------------------------------------------------------------------------
(* What is proved of a handler that throws and leaves p as q.               *)
Thrown(p, q) ==
  /\ ConnInv(q) /\ Keeps(p, q)
  /\ \/ Getters(q) = Getters(p)
     \/ /\ ~p.m_closed /\ p.pending_io_count = 1
        /\ Getters(q) = Contract!Returned(Getters(p))

(* A request whose task cannot be started.                                  *)
LEMMA RequestThrown ==
  ASSUME NEW p, ConnInv(p), ~p.m_closed, Queued(p.read)
  PROVE  Thrown(p, DataReceived(p))
<1> DEFINE q == DataReceived(p)
<1>1. /\ p \in Peer /\ p.write = "idle" /\ p.acks = 0 /\ p.pending_io_count = 1
      /\ ~p.started
  BY OpenReads
<1>2. /\ q \in Peer /\ SameTask(p, q) /\ SameReply(p, q) /\ SameWatch(p, q)
      /\ q.read = "idle" /\ q.write = "idle" /\ q.pending_io_count = 0
  BY <1>1, DataReceivedFields
<1> HIDE DEF q
<1>3. ConnInv(q)
  <2>1. TaskPart(q) /\ ReplyPart(q)
    BY <1>1, <1>2 DEF ConnInv, TaskPart, ReplyPart, SameTask, SameReply
  <2>2. IoPart(q)
    BY <1>2 DEF IoPart, Outstanding
  <2>3. WatchPart(q) /\ ClosedPart(q)
    BY <1>2 DEF ConnInv, WatchPart, ClosedPart, SameTask, SameWatch
  <2> QED BY <1>2, <2>1, <2>2, <2>3 DEF ConnInv
<1>4. Keeps(p, q)
  BY <1>1 DEF Keeps, Removable
<1>5. Getters(q) = Contract!Returned(Getters(p))
  <2> DEFINE l == Getters(p)
             m == Getters(q)
  <2>1. /\ l \in Seen /\ m \in Seen /\ m.pending = 0
        /\ m.closed = l.closed /\ m.watched = l.watched
        /\ m.started = l.started /\ m.finished = l.finished
    BY <1>1, <1>2, GettersFields DEF SameTask, SameWatch
  <2> HIDE DEF l, m
  <2>2. m = Contract!Returned(l)
    BY <2>1 DEF Seen, Contract!Returned
  <2> QED BY <2>2 DEF l, m
<1> QED BY <1>1, <1>3, <1>4, <1>5 DEF Thrown, q

(* A watch dog that finds the connection closed, in a debug build.          *)
LEMMA WatchDogThrown ==
  ASSUME NEW p, ConnInv(p), p.m_closed, p.watch_dog = "expired"
  PROVE  Thrown(p, [p EXCEPT !.watch_dog = "idle"])
<1> DEFINE q == [p EXCEPT !.watch_dog = "idle"]
<1>1. /\ q \in Peer /\ SameTask(p, q) /\ SameReply(p, q)
      /\ q.m_closed = p.m_closed
      /\ q.m_is_watch_dog_finish_work = p.m_is_watch_dog_finish_work
      /\ ~p.m_is_watch_dog_finish_work
      /\ q.pending_io_count = p.pending_io_count /\ ConnInv(q)
  BY WatchDogIdle
<1> HIDE DEF q
<1>2. Getters(q) = Getters(p)
  BY <1>1, SeenNothing DEF ConnInv, SameTask
<1>3. Keeps(p, q)
  BY <1>1 DEF Keeps, Removable, SameTask, SameReply
<1> QED BY <1>1, <1>2, <1>3 DEF Thrown, q
-----------------------------------------------------------------------------
(* A task that has not been created has nothing in flight.                  *)
LEMMA TaskStarted ==
  ASSUME NEW p, ConnInv(p),
         NEW t, t = p.m_pingpong_task,
         \/ t.connect # "idle" \/ t.send_to # "idle"
         \/ t.receive_from # "idle" \/ t.timer # "idle"
  PROVE  p.started /\ TaskInv(t)
<1>1. /\ NoTask.connect = "idle" /\ NoTask.send_to = "idle"
      /\ NoTask.receive_from = "idle" /\ NoTask.timer = "idle"
  BY DEF NoTask, NewTask
<1> QED BY <1>1 DEF ConnInv, TaskPart

(* A connection in order; PeerInv, which says it of all, is inductive.      *)
Steady(c) == ConnInv(peer[c]) /\ (io = "running" => Busy(peer[c]))

PeerInv == TypeOK /\ \A c \in Conn : Steady(c)

Stepped(c) == \E q : Good(peer[c], q) /\ Step(c, q)
Threw(c)   == \E e \in Exceptions : \E q : Thrown(peer[c], q) /\ Throw(c, q, e)

(* The steps of the reactor, one action at a time.                          *)
LEMMA ReactorSteps ==
  ASSUME NEW c, Steady(c), Reactor(c), io = "running"
  PROVE  Stepped(c)
<1> DEFINE p == peer[c]
           t == p.m_pingpong_task
<1>1. ConnInv(p) /\ Busy(p)
  BY DEF Steady
<1> HIDE DEF p
<1>2. CASE SocketCompletes(c)
  <2> PICK res \in {"ok", "err"} :
        \/ p.read = "wait" /\ Step(c, [p EXCEPT !.read = res])
        \/ p.write = "wait" /\ Step(c, [p EXCEPT !.write = res])
    BY <1>2 DEF SocketCompletes, p
  <2>1. CASE p.read = "wait" /\ Step(c, [p EXCEPT !.read = res])
    BY <1>1, <2>1, ReadCompletes DEF Stepped, p
  <2>2. CASE p.write = "wait" /\ Step(c, [p EXCEPT !.write = res])
    BY <1>1, <2>2, WriteCompletes DEF Stepped, p
  <2> QED BY <2>1, <2>2
<1>3. CASE TaskCompletes(c)
  <2> PICK res \in {"ok", "err"} :
        \/ t.connect = "wait" /\ Step(c, WithTask(p, ConnectDone(t, res)))
        \/ t.send_to = "wait" /\ Step(c, WithTask(p, SendToDone(t, res)))
        \/ t.receive_from = "wait" /\ Step(c, WithTask(p, ReceiveFromDone(t, res)))
    BY <1>3 DEF TaskCompletes, p
  <2>1. p.started /\ TaskInv(t)
    BY <1>1, TaskStarted
  <2>2. \E r : TaskGoesOn(t, r) /\ Step(c, WithTask(p, r))
    BY <2>1, TaskDone
  <2> QED BY <1>1, <2>1, <2>2, WithTaskInv DEF Stepped, Good, p
<1>4. CASE WatchDogExpires(c)
  BY <1>1, <1>4, WatchDogWakes DEF WatchDogExpires, Stepped, p
<1>5. CASE TaskExpires(c)
  <2>1. t.timer = "wait" /\ Step(c, WithTask(p, TimerExpired(t)))
    BY <1>5 DEF TaskExpires, p
  <2>2. p.started /\ TaskInv(t)
    BY <1>1, <2>1, TaskStarted
  <2>3. TaskGoesOn(t, TimerExpired(t))
    BY <2>1, <2>2, TaskExpired
  <2> QED BY <1>1, <2>1, <2>2, <2>3, WithTaskInv DEF Stepped, Good, p
<1> QED BY <1>2, <1>3, <1>4, <1>5 DEF Reactor, Expires

(* The handlers, likewise.                                                  *)
LEMMA MessageSteps ==
  ASSUME NEW c, Steady(c), NEW msg, NEW n,
         ReadsRequest(c, msg, n) \/ ReadsOther(c, msg, n) \/ RequestThrows(c, msg, n)
  PROVE  Stepped(c) \/ Threw(c)
<1> DEFINE p == peer[c]
<1>1. ConnInv(p)
  BY DEF Steady
<1> HIDE DEF p
<1>2. Queued(p.read) /\ ~p.m_closed
  BY DEF ReadsRequest, ReadsOther, RequestThrows, Queued, p
<1>3. CASE ReadsRequest(c, msg, n)
  <2>1. Step(c, [DataReceived(p) EXCEPT !.started = TRUE, !.m_pingpong_task = NewTask])
    BY <1>3 DEF ReadsRequest, p
  <2> QED BY <1>1, <1>2, <2>1, RequestStarts DEF Stepped, p
<1>4. CASE ReadsOther(c, msg, n)
  <2>1. Step(c, Unserved(DataReceived(p)))
    BY <1>4 DEF ReadsOther, p
  <2> QED BY <1>1, <1>2, <2>1, ReadCloses DEF Stepped, p
<1>5. CASE RequestThrows(c, msg, n)
  <2>1. PICK e \in Exceptions : Throw(c, DataReceived(p), e)
    BY <1>5 DEF RequestThrows, Exceptions, p
  <2>2. Thrown(p, DataReceived(p))
    BY <1>1, <1>2, RequestThrown
  <2> QED BY <2>1, <2>2 DEF Threw, p
<1> QED BY <1>3, <1>4, <1>5

LEMMA ReadSteps ==
  ASSUME NEW c, Steady(c), ReadHandler(c)
  PROVE  Stepped(c) \/ Threw(c)
<1> DEFINE p == peer[c]
<1>1. ConnInv(p)
  BY DEF Steady
<1> HIDE DEF p
<1>2. CASE ReadAfterClose(c)
  <2>1. Queued(p.read) /\ p.m_closed /\ Step(c, ReadReturned(p))
    BY <1>2 DEF ReadAfterClose, p
  <2> QED BY <1>1, <2>1, ReturnsToClosed DEF Stepped, p
<1>3. CASE ReadFails(c)
  <2>1. /\ Queued(p.read) /\ ~p.m_closed
        /\ Step(c, ShutdownAndClose(ReadReturned(p), "close_by_read_handler"))
    BY <1>3 DEF ReadFails, Queued, p
  <2> QED BY <1>1, <2>1, ReadCloses DEF Stepped, p
<1>4. ASSUME NEW msg \in Message, NEW n \in 1..AMIB_MESSAGE_LENTH,
             ReadsRequest(c, msg, n) \/ ReadsOther(c, msg, n) \/ RequestThrows(c, msg, n)
      PROVE  Stepped(c) \/ Threw(c)
  BY <1>4, MessageSteps
<1> QED BY <1>2, <1>3, <1>4 DEF ReadHandler

LEMMA WriteSteps ==
  ASSUME NEW c, Steady(c), WriteHandler(c)
  PROVE  Stepped(c)
<1> DEFINE p == peer[c]
<1>1. ConnInv(p)
  BY DEF Steady
<1> HIDE DEF p
<1>2. CASE WriteAfterClose(c)
  <2>1. Queued(p.write) /\ p.m_closed /\ Step(c, WriteReturned(p))
    BY <1>2 DEF WriteAfterClose, p
  <2> QED BY <1>1, <2>1, ReturnsToClosed DEF Stepped, p
<1>3. CASE WriteFails(c)
  <2>1. /\ Queued(p.write) /\ ~p.m_closed
        /\ Step(c, ShutdownAndClose(WriteReturned(p), "close_by_write_handler"))
    BY <1>3 DEF WriteFails, Queued, p
  <2> QED BY <1>1, <2>1, WriteCloses DEF Stepped, p
<1>4. CASE WriteSends(c)
  <2>1. /\ Queued(p.write) /\ ~p.m_closed
        /\ \E n \in 1..p.m_send_buffer : Step(c, Sent(WriteReturned(p), n))
    BY <1>4 DEF WriteSends, Queued, p
  <2> QED BY <1>1, <2>1, SentInv DEF Stepped, p
<1> QED BY <1>2, <1>3, <1>4 DEF WriteHandler

LEMMA WatchDogSteps ==
  ASSUME NEW c, Steady(c), WatchDogHandler(c)
  PROVE  Stepped(c) \/ Threw(c)
<1> DEFINE p == peer[c]
<1>1. ConnInv(p)
  BY DEF Steady
<1> HIDE DEF p
<1>2. CASE WatchDogCanceled(c)
  <2>1. p.watch_dog = "canceled" /\ Step(c, WatchDogDone([p EXCEPT !.watch_dog = "idle"]))
    BY <1>2 DEF WatchDogCanceled, p
  <2> QED BY <1>1, <2>1, CalledOff DEF Stepped, p
<1>3. CASE WatchDogWolf(c)
  <2>1. /\ p.watch_dog = "expired"
        /\ Step(c, WatchDogDone(ShutdownAndClose([p EXCEPT !.watch_dog = "idle"],
                                                 "close_by_watch_dog")))
    BY <1>3 DEF WatchDogWolf, p
  <2> QED BY <1>1, <2>1, Bites DEF Stepped, p
<1>4. CASE WatchDogAsserts(c)
  <2>1. /\ p.m_closed /\ p.watch_dog = "expired"
        /\ Throw(c, [p EXCEPT !.watch_dog = "idle"], "assert m_closed")
    BY <1>4 DEF WatchDogAsserts, p
  <2>2. Thrown(p, [p EXCEPT !.watch_dog = "idle"])
    BY <1>1, <2>1, WatchDogThrown
  <2> QED BY <2>1, <2>2 DEF Threw, Exceptions, p
<1> QED BY <1>2, <1>3, <1>4 DEF WatchDogHandler

LEMMA TaskHandlerSteps ==
  ASSUME NEW c, Steady(c), io = "running",
         ConnectReturns(c) \/ SendToReturns(c) \/ ReceiveFromReturns(c) \/ TimerReturns(c)
  PROVE  Stepped(c)
<1> DEFINE p == peer[c]
           t == p.m_pingpong_task
<1>1. ConnInv(p) /\ Busy(p)
  BY DEF Steady
<1>2. \/ Queued(t.connect) /\ Step(c, WithTask(p, TcpConnectHandler(t)))
      \/ Queued(t.send_to) /\ Step(c, WithTask(p, UdpSendToHandler(t)))
      \/ Queued(t.receive_from) /\ Step(c, WithTask(p, UdpRcvHandler(t)))
      \/ Queued(t.timer) /\ Step(c, WithTask(p, TaskTimeoutHandler(t)))
  BY DEF ConnectReturns, SendToReturns, ReceiveFromReturns, TimerReturns
<1> HIDE DEF p
<1>3. p.started /\ TaskInv(t)
  BY <1>1, <1>2, TaskStarted DEF Queued
<1>4. \E r : TaskGoesOn(t, r) /\ Step(c, WithTask(p, r))
  BY <1>2, <1>3, TaskHandled
<1> QED BY <1>1, <1>3, <1>4, WithTaskInv DEF Stepped, Good, p

(* Whatever a step does, it does to one connection, and this.               *)
LEMMA ConnectionSteps ==
  ASSUME NEW c, Steady(c), Reactor(c) \/ Handlers(c)
  PROVE  Stepped(c) \/ Threw(c)
<1>1. CASE Reactor(c)
  <2>1. io = "running"
    BY <1>1 DEF Reactor, SocketCompletes, TaskCompletes, Expires, WatchDogExpires, TaskExpires, Step
  <2> QED BY <1>1, <2>1, ReactorSteps
<1>2. CASE ReadHandler(c) \/ WriteHandler(c) \/ WatchDogHandler(c)
  BY <1>2, ReadSteps, WriteSteps, WatchDogSteps
<1>3. CASE ConnectReturns(c) \/ SendToReturns(c) \/ ReceiveFromReturns(c) \/ TimerReturns(c)
  <2>1. io = "running"
    BY <1>3 DEF ConnectReturns, SendToReturns, ReceiveFromReturns, TimerReturns, Step
  <2> QED BY <1>3, <2>1, TaskHandlerSteps
<1> QED BY <1>1, <1>2, <1>3 DEF Handlers

LEMMA Steps ==
  ASSUME PeerInv, Next
  PROVE  \E c \in Conn : Stepped(c) \/ Threw(c)
BY ConnectionSteps DEF Next, PeerInv

(* A step changes the object of one connection.                             *)
LEMMA OneChanges ==
  ASSUME peer \in [Conn -> Peer], NEW c \in Conn, NEW q, ConnInv(q),
         peer' = [peer EXCEPT ![c] = q]
  PROVE  /\ peer' \in [Conn -> Peer] /\ peer'[c] = q
         /\ \A d \in Conn : d # c => peer'[d] = peer[d]
BY DEF ConnInv
-----------------------------------------------------------------------------
LEMMA PeerInvInit == Init => PeerInv
<1> SUFFICES ASSUME Init
             PROVE  PeerInv
  OBVIOUS
<1>1. NewConnection \in Peer
  BY NewConnectionInv DEF ConnInv
<1> QED BY <1>1, NewConnectionInv DEF Init, PeerInv, Steady, TypeOK

LEMMA PeerInvNext == PeerInv /\ [Next]_vars => PeerInv'
<1> SUFFICES ASSUME PeerInv, [Next]_vars
             PROVE  PeerInv'
  OBVIOUS
<1>1. CASE UNCHANGED vars
  BY <1>1 DEF vars, PeerInv, Steady, TypeOK
<1>2. ASSUME NEW c \in Conn, Stepped(c)
      PROVE  PeerInv'
  <2> PICK q : Good(peer[c], q) /\ Step(c, q)
    BY <1>2 DEF Stepped
  <2>1. ConnInv(q) /\ Busy(q) /\ peer \in [Conn -> Peer]
    BY DEF Good, PeerInv, TypeOK
  <2>2. peer' = [peer EXCEPT ![c] = q] /\ io = "running" /\ io' = io /\ debug' = debug
    BY DEF Step
  <2>3. /\ peer' \in [Conn -> Peer] /\ peer'[c] = q
        /\ \A d \in Conn : d # c => peer'[d] = peer[d]
    BY <2>1, <2>2, OneChanges
  <2> QED BY <2>1, <2>2, <2>3 DEF PeerInv, Steady, TypeOK
<1>3. ASSUME NEW c \in Conn, Threw(c)
      PROVE  PeerInv'
  <2> PICK e \in Exceptions : \E q : Thrown(peer[c], q) /\ Throw(c, q, e)
    BY <1>3 DEF Threw
  <2> PICK q : Thrown(peer[c], q) /\ Throw(c, q, e)
    OBVIOUS
  <2>1. ConnInv(q) /\ peer \in [Conn -> Peer]
    BY DEF Thrown, PeerInv, TypeOK
  <2>2. peer' = [peer EXCEPT ![c] = q] /\ io' = e /\ debug' = debug /\ e # "running"
    BY DEF Throw, Exceptions
  <2>3. /\ peer' \in [Conn -> Peer] /\ peer'[c] = q
        /\ \A d \in Conn : d # c => peer'[d] = peer[d]
    BY <2>1, <2>2, OneChanges
  <2> QED BY <2>1, <2>2, <2>3 DEF PeerInv, Steady, TypeOK
<1> QED BY <1>1, <1>2, <1>3, Steps

(* The conjunct that carries the rest: the parts of ConnInv hold of every   *)
(* connection, for any number of them.                                      *)
THEOREM PeerInvariant == Spec => []PeerInv
BY PeerInvInit, PeerInvNext, PTL DEF Spec

(* The fields of every peer_connection and of its task keep their types; in *)
(* particular the bytes left of the reply (m_send_buffer) never go below 0. *)
THEOREM PeerTypeCorrect == Spec => []TypeOK
<1>1. PeerInv => TypeOK
  BY DEF PeerInv
<1> QED BY <1>1, PeerInvariant, PTL

(* pending_io_count counts exactly the read and write handlers to come.     *)
THEOREM PendingExact == Spec => []PendingIsExact
<1>1. ASSUME PeerInv
      PROVE  PendingIsExact
  <2> SUFFICES ASSUME NEW c \in Conn
               PROVE  peer[c].pending_io_count
                        = Cardinality({op \in {"read", "write"} : Outstanding(peer[c][op])})
    BY DEF PendingIsExact
  <2> DEFINE p == peer[c]
             S == {op \in {"read", "write"} : Outstanding(p[op])}
  <2>1. /\ p.pending_io_count = (IF Outstanding(p.read) THEN 1 ELSE 0)
                              + (IF Outstanding(p.write) THEN 1 ELSE 0)
        /\ ~(Outstanding(p.read) /\ Outstanding(p.write))
    <3>1. ConnInv(p)
      BY <1>1 DEF PeerInv, Steady
    <3> HIDE DEF p
    <3>2. p.acks = 1 \/ ~Outstanding(p.write)
      BY <3>1 DEF ConnInv, ReplyPart, Outstanding
    <3> QED BY <3>1, <3>2 DEF ConnInv, TaskPart, IoPart, ReplyPart
  <2> HIDE DEF p
  <2>2. CASE Outstanding(p.read)
    <3>1. S = {"read"}
      BY <2>1, <2>2
    <3>2. Cardinality(S) = 1
      BY <3>1, FS_Singleton
    <3> QED BY <2>1, <2>2, <3>2 DEF p
  <2>3. CASE Outstanding(p.write)
    <3>1. S = {"write"}
      BY <2>1, <2>3
    <3>2. Cardinality(S) = 1
      BY <3>1, FS_Singleton
    <3> QED BY <2>1, <2>3, <3>2 DEF p
  <2>4. CASE ~Outstanding(p.read) /\ ~Outstanding(p.write)
    <3>1. S = {}
      BY <2>4
    <3>2. Cardinality(S) = 0
      BY <3>1, FS_EmptySet
    <3> QED BY <2>1, <2>4, <3>2 DEF p
  <2> QED BY <2>2, <2>3, <2>4
<1> QED BY <1>1, PeerInvariant, PTL

(* A removable connection has no handler to come, and no task that could    *)
(* still call it back: tcp_server may free it.                              *)
THEOREM RemovableQuiet == Spec => []RemovableIsQuiet
<1>1. PeerInv => RemovableIsQuiet
  BY RemovableIdle DEF PeerInv, Steady, RemovableIsQuiet
<1> QED BY <1>1, PeerInvariant, PTL

(* A closed connection, and the task it owns, wait for nothing that only    *)
(* the network or a deadline could end.                                     *)
THEOREM ClosedWoundDown == Spec => []ClosedWindsDown
<1>1. ASSUME PeerInv
      PROVE  ClosedWindsDown
  <2> SUFFICES ASSUME NEW c \in Conn, peer[c].m_closed
               PROVE  "wait" \notin Waiting(peer[c])
    BY DEF ClosedWindsDown
  <2> DEFINE p == peer[c]
             t == p.m_pingpong_task
  <2>1. ConnInv(p) /\ p.m_closed
    BY <1>1 DEF PeerInv, Steady
  <2> HIDE DEF p
  <2>2. "wait" \notin {p.read, p.write, p.watch_dog}
    BY <2>1 DEF ConnInv, WatchPart, ClosedPart
  <2>3. "wait" \notin {t.connect, t.send_to, t.receive_from, t.timer}
    <3>1. CASE p.started
      BY <2>1, <3>1, TaskWoundDown DEF ConnInv, TaskPart, ClosedPart
    <3>2. CASE ~p.started
      BY <2>1, <3>2, TaskStarted
    <3> QED BY <3>1, <3>2
  <2> QED BY <2>2, <2>3 DEF Waiting, p
<1> QED BY <1>1, PeerInvariant, PTL

(* An open connection has its watch dog, waiting or about to bite.          *)
THEOREM OpenWatched == Spec => []OpenIsWatched
<1>1. PeerInv => OpenIsWatched
  BY DEF PeerInv, Steady, ConnInv, WatchPart, OpenIsWatched
<1> QED BY <1>1, PeerInvariant, PTL

(* The client is sent one reply, of three bytes however it is cut, with the *)
(* verdict of the finished task, which is the truth.                        *)
THEOREM ReplyIsFaithful == Spec => []ReplyFaithful
<1>1. ASSUME PeerInv
      PROVE  ReplyFaithful
  <2> SUFFICES ASSUME NEW c \in Conn, NEW p, p = peer[c], NEW t, t = p.m_pingpong_task
               PROVE  /\ p.acks <= 1
                      /\ Outstanding(p.write) => p.acks = 1 /\ p.wire + p.m_send_buffer = 3
                      /\ p.acks = 1 => /\ p.m_pingpong_task_finished
                                       /\ p.reply_code = ReplyCode(t.verdict)
                                       /\ t.verdict \subseteq t.reached
                                       /\ ~t.m_abort => t.verdict = t.reached
    BY DEF ReplyFaithful
  <2>1. ConnInv(p)
    BY <1>1 DEF PeerInv, Steady
  <2>2. p.acks = 1 => TaskInv(t) /\ t.m_is_notified
    BY <2>1 DEF ConnInv, ReplyPart, TaskPart
  <2>3. p.acks = 1 => t.verdict \subseteq t.reached /\ (~t.m_abort => t.verdict = t.reached)
    BY <2>2 DEF TaskInv, TruthInv
  <2> QED BY <2>1, <2>3 DEF ConnInv, ReplyPart, Outstanding
<1> QED BY <1>1, PeerInvariant, PTL

(* Until an exception ends the server, an open connection is being read,    *)
(* probed or replied to.                                                    *)
THEOREM OpenBusy == Spec => []OpenIsBusy
<1>1. PeerInv => OpenIsBusy
  BY DEF PeerInv, Steady, Busy, OpenIsBusy
<1> QED BY <1>1, PeerInvariant, PTL

(* Nothing but the task inside ever changes of a connection that tcp_server *)
(* could have freed.                                                        *)
THEOREM RemovableStays == Spec => RemovableForGood
<1> DEFINE Kept == \A c \in Conn :
              Removable(peer[c]) =>
                [peer[c] EXCEPT !.m_pingpong_task = NoTask]
                  = [peer'[c] EXCEPT !.m_pingpong_task = NoTask]
<1>1. ASSUME PeerInv, [Next]_vars
      PROVE  [Kept]_vars
  <2>1. CASE UNCHANGED vars
    BY <2>1
  <2>2. ASSUME NEW c \in Conn, NEW q, ConnInv(q), Keeps(peer[c], q),
               peer' = [peer EXCEPT ![c] = q]
        PROVE  Kept
    <3>1. peer'[c] = q /\ \A d \in Conn : d # c => peer'[d] = peer[d]
      BY <1>1, <2>2, OneChanges DEF PeerInv, TypeOK
    <3> QED BY <2>2, <3>1 DEF Keeps
  <2>3. ASSUME Next
        PROVE  Kept
    BY <1>1, <2>2, <2>3, Steps
       DEF Stepped, Threw, Good, Thrown, Step, Throw
  <2> QED BY <1>1, <2>1, <2>3
<1> QED BY <1>1, PeerInvariant, PTL DEF Spec, RemovableForGood
-----------------------------------------------------------------------------
(* What a step does to the getters that tcp_server reads.                   *)
LEMMA LifeChanges ==
  ASSUME peer \in [Conn -> Peer], NEW c \in Conn, NEW q,
         peer' = [peer EXCEPT ![c] = q]
  PROVE  [d \in Conn |-> Getters(peer[d])]'
           = [[d \in Conn |-> Getters(peer[d])] EXCEPT ![c] = Getters(q)]
OBVIOUS

(* A connection as it is made is as PeerContract has it.                    *)
LEMMA ContractInit == Init => Contract!Init
<1> SUFFICES ASSUME Init
             PROVE  Contract!Init
  OBVIOUS
<1> DEFINE u == [Unborn EXCEPT !.watch_dog = "wait"]
<1>1. /\ u \in Peer /\ SameTask(Unborn, u) /\ u.pending_io_count = 0
      /\ ~u.m_closed /\ ~u.m_is_watch_dog_finish_work
  BY UnbornFields DEF Peer, TimerOp, SameTask
<1>2. NewConnection = AsyncReadSome(u)
  BY DEF NewConnection
<1> HIDE DEF u
<1>3. /\ NewConnection \in Peer /\ ~NewConnection.started
      /\ ~NewConnection.m_pingpong_task_finished /\ ~NewConnection.m_closed
      /\ NewConnection.pending_io_count = 1 /\ ~NewConnection.m_is_watch_dog_finish_work
  BY <1>1, <1>2, AsyncReadSomeFields, UnbornFields DEF SameTask, SameWatch
<1>4. Getters(NewConnection) = Contract!New
  <2> DEFINE l == Getters(NewConnection)
  <2>1. /\ l \in Seen /\ l.closed = FALSE /\ l.pending = 1 /\ l.watched = TRUE
        /\ l.started = FALSE /\ l.finished = FALSE
    BY <1>3, GettersFields DEF Peer
  <2> HIDE DEF l
  <2>2. l = Contract!New
    BY <2>1 DEF Seen, Contract!New
  <2> QED BY <2>2 DEF l
<1> QED BY <1>4 DEF Init, Contract!Init

(* Every step of a connection is one of PeerContract, or none.              *)
LEMMA ContractNext == PeerInv /\ [Next]_vars => [Contract!Next]_(Contract!vars)
<1> SUFFICES ASSUME PeerInv, [Next]_vars
             PROVE  [Contract!Next]_(Contract!vars)
  OBVIOUS
<1>1. CASE UNCHANGED vars
  BY <1>1 DEF vars, Contract!vars
<1>2. ASSUME NEW c \in Conn, Stepped(c)
      PROVE  [Contract!Next]_(Contract!vars)
  <2> PICK q : Good(peer[c], q) /\ Step(c, q)
    BY <1>2 DEF Stepped
  <2> DEFINE life == [d \in Conn |-> Getters(peer[d])]
             m == Getters(q)
  <2>1. io = "running" /\ io' = io /\ peer' = [peer EXCEPT ![c] = q]
    BY DEF Step
  <2>2. life' = [life EXCEPT ![c] = m]
    BY <2>1, LifeChanges DEF PeerInv, TypeOK
  <2>3. /\ life[c] = Getters(peer[c])
        /\ \/ m = life[c]
           \/ life[c].pending = 1 /\ m \in Contract!AfterIo(life[c])
           \/ life[c].started /\ ~life[c].finished /\ m = Contract!AfterTask(life[c])
           \/ life[c].watched /\ m = Contract!AfterWatchDog(life[c])
    BY DEF Good, SeenAs
  <2>4. CASE m = life[c]
    <3>1. life' = life
      BY <2>2, <2>4
    <3> QED BY <2>1, <3>1 DEF Contract!vars
  <2>5. CASE life[c].pending = 1 /\ m \in Contract!AfterIo(life[c])
    <3>1. Contract!IoReturns(c)
      BY <2>2, <2>5 DEF Contract!IoReturns
    <3> QED BY <2>1, <3>1 DEF Contract!Next
  <2>6. CASE life[c].started /\ ~life[c].finished /\ m = Contract!AfterTask(life[c])
    <3>1. Contract!TaskFinishes(c)
      BY <2>2, <2>6 DEF Contract!TaskFinishes
    <3> QED BY <2>1, <3>1 DEF Contract!Next
  <2>7. CASE life[c].watched /\ m = Contract!AfterWatchDog(life[c])
    <3>1. Contract!WatchDogReturns(c)
      BY <2>2, <2>7 DEF Contract!WatchDogReturns
    <3> QED BY <2>1, <3>1 DEF Contract!Next
  <2> QED BY <2>3, <2>4, <2>5, <2>6, <2>7
<1>3. ASSUME NEW c \in Conn, Threw(c)
      PROVE  [Contract!Next]_(Contract!vars)
  <2> PICK e \in Exceptions : \E q : Thrown(peer[c], q) /\ Throw(c, q, e)
    BY <1>3 DEF Threw
  <2> PICK q : Thrown(peer[c], q) /\ Throw(c, q, e)
    OBVIOUS
  <2> DEFINE life == [d \in Conn |-> Getters(peer[d])]
             m == Getters(q)
  <2>1. io = "running" /\ io' # "running" /\ peer' = [peer EXCEPT ![c] = q]
    BY DEF Throw, Exceptions
  <2>2. life' = [life EXCEPT ![c] = m]
    BY <2>1, LifeChanges DEF PeerInv, TypeOK
  <2>3. peer[c] \in Peer
    BY DEF PeerInv, TypeOK
  <2>4. /\ life[c] = Getters(peer[c])
        /\ \/ m = life[c]
           \/ ~life[c].closed /\ life[c].pending = 1 /\ m = Contract!Returned(life[c])
    BY <2>3, GettersFields DEF Thrown
  <2>5. CASE m = life[c]
    <3>1. life' = life
      BY <2>2, <2>5
    <3>2. Contract!Throws(c)
      BY <2>1, <3>1 DEF Contract!Throws
    <3> QED BY <2>1, <3>2 DEF Contract!Next
  <2>6. CASE ~life[c].closed /\ life[c].pending = 1 /\ m = Contract!Returned(life[c])
    <3>1. Contract!Throws(c)
      BY <2>1, <2>2, <2>6 DEF Contract!Throws
    <3> QED BY <2>1, <3>1 DEF Contract!Next
  <2> QED BY <2>4, <2>5, <2>6
<1> QED BY <1>1, <1>2, <1>3, Steps

(* The connections keep the contract on which TcpServer is built.           *)
THEOREM ConnectionsKeepContract == Spec => ImplementsContract
BY PeerInvariant, ContractInit, ContractNext, PTL DEF Spec, ImplementsContract, Contract!Spec
=============================================================================
