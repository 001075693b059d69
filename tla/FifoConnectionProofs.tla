------------------------ MODULE FifoConnectionProofs ------------------------
(***************************************************************************)
(* The theorems of FifoConnection.  Its steps are those of PeerConnection, *)
(* so PeerInv holds of it; what is added here is what a step does to the   *)
(* operations, one by one, and from that to the queue of their handlers.   *)
(***************************************************************************)
EXTENDS FifoConnection, PeerConnectionProofs

(* A handler leaves an operation of another as it is, or ends it; it may    *)
(* start one that was idle.  Its own is idle then, or started again.        *)
Ends(x, y) == y = x \/ (x = "wait" /\ Queued(y))

Goes(own, op, x, y) == IF op = own THEN y \in {"idle", "wait"} ELSE x = "idle" \/ Ends(x, y)

(* The task has told its result, was not aborted, and its timer, canceled   *)
(* or expired, is still to be handled.                                      *)
Told(p) ==
  LET t == p.m_pingpong_task
  IN  p.started /\ t.m_is_notified /\ ~t.m_abort /\ Outstanding(t.timer)

(* A step that leaves the connection p as q, in the handler of own.         *)
OpsMove(p, q, own) ==
  LET t == p.m_pingpong_task  u == q.m_pingpong_task
  IN  /\ Goes(own, "read", p.read, q.read)
      /\ Goes(own, "write", p.write, q.write)
      /\ Goes(own, "watch_dog", p.watch_dog, q.watch_dog)
      /\ Goes(own, "connect", t.connect, u.connect)
      /\ Goes(own, "send_to", t.send_to, u.send_to)
      /\ Goes(own, "receive_from", t.receive_from, u.receive_from)
      /\ Goes(own, "timer", t.timer, u.timer)

Moves(p, q, own) ==
  /\ OpsMove(p, q, own)
  /\ Told(q) => Told(p) \/ (p.write = "idle" /\ q.write = "wait")
-----------------------------------------------------------------------------
TaskEnds(t, r) ==
  /\ Ends(t.connect, r.connect) /\ Ends(t.send_to, r.send_to)
  /\ Ends(t.receive_from, r.receive_from) /\ Ends(t.timer, r.timer)

(* Closing and canceling only end operations that wait.                     *)
LEMMA ClosedEnds ==
  /\ \A x : Ends(x, x) /\ Ends(x, Closed(x)) /\ Ends(x, Canceled(x))
  /\ \A x, y, z : Ends(x, y) /\ Ends(y, z) => Ends(x, z)
BY DEF Ends, Closed, Canceled, Queued

LEMMA CheckNotifyEnds ==
  ASSUME NEW t \in Task
  PROVE  TaskEnds(t, CheckNotify(t)) /\ CheckNotify(t) \in Task
<1> DEFINE r == CheckNotify(t)
<1>1. /\ r \in Task /\ r.connect = t.connect /\ r.send_to = t.send_to
      /\ r.receive_from = t.receive_from
      /\ r.timer = t.timer \/ r.timer = Canceled(t.timer)
  BY CheckNotifyFields
<1> QED BY <1>1, ClosedEnds DEF TaskEnds

LEMMA AbortEnds ==
  ASSUME NEW t \in Task, NEW w
  PROVE  TaskEnds(t, Abort(t, w))
<1> DEFINE a == IF w = "abort_by_external" THEN Canceled(t.timer) ELSE t.timer
           r == [t EXCEPT !.timer = a]
           s == Aborted(r)
<1>1. a \in TimerOp /\ Ends(t.timer, a)
  BY OpTypes, ClosedEnds DEF Task
<1>2. (IF w = "abort_by_external" THEN [t EXCEPT !.timer = Canceled(@)] ELSE t) = r
  BY DEF Task
<1>3. Abort(t, w) = IF Completed(r) THEN r ELSE s
  BY <1>2 DEF Abort
<1> HIDE DEF a, s
<1>4. /\ r \in Task /\ r.timer = a /\ r.connect = t.connect
      /\ r.send_to = t.send_to /\ r.receive_from = t.receive_from
  BY <1>1, TimerFields
<1> HIDE DEF r
<1>5. /\ s.timer = a
      /\ s.connect = IF r.m_tcp_completed THEN r.connect ELSE Closed(r.connect)
      /\ s.send_to = IF r.m_udp_completed THEN r.send_to ELSE Closed(r.send_to)
      /\ s.receive_from = IF r.m_udp_completed THEN r.receive_from ELSE Closed(r.receive_from)
  BY <1>4, AbortedFields DEF s
<1>6. TaskEnds(t, r) /\ TaskEnds(t, s)
  BY <1>1, <1>4, <1>5, ClosedEnds DEF TaskEnds
<1> QED BY <1>3, <1>6

LEMMA UdpCloseEnds ==
  ASSUME NEW t \in Task, NEW b \in BOOLEAN
  PROVE  TaskEnds(t, UdpClose(t, b))
<1> DEFINE x == Closed(t.send_to)
           y == Closed(t.receive_from)
           r == [t EXCEPT !.m_udp_sock = FALSE, !.m_udp_result = b, !.m_udp_completed = TRUE,
                          !.send_to = x, !.receive_from = y]
<1>1. x \in SockOp /\ y \in SockOp /\ Ends(t.send_to, x) /\ Ends(t.receive_from, y)
  BY OpTypes, ClosedEnds DEF Task
<1>2. UdpClose(t, b) = CheckNotify(r)
  BY DEF UdpClose
<1> HIDE DEF x, y
<1>3. /\ r \in Task /\ r.send_to = x /\ r.receive_from = y
      /\ r.connect = t.connect /\ r.timer = t.timer
  BY <1>1 DEF Task
<1> HIDE DEF r
<1> QED BY <1>1, <1>2, <1>3, CheckNotifyEnds, ClosedEnds DEF TaskEnds
-----------------------------------------------------------------------------
(* What each handler of the task leaves of the operations: its own idle, the*)
(* others as they were or ended; the send handler may start the receive.    *)
LEMMA ConnectOps ==
  ASSUME NEW t \in Task
  PROVE  LET r == TcpConnectHandler(t)
         IN  /\ r.connect = "idle" /\ Ends(t.send_to, r.send_to)
             /\ Ends(t.receive_from, r.receive_from) /\ Ends(t.timer, r.timer)
<1> DEFINE x == (t.connect = "ok")
           r == [t EXCEPT !.connect = "idle"]
           q == [r EXCEPT !.m_tcp_result = FALSE, !.m_tcp_completed = TRUE]
           a == IF r.m_abort THEN CheckNotify(q) ELSE r
           y == a.m_tcp_sock /\ t.connect # "ok"
           b == [a EXCEPT !.m_tcp_result = x, !.m_tcp_sock = y, !.m_tcp_completed = TRUE]
<1>1. TcpConnectHandler(t) = IF b.m_udp_completed THEN CheckNotify(b) ELSE b
  BY DEF TcpConnectHandler
<1>2. r \in Task /\ r.connect = "idle" /\ r.send_to = t.send_to
      /\ r.receive_from = t.receive_from /\ r.timer = t.timer
  BY ConnectFields DEF SockOp
<1> HIDE DEF r
<1>3. /\ q \in Task /\ q.connect = r.connect /\ q.send_to = r.send_to
      /\ q.receive_from = r.receive_from /\ q.timer = r.timer
  BY <1>2 DEF Task
<1> HIDE DEF q
<1>4. a \in Task /\ TaskEnds(r, a)
  BY <1>2, <1>3, CheckNotifyEnds, ClosedEnds DEF TaskEnds
<1> HIDE DEF a
<1>5. x \in BOOLEAN /\ y \in BOOLEAN
  OBVIOUS
<1> HIDE DEF x, y
<1>6. /\ b \in Task /\ b.connect = a.connect /\ b.send_to = a.send_to
      /\ b.receive_from = a.receive_from /\ b.timer = a.timer
  BY <1>4, <1>5 DEF Task
<1> HIDE DEF b
<1>7. TaskEnds(r, TcpConnectHandler(t))
  BY <1>1, <1>4, <1>6, CheckNotifyEnds, ClosedEnds DEF TaskEnds
<1> QED BY <1>2, <1>7 DEF TaskEnds, Ends

LEMMA SendToOps ==
  ASSUME NEW t \in Task
  PROVE  LET r == UdpSendToHandler(t)
         IN  /\ r.send_to = "idle" /\ Ends(t.connect, r.connect) /\ Ends(t.timer, r.timer)
<1> DEFINE r == [t EXCEPT !.send_to = "idle"]
           q == [r EXCEPT !.m_udp_result = FALSE, !.m_udp_completed = TRUE]
           a == IF r.m_abort THEN CheckNotify(q) ELSE r
           x == StartedOn(a.m_udp_sock)
           b == [a EXCEPT !.receive_from = x]
<1>1. UdpSendToHandler(t) = IF t.send_to = "err" THEN UdpClose(a, FALSE) ELSE b
  BY DEF UdpSendToHandler
<1>2. r \in Task /\ r.send_to = "idle" /\ r.connect = t.connect /\ r.timer = t.timer
  BY SendToFields DEF SockOp
<1> HIDE DEF r
<1>3. /\ q \in Task /\ q.connect = r.connect /\ q.send_to = r.send_to
      /\ q.receive_from = r.receive_from /\ q.timer = r.timer
  BY <1>2 DEF Task
<1> HIDE DEF q
<1>4. a \in Task /\ TaskEnds(r, a)
  BY <1>2, <1>3, CheckNotifyEnds, ClosedEnds DEF TaskEnds
<1> HIDE DEF a
<1>5. x \in SockOp
  BY <1>4, OpTypes DEF Task
<1> HIDE DEF x
<1>6. b.connect = a.connect /\ b.send_to = a.send_to /\ b.timer = a.timer
  BY <1>4, <1>5, ReceiveFromFields
<1> HIDE DEF b
<1>7. TaskEnds(a, UdpClose(a, FALSE))
  BY <1>4, UdpCloseEnds
<1> QED BY <1>1, <1>2, <1>4, <1>6, <1>7 DEF TaskEnds, Ends

LEMMA ReceiveFromOps ==
  ASSUME NEW t \in Task
  PROVE  LET r == UdpRcvHandler(t)
         IN  /\ r.receive_from = "idle" /\ Ends(t.connect, r.connect)
             /\ Ends(t.send_to, r.send_to) /\ Ends(t.timer, r.timer)
<1> DEFINE r == [t EXCEPT !.receive_from = "idle"]
           b == (t.receive_from = "ok")
<1>1. UdpRcvHandler(t) = UdpClose(r, b) /\ b \in BOOLEAN
  BY DEF UdpRcvHandler
<1>2. /\ r \in Task /\ r.receive_from = "idle" /\ r.connect = t.connect
      /\ r.send_to = t.send_to /\ r.timer = t.timer
  BY ReceiveFromFields DEF SockOp
<1> HIDE DEF r, b
<1>3. TaskEnds(r, UdpClose(r, b))
  BY <1>1, <1>2, UdpCloseEnds
<1> QED BY <1>1, <1>2, <1>3 DEF TaskEnds, Ends

LEMMA TimerOps ==
  ASSUME NEW t \in Task
  PROVE  LET r == TaskTimeoutHandler(t)
         IN  /\ r.timer = "idle" /\ Ends(t.connect, r.connect)
             /\ Ends(t.send_to, r.send_to) /\ Ends(t.receive_from, r.receive_from)
<1> DEFINE r == [t EXCEPT !.timer = "idle"]
<1>1. \/ TaskTimeoutHandler(t) = r
      \/ TaskTimeoutHandler(t) = Abort(r, "abort_by_timer")
  BY DEF TaskTimeoutHandler
<1>2. /\ r \in Task /\ r.timer = "idle" /\ r.connect = t.connect
      /\ r.send_to = t.send_to /\ r.receive_from = t.receive_from
  BY TimerFields DEF TimerOp
<1> HIDE DEF r
<1>3. TaskEnds(r, r) /\ TaskEnds(r, Abort(r, "abort_by_timer"))
  BY <1>2, AbortEnds, ClosedEnds DEF TaskEnds
<1> QED BY <1>1, <1>2, <1>3 DEF TaskEnds, Ends

(* The network and the deadline end one operation.                          *)
LEMMA DoneOps ==
  ASSUME NEW t \in Task, NEW res \in {"ok", "err"}
  PROVE  /\ t.connect = "wait" => TaskEnds(t, ConnectDone(t, res))
         /\ t.send_to = "wait" => TaskEnds(t, SendToDone(t, res))
         /\ t.receive_from = "wait" => TaskEnds(t, ReceiveFromDone(t, res))
         /\ t.timer = "wait" => TaskEnds(t, TimerExpired(t))
BY DEF Task, TaskEnds, Ends, Queued, ConnectDone, SendToDone, ReceiveFromDone, TimerExpired
-----------------------------------------------------------------------------
(* Closing ends what waits, of the connection and of its task, and starts   *)
(* nothing; a task it aborts has not told.                                  *)
LEMMA CloseMoves ==
  ASSUME NEW p \in Peer, NEW w, TaskPart(p)
  PROVE  LET q == ShutdownAndClose(p, w)
         IN  /\ Ends(p.read, q.read) /\ Ends(p.write, q.write)
             /\ Ends(p.watch_dog, q.watch_dog)
             /\ TaskEnds(p.m_pingpong_task, q.m_pingpong_task)
             /\ Told(q) => Told(p)
<1> DEFINE q == ShutdownAndClose(p, w)
           t == p.m_pingpong_task
           u == q.m_pingpong_task
           a == Abort(t, "abort_by_external")
<1>1. /\ u = IF p.started /\ ~Completed(t) THEN a ELSE t
      /\ q.watch_dog = IF w = "close_by_watch_dog" THEN p.watch_dog ELSE Canceled(p.watch_dog)
      /\ q.read = Closed(p.read) /\ q.write = Closed(p.write) /\ q.started = p.started
  BY CloseFields
<1> HIDE DEF q
<1>2. Ends(p.read, q.read) /\ Ends(p.write, q.write) /\ Ends(p.watch_dog, q.watch_dog)
  BY <1>1, ClosedEnds
<1>3. t \in Task
  BY DEF Peer
<1>4. TaskEnds(t, u)
  BY <1>1, <1>3, AbortEnds, ClosedEnds DEF TaskEnds
<1>5. ASSUME Told(q)
      PROVE  Told(p)
  <2>1. CASE p.started /\ ~Completed(t)
    <3>1. a.m_abort
      BY <1>3, <2>1, AbortInv DEF TaskPart, TaskInv
    <3> QED BY <1>1, <1>5, <2>1, <3>1 DEF Told
  <2>2. CASE ~(p.started /\ ~Completed(t))
    BY <1>1, <1>5, <2>2 DEF Told
  <2> QED BY <2>1, <2>2
<1> QED BY <1>2, <1>4, <1>5 DEF q

(* A handler of the task, with its callback: if the task tells its result   *)
(* unaborted, the reply is started.                                         *)
LEMMA WithTaskMoves ==
  ASSUME NEW p, ConnInv(p), p.started, NEW r, TaskGoesOn(p.m_pingpong_task, r)
  PROVE  LET t == p.m_pingpong_task
             q == WithTask(p, r)
         IN  /\ q.started /\ q.m_pingpong_task = r
             /\ q.read = p.read /\ q.watch_dog = p.watch_dog
             /\ q.write = p.write \/ p.write = "idle"
             /\ r.m_is_notified /\ ~t.m_is_notified /\ ~r.m_abort =>
                  p.write = "idle" /\ q.write = "wait"
<1> DEFINE t == p.m_pingpong_task
           b == [p EXCEPT !.m_pingpong_task = r]
           q == WithTask(p, r)
<1>1. p \in Peer /\ TaskInv(t) /\ TaskInv(r) /\ r \in Task
  BY DEF ConnInv, TaskPart, TaskGoesOn, TaskInv
<1>2. /\ b \in Peer /\ b.m_pingpong_task = r /\ b.started = p.started
      /\ b.read = p.read /\ b.write = p.write /\ b.watch_dog = p.watch_dog
      /\ b.m_closed = p.m_closed
  BY <1>1 DEF Peer
<1>3. q = IF r.calls # t.calls THEN OnDetectFinished(b, r.verdict) ELSE b
  BY DEF WithTask
<1> HIDE DEF b, q, t
<1>4. r.calls = t.calls <=> r.m_is_notified = t.m_is_notified
  BY <1>1 DEF TaskGoesOn, TaskInv, NotifyInv, Task, t
<1>5. ~t.m_is_notified => p.write = "idle"
  BY DEF ConnInv, TaskPart, ReplyPart, t
<1>6. p.m_closed => t.m_abort \/ t.m_is_notified
  BY <1>1 DEF ConnInv, ClosedPart, TaskInv, NotifyInv, t
<1>7. t.m_abort => r.m_abort
  BY DEF TaskGoesOn, t
<1>8. t.m_is_notified => r.m_is_notified
  BY DEF TaskGoesOn, t
<1>9. CASE r.calls = t.calls
  <2>1. q = b /\ r.m_is_notified = t.m_is_notified
    BY <1>3, <1>4, <1>9
  <2> QED BY <1>2, <2>1 DEF q, t
<1>10. CASE r.calls # t.calls
  <2>1. q = OnDetectFinished(b, r.verdict) /\ r.m_is_notified # t.m_is_notified
    BY <1>3, <1>4, <1>10
  <2>2. ~t.m_is_notified
    BY <1>1, <1>8, <2>1 DEF TaskInv, Task
  <2>3. /\ q.started = b.started /\ q.m_pingpong_task = b.m_pingpong_task
        /\ SameWatch(b, q) /\ q.read = b.read
        /\ ~b.m_closed => q.write = "wait"
    BY <1>2, <2>1, OnDetectFinishedFields
  <2> QED BY <1>2, <1>5, <1>6, <1>7, <2>2, <2>3 DEF SameWatch, q, t
<1> QED BY <1>9, <1>10

(* The operations of a task's step, seen from the connection.               *)
LEMMA TaskMoves ==
  ASSUME NEW p, ConnInv(p), p.started, NEW own, own \notin {"read", "write", "watch_dog"},
         NEW t, t = p.m_pingpong_task, NEW r, TaskGoesOn(t, r),
         Goes(own, "connect", t.connect, r.connect),
         Goes(own, "send_to", t.send_to, r.send_to),
         Goes(own, "receive_from", t.receive_from, r.receive_from),
         Goes(own, "timer", t.timer, r.timer),
         own = "timer" \/ Ends(t.timer, r.timer)
  PROVE  Moves(p, WithTask(p, r), own)
<1> DEFINE q == WithTask(p, r)
<1>1. /\ q.started /\ q.m_pingpong_task = r
      /\ q.read = p.read /\ q.watch_dog = p.watch_dog
      /\ q.write = p.write \/ p.write = "idle"
      /\ r.m_is_notified /\ ~t.m_is_notified /\ ~r.m_abort => p.write = "idle" /\ q.write = "wait"
  BY WithTaskMoves
<1> HIDE DEF q
<1>2. OpsMove(p, q, own)
  BY <1>1 DEF OpsMove, Goes, Ends
<1>3. ASSUME Told(q), t.m_is_notified
      PROVE  Told(p)
  <2>1. ~t.m_abort
    BY <1>1, <1>3 DEF Told, TaskGoesOn
  <2>2. Outstanding(t.timer)
    <3>1. r.timer # "idle" /\ r.timer # "wait"
      BY <1>1, <1>3 DEF Told, TaskGoesOn, TaskInv, ProgressInv, Outstanding
    <3>2. t.timer # "wait"
      BY <1>3 DEF ConnInv, TaskPart, TaskInv, ProgressInv
    <3> QED BY <3>1, <3>2 DEF Goes, Ends, Outstanding
  <2> QED BY <1>3, <2>1, <2>2 DEF Told
<1>4. Told(q) /\ ~t.m_is_notified => p.write = "idle" /\ q.write = "wait"
  BY <1>1 DEF Told
<1> QED BY <1>2, <1>3, <1>4 DEF Moves, q

LEMMA TaskDoneMoves ==
  ASSUME NEW p, ConnInv(p), NEW t, t = p.m_pingpong_task, NEW res \in {"ok", "err"}
  PROVE  /\ t.connect = "wait" => Moves(p, WithTask(p, ConnectDone(t, res)), "reactor")
         /\ t.send_to = "wait" => Moves(p, WithTask(p, SendToDone(t, res)), "reactor")
         /\ t.receive_from = "wait" => Moves(p, WithTask(p, ReceiveFromDone(t, res)), "reactor")
         /\ t.timer = "wait" => Moves(p, WithTask(p, TimerExpired(t)), "reactor")
<1>1. ASSUME NEW r, TaskEnds(t, r), TaskGoesOn(t, r), p.started
      PROVE  Moves(p, WithTask(p, r), "reactor")
  BY <1>1, TaskMoves DEF TaskEnds, Goes
<1>2. ASSUME "wait" \in {t.connect, t.send_to, t.receive_from, t.timer}
      PROVE  p.started /\ TaskInv(t) /\ t \in Task
  BY <1>2, TaskStarted DEF TaskInv
<1> QED BY <1>1, <1>2, DoneOps, TaskDone, TaskExpired

LEMMA TaskHandlerMoves ==
  ASSUME NEW p, ConnInv(p), NEW t, t = p.m_pingpong_task
  PROVE  /\ Queued(t.connect) => Moves(p, WithTask(p, TcpConnectHandler(t)), "connect")
         /\ Queued(t.send_to) => Moves(p, WithTask(p, UdpSendToHandler(t)), "send_to")
         /\ Queued(t.receive_from) => Moves(p, WithTask(p, UdpRcvHandler(t)), "receive_from")
         /\ Queued(t.timer) => Moves(p, WithTask(p, TaskTimeoutHandler(t)), "timer")
<1>1. ASSUME Queued(t.connect) \/ Queued(t.send_to) \/ Queued(t.receive_from) \/ Queued(t.timer)
      PROVE  p.started /\ TaskInv(t) /\ t \in Task
  BY <1>1, TaskStarted DEF TaskInv, Queued
<1>2. ASSUME Queued(t.connect)
      PROVE  Moves(p, WithTask(p, TcpConnectHandler(t)), "connect")
  <2> DEFINE r == TcpConnectHandler(t)
  <2>1. p.started /\ TaskGoesOn(t, r)
    BY <1>1, <1>2, TaskHandled
  <2>2. /\ r.connect = "idle" /\ Ends(t.send_to, r.send_to)
        /\ Ends(t.receive_from, r.receive_from) /\ Ends(t.timer, r.timer)
    BY <1>1, <1>2, ConnectOps
  <2> HIDE DEF r
  <2>3. Moves(p, WithTask(p, r), "connect")
    BY <2>1, <2>2, TaskMoves DEF Goes
  <2> QED BY <2>3 DEF r
<1>3. ASSUME Queued(t.send_to)
      PROVE  Moves(p, WithTask(p, UdpSendToHandler(t)), "send_to")
  <2> DEFINE r == UdpSendToHandler(t)
  <2>1. p.started /\ TaskGoesOn(t, r)
    BY <1>1, <1>3, TaskHandled
  <2>2. r.send_to = "idle" /\ Ends(t.connect, r.connect) /\ Ends(t.timer, r.timer)
    BY <1>1, <1>3, SendToOps
  <2>3. t.receive_from = "idle"
    BY <1>1, <1>3 DEF TaskInv, PendingInv, Outstanding, Queued
  <2> HIDE DEF r
  <2>4. Moves(p, WithTask(p, r), "send_to")
    BY <2>1, <2>2, <2>3, TaskMoves DEF Goes
  <2> QED BY <2>4 DEF r
<1>4. ASSUME Queued(t.receive_from)
      PROVE  Moves(p, WithTask(p, UdpRcvHandler(t)), "receive_from")
  <2> DEFINE r == UdpRcvHandler(t)
  <2>1. p.started /\ TaskGoesOn(t, r)
    BY <1>1, <1>4, TaskHandled
  <2>2. /\ r.receive_from = "idle" /\ Ends(t.connect, r.connect)
        /\ Ends(t.send_to, r.send_to) /\ Ends(t.timer, r.timer)
    BY <1>1, <1>4, ReceiveFromOps
  <2> HIDE DEF r
  <2>3. Moves(p, WithTask(p, r), "receive_from")
    BY <2>1, <2>2, TaskMoves DEF Goes
  <2> QED BY <2>3 DEF r
<1>5. ASSUME Queued(t.timer)
      PROVE  Moves(p, WithTask(p, TaskTimeoutHandler(t)), "timer")
  <2> DEFINE r == TaskTimeoutHandler(t)
  <2>1. p.started /\ TaskGoesOn(t, r)
    BY <1>1, <1>5, TaskHandled
  <2>2. /\ r.timer = "idle" /\ Ends(t.connect, r.connect)
        /\ Ends(t.send_to, r.send_to) /\ Ends(t.receive_from, r.receive_from)
    BY <1>1, <1>5, TimerOps
  <2> HIDE DEF r
  <2>3. Moves(p, WithTask(p, r), "timer")
    BY <2>1, <2>2, TaskMoves DEF Goes
  <2> QED BY <2>3 DEF r
<1> QED BY <1>2, <1>3, <1>4, <1>5
-----------------------------------------------------------------------------
(* Handlers of the connection itself, up to the close that may end them: r  *)
(* is p when its own operation has returned.                                *)
Returned(p, r, own) ==
  /\ r \in Peer /\ TaskPart(r) /\ SameTask(p, r) /\ r[own] = "idle"
  /\ own \in {"read", "write", "watch_dog"}
  /\ own # "read" => r.read = p.read
  /\ own # "write" => r.write = p.write
  /\ own # "watch_dog" => r.watch_dog = p.watch_dog

LEMMA ReturnMoves ==
  ASSUME NEW p, NEW own, NEW r, Returned(p, r, own), NEW w
  PROVE  Moves(p, r, own) /\ Moves(p, ShutdownAndClose(r, w), own)
<1> DEFINE q == ShutdownAndClose(r, w)
           t == p.m_pingpong_task
<1>1. /\ Ends(r.read, q.read) /\ Ends(r.write, q.write) /\ Ends(r.watch_dog, q.watch_dog)
      /\ TaskEnds(t, q.m_pingpong_task)
      /\ Told(q) => Told(r)
  BY CloseMoves DEF Returned, SameTask
<1> HIDE DEF q
<1>2. Told(r) = Told(p)
  BY DEF Told, Returned, SameTask
<1>3. Moves(p, r, own)
  BY <1>2 DEF Moves, OpsMove, Goes, Ends, Returned, SameTask
<1>4. OpsMove(p, q, own)
  BY <1>1 DEF OpsMove, Goes, Ends, TaskEnds, Returned
<1> QED BY <1>1, <1>2, <1>3, <1>4 DEF Moves, q

LEMMA Returns ==
  ASSUME NEW p, ConnInv(p)
  PROVE  /\ Returned(p, ReadReturned(p), "read")
         /\ Returned(p, DataReceived(p), "read")
         /\ Returned(p, WriteReturned(p), "write")
         /\ Returned(p, [p EXCEPT !.watch_dog = "idle"], "watch_dog")
<1>1. p \in Peer /\ TaskPart(p)
  BY DEF ConnInv
<1>2. ASSUME NEW r, SameTask(p, r)
      PROVE  TaskPart(r)
  BY <1>1, <1>2 DEF TaskPart, SameTask
<1>3. Returned(p, ReadReturned(p), "read")
  BY <1>1, <1>2, ReadReturnedFields DEF Returned, SameWatch
<1>4. Returned(p, DataReceived(p), "read")
  BY <1>1, <1>2, DataReceivedFields DEF Returned, SameWatch
<1>5. Returned(p, WriteReturned(p), "write")
  BY <1>1, <1>2, WriteReturnedFields DEF Returned, SameWatch
<1>6. Returned(p, [p EXCEPT !.watch_dog = "idle"], "watch_dog")
  <2> DEFINE r == [p EXCEPT !.watch_dog = "idle"]
  <2>1. "idle" \in TimerOp
    BY DEF TimerOp
  <2>2. /\ r \in Peer /\ SameTask(p, r) /\ r.watch_dog = "idle"
        /\ r.read = p.read /\ r.write = p.write
    BY <1>1, <2>1 DEF Peer, SameTask
  <2> HIDE DEF r
  <2>3. Returned(p, r, "watch_dog")
    BY <1>2, <2>2 DEF Returned
  <2> QED BY <2>3 DEF r
<1> QED BY <1>3, <1>4, <1>5, <1>6

(* The request starts a task where none was.                                *)
LEMMA RequestMoves ==
  ASSUME NEW p, ConnInv(p), ~p.m_closed, Queued(p.read)
  PROVE  Moves(p, [DataReceived(p) EXCEPT !.started = TRUE, !.m_pingpong_task = NewTask], "read")
<1> DEFINE r == DataReceived(p)
           q == [r EXCEPT !.started = TRUE, !.m_pingpong_task = NewTask]
<1>1. p.m_pingpong_task = NoTask
  BY OpenReads
<1>2. Returned(p, r, "read")
  BY Returns
<1> HIDE DEF r
<1>3. /\ q.read = "idle" /\ q.write = p.write /\ q.watch_dog = p.watch_dog
      /\ q.m_pingpong_task = NewTask
  BY <1>2 DEF Returned, Peer
<1> HIDE DEF q
<1>4. /\ NoTask.connect = "idle" /\ NoTask.send_to = "idle"
      /\ NoTask.receive_from = "idle" /\ NoTask.timer = "idle"
      /\ ~NewTask.m_is_notified
  BY DEF NoTask, NewTask
<1>5. OpsMove(p, q, "read")
  BY <1>1, <1>3, <1>4 DEF OpsMove, Goes, Ends
<1>6. ~Told(q)
  BY <1>3, <1>4 DEF Told
<1> QED BY <1>5, <1>6 DEF Moves, q, r

(* Bytes sent: the rest is sent next, or the connection closed.             *)
LEMMA SentMoves ==
  ASSUME NEW p, ConnInv(p), ~p.m_closed, Queued(p.write), NEW n \in 1..p.m_send_buffer
  PROVE  Moves(p, Sent(WriteReturned(p), n), "write")
<1> DEFINE r == WriteReturned(p)
           k == r.wire + n
           s == [r EXCEPT !.wire = k]
           left == s.m_send_buffer - n
           pend == s.pending_io_count + 1
           q == [s EXCEPT !.m_send_buffer = left, !.write = "wait", !.pending_io_count = pend]
<1>1. Returned(p, r, "write")
  BY Returns
<1>2. Sent(r, n) = IF n # r.m_send_buffer
                   THEN q ELSE ShutdownAndClose(s, "close_by_write_handler")
  BY DEF Sent, k, r
<1> HIDE DEF r
<1>3. k \in Nat
  <2>1. p.m_send_buffer \in Nat /\ r.wire \in Nat
    BY <1>1 DEF ConnInv, Peer, Returned
  <2> QED BY <2>1
<1> HIDE DEF k
<1>4. /\ s \in Peer /\ SameTask(r, s) /\ s.read = r.read /\ s.write = r.write
      /\ s.watch_dog = r.watch_dog
  BY <1>1, <1>3 DEF Peer, SameTask, Returned
<1> HIDE DEF s
<1>5. Returned(p, s, "write")
  BY <1>1, <1>4 DEF Returned, SameTask, TaskPart
<1>6. Moves(p, ShutdownAndClose(s, "close_by_write_handler"), "write")
  BY <1>5, ReturnMoves
<1>7. Moves(p, q, "write")
  <2> HIDE DEF left, pend
  <2>1. /\ q.read = p.read /\ q.write = "wait" /\ q.watch_dog = p.watch_dog
        /\ q.started = p.started /\ q.m_pingpong_task = p.m_pingpong_task
    BY <1>5 DEF Returned, SameTask, Peer
  <2> HIDE DEF q
  <2> QED BY <2>1 DEF Moves, OpsMove, Goes, Ends, Told
<1> QED BY <1>2, <1>6, <1>7 DEF r

LEMMA WatchDogDoneMoves ==
  ASSUME NEW p, NEW own, NEW r \in Peer, Moves(p, r, own)
  PROVE  Moves(p, WatchDogDone(r), own)
<1> DEFINE q == WatchDogDone(r)
<1>1. SameTask(r, q) /\ q.read = r.read /\ q.write = r.write /\ q.watch_dog = r.watch_dog
  BY WatchDogDoneFields
<1> HIDE DEF q
<1> QED BY <1>1 DEF Moves, OpsMove, Told, SameTask, q
-----------------------------------------------------------------------------
(* The actions: what a step does to the operations of its connection.       *)
Moved(c, own) == \E q : Moves(peer[c], q, own) /\ peer' = [peer EXCEPT ![c] = q]

LEMMA ReactorMoves ==
  ASSUME NEW c, Steady(c), Reactor(c)
  PROVE  Moved(c, "reactor")
<1> DEFINE p == peer[c]
           t == p.m_pingpong_task
<1>1. ConnInv(p) /\ p \in Peer
  BY DEF Steady, ConnInv
<1> HIDE DEF p
<1>2. ASSUME NEW q, Moves(p, q, "reactor"), Step(c, q)
      PROVE  Moved(c, "reactor")
  BY <1>2 DEF Step, Moved, p
<1>3. CASE SocketCompletes(c)
  <2> PICK res \in {"ok", "err"} :
        \/ p.read = "wait" /\ Step(c, [p EXCEPT !.read = res])
        \/ p.write = "wait" /\ Step(c, [p EXCEPT !.write = res])
    BY <1>3 DEF SocketCompletes, p
  <2>1. p.read = "wait" => Moves(p, [p EXCEPT !.read = res], "reactor")
    BY <1>1 DEF Peer, Moves, OpsMove, Goes, Ends, Told, Queued
  <2>2. p.write = "wait" => Moves(p, [p EXCEPT !.write = res], "reactor")
    BY <1>1 DEF Peer, Moves, OpsMove, Goes, Ends, Told, Queued
  <2> QED BY <1>2, <2>1, <2>2
<1>4. CASE WatchDogExpires(c)
  <2>1. p.watch_dog = "wait" => Moves(p, [p EXCEPT !.watch_dog = "expired"], "reactor")
    BY <1>1 DEF Peer, Moves, OpsMove, Goes, Ends, Told, Queued
  <2> QED BY <1>2, <1>4, <2>1 DEF WatchDogExpires, p
<1>5. CASE TaskCompletes(c)
  <2> PICK res \in {"ok", "err"} :
        \/ t.connect = "wait" /\ Step(c, WithTask(p, ConnectDone(t, res)))
        \/ t.send_to = "wait" /\ Step(c, WithTask(p, SendToDone(t, res)))
        \/ t.receive_from = "wait" /\ Step(c, WithTask(p, ReceiveFromDone(t, res)))
    BY <1>5 DEF TaskCompletes, p
  <2> QED BY <1>1, <1>2, TaskDoneMoves
<1>6. CASE TaskExpires(c)
  <2>1. t.timer = "wait" /\ Step(c, WithTask(p, TimerExpired(t)))
    BY <1>6 DEF TaskExpires, p
  <2> QED BY <1>1, <1>2, <2>1, TaskDoneMoves
<1> QED BY <1>3, <1>4, <1>5, <1>6 DEF Reactor, Expires

LEMMA ReadMoves ==
  ASSUME NEW c, Steady(c), ReadHandler(c)
  PROVE  Moved(c, "read") /\ Queued(peer[c].read)
<1> DEFINE p == peer[c]
<1>1. ConnInv(p)
  BY DEF Steady
<1> HIDE DEF p
<1>2. CASE ReadAfterClose(c)
  <2>1. Queued(p.read) /\ peer' = [peer EXCEPT ![c] = ReadReturned(p)]
    BY <1>2 DEF ReadAfterClose, Step, p
  <2> QED BY <1>1, <2>1, Returns, ReturnMoves DEF Moved, p
<1>3. CASE ReadFails(c)
  <2>1. /\ Queued(p.read)
        /\ peer' = [peer EXCEPT ![c] = ShutdownAndClose(ReadReturned(p), "close_by_read_handler")]
    BY <1>3 DEF ReadFails, Step, Queued, p
  <2> QED BY <1>1, <2>1, Returns, ReturnMoves DEF Moved, p
<1>4. ASSUME NEW msg, NEW n, ReadsRequest(c, msg, n)
      PROVE  Moved(c, "read") /\ Queued(peer[c].read)
  <2>1. /\ Queued(p.read) /\ ~p.m_closed
        /\ peer' = [peer EXCEPT ![c] = [DataReceived(p) EXCEPT !.started = TRUE,
                                                               !.m_pingpong_task = NewTask]]
    BY <1>4 DEF ReadsRequest, Step, Queued, p
  <2> QED BY <1>1, <2>1, RequestMoves DEF Moved, p
<1>5. ASSUME NEW msg, NEW n, ReadsOther(c, msg, n)
      PROVE  Moved(c, "read") /\ Queued(peer[c].read)
  <2>1. /\ Queued(p.read) /\ ~p.m_closed
        /\ peer' = [peer EXCEPT ![c] = Unserved(DataReceived(p))]
    BY <1>5 DEF ReadsOther, Step, Queued, p
  <2>2. DataReceived(p).m_data_received = 11
    BY <1>1, <2>1, OpenReads, DataReceivedFields
  <2>3. Unserved(DataReceived(p)) = ShutdownAndClose(DataReceived(p), "close_by_read_handler")
    BY <2>2 DEF Unserved, AMIB_MESSAGE_LENTH
  <2> QED BY <1>1, <2>1, <2>3, Returns, ReturnMoves DEF Moved, p
<1>6. ASSUME NEW msg, NEW n, RequestThrows(c, msg, n)
      PROVE  Moved(c, "read") /\ Queued(peer[c].read)
  <2>1. Queued(p.read) /\ peer' = [peer EXCEPT ![c] = DataReceived(p)]
    BY <1>6 DEF RequestThrows, Throw, Queued, p
  <2> QED BY <1>1, <2>1, Returns, ReturnMoves DEF Moved, p
<1> QED BY <1>2, <1>3, <1>4, <1>5, <1>6 DEF ReadHandler

LEMMA WriteMoves ==
  ASSUME NEW c, Steady(c), WriteHandler(c)
  PROVE  Moved(c, "write") /\ Queued(peer[c].write)
<1> DEFINE p == peer[c]
<1>1. ConnInv(p)
  BY DEF Steady
<1> HIDE DEF p
<1>2. CASE WriteAfterClose(c)
  <2>1. Queued(p.write) /\ peer' = [peer EXCEPT ![c] = WriteReturned(p)]
    BY <1>2 DEF WriteAfterClose, Step, p
  <2> QED BY <1>1, <2>1, Returns, ReturnMoves DEF Moved, p
<1>3. CASE WriteFails(c)
  <2>1. /\ Queued(p.write)
        /\ peer' = [peer EXCEPT ![c] = ShutdownAndClose(WriteReturned(p), "close_by_write_handler")]
    BY <1>3 DEF WriteFails, Step, Queued, p
  <2> QED BY <1>1, <2>1, Returns, ReturnMoves DEF Moved, p
<1>4. CASE WriteSends(c)
  <2>1. /\ Queued(p.write) /\ ~p.m_closed
        /\ \E n \in 1..p.m_send_buffer : peer' = [peer EXCEPT ![c] = Sent(WriteReturned(p), n)]
    BY <1>4 DEF WriteSends, Step, Queued, p
  <2> QED BY <1>1, <2>1, SentMoves DEF Moved, p
<1> QED BY <1>2, <1>3, <1>4 DEF WriteHandler

LEMMA WatchDogMoves ==
  ASSUME NEW c, Steady(c), WatchDogHandler(c)
  PROVE  Moved(c, "watch_dog") /\ Queued(peer[c].watch_dog)
<1> DEFINE p == peer[c]
           r == [p EXCEPT !.watch_dog = "idle"]
           s == ShutdownAndClose(r, "close_by_watch_dog")
<1>1. ConnInv(p)
  BY DEF Steady
<1> HIDE DEF p
<1>2. Returned(p, r, "watch_dog")
  BY <1>1, Returns
<1> HIDE DEF r
<1>3. r \in Peer /\ s \in Peer
  BY <1>2, CloseFields DEF Returned
<1>4. /\ Moves(p, r, "watch_dog") /\ Moves(p, WatchDogDone(r), "watch_dog")
      /\ Moves(p, WatchDogDone(s), "watch_dog")
  BY <1>2, <1>3, ReturnMoves, WatchDogDoneMoves
<1>5. /\ Queued(p.watch_dog)
      /\ \/ peer' = [peer EXCEPT ![c] = r]
         \/ peer' = [peer EXCEPT ![c] = WatchDogDone(r)]
         \/ peer' = [peer EXCEPT ![c] = WatchDogDone(s)]
  BY DEF WatchDogHandler, WatchDogCanceled, WatchDogWolf, WatchDogAsserts, Step, Throw, Queued, p, r
<1> QED BY <1>4, <1>5 DEF Moved, p

LEMMA TaskReturnsMove ==
  ASSUME NEW c, Steady(c)
  PROVE  LET t == peer[c].m_pingpong_task
         IN  /\ ConnectReturns(c) => Moved(c, "connect") /\ Queued(t.connect)
             /\ SendToReturns(c) => Moved(c, "send_to") /\ Queued(t.send_to)
             /\ ReceiveFromReturns(c) => Moved(c, "receive_from") /\ Queued(t.receive_from)
             /\ TimerReturns(c) => Moved(c, "timer") /\ Queued(t.timer)
<1> DEFINE p == peer[c]
           t == p.m_pingpong_task
<1>1. ConnInv(p)
  BY DEF Steady
<1>2. /\ ConnectReturns(c) =>
           Queued(t.connect) /\ peer' = [peer EXCEPT ![c] = WithTask(p, TcpConnectHandler(t))]
      /\ SendToReturns(c) =>
           Queued(t.send_to) /\ peer' = [peer EXCEPT ![c] = WithTask(p, UdpSendToHandler(t))]
      /\ ReceiveFromReturns(c) =>
           Queued(t.receive_from) /\ peer' = [peer EXCEPT ![c] = WithTask(p, UdpRcvHandler(t))]
      /\ TimerReturns(c) =>
           Queued(t.timer) /\ peer' = [peer EXCEPT ![c] = WithTask(p, TaskTimeoutHandler(t))]
  BY DEF ConnectReturns, SendToReturns, ReceiveFromReturns, TimerReturns, Step
<1> HIDE DEF p
<1> QED BY <1>1, <1>2, TaskHandlerMoves DEF Moved, p
-----------------------------------------------------------------------------
(* Sequences without repetition: what they hold, and in which order.        *)
Distinct(s) == \A i, j \in 1..Len(s) : s[i] = s[j] => i = j
Holds(s, x) == \E i \in 1..Len(s) : s[i] = x
InOrder(s, x, y) == \A i, j \in 1..Len(s) : s[i] = x /\ s[j] = y => i < j

LEMMA JoinedSeq ==
  ASSUME NEW S, NEW s \in Seq(S), NEW t \in Seq(S), Distinct(s), Distinct(t),
         \A x : ~(Holds(s, x) /\ Holds(t, x))
  PROVE  /\ s \o t \in Seq(S) /\ Distinct(s \o t)
         /\ \A x : Holds(s \o t, x) <=> Holds(s, x) \/ Holds(t, x)
         /\ \A x, y : /\ InOrder(s, x, y) /\ InOrder(t, x, y)
                      /\ ~(Holds(s, y) /\ Holds(t, x))
                      => InOrder(s \o t, x, y)
<1> DEFINE u == s \o t
<1>1. /\ u \in Seq(S) /\ Len(u) = Len(s) + Len(t) /\ Len(s) \in Nat /\ Len(t) \in Nat
      /\ \A i \in 1..Len(s) : u[i] = s[i]
      /\ \A i \in 1..Len(u) : i > Len(s) => u[i] = t[i - Len(s)]
  OBVIOUS
<1> HIDE DEF u
<1>2. \A i \in 1..Len(u) : \/ i \in 1..Len(s) /\ u[i] = s[i] /\ Holds(s, u[i])
                           \/ /\ i > Len(s) /\ i - Len(s) \in 1..Len(t)
                              /\ u[i] = t[i - Len(s)] /\ Holds(t, u[i])
  BY <1>1 DEF Holds
<1>3. Distinct(u)
  <2> SUFFICES ASSUME NEW i \in 1..Len(u), NEW j \in 1..Len(u), u[i] = u[j]
               PROVE  i = j
    BY DEF Distinct
  <2>1. CASE Holds(s, u[i])
    BY <1>2, <2>1 DEF Distinct
  <2>2. CASE Holds(t, u[i])
    <3>1. /\ i > Len(s) /\ i - Len(s) \in 1..Len(t) /\ u[i] = t[i - Len(s)]
          /\ j > Len(s) /\ j - Len(s) \in 1..Len(t) /\ u[j] = t[j - Len(s)]
      BY <1>2, <2>2
    <3>2. i - Len(s) = j - Len(s)
      BY <3>1 DEF Distinct
    <3> QED BY <1>1, <3>2
  <2> QED BY <1>2, <2>1, <2>2
<1>4. \A x : Holds(u, x) <=> Holds(s, x) \/ Holds(t, x)
  <2> TAKE x
  <2>1. Holds(u, x) => Holds(s, x) \/ Holds(t, x)
    BY <1>2 DEF Holds
  <2>2. Holds(s, x) => Holds(u, x)
    BY <1>1 DEF Holds
  <2>3. ASSUME Holds(t, x)
        PROVE  Holds(u, x)
    <3> PICK i \in 1..Len(t) : t[i] = x
      BY <2>3 DEF Holds
    <3>1. i + Len(s) \in 1..Len(u) /\ i + Len(s) > Len(s) /\ (i + Len(s)) - Len(s) = i
      BY <1>1
    <3>2. u[i + Len(s)] = x
      BY <1>1, <3>1
    <3> QED BY <3>1, <3>2 DEF Holds
  <2> QED BY <2>1, <2>2, <2>3
<1>5. ASSUME NEW x, NEW y, InOrder(s, x, y), InOrder(t, x, y), ~(Holds(s, y) /\ Holds(t, x))
      PROVE  InOrder(u, x, y)
  <2> SUFFICES ASSUME NEW i \in 1..Len(u), NEW j \in 1..Len(u), u[i] = x, u[j] = y
               PROVE  i < j
    BY DEF InOrder
  <2>1. CASE i \in 1..Len(s) /\ j \in 1..Len(s)
    BY <1>1, <1>5, <2>1 DEF InOrder
  <2>2. CASE i \in 1..Len(s) /\ j > Len(s)
    BY <1>1, <2>2
  <2>3. CASE i > Len(s) /\ j > Len(s)
    <3>1. /\ i - Len(s) \in 1..Len(t) /\ t[i - Len(s)] = x
          /\ j - Len(s) \in 1..Len(t) /\ t[j - Len(s)] = y
      BY <1>1, <1>2, <2>3
    <3>2. i - Len(s) < j - Len(s)
      BY <1>5, <3>1 DEF InOrder
    <3> QED BY <1>1, <3>2
  <2>4. CASE i > Len(s) /\ j \in 1..Len(s)
    <3>1. Holds(t, x) /\ Holds(s, y)
      BY <1>1, <1>2, <2>4
    <3> QED BY <1>5, <3>1
  <2> QED BY <1>1, <2>1, <2>2, <2>3, <2>4
<1> QED BY <1>1, <1>3, <1>4, <1>5 DEF u

LEMMA RestSeq ==
  ASSUME NEW S, NEW s \in Seq(S), s # <<>>, Distinct(s)
  PROVE  /\ Tail(s) \in Seq(S) /\ Distinct(Tail(s)) /\ Holds(s, Head(s))
         /\ \A x : Holds(Tail(s), x) <=> Holds(s, x) /\ x # Head(s)
         /\ \A x, y : InOrder(s, x, y) => InOrder(Tail(s), x, y)
<1> DEFINE u == Tail(s)
<1>1. /\ u \in Seq(S) /\ Len(s) \in Nat \ {0} /\ Len(u) = Len(s) - 1 /\ Head(s) = s[1]
      /\ \A i \in 1..Len(u) : u[i] = s[i + 1]
  OBVIOUS
<1> HIDE DEF u
<1>2. \A i \in 1..Len(u) : i + 1 \in 1..Len(s)
  BY <1>1
<1>3. Distinct(u)
  BY <1>1, <1>2 DEF Distinct
<1>4. \A x, y : InOrder(s, x, y) => InOrder(u, x, y)
  BY <1>1, <1>2 DEF InOrder
<1>5. 1 \in 1..Len(s)
  BY <1>1
<1>6. ASSUME NEW x
      PROVE  Holds(u, x) <=> Holds(s, x) /\ x # Head(s)
  <2>1. ASSUME Holds(u, x)
        PROVE  Holds(s, x) /\ x # Head(s)
    <3> PICK i \in 1..Len(u) : u[i] = x
      BY <2>1 DEF Holds
    <3>1. i + 1 \in 1..Len(s) /\ s[i + 1] = x /\ i + 1 # 1
      BY <1>1
    <3> QED BY <1>1, <1>5, <3>1 DEF Holds, Distinct
  <2>2. ASSUME Holds(s, x), x # Head(s)
        PROVE  Holds(u, x)
    <3> PICK i \in 1..Len(s) : s[i] = x
      BY <2>2 DEF Holds
    <3>1. i # 1
      BY <1>1, <2>2
    <3>2. i - 1 \in 1..Len(u) /\ (i - 1) + 1 = i
      BY <1>1, <3>1
    <3> QED BY <1>1, <3>2 DEF Holds
  <2> QED BY <2>1, <2>2
<1> QED BY <1>1, <1>3, <1>4, <1>5, <1>6 DEF Holds, u

(* One more at the end.                                                     *)
LEMMA OneMore ==
  ASSUME NEW S, NEW s \in Seq(S), Distinct(s), NEW x \in S, ~Holds(s, x)
  PROVE  LET t == s \o <<x>>
         IN  /\ t \in Seq(S) /\ Distinct(t)
             /\ \A y : Holds(t, y) <=> Holds(s, y) \/ y = x
             /\ \A y, z : InOrder(s, y, z) /\ y # z /\ (y # x \/ ~Holds(s, z)) => InOrder(t, y, z)
<1> DEFINE u == <<x>>
           t == s \o u
<1>1. u \in Seq(S) /\ Len(u) = 1 /\ u[1] = x
  OBVIOUS
<1> HIDE DEF u
<1>2. Distinct(u) /\ \A y : Holds(u, y) <=> y = x
  BY <1>1 DEF Distinct, Holds
<1>3. \A y, z : y # z => InOrder(u, y, z)
  BY <1>1 DEF InOrder
<1>4. /\ t \in Seq(S) /\ Distinct(t)
      /\ \A y : Holds(t, y) <=> Holds(s, y) \/ Holds(u, y)
      /\ \A y, z : /\ InOrder(s, y, z) /\ InOrder(u, y, z)
                   /\ ~(Holds(s, z) /\ Holds(u, y))
                   => InOrder(t, y, z)
  BY <1>1, <1>2, JoinedSeq
<1> HIDE DEF t
<1> QED BY <1>2, <1>3, <1>4 DEF t, u
-----------------------------------------------------------------------------
(* A step queues each operation that joins, once, the timer before the write.*)
LEMMA EnqueuedIs ==
  ASSUME NEW c \in Conn, NEW immediate
  PROVE  LET e == Enqueued(c, immediate)
         IN  /\ e \in Seq(Conn \X Ops) /\ Distinct(e)
             /\ \A x : Holds(e, x) <=> \E op \in Ops : Joins(c, op, immediate) /\ x = <<c, op>>
             /\ InOrder(e, <<c, "timer">>, <<c, "write">>)
<1> DEFINE S == Conn \X Ops
           J(op) == Joins(c, op, immediate)
           Call(op) == IfJoins(c, op, immediate)
           s1 == <<>> \o Call("watch_dog")
           s2 == s1 \o Call("timer")
           s3 == s2 \o Call("connect")
           s4 == s3 \o Call("write")
           s5 == s4 \o Call("send_to")
           s6 == s5 \o Call("receive_from")
           s7 == s6 \o Call("read")
           y == <<c, "timer">>
           z == <<c, "write">>
<1>1. ASSUME NEW op \in Ops
      PROVE  <<c, op>> \in S /\ J(op) \in BOOLEAN
             /\ Call(op) = IF J(op) THEN <<<<c, op>>>> ELSE <<>>
  BY DEF Joins, IfJoins
<1>2. Enqueued(c, immediate) = s7
  <2>1. Call("watch_dog") = <<>> \/ Call("watch_dog") = <<<<c, "watch_dog">>>>
    BY DEF IfJoins
  <2>2. s1 = Call("watch_dog")
    <3> HIDE DEF Call
    <3> QED BY <2>1
  <2> HIDE DEF s1
  <2> QED BY <2>2 DEF Enqueued
<1> DEFINE In(s, D) == /\ s \in Seq(S) /\ Distinct(s) /\ InOrder(s, y, z)
                       /\ \A x : Holds(s, x) <=> \E op \in D : J(op) /\ x = <<c, op>>
<1>3. y # z /\ \A op, other : <<c, op>> = <<c, other>> => op = other
  OBVIOUS
<1>4. In(<<>>, {})
  BY DEF Distinct, InOrder, Holds
<1>5. ASSUME NEW s, NEW D, In(s, D), NEW op \in Ops, op \notin D,
             op # "timer" \/ "write" \notin D
      PROVE  In(s \o Call(op), D \cup {op})
  <2> DEFINE t == s \o Call(op)
             v == <<c, op>>
  <2>1. /\ s \in Seq(S) /\ Distinct(s) /\ InOrder(s, y, z)
        /\ \A x : Holds(s, x) <=> \E o \in D : J(o) /\ x = <<c, o>>
    BY <1>5
  <2>2. CASE J(op)
    <3>1. v \in S /\ t = s \o <<v>>
      BY <1>1, <2>2
    <3>2. ~Holds(s, v) /\ y # z /\ (v # y \/ ~Holds(s, z))
      BY <1>3, <1>5
    <3> HIDE DEF S, y, z, v, J, Call
    <3>3. LET u == s \o <<v>>
          IN  /\ u \in Seq(S) /\ Distinct(u)
              /\ \A x : Holds(u, x) <=> Holds(s, x) \/ x = v
              /\ \A a, b : InOrder(s, a, b) /\ a # b /\ (a # v \/ ~Holds(s, b)) => InOrder(u, a, b)
      BY <2>1, <3>1, <3>2, OneMore
    <3> HIDE DEF t
    <3>4. t \in Seq(S) /\ Distinct(t) /\ InOrder(t, y, z)
      BY <2>1, <3>1, <3>2, <3>3
    <3>5. \A x : Holds(t, x) <=> \E o \in D \cup {op} : J(o) /\ x = <<c, o>>
      BY <2>1, <2>2, <3>1, <3>3 DEF v
    <3> QED BY <3>4, <3>5 DEF t
  <2>3. CASE ~J(op)
    <3>1. t = s
      <4>1. t = s \o <<>>
        BY <1>1, <2>3
      <4> HIDE DEF t, S
      <4> QED BY <2>1, <4>1
    <3> HIDE DEF t
    <3>2. \A x : Holds(t, x) <=> \E o \in D \cup {op} : J(o) /\ x = <<c, o>>
      <4> HIDE DEF J, S, y, z, Call
      <4> QED BY <2>1, <2>3, <3>1
    <3> QED BY <2>1, <3>1, <3>2 DEF t
  <2> QED BY <2>2, <2>3
<1> HIDE DEF S, Call, J, y, z, In
<1> HIDE DEF s2, s3, s4, s5, s6, s7
<1>6. In(s1, {"watch_dog"})
  <2>1. In(s1, {} \cup {"watch_dog"})
    BY <1>4, <1>5 DEF Ops
  <2>2. {} \cup {"watch_dog"} = {"watch_dog"}
    OBVIOUS
  <2> QED BY <2>1, <2>2
<1> HIDE DEF s1
<1>7. In(s2, {"watch_dog", "timer"})
  <2>1. In(s2, {"watch_dog"} \cup {"timer"})
    BY <1>5, <1>6 DEF Ops, s2
  <2>2. {"watch_dog"} \cup {"timer"} = {"watch_dog", "timer"}
    OBVIOUS
  <2> QED BY <2>1, <2>2
<1>8. In(s3, {"watch_dog", "timer", "connect"})
  <2>1. In(s3, {"watch_dog", "timer"} \cup {"connect"})
    BY <1>5, <1>7 DEF Ops, SocketOps, s3
  <2>2. {"watch_dog", "timer"} \cup {"connect"} = {"watch_dog", "timer", "connect"}
    OBVIOUS
  <2> QED BY <2>1, <2>2
<1>9. In(s4, {"watch_dog", "timer", "connect", "write"})
  <2>1. In(s4, {"watch_dog", "timer", "connect"} \cup {"write"})
    BY <1>5, <1>8 DEF Ops, SocketOps, s4
  <2>2. {"watch_dog", "timer", "connect"} \cup {"write"}
          = {"watch_dog", "timer", "connect", "write"}
    OBVIOUS
  <2> QED BY <2>1, <2>2
<1>10. In(s5, {"watch_dog", "timer", "connect", "write", "send_to"})
  <2>1. In(s5, {"watch_dog", "timer", "connect", "write"} \cup {"send_to"})
    BY <1>5, <1>9 DEF Ops, SocketOps, s5
  <2>2. {"watch_dog", "timer", "connect", "write"} \cup {"send_to"}
          = {"watch_dog", "timer", "connect", "write", "send_to"}
    OBVIOUS
  <2> QED BY <2>1, <2>2
<1>11. In(s6, Ops \ {"read"})
  <2>1. In(s6, {"watch_dog", "timer", "connect", "write", "send_to"} \cup {"receive_from"})
    BY <1>5, <1>10 DEF Ops, SocketOps, s6
  <2>2. {"watch_dog", "timer", "connect", "write", "send_to"} \cup {"receive_from"}
          = Ops \ {"read"}
    BY DEF Ops, SocketOps
  <2> QED BY <2>1, <2>2
<1>12. In(s7, Ops)
  <2>1. In(s7, (Ops \ {"read"}) \cup {"read"})
    BY <1>5, <1>11 DEF Ops, SocketOps, s7
  <2>2. (Ops \ {"read"}) \cup {"read"} = Ops
    BY DEF Ops, SocketOps
  <2> QED BY <2>1, <2>2
<1> QED BY <1>2, <1>12 DEF In, S, J, y, z
-----------------------------------------------------------------------------
(* The queue has no handler twice, each that is to be called, and none whose*)
(* operation is not outstanding; and once a task has told its result        *)
(* unaborted, the reply is under way until its timer has been handled, for  *)
(* the timer's handler is in front.                                         *)
QueueHas(c) ==
  \A op \in Ops :
    /\ Queued(OpOf(peer[c], op)) => Holds(queue, <<c, op>>)
    /\ Holds(queue, <<c, op>>) => Outstanding(OpOf(peer[c], op))

TimerFirst(c) ==
  Told(peer[c]) => /\ Outstanding(peer[c].write)
                   /\ InOrder(queue, <<c, "timer">>, <<c, "write">>)

QueueInv ==
  /\ queue \in Seq(Conn \X Ops) /\ Distinct(queue)
  /\ \A c \in Conn : QueueHas(c) /\ TimerFirst(c)

LEMMA OpsOf ==
  ASSUME NEW p
  PROVE  /\ OpOf(p, "read") = p.read /\ OpOf(p, "write") = p.write
         /\ OpOf(p, "watch_dog") = p.watch_dog
         /\ OpOf(p, "connect") = p.m_pingpong_task.connect
         /\ OpOf(p, "send_to") = p.m_pingpong_task.send_to
         /\ OpOf(p, "receive_from") = p.m_pingpong_task.receive_from
         /\ OpOf(p, "timer") = p.m_pingpong_task.timer
BY DEF OpOf

LEMMA OpsGo ==
  ASSUME NEW p, NEW q, NEW own, OpsMove(p, q, own)
  PROVE  \A op \in Ops : Goes(own, op, OpOf(p, op), OpOf(q, op))
BY OpsOf DEF OpsMove, Ops, SocketOps

LEMMA InQueueHolds ==
  ASSUME NEW S, queue \in Seq(S), NEW c, NEW op
  PROVE  InQueue(c, op) <=> Holds(queue, <<c, op>>)
<1>1. DOMAIN queue = 1..Len(queue)
  OBVIOUS
<1>2. <<c, op>> \in Range(queue) <=> \E i \in DOMAIN queue : queue[i] = <<c, op>>
  BY DEF Range
<1> QED BY <1>1, <1>2 DEF InQueue, Holds

(* A step of connection c in the handler of own (the reactor's have none),  *)
(* that takes own's entry off the queue, leaving rest, and adds what joins. *)
LEMMA QueueStep ==
  ASSUME QueueInv, NEW c \in Conn, NEW own, NEW q,
         ConnInv(peer[c]), ConnInv(q), Moves(peer[c], q, own),
         peer'[c] = q, \A d \in Conn : d # c => peer'[d] = peer[d],
         NEW rest \in Seq(Conn \X Ops), Distinct(rest),
         \A x : Holds(rest, x) <=> Holds(queue, x) /\ x # <<c, own>>,
         \A x, y : InOrder(queue, x, y) => InOrder(rest, x, y),
         own = "write" => ~Told(peer[c]),
         NEW immediate \in SUBSET Startable(c), own \notin Ops => immediate = {},
         queue' = rest \o Enqueued(c, immediate)
  PROVE  QueueInv'
<1> DEFINE p == peer[c]
           e == Enqueued(c, immediate)
           S == Conn \X Ops
           J(op) == Joins(c, op, immediate)
           A(op) == OpOf(p, op)
           B(op) == OpOf(q, op)
           y == <<c, "timer">>
           z == <<c, "write">>
<1>1. /\ e \in Seq(S) /\ Distinct(e) /\ InOrder(e, y, z)
      /\ \A x : Holds(e, x) <=> \E op \in Ops : J(op) /\ x = <<c, op>>
  BY EnqueuedIs
<1>2. \A op \in Ops : Goes(own, op, A(op), B(op))
  BY OpsGo DEF Moves
<1>3. \A op \in Ops : /\ Queued(A(op)) => Holds(queue, <<c, op>>)
                      /\ Holds(queue, <<c, op>>) => Outstanding(A(op))
  BY DEF QueueInv, QueueHas
<1>4. \A op \in Ops : J(op) <=> \/ op \in immediate
                                \/ /\ ~Queued(A(op)) /\ Queued(B(op))
                                   /\ ~Holds(queue, <<c, op>>)
  BY InQueueHolds DEF Joins, QueueInv
<1>5. \A op \in immediate : A(op) # "wait" /\ B(op) = "wait" /\ own \in Ops /\ op \in Ops
  BY DEF Startable, Ops
<1>6. queue' = rest \o e
  OBVIOUS
<1>7. \A x, d, o : x = <<d, o>> => (x = <<c, own>> <=> d = c /\ o = own)
  OBVIOUS
<1>8. \A d, o : Holds(e, <<d, o>>) <=> d = c /\ o \in Ops /\ J(o)
  BY <1>1
<1>9. \A d, o : Holds(rest, <<d, o>>) <=> Holds(queue, <<d, o>>) /\ (d # c \/ o # own)
  BY <1>7
<1>10. Holds(queue, y) => Outstanding(A("timer"))
  BY <1>3 DEF Ops
<1> HIDE DEF e, A, B, J, p
<1>11. \A op \in Ops : op # own /\ Holds(queue, <<c, op>>) => ~J(op)
  BY <1>2, <1>3, <1>4, <1>5 DEF Goes, Ends, Outstanding, Queued
<1>12. \A x : ~(Holds(rest, x) /\ Holds(e, x))
  BY <1>1, <1>8, <1>9, <1>11
<1>13. /\ queue' \in Seq(S) /\ Distinct(queue')
       /\ \A x : Holds(queue', x) <=> Holds(rest, x) \/ Holds(e, x)
       /\ \A v, w : /\ InOrder(rest, v, w) /\ InOrder(e, v, w)
                    /\ ~(Holds(rest, w) /\ Holds(e, v))
                    => InOrder(queue', v, w)
  <2> HIDE DEF S
  <2>1. rest \in Seq(S)
    BY DEF S
  <2> QED BY <1>1, <1>6, <1>12, <2>1, JoinedSeq
<1>14. QueueHas(c)'
  <2> SUFFICES ASSUME NEW op \in Ops
               PROVE  /\ Queued(B(op)) => Holds(queue', <<c, op>>)
                      /\ Holds(queue', <<c, op>>) => Outstanding(B(op))
    BY DEF QueueHas, B
  <2>1. Holds(queue', <<c, op>>) <=> (Holds(queue, <<c, op>>) /\ op # own) \/ J(op)
    BY <1>8, <1>9, <1>13
  <2>2. Goes(own, op, A(op), B(op))
    BY <1>2
  <2>3. ASSUME Queued(B(op))
        PROVE  Holds(queue', <<c, op>>)
    BY <1>3, <1>4, <2>1, <2>2, <2>3 DEF Goes, Queued
  <2>4. ASSUME Holds(queue', <<c, op>>)
        PROVE  Outstanding(B(op))
    BY <1>3, <1>4, <1>5, <2>1, <2>2, <2>4 DEF Goes, Ends, Queued, Outstanding
  <2> QED BY <2>3, <2>4
<1>15. TimerFirst(c)'
  <2> SUFFICES ASSUME Told(q)
               PROVE  Outstanding(q.write) /\ InOrder(queue', y, z)
    BY DEF TimerFirst
  <2>1. q.m_pingpong_task.timer # "idle" /\ q.m_pingpong_task.timer # "wait"
    BY DEF Told, ConnInv, TaskPart, TaskInv, ProgressInv, Outstanding
  <2>2. Goes(own, "timer", p.m_pingpong_task.timer, q.m_pingpong_task.timer)
        /\ Goes(own, "write", p.write, q.write)
    BY DEF Moves, OpsMove, p
  <2>3. own # "timer"
    BY <2>1, <2>2 DEF Goes
  <2>4. A("write") = p.write /\ A("timer") = p.m_pingpong_task.timer
        /\ B("timer") = q.m_pingpong_task.timer
    BY OpsOf DEF A, B
  <2>5. CASE Told(p)
    <3>1. Outstanding(p.write) /\ InOrder(queue, y, z) /\ own # "write"
      BY <2>5 DEF QueueInv, TimerFirst, p
    <3>2. Outstanding(q.write)
      BY <2>2, <3>1 DEF Goes, Ends, Outstanding, Queued
    <3>3. Queued(A("timer"))
      BY <2>4, <2>5 DEF Told, ConnInv, TaskPart, TaskInv, ProgressInv, Outstanding, Queued, p
    <3>4. Holds(rest, y)
      BY <1>3, <1>9, <2>3, <3>3 DEF Ops
    <3>5. ~Holds(e, y)
      BY <1>12, <3>4
    <3> QED BY <1>1, <1>13, <3>1, <3>2, <3>5
  <2>6. CASE p.write = "idle" /\ q.write = "wait"
    <3>1. ~Holds(queue, z)
      BY <1>3, <2>4, <2>6 DEF Ops, SocketOps, Outstanding
    <3>2. ~Holds(rest, z)
      BY <1>9, <3>1
    <3>3. InOrder(rest, y, z)
      BY <3>2 DEF InOrder, Holds
    <3> QED BY <1>1, <1>13, <2>6, <3>2, <3>3 DEF Outstanding
  <2> QED BY <2>5, <2>6 DEF Moves, p
<1>16. ASSUME NEW d \in Conn, d # c
       PROVE  QueueHas(d)' /\ TimerFirst(d)'
  <2>1. QueueHas(d) /\ TimerFirst(d) /\ peer'[d] = peer[d]
    BY <1>16 DEF QueueInv
  <2>2. \A o : Holds(queue', <<d, o>>) <=> Holds(queue, <<d, o>>)
    BY <1>8, <1>9, <1>13, <1>16
  <2>3. QueueHas(d)'
    BY <2>1, <2>2 DEF QueueHas
  <2> DEFINE v == <<d, "timer">>
             w == <<d, "write">>
  <2>4. ~Holds(e, v) /\ ~Holds(e, w)
    BY <1>8, <1>16
  <2>5. InOrder(queue, v, w) => InOrder(queue', v, w)
    <3>1. InOrder(e, v, w)
      BY <2>4 DEF InOrder, Holds
    <3> HIDE DEF v, w
    <3> QED BY <1>13, <2>4, <3>1
  <2>6. TimerFirst(d)'
    BY <2>1, <2>5 DEF TimerFirst
  <2> QED BY <2>3, <2>6
<1> QED BY <1>13, <1>14, <1>15, <1>16 DEF QueueInv, S

(* Next, one connection and one handler at a time, for the queue.           *)
LEMMA QueueNext ==
  ASSUME PeerInv, PeerInv', QueueInv, FifoNext
  PROVE  QueueInv'
<1>1. /\ peer \in [Conn -> Peer] /\ queue \in Seq(Conn \X Ops) /\ Distinct(queue)
      /\ \A c \in Conn : Steady(c) /\ ConnInv(peer[c]) /\ ConnInv(peer'[c])
  BY DEF PeerInv, TypeOK, Steady, QueueInv
<1>2. ASSUME NEW c \in Conn, Completes(c)
      PROVE  QueueInv'
  <2>1. Moved(c, "reactor") /\ queue' = queue \o Enqueued(c, {})
    BY <1>1, <1>2, ReactorMoves DEF Completes
  <2> PICK q : Moves(peer[c], q, "reactor") /\ peer' = [peer EXCEPT ![c] = q]
    BY <2>1 DEF Moved
  <2>2. peer'[c] = q /\ \A d \in Conn : d # c => peer'[d] = peer[d]
    BY <1>1
  <2>3. "reactor" \notin Ops /\ {} \in SUBSET Startable(c)
    BY DEF Ops, SocketOps
  <2>4. \A x : Holds(queue, x) => x # <<c, "reactor">>
    BY <1>1, <2>3 DEF Holds
  <2> QED BY <1>1, <2>1, <2>2, <2>3, <2>4, QueueStep
<1>3. ASSUME NEW c \in Conn, NEW own \in Ops, Moved(c, own), Queued(OpOf(peer[c], own)), Turn(c, own)
      PROVE  QueueInv'
  <2> PICK q : Moves(peer[c], q, own) /\ peer' = [peer EXCEPT ![c] = q]
    BY <1>3 DEF Moved
  <2>1. peer'[c] = q /\ \A d \in Conn : d # c => peer'[d] = peer[d]
    BY <1>1
  <2> PICK immediate \in SUBSET Startable(c) : queue' = Tail(queue) \o Enqueued(c, immediate)
    BY <1>3 DEF Turn
  <2>2. queue # <<>> /\ Head(queue) = <<c, own>>
    BY <1>3 DEF Turn
  <2>3. /\ Tail(queue) \in Seq(Conn \X Ops) /\ Distinct(Tail(queue))
        /\ \A x : Holds(Tail(queue), x) <=> Holds(queue, x) /\ x # Head(queue)
        /\ \A x, y : InOrder(queue, x, y) => InOrder(Tail(queue), x, y)
    BY <1>1, <2>2, RestSeq
  <2>4. ASSUME own = "write", Told(peer[c])
        PROVE  FALSE
    <3>1. InOrder(queue, <<c, "timer">>, <<c, "write">>)
      BY <2>4 DEF QueueInv, TimerFirst
    <3>2. peer[c].m_pingpong_task.timer # "idle" /\ peer[c].m_pingpong_task.timer # "wait"
      BY <1>1, <2>4 DEF Told, ConnInv, TaskPart, TaskInv, ProgressInv, Outstanding
    <3>3. Queued(OpOf(peer[c], "timer"))
      BY <3>2, OpsOf DEF Queued
    <3>4. Holds(queue, <<c, "timer">>)
      BY <3>3 DEF QueueInv, QueueHas, Ops
    <3> PICK i \in 1..Len(queue) : queue[i] = <<c, "timer">>
      BY <3>4 DEF Holds
    <3>5. 1 \in 1..Len(queue) /\ queue[1] = <<c, "write">>
      BY <1>1, <2>2, <2>4
    <3>6. i < 1
      BY <3>1, <3>5 DEF InOrder
    <3> QED BY <3>6
  <2> QED BY <1>1, <2>1, <2>2, <2>3, <2>4, QueueStep
<1>4. ASSUME NEW c \in Conn, Runs(c)
      PROVE  QueueInv'
  <2>1. \/ ReadHandler(c) /\ Turn(c, "read")
        \/ WriteHandler(c) /\ Turn(c, "write")
        \/ WatchDogHandler(c) /\ Turn(c, "watch_dog")
        \/ ConnectReturns(c) /\ Turn(c, "connect")
        \/ SendToReturns(c) /\ Turn(c, "send_to")
        \/ ReceiveFromReturns(c) /\ Turn(c, "receive_from")
        \/ TimerReturns(c) /\ Turn(c, "timer")
    BY <1>4 DEF Runs
  <2>2. \E own \in Ops : Moved(c, own) /\ Queued(OpOf(peer[c], own)) /\ Turn(c, own)
    BY <1>1, <2>1, ReadMoves, WriteMoves, WatchDogMoves, TaskReturnsMove, OpsOf DEF Ops, SocketOps
  <2> QED BY <1>3, <2>2
<1> QED BY <1>2, <1>4 DEF FifoNext

LEMMA FifoIsPeer == FifoSpec => Spec
<1>1. FifoInit => Init
  BY DEF FifoInit
<1>2. [FifoNext]_fifo_vars => [Next]_vars
  BY DEF FifoNext, Completes, Runs, Handlers, Next, fifo_vars
<1> QED BY <1>1, <1>2, PTL DEF FifoSpec, Spec

LEMMA QueueInvInit == FifoInit => QueueInv
<1> SUFFICES ASSUME FifoInit
             PROVE  QueueInv
  OBVIOUS
<1>1. queue \in Seq(Conn \X Ops) /\ Distinct(queue) /\ \A x : ~Holds(queue, x)
  BY DEF FifoInit, Distinct, Holds
<1>2. ASSUME NEW c \in Conn
      PROVE  QueueHas(c) /\ TimerFirst(c)
  <2>1. peer[c] = NewConnection
    BY DEF FifoInit, Init
  <2>2. NewConnection = [Unborn EXCEPT !.watch_dog = "wait", !.read = "wait", !.pending_io_count = 1]
    BY DEF NewConnection, AsyncReadSome, Unborn
  <2>3. /\ NewConnection.read = "wait" /\ NewConnection.write = "idle"
        /\ NewConnection.watch_dog = "wait"
        /\ NewConnection.m_pingpong_task = NoTask /\ ~NewConnection.started
    BY <2>2 DEF Unborn
  <2>4. /\ NoTask.connect = "idle" /\ NoTask.send_to = "idle"
        /\ NoTask.receive_from = "idle" /\ NoTask.timer = "idle"
    BY DEF NoTask, NewTask
  <2>5. \A op \in Ops : ~Queued(OpOf(peer[c], op))
    BY <2>1, <2>3, <2>4, OpsOf DEF Ops, SocketOps, Queued
  <2> QED BY <1>1, <2>1, <2>3, <2>5 DEF QueueHas, TimerFirst, Told
<1> QED BY <1>1, <1>2 DEF QueueInv
-----------------------------------------------------------------------------
(* The queue and the operations agree, in any number of connections.        *)
THEOREM FifoInvariant == FifoSpec => [](PeerInv /\ QueueInv)
<1>1. PeerInv /\ PeerInv' /\ QueueInv /\ [FifoNext]_fifo_vars => QueueInv'
  <2>1. CASE UNCHANGED fifo_vars
    BY <2>1 DEF fifo_vars, vars, QueueInv, QueueHas, TimerFirst
  <2> QED BY <2>1, QueueNext
<1> QED BY <1>1, QueueInvInit, FifoIsPeer, PeerInvariant, PTL DEF FifoSpec

(* A handler that is to be called is in the io_service's queue just once,   *)
(* and none is whose operation of peer_connection or pingpong_task has      *)
(* returned: no handler is called twice, or on an operation never started.  *)
THEOREM QueueExact == FifoSpec => []QueueIsExact
<1>1. ASSUME QueueInv
      PROVE  QueueIsExact
  <2> SUFFICES ASSUME NEW c \in Conn, NEW op \in Ops
               PROVE  LET n == Cardinality({i \in DOMAIN queue : queue[i] = <<c, op>>})
                      IN  /\ n <= 1
                          /\ Queued(OpOf(peer[c], op)) => n = 1
                          /\ n = 1 => Outstanding(OpOf(peer[c], op))
    BY DEF QueueIsExact
  <2> DEFINE I == {i \in DOMAIN queue : queue[i] = <<c, op>>}
  <2>1. queue \in Seq(Conn \X Ops) /\ DOMAIN queue = 1..Len(queue) /\ QueueHas(c)
    BY <1>1 DEF QueueInv
  <2>2. CASE Holds(queue, <<c, op>>)
    <3> PICK i \in 1..Len(queue) : queue[i] = <<c, op>>
      BY <2>2 DEF Holds
    <3>1. I = {i}
      BY <1>1, <2>1 DEF QueueInv, Distinct
    <3> HIDE DEF I
    <3>2. Cardinality(I) = 1
      BY <3>1, FS_Singleton
    <3> QED BY <2>1, <2>2, <3>2 DEF I, QueueHas
  <2>3. CASE ~Holds(queue, <<c, op>>)
    <3>1. I = {}
      BY <2>1, <2>3 DEF Holds
    <3> HIDE DEF I
    <3>2. Cardinality(I) = 0
      BY <3>1, FS_EmptySet
    <3> QED BY <2>1, <2>3, <3>2 DEF I, QueueHas
  <2> QED BY <2>2, <2>3
<1> QED BY <1>1, FifoInvariant, PTL

(* When tcp_server may erase a connection whose task was not aborted, no    *)
(* handler bound to that task is to come: its timer's has been called before*)
(* that of the reply, which the connection waits for.                       *)
THEOREM FinishedGone == FifoSpec => []FinishedTaskGone
<1>1. ASSUME PeerInv, QueueInv
      PROVE  FinishedTaskGone
  <2> SUFFICES ASSUME NEW c \in Conn, NEW p, p = peer[c], NEW t, t = p.m_pingpong_task,
                      Removable(p), ~t.m_abort
               PROVE  ~TaskOutstanding(t)
    BY DEF FinishedTaskGone
  <2>1. ConnInv(p) /\ (Told(p) => Outstanding(p.write))
    BY <1>1 DEF PeerInv, Steady, QueueInv, TimerFirst
  <2>2. p.write = "idle"
    BY <2>1, RemovableIdle
  <2>3. CASE ~p.started
    <3>1. t = NoTask
      BY <2>1, <2>3 DEF ConnInv, TaskPart
    <3> QED BY <3>1 DEF NoTask, NewTask, TaskOutstanding, TcpOutstanding, UdpOutstanding, Outstanding
  <2>4. CASE p.started
    <3>1. TaskInv(t) /\ t.m_is_notified
      BY <2>1, <2>4, RemovableIdle DEF ConnInv, TaskPart
    <3>2. t.timer = "idle"
      BY <2>1, <2>2, <2>4, <3>1 DEF Told, Outstanding
    <3>3. ~TcpOutstanding(t) /\ ~UdpOutstanding(t)
      BY <3>1 DEF TaskInv, NotifyInv, PendingInv, Completed, UdpOutstanding, Outstanding
    <3> QED BY <3>2, <3>3 DEF TaskOutstanding, Outstanding
  <2> QED BY <2>3, <2>4
<1> QED BY <1>1, FifoInvariant, PTL
=============================================================================
