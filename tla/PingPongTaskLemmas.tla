------------------------- MODULE PingPongTaskLemmas -------------------------
(***************************************************************************)
(* Every handler of pingpong_task and every completion of one of its       *)
(* operations preserves TaskInv, whatever task it is applied to: the       *)
(* lemmas PingPongTaskProofs rests on.  They speak of the operators of     *)
(* PingPongTask, not of a specification, so that any specification built   *)
(* from these operators can cite them.                                     *)
(*                                                                         *)
(* A handler is proved in the order of its code: one lemma or step per     *)
(* record it passes through, giving the fields of that record, then one    *)
(* step per conjunct of TaskInv.                                           *)
(***************************************************************************)
EXTENDS PingPongTask, TLAPS

(* What closing a socket, canceling a timer and starting an operation leave *)
(* of an operation: never one that waits, after a close or a cancel.        *)
LEMMA OpTypes ==
  /\ \A x \in SockOp : Closed(x) \in SockOp \ {"wait"}
  /\ \A x \in TimerOp : Canceled(x) \in TimerOp \ {"wait"}
  /\ \A b \in BOOLEAN : StartedOn(b) \in SockOp
  /\ \A t : Results(t) \in SUBSET Probes
BY DEF SockOp, TimerOp, Closed, Canceled, StartedOn, Results

(* check_notify changes the timer, m_is_notified, calls and verdict, and    *)
(* only when both probes are complete and the callback was not called yet.  *)
LEMMA CheckNotifyFields ==
  ASSUME NEW t \in Task
  PROVE  LET r == CheckNotify(t)
             n == ~t.m_is_notified /\ Completed(t)
         IN  /\ r \in Task
             /\ r.m_tcp_completed = t.m_tcp_completed /\ r.m_tcp_result = t.m_tcp_result
             /\ r.m_tcp_sock = t.m_tcp_sock /\ r.m_udp_completed = t.m_udp_completed
             /\ r.m_udp_result = t.m_udp_result /\ r.m_udp_sock = t.m_udp_sock
             /\ r.m_abort = t.m_abort /\ r.connect = t.connect /\ r.send_to = t.send_to
             /\ r.receive_from = t.receive_from /\ r.reached = t.reached
             /\ n => /\ r.timer = Canceled(t.timer) /\ r.m_is_notified = TRUE
                     /\ r.calls = t.calls + 1 /\ r.verdict = Results(t)
             /\ ~n => r = t
<1>1. CASE t.m_is_notified \/ ~Completed(t)
  BY <1>1 DEF CheckNotify
<1>2. CASE ~(t.m_is_notified \/ ~Completed(t))
  <2> DEFINE a == Canceled(t.timer)
             b == t.calls + 1
             v == Results(t)
  <2>1. a \in TimerOp /\ b \in Nat /\ v \in SUBSET Probes
    BY OpTypes DEF Task
  <2>2. CheckNotify(t) = [t EXCEPT !.timer = a, !.m_is_notified = TRUE, !.calls = b, !.verdict = v]
    BY <1>2 DEF CheckNotify
  <2> HIDE DEF a, b, v
  <2>3. QED
    BY <1>2, <2>1, <2>2 DEF Task, a, b, v
<1>3. QED BY <1>1, <1>2

(* abort() closes the sockets of the probes that are not complete and       *)
(* leaves every result and the notification alone.                          *)
LEMMA AbortedFields ==
  ASSUME NEW t \in Task
  PROVE  LET r == Aborted(t)
         IN  /\ r \in Task
             /\ r.m_tcp_completed = t.m_tcp_completed /\ r.m_tcp_result = t.m_tcp_result
             /\ r.m_udp_completed = t.m_udp_completed /\ r.m_udp_result = t.m_udp_result
             /\ r.m_is_notified = t.m_is_notified /\ r.calls = t.calls
             /\ r.verdict = t.verdict /\ r.reached = t.reached /\ r.timer = t.timer
             /\ r.m_abort = TRUE
             /\ r.m_udp_sock = (t.m_udp_sock /\ t.m_udp_completed)
             /\ r.connect = IF t.m_tcp_completed THEN t.connect ELSE Closed(t.connect)
             /\ r.send_to = IF t.m_udp_completed THEN t.send_to ELSE Closed(t.send_to)
             /\ r.receive_from = IF t.m_udp_completed THEN t.receive_from
                                                       ELSE Closed(t.receive_from)
<1> DEFINE s == t.m_tcp_sock /\ t.m_tcp_completed
           u == t.m_udp_sock /\ t.m_udp_completed
           x == IF t.m_tcp_completed THEN t.connect ELSE Closed(t.connect)
           y == IF t.m_udp_completed THEN t.send_to ELSE Closed(t.send_to)
           z == IF t.m_udp_completed THEN t.receive_from ELSE Closed(t.receive_from)
<1>1. /\ s \in BOOLEAN /\ u \in BOOLEAN
      /\ x \in SockOp /\ y \in SockOp /\ z \in SockOp
  BY OpTypes DEF Task
<1>2. Aborted(t) = [t EXCEPT !.m_abort = TRUE, !.m_tcp_sock = s, !.connect = x,
                             !.m_udp_sock = u, !.send_to = y, !.receive_from = z]
  BY DEF Aborted
<1> HIDE DEF s, u, x, y, z
<1>3. QED
  BY <1>1, <1>2 DEF Task, u, x, y, z

(* Changing the timer of a task changes nothing else.                       *)
LEMMA TimerFields ==
  ASSUME NEW t \in Task, NEW a \in TimerOp
  PROVE  LET r == [t EXCEPT !.timer = a]
         IN  /\ r \in Task
             /\ r.timer = a
             /\ r.m_tcp_completed = t.m_tcp_completed /\ r.m_tcp_result = t.m_tcp_result
             /\ r.m_udp_completed = t.m_udp_completed /\ r.m_udp_result = t.m_udp_result
             /\ r.m_udp_sock = t.m_udp_sock /\ r.m_abort = t.m_abort
             /\ r.m_is_notified = t.m_is_notified /\ r.calls = t.calls
             /\ r.verdict = t.verdict /\ r.reached = t.reached
             /\ r.connect = t.connect /\ r.send_to = t.send_to
             /\ r.receive_from = t.receive_from
BY DEF Task

(* How the task r a handler returns may differ from t in what its owner was *)
(* told: a first announcement, and none after it. No handler changes which  *)
(* probes the network let through, and none takes an abort back.            *)
Follows(t, r) ==
  /\ r.reached = t.reached
  /\ t.m_abort => r.m_abort
  /\ t.m_is_notified => r.m_is_notified /\ r.verdict = t.verdict
  /\ ~r.m_is_notified => r.verdict = t.verdict

(* abort() of a task that still probes leaves a task in order, none of      *)
(* whose operations waits for the network, and notifies nobody: the owner's *)
(* abort cancels the timer, the timer's own abort comes when it no longer   *)
(* waits.                                                                   *)
LEMMA AbortInv ==
  ASSUME NEW t \in Task, NEW w \in {"abort_by_external", "abort_by_timer"},
         NotifyInv(t), PendingInv(t), TruthInv(t), ~Completed(t),
         w = "abort_by_timer" => t.timer # "wait"
  PROVE  /\ TaskInv(Abort(t, w)) /\ Follows(t, Abort(t, w))
         /\ Abort(t, w).m_abort /\ Abort(t, w).m_is_notified = t.m_is_notified
<1> SUFFICES ASSUME NEW a, a = IF w = "abort_by_external" THEN Canceled(t.timer) ELSE t.timer,
                    NEW r, r = [t EXCEPT !.timer = a],
                    NEW s, s = Aborted(r)
             PROVE  /\ TaskInv(Abort(t, w)) /\ Follows(t, Abort(t, w))
         /\ Abort(t, w).m_abort /\ Abort(t, w).m_is_notified = t.m_is_notified
  OBVIOUS
<1>1. a \in TimerOp \ {"wait"}
  BY OpTypes DEF Task
<1>2. (IF w = "abort_by_external" THEN [t EXCEPT !.timer = Canceled(@)] ELSE t) = r
  BY DEF Task
<1>3. /\ r \in Task /\ r.timer = a
      /\ r.m_tcp_completed = t.m_tcp_completed /\ r.m_tcp_result = t.m_tcp_result
      /\ r.m_udp_completed = t.m_udp_completed /\ r.m_udp_result = t.m_udp_result
      /\ r.m_udp_sock = t.m_udp_sock
      /\ r.m_is_notified = t.m_is_notified /\ r.calls = t.calls
      /\ r.verdict = t.verdict /\ r.reached = t.reached
      /\ r.connect = t.connect /\ r.send_to = t.send_to /\ r.receive_from = t.receive_from
  BY <1>1, TimerFields
<1>4. ~Completed(r)
  BY <1>3 DEF Completed
<1>5. Abort(t, w) = s
  BY <1>2, <1>4 DEF Abort
<1>6. /\ s \in Task
      /\ s.m_tcp_completed = t.m_tcp_completed /\ s.m_tcp_result = t.m_tcp_result
      /\ s.m_udp_completed = t.m_udp_completed /\ s.m_udp_result = t.m_udp_result
      /\ s.m_is_notified = t.m_is_notified /\ s.calls = t.calls
      /\ s.verdict = t.verdict /\ s.reached = t.reached /\ s.timer = a
      /\ s.m_abort = TRUE
      /\ s.m_udp_sock = (t.m_udp_sock /\ t.m_udp_completed)
      /\ s.connect = IF t.m_tcp_completed THEN t.connect ELSE Closed(t.connect)
      /\ s.send_to = IF t.m_udp_completed THEN t.send_to ELSE Closed(t.send_to)
      /\ s.receive_from = IF t.m_udp_completed THEN t.receive_from ELSE Closed(t.receive_from)
  <2>1. /\ s \in Task
        /\ s.m_tcp_completed = r.m_tcp_completed /\ s.m_tcp_result = r.m_tcp_result
        /\ s.m_udp_completed = r.m_udp_completed /\ s.m_udp_result = r.m_udp_result
        /\ s.m_is_notified = r.m_is_notified /\ s.calls = r.calls
        /\ s.verdict = r.verdict /\ s.reached = r.reached /\ s.timer = a
        /\ s.m_abort = TRUE
        /\ s.m_udp_sock = (r.m_udp_sock /\ r.m_udp_completed)
        /\ s.connect = IF r.m_tcp_completed THEN r.connect ELSE Closed(r.connect)
        /\ s.send_to = IF r.m_udp_completed THEN r.send_to ELSE Closed(r.send_to)
        /\ s.receive_from = IF r.m_udp_completed THEN r.receive_from ELSE Closed(r.receive_from)
    BY <1>3, AbortedFields
  <2>2. QED
    BY <1>3, <2>1
<1>7. NotifyInv(s)
  BY <1>6 DEF NotifyInv, Completed
<1>8. PendingInv(s)
  BY <1>6 DEF PendingInv, TcpOutstanding, Outstanding, Closed, Task, SockOp
<1>9. ProgressInv(s)
  BY <1>1, <1>6
     DEF ProgressInv, NotifyInv, PendingInv, Completed, TcpOutstanding, Outstanding,
                    Closed, Task, SockOp
<1>10. TruthInv(s)
  BY <1>6 DEF TruthInv, Closed, Task
<1>11. QED
  BY <1>5, <1>6, <1>7, <1>8, <1>9, <1>10 DEF TaskInv, Follows

(* A task in order but for the announcement it may owe: what holds of the   *)
(* argument of check_notify.                                                *)
Unannounced(t) ==
  /\ t \in Task /\ PendingInv(t) /\ TruthInv(t)
  /\ t.m_is_notified => Completed(t) /\ t.timer # "wait"
  /\ t.calls = IF t.m_is_notified THEN 1 ELSE 0
  /\ Completed(t) \/ t.m_abort \/ t.timer \in {"wait", "expired"}
  /\ t.m_abort => /\ "wait" \notin {t.connect, t.send_to, t.receive_from, t.timer}
                  /\ ~t.m_udp_sock

(* check_notify announces at most once, and keeps a verdict given before.   *)
LEMMA CheckNotifyFollows ==
  ASSUME NEW t \in Task
  PROVE  Follows(t, CheckNotify(t))
<1>1. CASE t.m_is_notified \/ ~Completed(t)
  BY <1>1 DEF CheckNotify, Follows
<1>2. CASE ~t.m_is_notified /\ Completed(t)
  BY <1>2, CheckNotifyFields DEF Follows
<1>3. QED
  BY <1>1, <1>2

(* check_notify puts a task in order again. This is where the notification  *)
(* is shown to come exactly when both results are there.                    *)
LEMMA CheckNotifyInv ==
  ASSUME NEW t, Unannounced(t)
  PROVE  TaskInv(CheckNotify(t))
<1>1. t \in Task
  BY DEF Unannounced
<1>2. CASE t.m_is_notified \/ ~Completed(t)
  <2>1. CheckNotify(t) = t
    BY <1>2 DEF CheckNotify
  <2>2. NotifyInv(t)
    BY <1>2 DEF Unannounced, NotifyInv
  <2>3. ProgressInv(t)
    BY <1>2 DEF Unannounced, ProgressInv
  <2>4. QED
    BY <2>1, <2>2, <2>3 DEF Unannounced, TaskInv
<1>3. CASE ~t.m_is_notified /\ Completed(t)
  <2> SUFFICES ASSUME NEW r, r = CheckNotify(t)
               PROVE  TaskInv(r)
    OBVIOUS
  <2>1. /\ r \in Task
        /\ r.m_tcp_completed = t.m_tcp_completed /\ r.m_tcp_result = t.m_tcp_result
        /\ r.m_udp_completed = t.m_udp_completed /\ r.m_udp_result = t.m_udp_result
        /\ r.m_udp_sock = t.m_udp_sock
        /\ r.m_abort = t.m_abort /\ r.connect = t.connect /\ r.send_to = t.send_to
        /\ r.receive_from = t.receive_from /\ r.reached = t.reached
        /\ r.timer = Canceled(t.timer) /\ r.m_is_notified = TRUE
        /\ r.calls = t.calls + 1 /\ r.verdict = Results(t)
    BY <1>1, <1>3, CheckNotifyFields
  <2>2. NotifyInv(r)
    BY <1>3, <2>1 DEF Unannounced, NotifyInv, Completed
  <2>3. PendingInv(r)
    BY <2>1 DEF Unannounced, PendingInv, TcpOutstanding, Outstanding
  <2>4. ProgressInv(r)
    BY <1>1, <2>1, OpTypes DEF Unannounced, ProgressInv, Task
  <2>5. TruthInv(r)
    <3>1. /\ \A p \in Results(t) : p \in t.reached
          /\ ~t.m_abort => \A p \in t.reached : p \in Results(t)
      BY <1>1, <1>3
         DEF Unannounced, TruthInv, PendingInv, Completed, TcpOutstanding, Outstanding,
                        Results, Probes, Task
    <3>2. Results(t) \subseteq t.reached /\ (~t.m_abort => Results(t) = t.reached)
      BY <3>1
    <3>3. /\ "tcp" \in Results(t) <=> t.m_tcp_result
          /\ "udp" \in Results(t) <=> t.m_udp_result
      BY <1>1 DEF Results, Probes, Task
    <3>4. QED
      BY <2>1, <3>2, <3>3 DEF Unannounced, TruthInv
  <2>6. QED
    BY <2>1, <2>2, <2>3, <2>4, <2>5 DEF TaskInv
<1>4. QED
  BY <1>2, <1>3

(* Changing the connect operation of a task changes nothing else.           *)
LEMMA ConnectFields ==
  ASSUME NEW t \in Task, NEW x \in SockOp
  PROVE  LET r == [t EXCEPT !.connect = x]
         IN  /\ r \in Task /\ r.connect = x
             /\ r.m_tcp_completed = t.m_tcp_completed
             /\ r.m_tcp_result = t.m_tcp_result
             /\ r.m_udp_completed = t.m_udp_completed
             /\ r.m_udp_result = t.m_udp_result /\ r.m_udp_sock = t.m_udp_sock
             /\ r.m_abort = t.m_abort /\ r.m_is_notified = t.m_is_notified
             /\ r.calls = t.calls /\ r.verdict = t.verdict /\ r.reached = t.reached
             /\ r.timer = t.timer /\ r.send_to = t.send_to
             /\ r.receive_from = t.receive_from
BY DEF Task

(* tcp_connect_handler keeps a task in order, although on an aborted task   *)
(* it notifies first and then goes on to set the result again.              *)
LEMMA TcpConnectHandlerInv ==
  ASSUME NEW t, TaskInv(t), Queued(t.connect)
  PROVE  TaskInv(TcpConnectHandler(t)) /\ Follows(t, TcpConnectHandler(t))
<1>0. SUFFICES ASSUME NEW x, x = (t.connect = "ok"),
                    NEW r, r = [t EXCEPT !.connect = "idle"],
                    NEW q, q = [r EXCEPT !.m_tcp_result = FALSE, !.m_tcp_completed = TRUE],
                    NEW a, a = IF r.m_abort THEN CheckNotify(q) ELSE r,
                    NEW y, y = (a.m_tcp_sock /\ t.connect # "ok"),
                    NEW b, b = [a EXCEPT !.m_tcp_result = x, !.m_tcp_sock = y,
                                         !.m_tcp_completed = TRUE]
               PROVE  LET s == IF b.m_udp_completed THEN CheckNotify(b) ELSE b
                      IN  TaskInv(s) /\ Follows(t, s)
  BY DEF TcpConnectHandler
<1>b. x = (t.connect = "ok") /\ x \in BOOLEAN /\ y \in BOOLEAN
  BY <1>0
<1>1. /\ t \in Task /\ t.connect \in {"ok", "err"} /\ ~t.m_tcp_completed
  BY DEF TaskInv, Task, Queued, SockOp, PendingInv, TcpOutstanding, Outstanding
<1>2. /\ r \in Task /\ r.connect = "idle"
      /\ r.m_tcp_completed = t.m_tcp_completed /\ r.m_tcp_result = t.m_tcp_result
      /\ r.m_udp_completed = t.m_udp_completed /\ r.m_udp_result = t.m_udp_result
      /\ r.m_udp_sock = t.m_udp_sock /\ r.m_abort = t.m_abort
      /\ r.m_is_notified = t.m_is_notified /\ r.calls = t.calls
      /\ r.verdict = t.verdict /\ r.reached = t.reached /\ r.timer = t.timer
      /\ r.send_to = t.send_to /\ r.receive_from = t.receive_from
  BY <1>0, <1>1, ConnectFields DEF SockOp
<1>3. /\ a \in Task /\ a.connect = "idle" /\ a.m_abort = t.m_abort
      /\ a.reached = t.reached /\ (~t.m_abort => a = r)
      /\ t.m_abort => TaskInv(a) /\ ~a.m_tcp_result
      /\ Follows(t, a)
  <2>1. CASE ~t.m_abort
    BY <1>0, <1>2, <2>1 DEF Follows
  <2>2. CASE t.m_abort
    <3>1. /\ q \in Task /\ ~q.m_tcp_result /\ q.m_tcp_completed
          /\ q.m_udp_completed = r.m_udp_completed /\ q.m_udp_result = r.m_udp_result
          /\ q.m_udp_sock = r.m_udp_sock /\ q.m_abort = r.m_abort
          /\ q.m_is_notified = r.m_is_notified /\ q.calls = r.calls
          /\ q.verdict = r.verdict /\ q.reached = r.reached /\ q.timer = r.timer
          /\ q.connect = r.connect /\ q.send_to = r.send_to
          /\ q.receive_from = r.receive_from
      BY <1>0, <1>2 DEF Task
    <3>2. Unannounced(q)
      <4>1. PendingInv(q)
        BY <1>1, <1>2, <2>2, <3>1 DEF TaskInv, PendingInv, TcpOutstanding, Outstanding
      <4>2. TruthInv(q)
        BY <1>1, <1>2, <2>2, <3>1
           DEF TaskInv, TruthInv, PendingInv, NotifyInv, Completed, TcpOutstanding, Outstanding
      <4>3. /\ q.m_is_notified => Completed(q) /\ q.timer # "wait"
            /\ q.calls = IF q.m_is_notified THEN 1 ELSE 0
        BY <1>1, <1>2, <2>2, <3>1 DEF TaskInv, NotifyInv, ProgressInv, Completed
      <4>4. /\ Completed(q) \/ q.m_abort \/ q.timer \in {"wait", "expired"}
            /\ q.m_abort => /\ "wait" \notin {q.connect, q.send_to, q.receive_from, q.timer}
                             /\ ~q.m_udp_sock
        BY <1>1, <1>2, <2>2, <3>1 DEF TaskInv, NotifyInv, ProgressInv, Completed
      <4>5. QED
        BY <1>1, <1>2, <2>2, <3>1, <4>1, <4>2, <4>3, <4>4 DEF Unannounced
    <3>3. TaskInv(CheckNotify(q))
      BY <3>2, CheckNotifyInv
    <3>4. QED
      <4>1. a = CheckNotify(q)
        BY <1>0, <1>2, <2>2
      <4>2. /\ a \in Task /\ a.connect = q.connect /\ a.m_abort = q.m_abort
            /\ a.reached = q.reached /\ a.m_tcp_result = q.m_tcp_result
        BY <3>1, <4>1, CheckNotifyFields
      <4>3. Follows(t, a)
        BY <1>2, <3>1, <4>1, CheckNotifyFollows DEF Follows
      <4>4. QED
        BY <1>2, <2>2, <3>1, <3>3, <4>1, <4>2, <4>3
  <2>3. QED
    BY <2>1, <2>2
<1>4. /\ b \in Task /\ b.m_tcp_result = x /\ b.m_tcp_completed
      /\ b.m_udp_completed = a.m_udp_completed /\ b.m_udp_result = a.m_udp_result
      /\ b.m_udp_sock = a.m_udp_sock /\ b.m_abort = a.m_abort
      /\ b.m_is_notified = a.m_is_notified /\ b.calls = a.calls
      /\ b.verdict = a.verdict /\ b.reached = a.reached /\ b.timer = a.timer
      /\ b.connect = a.connect /\ b.send_to = a.send_to
      /\ b.receive_from = a.receive_from
  <2>1. b = [a EXCEPT !.m_tcp_result = x, !.m_tcp_sock = y, !.m_tcp_completed = TRUE]
    BY <1>0
  <2>2. a \in Task /\ x \in BOOLEAN /\ y \in BOOLEAN
    BY <1>b, <1>3
  <2>3. QED
    BY <2>1, <2>2 DEF Task
<1>5. Unannounced(b)
  <2>0. /\ a.connect = "idle" /\ a.m_abort = t.m_abort /\ a.reached = t.reached
        /\ ~t.m_abort => a = r
        /\ t.m_abort => TaskInv(a) /\ ~a.m_tcp_result
    BY <1>3
  <2>1. CASE ~t.m_abort
    <3>1. /\ b \in Task /\ b.connect = "idle" /\ b.m_tcp_completed
          /\ b.m_tcp_result <=> t.connect = "ok"
          /\ b.m_udp_completed = t.m_udp_completed /\ b.m_udp_result = t.m_udp_result
          /\ b.m_udp_sock = t.m_udp_sock /\ b.m_abort = t.m_abort
          /\ b.m_is_notified = t.m_is_notified /\ b.calls = t.calls
          /\ b.verdict = t.verdict /\ b.reached = t.reached /\ b.timer = t.timer
          /\ b.send_to = t.send_to /\ b.receive_from = t.receive_from
      BY <1>b, <1>2, <1>4, <2>0, <2>1
    <3>2. ~t.m_is_notified
      BY <1>1 DEF TaskInv, NotifyInv, Completed
    <3>3. PendingInv(b)
      BY <3>1 DEF TaskInv, PendingInv, TcpOutstanding, Outstanding
    <3>4. TruthInv(b)
      BY <1>1, <2>1, <3>1, <3>2 DEF TaskInv, TruthInv, PendingInv
    <3>5. /\ b.m_is_notified => Completed(b) /\ b.timer # "wait"
          /\ b.calls = IF b.m_is_notified THEN 1 ELSE 0
      BY <3>1, <3>2 DEF TaskInv, NotifyInv
    <3>6. /\ Completed(b) \/ b.m_abort \/ b.timer \in {"wait", "expired"}
          /\ b.m_abort => /\ "wait" \notin {b.connect, b.send_to, b.receive_from, b.timer}
                           /\ ~b.m_udp_sock
      BY <2>1, <3>1, <3>2 DEF TaskInv, ProgressInv
    <3>7. QED
      BY <3>1, <3>3, <3>4, <3>5, <3>6 DEF Unannounced
  <2>2. CASE t.m_abort
    <3>1. PendingInv(b)
      BY <1>b, <1>1, <1>2, <1>4, <2>0, <2>2
         DEF TaskInv, PendingInv, TcpOutstanding, Outstanding
    <3>2. TruthInv(b)
      BY <1>b, <1>1, <1>2, <1>4, <2>0, <2>2
         DEF TaskInv, TruthInv, PendingInv, NotifyInv, Completed, TcpOutstanding, Outstanding
    <3>3. /\ b.m_is_notified => Completed(b) /\ b.timer # "wait"
          /\ b.calls = IF b.m_is_notified THEN 1 ELSE 0
      BY <1>b, <1>1, <1>2, <1>4, <2>0, <2>2 DEF TaskInv, NotifyInv, ProgressInv, Completed
    <3>4. /\ Completed(b) \/ b.m_abort \/ b.timer \in {"wait", "expired"}
          /\ b.m_abort => /\ "wait" \notin {b.connect, b.send_to, b.receive_from, b.timer}
                           /\ ~b.m_udp_sock
      BY <1>b, <1>1, <1>2, <1>4, <2>0, <2>2 DEF TaskInv, NotifyInv, ProgressInv, Completed
    <3>5. QED
      BY <1>b, <1>1, <1>2, <1>4, <2>0, <2>2, <3>1, <3>2, <3>3, <3>4 DEF Unannounced
  <2>3. QED
    BY <2>1, <2>2
<1>6. (IF b.m_udp_completed THEN CheckNotify(b) ELSE b) = CheckNotify(b)
  BY DEF CheckNotify, Completed
<1>7. Follows(t, CheckNotify(b))
  BY <1>3, <1>4, CheckNotifyFollows DEF Follows
<1>8. QED
  BY <1>0, <1>5, <1>6, <1>7, CheckNotifyInv

(* The argument of udp_close: the handler of the UDP probe's only operation *)
(* is running and result is what it saw.                                    *)
UdpEnding(t, result) ==
  /\ t \in Task /\ t.send_to = "idle" /\ t.receive_from = "idle"
  /\ TcpOutstanding(t) <=> ~t.m_tcp_completed
  /\ ~t.m_tcp_completed => ~t.m_tcp_result
  /\ t.m_tcp_result \/ t.connect = "ok" => "tcp" \in t.reached
  /\ result => "udp" \in t.reached
  /\ t.verdict \subseteq t.reached
  /\ "tcp" \in t.verdict => t.m_tcp_result
  /\ t.m_is_notified => ~result /\ "udp" \notin t.verdict
  /\ ~t.m_abort =>
       /\ "tcp" \in t.reached => t.m_tcp_result \/ t.connect = "ok"
       /\ "udp" \in t.reached => result
       /\ t.m_is_notified => t.verdict = t.reached
  /\ t.m_is_notified => t.m_tcp_completed /\ t.timer # "wait"
  /\ t.calls = IF t.m_is_notified THEN 1 ELSE 0
  /\ t.m_is_notified \/ t.m_abort \/ t.timer \in {"wait", "expired"}
  /\ t.m_abort => t.connect # "wait" /\ t.timer # "wait"

(* udp_close, with the result of the UDP probe, ends that probe.            *)
LEMMA UdpCloseInv ==
  ASSUME NEW t, NEW x \in {"ok", "err"}, UdpEnding(t, x = "ok")
  PROVE  TaskInv(UdpClose(t, x = "ok")) /\ Follows(t, UdpClose(t, x = "ok"))
<1>0. SUFFICES ASSUME NEW u, u = [t EXCEPT !.m_udp_sock = FALSE, !.m_udp_result = (x = "ok"),
                                           !.m_udp_completed = TRUE,
                                           !.send_to = Closed(@), !.receive_from = Closed(@)]
              PROVE  TaskInv(CheckNotify(u)) /\ Follows(t, CheckNotify(u))
  BY DEF UdpClose
<1>1. t \in Task /\ t.send_to = "idle" /\ t.receive_from = "idle"
  BY DEF UdpEnding
<1>2. u = [t EXCEPT !.m_udp_sock = FALSE, !.m_udp_result = (x = "ok"), !.m_udp_completed = TRUE,
                    !.send_to = "idle", !.receive_from = "idle"]
  BY <1>0, <1>1 DEF Closed
<1>3. /\ u \in Task /\ u.send_to = "idle" /\ u.receive_from = "idle" /\ u.m_udp_completed
      /\ ~u.m_udp_sock /\ (u.m_udp_result <=> x = "ok")
      /\ u.m_tcp_completed = t.m_tcp_completed /\ u.m_tcp_result = t.m_tcp_result
      /\ u.m_abort = t.m_abort /\ u.m_is_notified = t.m_is_notified
      /\ u.calls = t.calls /\ u.verdict = t.verdict /\ u.reached = t.reached
      /\ u.timer = t.timer /\ u.connect = t.connect
  BY <1>1, <1>2 DEF Task, SockOp
<1>4. Unannounced(u)
  <2>1. PendingInv(u)
    BY <1>1, <1>3 DEF UdpEnding, PendingInv, TcpOutstanding, Outstanding
  <2>2. TruthInv(u)
    BY <1>1, <1>3
       DEF UdpEnding, TruthInv, PendingInv, NotifyInv, Completed, TcpOutstanding, Outstanding
  <2>3. /\ u.m_is_notified => Completed(u) /\ u.timer # "wait"
        /\ u.calls = IF u.m_is_notified THEN 1 ELSE 0
    BY <1>1, <1>3 DEF UdpEnding, NotifyInv, ProgressInv, Completed
  <2>4. /\ Completed(u) \/ u.m_abort \/ u.timer \in {"wait", "expired"}
        /\ u.m_abort => /\ "wait" \notin {u.connect, u.send_to, u.receive_from, u.timer}
                         /\ ~u.m_udp_sock
    BY <1>1, <1>3 DEF UdpEnding, NotifyInv, ProgressInv, Completed
  <2>5. QED
    BY <1>1, <1>3, <2>1, <2>2, <2>3, <2>4 DEF Unannounced
<1>5. Follows(t, CheckNotify(u))
  BY <1>3, CheckNotifyFollows DEF Follows
<1>6. QED
  BY <1>0, <1>4, <1>5, CheckNotifyInv

(* Changing the send operation of a task changes nothing else.              *)
LEMMA SendToFields ==
  ASSUME NEW t \in Task, NEW x \in SockOp
  PROVE  LET r == [t EXCEPT !.send_to = x]
         IN  /\ r \in Task /\ r.send_to = x
             /\ r.m_tcp_completed = t.m_tcp_completed
             /\ r.m_tcp_result = t.m_tcp_result
             /\ r.m_udp_completed = t.m_udp_completed
             /\ r.m_udp_result = t.m_udp_result /\ r.m_udp_sock = t.m_udp_sock
             /\ r.m_abort = t.m_abort /\ r.m_is_notified = t.m_is_notified
             /\ r.calls = t.calls /\ r.verdict = t.verdict /\ r.reached = t.reached
             /\ r.timer = t.timer /\ r.connect = t.connect
             /\ r.receive_from = t.receive_from
BY DEF Task

(* Changing the receive operation of a task changes nothing else.           *)
LEMMA ReceiveFromFields ==
  ASSUME NEW t \in Task, NEW x \in SockOp
  PROVE  LET r == [t EXCEPT !.receive_from = x]
         IN  /\ r \in Task /\ r.receive_from = x
             /\ r.m_tcp_completed = t.m_tcp_completed
             /\ r.m_tcp_result = t.m_tcp_result
             /\ r.m_udp_completed = t.m_udp_completed
             /\ r.m_udp_result = t.m_udp_result /\ r.m_udp_sock = t.m_udp_sock
             /\ r.m_abort = t.m_abort /\ r.m_is_notified = t.m_is_notified
             /\ r.calls = t.calls /\ r.verdict = t.verdict /\ r.reached = t.reached
             /\ r.timer = t.timer /\ r.connect = t.connect /\ r.send_to = t.send_to
BY DEF Task

(* udp_rcv_handler keeps a task in order, also when it runs on a UDP probe  *)
(* that an aborted task completed before.                                   *)
LEMMA UdpRcvHandlerInv ==
  ASSUME NEW t, TaskInv(t), Queued(t.receive_from)
  PROVE  TaskInv(UdpRcvHandler(t)) /\ Follows(t, UdpRcvHandler(t))
<1>0. SUFFICES ASSUME NEW x, x = t.receive_from,
                      NEW r, r = [t EXCEPT !.receive_from = "idle"]
               PROVE  /\ TaskInv(UdpClose(r, x = "ok"))
                      /\ Follows(t, UdpClose(r, x = "ok"))
  BY DEF UdpRcvHandler
<1>1. /\ t \in Task /\ x \in {"ok", "err"} /\ x = t.receive_from
      /\ t.m_udp_completed => x = "err" /\ t.m_abort
  BY <1>0 DEF TaskInv, Task, Queued, SockOp, PendingInv
<1>2. /\ r \in Task /\ r.receive_from = "idle"
      /\ r.m_tcp_completed = t.m_tcp_completed /\ r.m_tcp_result = t.m_tcp_result
      /\ r.m_udp_completed = t.m_udp_completed /\ r.m_udp_result = t.m_udp_result
      /\ r.m_udp_sock = t.m_udp_sock /\ r.m_abort = t.m_abort
      /\ r.m_is_notified = t.m_is_notified /\ r.calls = t.calls
      /\ r.verdict = t.verdict /\ r.reached = t.reached /\ r.timer = t.timer
      /\ r.connect = t.connect /\ r.send_to = t.send_to
  BY <1>0, <1>1, ReceiveFromFields DEF SockOp
<1>3. UdpEnding(r, x = "ok")
  <2>1. /\ r.send_to = "idle"
        /\ TcpOutstanding(r) <=> ~r.m_tcp_completed
        /\ ~r.m_tcp_completed => ~r.m_tcp_result
    BY <1>1, <1>2 DEF TaskInv, PendingInv, TcpOutstanding, Outstanding
  <2>2. /\ r.m_tcp_result \/ r.connect = "ok" => "tcp" \in r.reached
        /\ x = "ok" => "udp" \in r.reached
        /\ r.verdict \subseteq r.reached
        /\ "tcp" \in r.verdict => r.m_tcp_result
        /\ ~r.m_abort =>
             /\ "tcp" \in r.reached => r.m_tcp_result \/ r.connect = "ok"
             /\ "udp" \in r.reached => x = "ok"
             /\ r.m_is_notified => r.verdict = r.reached
    BY <1>1, <1>2 DEF TaskInv, TruthInv, PendingInv
  <2>3. r.m_is_notified => x # "ok" /\ "udp" \notin r.verdict
    BY <1>1, <1>2 DEF TaskInv, TruthInv, PendingInv, NotifyInv, Completed
  <2>4. /\ r.m_is_notified => r.m_tcp_completed /\ r.timer # "wait"
        /\ r.calls = IF r.m_is_notified THEN 1 ELSE 0
        /\ r.m_is_notified \/ r.m_abort \/ r.timer \in {"wait", "expired"}
        /\ r.m_abort => r.connect # "wait" /\ r.timer # "wait"
    BY <1>1, <1>2 DEF TaskInv, NotifyInv, ProgressInv, Completed
  <2>5. QED
    BY <1>2, <2>1, <2>2, <2>3, <2>4 DEF UdpEnding
<1>4. TaskInv(UdpClose(r, x = "ok")) /\ Follows(r, UdpClose(r, x = "ok"))
  BY <1>1, <1>3, UdpCloseInv
<1>5. Follows(t, UdpClose(r, x = "ok"))
  BY <1>2, <1>4 DEF Follows
<1>6. QED
  BY <1>0, <1>4, <1>5

(* udp_send_to_handler keeps a task in order: on an aborted task it         *)
(* notifies, and then still starts a receive on the closed socket, which    *)
(* fails.                                                                   *)
LEMMA UdpSendToHandlerInv ==
  ASSUME NEW t, TaskInv(t), Queued(t.send_to)
  PROVE  TaskInv(UdpSendToHandler(t)) /\ Follows(t, UdpSendToHandler(t))
<1>0. SUFFICES ASSUME NEW r, r = [t EXCEPT !.send_to = "idle"],
                      NEW q, q = [r EXCEPT !.m_udp_result = FALSE, !.m_udp_completed = TRUE],
                      NEW a, a = IF r.m_abort THEN CheckNotify(q) ELSE r
               PROVE  LET s == IF t.send_to = "err"
                               THEN UdpClose(a, FALSE)
                               ELSE [a EXCEPT !.receive_from = StartedOn(a.m_udp_sock)]
                      IN  TaskInv(s) /\ Follows(t, s)
  BY DEF UdpSendToHandler
<1>1. /\ t \in Task /\ t.send_to \in {"ok", "err"} /\ ~t.m_udp_completed
      /\ t.receive_from = "idle" /\ ~t.m_udp_result
  BY DEF TaskInv, Task, Queued, SockOp, PendingInv, Outstanding
<1>2. /\ r \in Task /\ r.send_to = "idle"
      /\ r.m_tcp_completed = t.m_tcp_completed /\ r.m_tcp_result = t.m_tcp_result
      /\ r.m_udp_completed = t.m_udp_completed /\ r.m_udp_result = t.m_udp_result
      /\ r.m_udp_sock = t.m_udp_sock /\ r.m_abort = t.m_abort
      /\ r.m_is_notified = t.m_is_notified /\ r.calls = t.calls
      /\ r.verdict = t.verdict /\ r.reached = t.reached /\ r.timer = t.timer
      /\ r.connect = t.connect /\ r.receive_from = t.receive_from
  BY <1>0, <1>1, SendToFields DEF SockOp
<1>3. /\ a \in Task /\ a.send_to = "idle" /\ a.receive_from = "idle" /\ a.m_abort = t.m_abort
      /\ ~t.m_abort => a = r
      /\ t.m_abort => TaskInv(a) /\ a.m_udp_completed /\ ~a.m_udp_result
      /\ Follows(t, a)
  <2>1. CASE ~t.m_abort
    BY <1>0, <1>1, <1>2, <2>1 DEF Follows
  <2>2. CASE t.m_abort
    <3>1. q = [r EXCEPT !.m_udp_result = FALSE, !.m_udp_completed = TRUE] /\ a = CheckNotify(q)
      BY <1>0, <1>2, <2>2
    <3>2. /\ q \in Task /\ ~q.m_udp_result /\ q.m_udp_completed
          /\ q.m_tcp_completed = r.m_tcp_completed /\ q.m_tcp_result = r.m_tcp_result
          /\ q.m_udp_sock = r.m_udp_sock /\ q.m_abort = r.m_abort
          /\ q.m_is_notified = r.m_is_notified /\ q.calls = r.calls
          /\ q.verdict = r.verdict /\ q.reached = r.reached /\ q.timer = r.timer
          /\ q.connect = r.connect /\ q.send_to = r.send_to
          /\ q.receive_from = r.receive_from
      BY <1>2, <3>1 DEF Task
    <3>3. Unannounced(q)
      <4>1. PendingInv(q)
        BY <1>1, <1>2, <2>2, <3>2
           DEF TaskInv, PendingInv, ProgressInv, TcpOutstanding, Outstanding
      <4>2. TruthInv(q)
        BY <1>1, <1>2, <2>2, <3>2
           DEF TaskInv, TruthInv, PendingInv, NotifyInv, Completed, TcpOutstanding, Outstanding
      <4>3. /\ q.m_is_notified => Completed(q) /\ q.timer # "wait"
            /\ q.calls = IF q.m_is_notified THEN 1 ELSE 0
        BY <1>1, <1>2, <2>2, <3>2 DEF TaskInv, NotifyInv, ProgressInv, Completed
      <4>4. /\ Completed(q) \/ q.m_abort \/ q.timer \in {"wait", "expired"}
            /\ q.m_abort => /\ "wait" \notin {q.connect, q.send_to, q.receive_from, q.timer}
                             /\ ~q.m_udp_sock
        BY <1>1, <1>2, <2>2, <3>2 DEF TaskInv, NotifyInv, ProgressInv, Completed
      <4>5. QED
        BY <1>1, <1>2, <2>2, <3>2, <4>1, <4>2, <4>3, <4>4 DEF Unannounced
    <3>4. TaskInv(a)
      BY <3>1, <3>3, CheckNotifyInv
    <3>5. /\ a \in Task /\ a.send_to = q.send_to /\ a.receive_from = q.receive_from
          /\ a.m_abort = q.m_abort
          /\ a.m_udp_completed = q.m_udp_completed /\ a.m_udp_result = q.m_udp_result
      BY <3>1, <3>2, CheckNotifyFields
    <3>6. Follows(t, a)
      BY <1>2, <3>1, <3>2, CheckNotifyFollows DEF Follows
    <3>7. QED
      BY <1>1, <1>2, <2>2, <3>2, <3>4, <3>5, <3>6
  <2>3. QED
    BY <2>1, <2>2
<1>4. CASE t.send_to = "err"
  <2>1. UdpEnding(a, "err" = "ok")
    <3>1. CASE ~t.m_abort
      <4>1. /\ TcpOutstanding(a) <=> ~a.m_tcp_completed
            /\ ~a.m_tcp_completed => ~a.m_tcp_result
        BY <1>1, <1>2, <1>3, <3>1 DEF TaskInv, PendingInv, TcpOutstanding, Outstanding
      <4>2. /\ a.m_tcp_result \/ a.connect = "ok" => "tcp" \in a.reached
            /\ a.verdict \subseteq a.reached
            /\ "tcp" \in a.verdict => a.m_tcp_result
            /\ "tcp" \in a.reached => a.m_tcp_result \/ a.connect = "ok"
            /\ "udp" \notin a.reached
            /\ a.m_is_notified => a.verdict = a.reached
        BY <1>1, <1>2, <1>3, <3>1 DEF TaskInv, TruthInv
      <4>3. /\ ~a.m_is_notified /\ a.timer \in {"wait", "expired"} /\ ~a.m_abort
            /\ a.calls = 0
        BY <1>1, <1>2, <1>3, <3>1 DEF TaskInv, NotifyInv, ProgressInv, Completed
      <4>4. QED
        BY <1>3, <4>1, <4>2, <4>3 DEF UdpEnding
    <3>2. CASE t.m_abort
      <4>1. /\ TcpOutstanding(a) <=> ~a.m_tcp_completed
            /\ ~a.m_tcp_completed => ~a.m_tcp_result
        BY <1>3, <3>2 DEF TaskInv, PendingInv
      <4>2. /\ a.m_tcp_result \/ a.connect = "ok" => "tcp" \in a.reached
            /\ a.verdict \subseteq a.reached
            /\ "tcp" \in a.verdict => a.m_tcp_result
            /\ a.m_is_notified => "udp" \notin a.verdict
        BY <1>3, <3>2 DEF TaskInv, TruthInv
      <4>3. /\ a.m_is_notified => a.m_tcp_completed /\ a.timer # "wait"
            /\ a.calls = IF a.m_is_notified THEN 1 ELSE 0
            /\ a.m_abort /\ a.connect # "wait" /\ a.timer # "wait"
        BY <1>3, <3>2 DEF TaskInv, NotifyInv, ProgressInv, Completed
      <4>4. QED
        BY <1>3, <4>1, <4>2, <4>3 DEF UdpEnding
    <3>3. QED
      BY <3>1, <3>2
  <2>2. TaskInv(UdpClose(a, "err" = "ok")) /\ Follows(a, UdpClose(a, "err" = "ok"))
    BY <2>1, UdpCloseInv
  <2>3. TaskInv(UdpClose(a, FALSE)) /\ Follows(a, UdpClose(a, FALSE))
    BY <2>2
  <2>4. Follows(t, UdpClose(a, FALSE))
    BY <1>3, <2>3 DEF Follows
  <2>5. QED
    BY <1>4, <2>3, <2>4
<1>5. CASE t.send_to # "err"
  <2> SUFFICES ASSUME NEW o, o = StartedOn(a.m_udp_sock), NEW b, b = [a EXCEPT !.receive_from = o]
               PROVE  TaskInv(b) /\ Follows(t, b)
    BY <1>5
  <2>1. o \in {"wait", "err"} /\ (~a.m_udp_sock => o = "err")
    BY DEF StartedOn
  <2>2. /\ b \in Task /\ b.receive_from = o
        /\ b.m_tcp_completed = a.m_tcp_completed /\ b.m_tcp_result = a.m_tcp_result
        /\ b.m_udp_completed = a.m_udp_completed /\ b.m_udp_result = a.m_udp_result
        /\ b.m_udp_sock = a.m_udp_sock /\ b.m_abort = a.m_abort
        /\ b.m_is_notified = a.m_is_notified /\ b.calls = a.calls
        /\ b.verdict = a.verdict /\ b.reached = a.reached /\ b.timer = a.timer
        /\ b.connect = a.connect /\ b.send_to = a.send_to
    <3>1. a \in Task /\ o \in SockOp
      BY <1>3, <2>1 DEF SockOp
    <3>2. QED
      BY <3>1, ReceiveFromFields
  <2>3. ~t.m_abort => TaskInv(b)
    <3>0. SUFFICES ASSUME ~t.m_abort
                   PROVE  TaskInv(b)
      OBVIOUS
    <3>1. NotifyInv(b)
      BY <1>2, <1>3, <2>2, <3>0 DEF TaskInv, NotifyInv, Completed
    <3>2. PendingInv(b)
      BY <1>1, <1>2, <1>3, <2>1, <2>2, <3>0
         DEF TaskInv, PendingInv, TcpOutstanding, Outstanding
    <3>3. ProgressInv(b)
      BY <1>2, <1>3, <2>2, <3>0 DEF TaskInv, ProgressInv
    <3>4. TruthInv(b)
      BY <1>1, <1>2, <1>3, <2>1, <2>2, <3>0 DEF TaskInv, TruthInv
    <3>5. QED
      BY <2>2, <3>1, <3>2, <3>3, <3>4 DEF TaskInv
  <2>4. t.m_abort => TaskInv(b)
    <3>6. SUFFICES ASSUME t.m_abort
                   PROVE  TaskInv(b)
      OBVIOUS
    <3>0. o = "err"
      BY <1>3, <2>1, <3>6 DEF TaskInv, ProgressInv
    <3>1. NotifyInv(b)
      BY <1>3, <2>2, <3>6 DEF TaskInv, NotifyInv, Completed
    <3>2. PendingInv(b)
      BY <1>3, <2>2, <3>6, <3>0 DEF TaskInv, PendingInv, TcpOutstanding, Outstanding
    <3>3. ProgressInv(b)
      BY <1>3, <2>2, <3>6, <3>0 DEF TaskInv, ProgressInv
    <3>4. TruthInv(b)
      BY <1>3, <2>2, <3>6, <3>0 DEF TaskInv, TruthInv
    <3>5. QED
      BY <2>2, <3>1, <3>2, <3>3, <3>4 DEF TaskInv
  <2>5. Follows(t, b)
    BY <1>3, <2>2 DEF Follows
  <2>6. QED
    BY <2>3, <2>4, <2>5
<1>6. QED
  BY <1>0, <1>4, <1>5

(* task_timeout_handler keeps a task in order: it aborts, or finds nothing  *)
(* to do.                                                                   *)
LEMMA TaskTimeoutHandlerInv ==
  ASSUME NEW t, TaskInv(t), Queued(t.timer)
  PROVE  TaskInv(TaskTimeoutHandler(t)) /\ Follows(t, TaskTimeoutHandler(t))
<1>0. SUFFICES ASSUME NEW r, r = [t EXCEPT !.timer = "idle"]
               PROVE  LET s == IF t.timer = "canceled" \/ Completed(r)
                               THEN r ELSE Abort(r, "abort_by_timer")
                      IN  TaskInv(s) /\ Follows(t, s)
  BY DEF TaskTimeoutHandler
<1>1. t \in Task /\ t.timer \in {"expired", "canceled"}
  BY DEF TaskInv, Task, Queued, TimerOp
<1>2. /\ r \in Task /\ r.timer = "idle"
      /\ r.m_tcp_completed = t.m_tcp_completed /\ r.m_tcp_result = t.m_tcp_result
      /\ r.m_udp_completed = t.m_udp_completed /\ r.m_udp_result = t.m_udp_result
      /\ r.m_udp_sock = t.m_udp_sock /\ r.m_abort = t.m_abort
      /\ r.m_is_notified = t.m_is_notified /\ r.calls = t.calls
      /\ r.verdict = t.verdict /\ r.reached = t.reached /\ r.connect = t.connect
      /\ r.send_to = t.send_to /\ r.receive_from = t.receive_from
  BY <1>0, <1>1, TimerFields DEF TimerOp
<1>3. NotifyInv(r) /\ PendingInv(r) /\ TruthInv(r)
  <2>1. NotifyInv(r)
    BY <1>2 DEF TaskInv, NotifyInv, Completed
  <2>2. PendingInv(r)
    BY <1>2 DEF TaskInv, PendingInv, TcpOutstanding, Outstanding
  <2>3. TruthInv(r)
    BY <1>2 DEF TaskInv, TruthInv
  <2>4. QED
    BY <2>1, <2>2, <2>3
<1>4. CASE t.timer = "canceled" \/ Completed(r)
  <2>1. ProgressInv(r)
    BY <1>1, <1>2, <1>3, <1>4 DEF TaskInv, ProgressInv, NotifyInv
  <2>2. QED
    BY <1>2, <1>3, <1>4, <2>1 DEF TaskInv, Follows
<1>5. CASE ~(t.timer = "canceled" \/ Completed(r))
  <2>1. TaskInv(Abort(r, "abort_by_timer")) /\ Follows(r, Abort(r, "abort_by_timer"))
    BY <1>2, <1>3, <1>5, AbortInv
  <2>2. QED
    BY <1>2, <1>5, <2>1 DEF Follows
<1>6. QED
  BY <1>0, <1>4, <1>5

(* The expiry of the timer keeps a task in order.                           *)
LEMMA TimerExpiredInv ==
  ASSUME NEW t, TaskInv(t), t.timer = "wait"
  PROVE  TaskInv(TimerExpired(t))
<1> SUFFICES ASSUME NEW r, r = [t EXCEPT !.timer = "expired"]
             PROVE  TaskInv(r)
  BY DEF TimerExpired
<1>1. t \in Task
  BY DEF TaskInv
<1>2. /\ r \in Task /\ r.timer = "expired"
      /\ r.m_tcp_completed = t.m_tcp_completed /\ r.m_tcp_result = t.m_tcp_result
      /\ r.m_udp_completed = t.m_udp_completed /\ r.m_udp_result = t.m_udp_result
      /\ r.m_udp_sock = t.m_udp_sock /\ r.m_abort = t.m_abort
      /\ r.m_is_notified = t.m_is_notified /\ r.calls = t.calls
      /\ r.verdict = t.verdict /\ r.reached = t.reached /\ r.connect = t.connect
      /\ r.send_to = t.send_to /\ r.receive_from = t.receive_from
  BY <1>1, TimerFields DEF TimerOp
<1>3. QED
  <2>1. NotifyInv(r)
    BY <1>2 DEF TaskInv, NotifyInv, Completed
  <2>2. PendingInv(r)
    BY <1>2 DEF TaskInv, PendingInv, TcpOutstanding, Outstanding
  <2>3. ProgressInv(r)
    BY <1>2 DEF TaskInv, ProgressInv
  <2>4. TruthInv(r)
    BY <1>2 DEF TaskInv, TruthInv, PendingInv, TcpOutstanding, Outstanding
  <2>5. QED
    BY <1>2, <2>1, <2>2, <2>3, <2>4 DEF TaskInv

(* The completion of the connect keeps a task in order.                     *)
LEMMA ConnectDoneInv ==
  ASSUME NEW t, NEW res \in {"ok", "err"}, TaskInv(t), t.connect = "wait"
  PROVE  TaskInv(ConnectDone(t, res))
<1> SUFFICES ASSUME NEW v, v = (IF res = "ok" THEN t.reached \cup {"tcp"} ELSE t.reached),
                    NEW r, r = [t EXCEPT !.connect = res, !.reached = v]
             PROVE  TaskInv(r)
  BY DEF ConnectDone
<1>1. t \in Task /\ v \in SUBSET Probes
  BY DEF TaskInv, Task, Probes
<1>2. /\ r \in Task /\ r.connect = res /\ r.reached = v
      /\ r.m_tcp_completed = t.m_tcp_completed /\ r.m_tcp_result = t.m_tcp_result
      /\ r.m_udp_completed = t.m_udp_completed /\ r.m_udp_result = t.m_udp_result
      /\ r.m_udp_sock = t.m_udp_sock /\ r.m_abort = t.m_abort
      /\ r.m_is_notified = t.m_is_notified /\ r.calls = t.calls
      /\ r.verdict = t.verdict /\ r.timer = t.timer /\ r.send_to = t.send_to
      /\ r.receive_from = t.receive_from
  BY <1>1 DEF Task, SockOp
<1>3. /\ "tcp" \in v <=> (res = "ok" \/ "tcp" \in t.reached)
      /\ "udp" \in v <=> "udp" \in t.reached
      /\ t.reached \subseteq v
      /\ ~t.m_tcp_completed
  BY DEF TaskInv, PendingInv, TcpOutstanding, Outstanding
<1>4. QED
  <2>1. NotifyInv(r)
    BY <1>1, <1>2, <1>3 DEF TaskInv, NotifyInv, Completed
  <2>2. PendingInv(r)
    BY <1>1, <1>2, <1>3 DEF TaskInv, PendingInv, TcpOutstanding, Outstanding
  <2>3. ProgressInv(r)
    BY <1>1, <1>2, <1>3 DEF TaskInv, ProgressInv, NotifyInv, Completed
  <2>4. TruthInv(r)
    BY <1>1, <1>2, <1>3
       DEF TaskInv, TruthInv, PendingInv, NotifyInv, Completed, TcpOutstanding, Outstanding
  <2>5. QED
    BY <1>1, <1>2, <1>3, <2>1, <2>2, <2>3, <2>4 DEF TaskInv

(* The completion of the send keeps a task in order.                        *)
LEMMA SendToDoneInv ==
  ASSUME NEW t, NEW res \in {"ok", "err"}, TaskInv(t), t.send_to = "wait"
  PROVE  TaskInv(SendToDone(t, res))
<1> SUFFICES ASSUME NEW r, r = [t EXCEPT !.send_to = res]
             PROVE  TaskInv(r)
  BY DEF SendToDone
<1>1. t \in Task /\ ~t.m_udp_completed
  BY DEF TaskInv, PendingInv
<1>2. /\ r \in Task /\ r.send_to = res
      /\ r.m_tcp_completed = t.m_tcp_completed /\ r.m_tcp_result = t.m_tcp_result
      /\ r.m_udp_completed = t.m_udp_completed /\ r.m_udp_result = t.m_udp_result
      /\ r.m_udp_sock = t.m_udp_sock /\ r.m_abort = t.m_abort
      /\ r.m_is_notified = t.m_is_notified /\ r.calls = t.calls
      /\ r.verdict = t.verdict /\ r.reached = t.reached /\ r.timer = t.timer
      /\ r.connect = t.connect /\ r.receive_from = t.receive_from
  BY <1>1 DEF Task, SockOp
<1>3. QED
  <2>1. NotifyInv(r)
    BY <1>1, <1>2 DEF TaskInv, NotifyInv, Completed
  <2>2. PendingInv(r)
    BY <1>1, <1>2 DEF TaskInv, PendingInv, TcpOutstanding, Outstanding
  <2>3. ProgressInv(r)
    BY <1>1, <1>2 DEF TaskInv, ProgressInv
  <2>4. TruthInv(r)
    BY <1>1, <1>2 DEF TaskInv, TruthInv, PendingInv, TcpOutstanding, Outstanding
  <2>5. QED
    BY <1>1, <1>2, <2>1, <2>2, <2>3, <2>4 DEF TaskInv

(* The completion of the receive keeps a task in order.                     *)
LEMMA ReceiveFromDoneInv ==
  ASSUME NEW t, NEW res \in {"ok", "err"}, TaskInv(t), t.receive_from = "wait"
  PROVE  TaskInv(ReceiveFromDone(t, res))
<1> SUFFICES ASSUME NEW v, v = (IF res = "ok" THEN t.reached \cup {"udp"} ELSE t.reached),
                    NEW r, r = [t EXCEPT !.receive_from = res, !.reached = v]
             PROVE  TaskInv(r)
  BY DEF ReceiveFromDone
<1>1. t \in Task /\ v \in SUBSET Probes
  BY DEF TaskInv, Task, Probes
<1>2. /\ r \in Task /\ r.receive_from = res /\ r.reached = v
      /\ r.m_tcp_completed = t.m_tcp_completed /\ r.m_tcp_result = t.m_tcp_result
      /\ r.m_udp_completed = t.m_udp_completed /\ r.m_udp_result = t.m_udp_result
      /\ r.m_udp_sock = t.m_udp_sock /\ r.m_abort = t.m_abort
      /\ r.m_is_notified = t.m_is_notified /\ r.calls = t.calls
      /\ r.verdict = t.verdict /\ r.timer = t.timer /\ r.connect = t.connect
      /\ r.send_to = t.send_to
  BY <1>1 DEF Task, SockOp
<1>3. /\ "udp" \in v <=> (res = "ok" \/ "udp" \in t.reached)
      /\ "tcp" \in v <=> "tcp" \in t.reached
      /\ t.reached \subseteq v
      /\ ~t.m_udp_completed
  BY DEF TaskInv, PendingInv
<1>4. QED
  <2>1. NotifyInv(r)
    BY <1>1, <1>2, <1>3 DEF TaskInv, NotifyInv, Completed
  <2>2. PendingInv(r)
    BY <1>1, <1>2, <1>3 DEF TaskInv, PendingInv, TcpOutstanding, Outstanding
  <2>3. ProgressInv(r)
    BY <1>1, <1>2, <1>3 DEF TaskInv, ProgressInv, NotifyInv, Completed
  <2>4. TruthInv(r)
    BY <1>1, <1>2, <1>3
       DEF TaskInv, TruthInv, PendingInv, NotifyInv, Completed, TcpOutstanding, Outstanding
  <2>5. QED
    BY <1>1, <1>2, <1>3, <2>1, <2>2, <2>3, <2>4 DEF TaskInv

(* A task as start() leaves it is in order.                                 *)
LEMMA NewTaskInv == TaskInv(NewTask)
<1>1. NewTask \in Task
  BY DEF NewTask, Task, SockOp, TimerOp
<1>2. NotifyInv(NewTask) /\ PendingInv(NewTask)
  BY DEF NewTask, NotifyInv, PendingInv, Completed, TcpOutstanding, Outstanding
<1>3. ProgressInv(NewTask) /\ TruthInv(NewTask)
  BY DEF NewTask, ProgressInv, TruthInv
<1>4. QED
  BY <1>1, <1>2, <1>3 DEF TaskInv
=============================================================================
