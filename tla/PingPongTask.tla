---------------------------- MODULE PingPongTask ----------------------------
(***************************************************************************)
(* The handlers of pingpong_task (block_detect_task.cpp) as operators on   *)
(* the state of one task: each takes the task before the handler and       *)
(* returns it after, every call the handler makes included.                *)
(*                                                                         *)
(* The task probes a client: it connects to its TCP port, sends it a UDP   *)
(* datagram and waits for the echo, under one timer, and at last calls     *)
(* m_on_all_task_completed with the two results.  The single IO thread of  *)
(* tcp_server::run makes each handler atomic, so m_mutex has no state.     *)
(***************************************************************************)
EXTENDS AsioOps, Naturals

Probes == {"tcp", "udp"}

(***************************************************************************)
(* The members of the class by their own names (the sockets: TRUE while    *)
(* open), then the operations the task has started, by the asio call.  The *)
(* last three fields are history, read by no handler: how often            *)
(* m_on_all_task_completed was called, the results of its last call as the *)
(* set of probes said to have succeeded, and the probes that did.          *)
(***************************************************************************)
Task == [m_tcp_completed : BOOLEAN, m_tcp_result : BOOLEAN, m_tcp_sock : BOOLEAN,
         m_udp_completed : BOOLEAN, m_udp_result : BOOLEAN, m_udp_sock : BOOLEAN,
         m_abort : BOOLEAN, m_is_notified : BOOLEAN,
         connect : SockOp, send_to : SockOp, receive_from : SockOp, timer : TimerOp,
         calls : Nat, verdict : SUBSET Probes, reached : SUBSET Probes]

(* The constructor and start(): the timer, the connect and the datagram.    *)
NewTask ==
  [m_tcp_completed |-> FALSE, m_tcp_result |-> FALSE, m_tcp_sock |-> TRUE,
   m_udp_completed |-> FALSE, m_udp_result |-> FALSE, m_udp_sock |-> TRUE,
   m_abort |-> FALSE, m_is_notified |-> FALSE,
   connect |-> "wait", send_to |-> "wait", receive_from |-> "idle", timer |-> "wait",
   calls |-> 0, verdict |-> {}, reached |-> {}]

Completed(t) == t.m_tcp_completed /\ t.m_udp_completed

(* A probe's operation is outstanding: its handler will run on this task.   *)
TcpOutstanding(t) == Outstanding(t.connect)
UdpOutstanding(t) == Outstanding(t.send_to) \/ Outstanding(t.receive_from)
-----------------------------------------------------------------------------
(* The two results as the set of probes that m_on_all_task_completed is     *)
(* told have succeeded.                                                     *)
Results(t) == {p \in Probes : IF p = "tcp" THEN t.m_tcp_result ELSE t.m_udp_result}

(* Mistakes: the callback without the guard that it was called before, and  *)
(* without canceling the timer.                                             *)
CheckNotifyUnguarded(t) ==
  IF ~Completed(t)
  THEN t
  ELSE [t EXCEPT !.timer = Canceled(@), !.m_is_notified = TRUE,
                 !.calls = @ + 1, !.verdict = Results(t)]

CheckNotifyUncanceled(t) ==
  IF t.m_is_notified \/ ~Completed(t)
  THEN t
  ELSE [t EXCEPT !.m_is_notified = TRUE, !.calls = @ + 1, !.verdict = Results(t)]

CheckNotify(t) ==
  IF t.m_is_notified \/ ~Completed(t)
  THEN t
  ELSE [t EXCEPT !.timer = Canceled(@), !.m_is_notified = TRUE,
                 !.calls = @ + 1, !.verdict = Results(t)]

(* Mistakes: the UDP socket left open, and m_abort not set.                 *)
AbortedTcpOnly(t) ==
  [t EXCEPT !.m_abort    = TRUE,
            !.m_tcp_sock = @ /\ t.m_tcp_completed,
            !.connect    = IF t.m_tcp_completed THEN @ ELSE Closed(@)]

AbortedUnmarked(t) ==
  [t EXCEPT !.m_tcp_sock   = @ /\ t.m_tcp_completed,
            !.connect      = IF t.m_tcp_completed THEN @ ELSE Closed(@),
            !.m_udp_sock   = @ /\ t.m_udp_completed,
            !.send_to      = IF t.m_udp_completed THEN @ ELSE Closed(@),
            !.receive_from = IF t.m_udp_completed THEN @ ELSE Closed(@)]

(* The sockets of the probes still running are closed.  is_open only spares *)
(* a close that would do nothing.                                           *)
Aborted(t) ==
  [t EXCEPT !.m_abort      = TRUE,
            !.m_tcp_sock   = @ /\ t.m_tcp_completed,
            !.connect      = IF t.m_tcp_completed THEN @ ELSE Closed(@),
            !.m_udp_sock   = @ /\ t.m_udp_completed,
            !.send_to      = IF t.m_udp_completed THEN @ ELSE Closed(@),
            !.receive_from = IF t.m_udp_completed THEN @ ELSE Closed(@)]

Abort(t, w) ==
  LET r == IF w = "abort_by_external" THEN [t EXCEPT !.timer = Canceled(@)] ELSE t
  IN  IF Completed(r) THEN r ELSE Aborted(r)

(* Mistake: the last check_notify forgotten.                                *)
TcpConnectHandlerSilent(t) ==
  LET r == [t EXCEPT !.connect = "idle"]
      a == IF r.m_abort
           THEN CheckNotify([r EXCEPT !.m_tcp_result = FALSE, !.m_tcp_completed = TRUE])
           ELSE r
  IN  [a EXCEPT !.m_tcp_result    = (t.connect = "ok"),
                !.m_tcp_sock      = @ /\ t.connect # "ok",
                !.m_tcp_completed = TRUE]

(* An aborted task notifies first, and then the handler goes on: the branch *)
(* does not return.                                                         *)
TcpConnectHandler(t) ==
  LET r == [t EXCEPT !.connect = "idle"]
      a == IF r.m_abort
           THEN CheckNotify([r EXCEPT !.m_tcp_result = FALSE, !.m_tcp_completed = TRUE])
           ELSE r
      b == [a EXCEPT !.m_tcp_result    = (t.connect = "ok"),
                     !.m_tcp_sock      = @ /\ t.connect # "ok",
                     !.m_tcp_completed = TRUE]
  IN  IF b.m_udp_completed THEN CheckNotify(b) ELSE b

(* Mistake: check_notify called before the result is set.                   *)
UdpCloseLate(t, result) ==
  [CheckNotify([t EXCEPT !.m_udp_sock = FALSE, !.m_udp_completed = TRUE,
                         !.send_to = Closed(@), !.receive_from = Closed(@)])
   EXCEPT !.m_udp_result = result]

UdpClose(t, result) ==
  CheckNotify([t EXCEPT !.m_udp_sock = FALSE, !.m_udp_result = result,
                        !.m_udp_completed = TRUE,
                        !.send_to = Closed(@), !.receive_from = Closed(@)])

(* "err" also stands for a datagram of a length other than 3, which both    *)
(* UDP handlers treat as an error.                                          *)
UdpSendToHandler(t) ==
  LET r == [t EXCEPT !.send_to = "idle"]
      a == IF r.m_abort
           THEN CheckNotify([r EXCEPT !.m_udp_result = FALSE, !.m_udp_completed = TRUE])
           ELSE r
  IN  IF t.send_to = "err"
      THEN UdpClose(a, FALSE)
      ELSE [a EXCEPT !.receive_from = StartedOn(a.m_udp_sock)]

(* Mistake: whatever the receive returned counts as an echo.                *)
UdpRcvHandlerLenient(t) ==
  UdpClose([t EXCEPT !.receive_from = "idle"], TRUE)

UdpRcvHandler(t) ==
  UdpClose([t EXCEPT !.receive_from = "idle"], t.receive_from = "ok")

(* Mistake: the expiry only noted, the task not aborted.                    *)
TaskTimeoutHandlerIdle(t) == [t EXCEPT !.timer = "idle"]

(* The timer expired or was canceled.                                       *)
TaskTimeoutHandler(t) ==
  LET r == [t EXCEPT !.timer = "idle"]
  IN  IF t.timer = "canceled" \/ Completed(r) THEN r ELSE Abort(r, "abort_by_timer")
-----------------------------------------------------------------------------
(* The reactor completes an operation of the task.  A connect that succeeds *)
(* reached the client; a datagram echoed did too; one sent need not.        *)
ConnectDone(t, res) ==
  [t EXCEPT !.connect = res, !.reached = IF res = "ok" THEN @ \cup {"tcp"} ELSE @]
SendToDone(t, res) == [t EXCEPT !.send_to = res]
ReceiveFromDone(t, res) ==
  [t EXCEPT !.receive_from = res, !.reached = IF res = "ok" THEN @ \cup {"udp"} ELSE @]
TimerExpired(t) == [t EXCEPT !.timer = "expired"]
-----------------------------------------------------------------------------
(***************************************************************************)
(* What every handler preserves, in parts.  TaskInv is inductive for the   *)
(* steps above: PingPongTaskSpec and PeerConnection both rest on it.       *)
(***************************************************************************)
(* Notified exactly when both probes are complete, and then just once.      *)
NotifyInv(t) ==
  /\ t.m_is_notified <=> Completed(t)
  /\ t.calls = IF t.m_is_notified THEN 1 ELSE 0

(* Which operations are outstanding: a probe that is not complete has one,  *)
(* and no result yet.  A complete TCP probe has none; a complete UDP probe  *)
(* may have a receive, already failed, left behind by the send handler of   *)
(* an aborted task.                                                         *)
PendingInv(t) ==
  /\ TcpOutstanding(t) <=> ~t.m_tcp_completed
  /\ ~t.m_tcp_completed => ~t.m_tcp_result
  /\ ~t.m_udp_completed =>
       /\ Outstanding(t.send_to) <=> ~Outstanding(t.receive_from)
       /\ ~t.m_udp_result
  /\ t.m_udp_completed =>
       /\ t.send_to = "idle" /\ t.receive_from \in {"idle", "err"} /\ ~t.m_udp_sock
       /\ t.receive_from = "err" => t.m_abort /\ ~t.m_udp_result

(* Something will complete the task: its timer, or the abort that left none *)
(* of its operations to the network.                                        *)
ProgressInv(t) ==
  /\ t.m_is_notified \/ t.m_abort \/ t.timer \in {"wait", "expired"}
  /\ t.m_is_notified => t.timer # "wait"
  /\ t.m_abort => /\ "wait" \notin {t.connect, t.send_to, t.receive_from, t.timer}
                  /\ ~t.m_udp_sock

(* Results and verdict are those of the probes.  What was announced stands, *)
(* but that a TCP probe may turn out to have succeeded after all.           *)
TruthInv(t) ==
  /\ t.m_tcp_result \/ t.connect = "ok" => "tcp" \in t.reached
  /\ t.m_udp_result \/ t.receive_from = "ok" => "udp" \in t.reached
  /\ t.verdict \subseteq t.reached
  /\ "tcp" \in t.verdict => t.m_tcp_result
  /\ t.m_is_notified => (t.m_udp_result <=> "udp" \in t.verdict)
  /\ ~t.m_abort =>
       /\ "tcp" \in t.reached => t.m_tcp_result \/ t.connect = "ok"
       /\ "udp" \in t.reached => t.m_udp_result \/ t.receive_from = "ok"
       /\ t.m_is_notified => t.verdict = t.reached

TaskInv(t) ==
  t \in Task /\ NotifyInv(t) /\ PendingInv(t) /\ ProgressInv(t) /\ TruthInv(t)
=============================================================================
