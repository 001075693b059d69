-------------------------- MODULE PingPongTaskSpec --------------------------
(***************************************************************************)
(* One pingpong_task on its own: the handlers of PingPongTask run by the   *)
(* io_service in any order, the network, the clock, and the peer_connection*)
(* that owns the task and may abort it once, when it closes.               *)
(***************************************************************************)
EXTENDS PingPongTask

VARIABLES
  task,         \* the task
  owner_open    \* the peer_connection has not closed yet

vars == <<task, owner_open>>

Init == task = NewTask /\ owner_open = TRUE
-----------------------------------------------------------------------------
(* The network answers, or never does; the deadline passes.                 *)
Reactor ==
  /\ \/ \E res \in {"ok", "err"} :
          \/ task.connect = "wait" /\ task' = ConnectDone(task, res)
          \/ task.send_to = "wait" /\ task' = SendToDone(task, res)
          \/ task.receive_from = "wait" /\ task' = ReceiveFromDone(task, res)
  /\ UNCHANGED owner_open

Deadline ==
  /\ task.timer = "wait"
  /\ task' = TimerExpired(task)
  /\ UNCHANGED owner_open

(* io_service::run calls the handlers that are queued, one at a time.       *)
ConnectReturns ==
  /\ Queued(task.connect)
  /\ task' = TcpConnectHandler(task)
  /\ UNCHANGED owner_open

SendToReturns ==
  /\ Queued(task.send_to)
  /\ task' = UdpSendToHandler(task)
  /\ UNCHANGED owner_open

ReceiveFromReturns ==
  /\ Queued(task.receive_from)
  /\ task' = UdpRcvHandler(task)
  /\ UNCHANGED owner_open

TimerReturns ==
  /\ Queued(task.timer)
  /\ task' = TaskTimeoutHandler(task)
  /\ UNCHANGED owner_open

(* peer_connection::shutdown_and_close aborts the task unless both probes   *)
(* are complete.                                                            *)
OwnerCloses ==
  /\ owner_open
  /\ owner_open' = FALSE
  /\ task' = IF Completed(task) THEN task ELSE Abort(task, "abort_by_external")

Handlers == ConnectReturns \/ SendToReturns \/ ReceiveFromReturns \/ TimerReturns
Next == Reactor \/ Deadline \/ Handlers \/ OwnerCloses

Spec == Init /\ [][Next]_vars

(* The io_service runs every queued handler, and time passes.  Nothing is   *)
(* asked of the network: the timer is what bounds a probe.                  *)
Fairness ==
  /\ WF_vars(ConnectReturns) /\ WF_vars(SendToReturns)
  /\ WF_vars(ReceiveFromReturns) /\ WF_vars(TimerReturns)
  /\ WF_vars(Deadline)
FairSpec == Spec /\ Fairness
-----------------------------------------------------------------------------
(* No lost wakeup: between handlers the task has notified exactly when both *)
(* probes are complete, whichever handler completed the second one and      *)
(* whether the task was aborted or not (block_detect_task.cpp:36, "We must  *)
(* make sure this function can trigger m_on_all_task_completed at last!").  *)
NotifiedIffComplete == task.m_is_notified <=> Completed(task)

(* m_on_all_task_completed is called once, although the handlers of an      *)
(* aborted task try to notify twice each and UDP may complete twice.        *)
NotifiedOnce == task.calls = IF task.m_is_notified THEN 1 ELSE 0

(* The verdict never claims a probe that did not succeed, and a task that   *)
(* was not aborted denies none that did.                                    *)
VerdictTruthful ==
  /\ task.verdict \subseteq task.reached
  /\ task.m_is_notified /\ ~task.m_abort => task.verdict = task.reached

(* What makes the notification inevitable.  An incomplete probe always has  *)
(* a handler to come; as long as nobody aborted the task its timer is yet   *)
(* to be handled; and once aborted, no probe is left waiting for the        *)
(* network, so that a silent client cannot hold the task.                   *)
NeverStuck ==
  /\ ~task.m_tcp_completed => TcpOutstanding(task)
  /\ ~task.m_udp_completed => UdpOutstanding(task)
  /\ task.m_is_notified \/ task.m_abort \/ task.timer \in {"wait", "expired"}
  /\ task.m_abort => "wait" \notin {task.connect, task.send_to, task.receive_from, task.timer}

(* What the callback was told stands, although the handlers of an aborted   *)
(* task notify and then go on to set the results again                      *)
(* (block_detect_task.cpp:110 does not return): no success is taken back,   *)
(* the results of a task that was not aborted never change, and of an       *)
(* aborted one only the connect may turn out, late, to have succeeded.      *)
AnnouncedStands ==
  task.m_is_notified =>
    /\ task.verdict \subseteq Results(task) /\ Results(task) \subseteq task.reached
    /\ Results(task) # task.verdict => /\ task.m_abort
                                       /\ Results(task) \ task.verdict = {"tcp"}

(* The inductive invariant of the proofs, the types among its parts.        *)
IInv == TaskInv(task) /\ owner_open \in BOOLEAN

(* The task notifies in the end whatever the network and its owner do       *)
(* (block_detect_task.h:88: otherwise its connection is never freed).       *)
EventuallyNotified == <>task.m_is_notified

(* The abstract specification a task implements: one truthful verdict.      *)
D == INSTANCE Detection WITH Probe <- Probes,
                             answered <- task.m_is_notified,
                             verdict  <- task.verdict,
                             reached  <- task.reached
ImplementsDetection == D!Spec
=============================================================================
