------------------------- MODULE PingPongTaskProofs -------------------------
(***************************************************************************)
(* The theorems of PingPongTaskSpec.  IInv is inductive, which             *)
(* NotifiedIffComplete alone is not: a handler of an aborted task          *)
(* completes its probe again, harmless only by what PendingInv says        *)
(* is then outstanding; and NeverStuck needs to know that nobody but a     *)
(* notification or an abort takes the timer away.  The work is done by     *)
(* PingPongTaskLemmas, one lemma per handler; here they are put together.  *)
(***************************************************************************)
EXTENDS PingPongTaskSpec, PingPongTaskLemmas

(* Whatever runs next, a handler, the network, the clock or the owner, the  *)
(* task stays in order.                                                     *)
LEMMA StepInv ==
  ASSUME IInv, [Next]_vars
  PROVE  IInv'
<1>1. TaskInv(task)'
  <2> USE DEF IInv
  <2>1. CASE Reactor
    BY <2>1, ConnectDoneInv, SendToDoneInv, ReceiveFromDoneInv DEF Reactor
  <2>2. CASE Deadline
    BY <2>2, TimerExpiredInv DEF Deadline
  <2>3. CASE ConnectReturns
    BY <2>3, TcpConnectHandlerInv DEF ConnectReturns
  <2>4. CASE SendToReturns
    BY <2>4, UdpSendToHandlerInv DEF SendToReturns
  <2>5. CASE ReceiveFromReturns
    BY <2>5, UdpRcvHandlerInv DEF ReceiveFromReturns
  <2>6. CASE TimerReturns
    BY <2>6, TaskTimeoutHandlerInv DEF TimerReturns
  <2>7. CASE OwnerCloses
    <3>1. CASE Completed(task)
      BY <2>7, <3>1 DEF OwnerCloses
    <3>2. CASE ~Completed(task)
      <4>1. TaskInv(Abort(task, "abort_by_external"))
        BY <3>2, AbortInv DEF TaskInv
      <4>2. QED
        BY <2>7, <3>2, <4>1 DEF OwnerCloses
    <3>3. QED
      BY <3>1, <3>2
  <2>8. CASE UNCHANGED vars
    BY <2>8 DEF vars
  <2>9. QED
    BY <2>1, <2>2, <2>3, <2>4, <2>5, <2>6, <2>7, <2>8 DEF Next, Handlers
<1>2. owner_open' \in BOOLEAN
  BY DEF IInv, Next, Reactor, Deadline, Handlers, ConnectReturns, SendToReturns,
         ReceiveFromReturns, TimerReturns, OwnerCloses, vars
<1>3. QED
  BY <1>1, <1>2 DEF IInv

(* The inductive invariant: in every reachable state all parts of TaskInv   *)
(* hold of the task, its type among them.                                   *)
THEOREM Inductive == Spec => []IInv
<1>1. Init => IInv
  BY NewTaskInv DEF Init, IInv
<1>2. IInv /\ [Next]_vars => IInv'
  BY StepInv
<1>3. QED
  BY <1>1, <1>2, PTL DEF Spec

(* No lost wakeup: the callback was called exactly when both probes are     *)
(* complete, on every path through the handlers and abort().                *)
THEOREM NoLostWakeup == Spec => []NotifiedIffComplete
<1>1. IInv => NotifiedIffComplete
  BY DEF IInv, TaskInv, NotifyInv, NotifiedIffComplete
<1>2. QED
  BY <1>1, Inductive, PTL

(* The callback is called once.                                             *)
THEOREM CallbackOnce == Spec => []NotifiedOnce
<1>1. IInv => NotifiedOnce
  BY DEF IInv, TaskInv, NotifyInv, NotifiedOnce
<1>2. QED
  BY <1>1, Inductive, PTL

(* The callback claims no probe that failed, and denies none that succeeded *)
(* unless the task was aborted.                                             *)
THEOREM TruthfulVerdict == Spec => []VerdictTruthful
<1>1. IInv => VerdictTruthful
  BY DEF IInv, TaskInv, TruthInv, VerdictTruthful
<1>2. QED
  BY <1>1, Inductive, PTL

(* What was announced stands: after the callback no handler takes a success *)
(* back, and only an aborted task's connect may yet turn out to have        *)
(* succeeded.  PendingInv is what rules the UDP result out: a receive left  *)
(* behind has failed, and the result it would overwrite was a failure.      *)
THEOREM AnnouncementStands == Spec => []AnnouncedStands
<1>1. ASSUME TaskInv(task), task.m_is_notified
      PROVE  /\ task.verdict \subseteq Results(task) /\ Results(task) \subseteq task.reached
             /\ Results(task) # task.verdict => /\ task.m_abort
                                                /\ Results(task) \ task.verdict = {"tcp"}
  <2>1. /\ "tcp" \in Results(task) <=> task.m_tcp_result
        /\ "udp" \in Results(task) <=> task.m_udp_result
        /\ Results(task) \subseteq {"tcp", "udp"} /\ task.verdict \subseteq {"tcp", "udp"}
    BY <1>1 DEF TaskInv, Task, Results, Probes
  <2>2. /\ "tcp" \in task.verdict => task.m_tcp_result
        /\ task.m_udp_result <=> "udp" \in task.verdict
        /\ task.m_tcp_result => "tcp" \in task.reached
        /\ task.m_udp_result => "udp" \in task.reached
        /\ ~task.m_abort => task.verdict = task.reached
    BY <1>1 DEF TaskInv, TruthInv
  <2>3. QED
    BY <2>1, <2>2
<1>2. IInv => AnnouncedStands
  BY <1>1 DEF IInv, AnnouncedStands
<1>3. QED
  BY <1>2, Inductive, PTL

(* A task that has not notified has a handler to come for each incomplete   *)
(* probe, and either its timer to come or no probe waiting for the network. *)
THEOREM NotStuck == Spec => []NeverStuck
<1>1. IInv => NeverStuck
  BY DEF IInv, TaskInv, PendingInv, ProgressInv, TcpOutstanding, UdpOutstanding, Outstanding,
         NeverStuck
<1>2. QED
  BY <1>1, Inductive, PTL
-----------------------------------------------------------------------------
(* A handler's step, seen by the owner, is one answer with a truthful       *)
(* verdict or nothing.                                                      *)
LEMMA AnswerOrNothing ==
  ASSUME NEW r, Follows(task, r), TaskInv(r), task' = r, task.m_is_notified \in BOOLEAN
  PROVE  D!Answer \/ UNCHANGED <<task.m_is_notified, task.verdict, task.reached>>
<1>1. r.m_is_notified \in BOOLEAN /\ r.verdict \subseteq r.reached
  BY DEF TaskInv, Task, TruthInv
<1>2. CASE ~task.m_is_notified /\ r.m_is_notified
  BY <1>1, <1>2 DEF Follows, D!Answer
<1>3. CASE task.m_is_notified \/ ~r.m_is_notified
  BY <1>1, <1>3 DEF Follows
<1>4. QED
  BY <1>2, <1>3

(* A task implements Detection: to whoever asked, all its handlers, timers  *)
(* and aborts are one truthful answer, given once and never taken back.     *)
THEOREM Refinement == Spec => ImplementsDetection
<1> DEFINE seen == <<task.m_is_notified, task.verdict, task.reached>>
<1>1. Init => D!Init
  BY DEF Init, NewTask, D!Init
<1>2. IInv /\ IInv' /\ [Next]_vars => [D!Next]_seen
  <2> SUFFICES ASSUME IInv, IInv', [Next]_vars
               PROVE  D!Next \/ UNCHANGED seen
    BY DEF D!Next
  <2>0. TaskInv(task) /\ TaskInv(task)' /\ task \in Task /\ task.m_is_notified \in BOOLEAN
    BY DEF IInv, TaskInv, Task
  <2>1. CASE Reactor
    <3>1. PICK res \in {"ok", "err"} :
             \/ task' = ConnectDone(task, res)
             \/ task' = SendToDone(task, res)
             \/ task' = ReceiveFromDone(task, res)
      BY <2>1 DEF Reactor
    <3>2. CASE task' = ConnectDone(task, res)
      <4>1. /\ task'.m_is_notified = task.m_is_notified /\ task'.verdict = task.verdict
            /\ task'.reached = IF res = "ok" THEN task.reached \cup {"tcp"} ELSE task.reached
        BY <2>0, <3>2 DEF ConnectDone, Task
      <4>2. QED
        BY <4>1 DEF D!Next, D!Reach, Probes
    <3>3. CASE task' = SendToDone(task, res)
      BY <2>0, <3>3 DEF SendToDone, Task
    <3>4. CASE task' = ReceiveFromDone(task, res)
      <4>1. /\ task'.m_is_notified = task.m_is_notified /\ task'.verdict = task.verdict
            /\ task'.reached = IF res = "ok" THEN task.reached \cup {"udp"} ELSE task.reached
        BY <2>0, <3>4 DEF ReceiveFromDone, Task
      <4>2. QED
        BY <4>1 DEF D!Next, D!Reach, Probes
    <3>5. QED
      BY <3>1, <3>2, <3>3, <3>4
  <2>2. CASE Deadline
    BY <2>0, <2>2 DEF Deadline, TimerExpired, Task
  <2>3. CASE ConnectReturns
    BY <2>0, <2>3, TcpConnectHandlerInv, AnswerOrNothing DEF ConnectReturns, D!Next
  <2>4. CASE SendToReturns
    BY <2>0, <2>4, UdpSendToHandlerInv, AnswerOrNothing DEF SendToReturns, D!Next
  <2>5. CASE ReceiveFromReturns
    BY <2>0, <2>5, UdpRcvHandlerInv, AnswerOrNothing DEF ReceiveFromReturns, D!Next
  <2>6. CASE TimerReturns
    BY <2>0, <2>6, TaskTimeoutHandlerInv, AnswerOrNothing DEF TimerReturns, D!Next
  <2>7. CASE OwnerCloses
    <3>1. CASE Completed(task)
      BY <2>7, <3>1 DEF OwnerCloses
    <3>2. CASE ~Completed(task)
      <4>1. /\ TaskInv(Abort(task, "abort_by_external"))
            /\ Follows(task, Abort(task, "abort_by_external"))
        BY <2>0, <3>2, AbortInv DEF TaskInv
      <4>2. task' = Abort(task, "abort_by_external")
        BY <2>7, <3>2 DEF OwnerCloses
      <4>3. QED
        BY <2>0, <4>1, <4>2, AnswerOrNothing DEF D!Next
    <3>3. QED
      BY <3>1, <3>2
  <2>8. CASE UNCHANGED vars
    BY <2>8 DEF vars
  <2>9. QED
    BY <2>1, <2>2, <2>3, <2>4, <2>5, <2>6, <2>7, <2>8 DEF Next, Handlers
<1>3. QED
  BY <1>1, <1>2, Inductive, PTL DEF Spec, ImplementsDetection, D!Spec
=============================================================================
