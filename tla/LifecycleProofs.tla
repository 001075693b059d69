--------------------------- MODULE LifecycleProofs ---------------------------
(***************************************************************************)
(* What the threads of BlockDet keep of each other, for any number of      *)
(* connections and of SIGINTs.                                             *)
(***************************************************************************)
EXTENDS Lifecycle, TLAPS

(* The mutex: a thread that is in the list has it, and nobody else.         *)
LockInv ==
  /\ main \in {"pushing", "sweeping"} => lock = "main" /\ server = "alive"
  /\ lock = "main" => main \in {"pushing", "sweeping"}
  /\ print = "printing" => lock = "print"
  /\ torn => main \in {"pushing", "sweeping"}
  /\ torn /\ main = "sweeping" => size > 0

(* The server: there from main's assignment to its delete, and the other    *)
(* thread and the signal handler only with it.                              *)
ServerInv ==
  /\ server = "none" <=> main = "begin"
  /\ server = "deleted" <=> main \in {"exit", "gone"}
  /\ print # "none" \/ signal # "none" => server # "none"

LifecycleInv ==
  LifecycleTypeOK /\ LockInv /\ ServerInv /\ CountIsWhole /\ SaneUntilDeleted
-----------------------------------------------------------------------------
LEMMA InitInv == Init => LifecycleInv
<1> SUFFICES ASSUME Init PROVE LifecycleInv
  OBVIOUS
<1>1. {torn, stopped, sane, printed} \subseteq BOOLEAN
  BY Zenon DEF Init
<1>2. LifecycleTypeOK
  BY <1>1 DEF Init, LifecycleTypeOK, InRun, Threads
<1>3. LockInv /\ ServerInv
  BY DEF Init, LockInv, ServerInv
<1>4. CountIsWhole /\ SaneUntilDeleted
  BY DEF Init, CountIsWhole, SaneUntilDeleted
<1> QED BY <1>2, <1>3, <1>4 DEF LifecycleInv

(* The steps of main.                                                       *)
LEMMA MainInv == LifecycleInv /\ Main => LifecycleInv'
<1> SUFFICES ASSUME LifecycleInv, Main PROVE LifecycleInv'
  OBVIOUS
<1> USE DEF LifecycleInv, LifecycleTypeOK, LockInv, ServerInv, CountIsWhole, SaneUntilDeleted,
            InRun, Threads, MainGoes
<1>1. CASE Constructs   BY <1>1 DEF Constructs
<1>2. CASE Runs         BY <1>2 DEF Runs
<1>3. CASE Picks        BY <1>3 DEF Picks
<1>4. CASE RunReturns   BY <1>4 DEF RunReturns
<1>5. CASE Handles      BY <1>5 DEF Handles
<1>6. CASE HandlerThrows BY <1>6 DEF HandlerThrows
<1>7. CASE MainLocks    BY <1>7 DEF MainLocks
<1>8. CASE BeginsChange BY <1>8 DEF BeginsChange
<1>9. CASE EndsChange
  <2>1. torn /\ ~torn' /\ server = "alive" /\ lock = "main" /\ print # "printing"
    BY <1>9 DEF EndsChange
  <2>2. size' \in Nat /\ main' \in {"picking", "drain", "sweeping"}
    BY <1>9 DEF EndsChange, AfterLock
  <2>3. main' = "sweeping" <=> lock' = "main"
    BY <1>9 DEF EndsChange, AfterLock
  <2>4. {torn, stopped, sane, printed}' \subseteq BOOLEAN
    BY <1>9, <2>1 DEF EndsChange
  <2>5. LifecycleTypeOK'
    BY <1>9, <2>2, <2>3, <2>4 DEF EndsChange
  <2>6. LockInv' /\ ServerInv'
    BY <1>9, <2>1, <2>2, <2>3 DEF EndsChange
  <2> QED BY <1>9, <2>5, <2>6 DEF EndsChange
<1>10. CASE SweepEnds   BY <1>10 DEF SweepEnds, AfterLock
<1>11. CASE Drains      BY <1>11 DEF Drains
<1>12. CASE Deletes     BY <1>12 DEF Deletes
<1>13. CASE Exits       BY <1>13 DEF Exits
<1> QED BY <1>1, <1>2, <1>3, <1>4, <1>5, <1>6, <1>7, <1>8, <1>9, <1>10, <1>11, <1>12, <1>13 DEF Main

(* The steps of the print thread.                                           *)
LEMMA PrintInv == LifecycleInv /\ PrintThread => LifecycleInv'
<1> SUFFICES ASSUME LifecycleInv, PrintThread PROVE LifecycleInv'
  OBVIOUS
<1> USE DEF LifecycleInv, LifecycleTypeOK, LockInv, ServerInv, CountIsWhole, SaneUntilDeleted,
            InRun, Threads, PrintGoes
<1>1. CASE PrintLocks BY <1>1 DEF PrintLocks
<1>2. CASE Prints     BY <1>2 DEF Prints
<1>3. CASE Wakes      BY <1>3 DEF Wakes
<1> QED BY <1>1, <1>2, <1>3 DEF PrintThread

(* SIGINT, on either thread.                                                *)
LEMMA SignalInv ==
  ASSUME LifecycleInv, Stops \/ \E t \in Threads : Interrupts(t)
  PROVE  LifecycleInv'
<1> USE DEF LifecycleInv, LifecycleTypeOK, LockInv, ServerInv, CountIsWhole, SaneUntilDeleted,
            InRun, Threads
<1>1. CASE Stops BY <1>1 DEF Stops
<1>2. CASE \E t \in Threads : Interrupts(t) BY <1>2 DEF Interrupts, Exists, SeesServer
<1> QED BY <1>1, <1>2

LEMMA StutterInv == LifecycleInv /\ UNCHANGED vars => LifecycleInv'
BY DEF LifecycleInv, LifecycleTypeOK, LockInv, ServerInv, CountIsWhole, SaneUntilDeleted, vars

(* The invariant holds throughout, whoever is scheduled when.               *)
THEOREM LifecycleInductive == Spec => []LifecycleInv
<1>1. LifecycleInv /\ [Next]_vars => LifecycleInv'
  BY MainInv, PrintInv, SignalInv, StutterInv DEF Next
<1> QED BY InitInv, <1>1, PTL DEF Spec

(* The variables keep their types: the size, above all, is never less than 0*)
(* (tcp_server.h:96).                                                       *)
THEOREM LifecycleTypes == Spec => []LifecycleTypeOK
<1>1. LifecycleInv => LifecycleTypeOK  BY DEF LifecycleInv
<1> QED BY LifecycleInductive, <1>1, PTL

(* No count is taken off a list in the middle of a change (tcp_server.h:64).*)
THEOREM WholeCount == Spec => []CountIsWhole
<1>1. LifecycleInv => CountIsWhole  BY DEF LifecycleInv
<1> QED BY LifecycleInductive, <1>1, PTL

(* Until main deletes the server, no SIGINT and no step of the print thread *)
(* uses what is not there (BlockDet.cpp:41).                                *)
THEOREM SaneServer == Spec => []SaneUntilDeleted
<1>1. LifecycleInv => SaneUntilDeleted  BY DEF LifecycleInv
<1> QED BY LifecycleInductive, <1>1, PTL
=============================================================================
