------------------------------ MODULE Lifecycle ------------------------------
(***************************************************************************)
(* The threads of BlockDet (BlockDet.cpp, tcp_server.h) and what they      *)
(* share: main, which runs the io_service, the print thread of the count,  *)
(* the mutex of the list, the mutex within the io_service that its run and *)
(* its stop take, and SIGINT, whose handler runs on either thread between  *)
(* any two of its steps.  TcpServer has the connections; here the list is  *)
(* its size, and a step of main is as short as the threads can tell.       *)
(***************************************************************************)
EXTENDS Naturals

CONSTANTS
  MaxConns,      \* bound: no more connections are accepted
  MaxInterrupts  \* bound: no more SIGINTs come

ASSUME BoundsAssumption == MaxConns \in Nat /\ MaxInterrupts \in Nat

VARIABLES
  main,     \* where main is
  loop,     \* "run" in io_service::run, then "drain"
  print,    \* where the print thread is
  signal,   \* the thread in signal_fun past the test of g_ptr_tcp_server, or none
  server,   \* the tcp_server: "none" while g_ptr_tcp_server is NULL, "alive", "deleted"
  lock,     \* who has m_mutex_conn_list
  size,     \* m_peer_conns_am_i_blocked.size()
  torn,     \* the list is in the middle of a push_back or an erase
  stopped,  \* m_io.stop() was called
  sane,     \* nothing that is not there, or not any more, has been used
  interrupts,  \* how many SIGINTs have come
  printed   \* history: a count was printed off a list in the middle of a change

vars == <<main, loop, print, signal, server, lock, size, torn, stopped, sane, interrupts, printed>>

Threads == {"main", "print"}
InRun   == {"picking", "handling", "pushes", "sweeps", "pushing", "sweeping"}

Init ==
  /\ main = "begin" /\ loop = "run" /\ print = "none" /\ signal = "none"
  /\ server = "none" /\ lock = "none" /\ size = 0 /\ torn = FALSE
  /\ stopped = FALSE /\ sane = TRUE /\ interrupts = 0 /\ printed = FALSE

(* main goes from a to b; the thread that runs signal_fun goes nowhere else.*)
MainGoes(a, b) == signal # "main" /\ main = a /\ main' = b

(* Until it has been assigned, main's new server is nobody's.               *)
Constructs ==
  /\ MainGoes("begin", "built") /\ server' = "alive"
  /\ UNCHANGED <<loop, print, signal, lock, size, torn, stopped, sane, interrupts, printed>>

(* run: the print thread, then the io_service.                              *)
Runs ==
  /\ MainGoes("built", "picking") /\ print' = "awake"
  /\ UNCHANGED <<loop, signal, server, lock, size, torn, stopped, sane, interrupts, printed>>

(* io_service::run, with its mutex: a handler, or the end of the run.       *)
Picks ==
  /\ MainGoes("picking", "handling") /\ ~stopped
  /\ UNCHANGED <<loop, print, signal, server, lock, size, torn, stopped, sane, interrupts, printed>>

RunReturns ==
  /\ MainGoes("picking", "drain") /\ loop' = "drain"
  /\ UNCHANGED <<print, signal, server, lock, size, torn, stopped, sane, interrupts, printed>>

(* A handler: one that has no use for the list, accept_handler with a new   *)
(* connection, or one that closes a connection.                             *)
Handles ==
  /\ \/ MainGoes("handling", "picking")
     \/ MainGoes("handling", "pushes") /\ size < MaxConns
     \/ MainGoes("handling", "sweeps")
  /\ UNCHANGED <<loop, print, signal, server, lock, size, torn, stopped, sane, interrupts, printed>>

HandlerThrows ==
  /\ MainGoes("handling", "quits")
  /\ UNCHANGED <<loop, print, signal, server, lock, size, torn, stopped, sane, interrupts, printed>>

(* Mistake: the list changed without the lock.                              *)
MainLocksNot ==
  /\ MainGoes("pushes", "pushing") \/ MainGoes("sweeps", "sweeping")
  /\ UNCHANGED <<loop, print, signal, server, lock, size, torn, stopped, sane, interrupts, printed>>

MainLocks ==
  /\ MainGoes("pushes", "pushing") \/ MainGoes("sweeps", "sweeping")
  /\ lock = "none" /\ lock' = "main"
  /\ UNCHANGED <<loop, print, signal, server, size, torn, stopped, sane, interrupts, printed>>

(* Mistake: the list swept without a test for its end.                      *)
BeginsChangeAnyway ==
  /\ ~torn /\ torn' = TRUE
  /\ MainGoes("pushing", "pushing") \/ MainGoes("sweeping", "sweeping")
  /\ UNCHANGED <<loop, print, signal, server, lock, size, stopped, sane, interrupts, printed>>

(* push_back, erase: two steps, the list unfit to be read between them.     *)
BeginsChange ==
  /\ ~torn /\ torn' = TRUE
  /\ MainGoes("pushing", "pushing") \/ (MainGoes("sweeping", "sweeping") /\ size > 0)
  /\ UNCHANGED <<loop, print, signal, server, lock, size, stopped, sane, interrupts, printed>>

AfterLock == IF loop = "run" THEN "picking" ELSE "drain"

EndsChange ==
  /\ torn /\ torn' = FALSE
  /\ \/ MainGoes("pushing", AfterLock) /\ size' = size + 1 /\ lock' = "none"
     \/ MainGoes("sweeping", "sweeping") /\ size' = size - 1 /\ UNCHANGED lock
  /\ UNCHANGED <<loop, print, signal, server, stopped, sane, interrupts, printed>>

SweepEnds ==
  /\ ~torn /\ MainGoes("sweeping", AfterLock) /\ lock' = "none"
  /\ UNCHANGED <<loop, print, signal, server, size, torn, stopped, sane, interrupts, printed>>

(* The drain's while, which reads the size without the lock.                *)
Drains ==
  /\ MainGoes("drain", IF size = 0 THEN "quits" ELSE "sweeps")
  /\ UNCHANGED <<loop, print, signal, server, lock, size, torn, stopped, sane, interrupts, printed>>

(* delete: of a mutex in use, too.  g_ptr_tcp_server keeps its value.       *)
Deletes ==
  /\ MainGoes("quits", "exit") /\ server' = "deleted" /\ sane' = (sane /\ lock = "none")
  /\ UNCHANGED <<loop, print, signal, lock, size, torn, stopped, interrupts, printed>>

(* main returns, and the process ends with all its threads.                 *)
Exits ==
  /\ MainGoes("exit", "gone") /\ print' = "none"
  /\ UNCHANGED <<loop, signal, server, lock, size, torn, stopped, sane, interrupts, printed>>

Main ==
  \/ Constructs \/ Runs \/ Picks \/ RunReturns \/ Handles \/ HandlerThrows \/ MainLocks
  \/ BeginsChange \/ EndsChange \/ SweepEnds \/ Drains \/ Deletes \/ Exits
-----------------------------------------------------------------------------
PrintGoes(a, b) == signal # "print" /\ main # "gone" /\ print = a /\ print' = b

(* print_task_count_not_freed.  b_print_stop is always false.               *)
PrintLocks ==
  /\ PrintGoes("awake", "printing")
  /\ server = "alive" => lock = "none"
  /\ lock' = "print" /\ sane' = (sane /\ server = "alive")
  /\ UNCHANGED <<main, loop, signal, server, size, torn, stopped, interrupts, printed>>

Prints ==
  /\ PrintGoes("printing", "asleep")
  /\ lock' = "none" /\ printed' = (printed \/ torn) /\ sane' = (sane /\ server = "alive")
  /\ UNCHANGED <<main, loop, signal, server, size, torn, stopped, interrupts>>

Wakes ==
  /\ PrintGoes("asleep", "awake")
  /\ UNCHANGED <<main, loop, signal, server, lock, size, torn, stopped, sane, interrupts, printed>>

PrintThread == PrintLocks \/ Prints \/ Wakes
-----------------------------------------------------------------------------
Exists(t) == main # "gone" /\ (t = "print" => print # "none")

(* Mistake: g_ptr_tcp_server not compared with NULL.                        *)
SeesAnything == TRUE

(* signal_fun and stop_server, as far as the test of the pointer.           *)
SeesServer == server # "none"

Interrupts(t) ==
  /\ Exists(t) /\ signal = "none" /\ interrupts < MaxInterrupts
  /\ interrupts' = interrupts + 1
  /\ signal' = IF SeesServer THEN t ELSE "none"
  /\ UNCHANGED <<main, loop, print, server, lock, size, torn, stopped, sane, printed>>

(* Mistake: the server told to print no more instead.                       *)
StopsPrinting ==
  /\ signal # "none" /\ main \notin {"picking", "gone"}
  /\ signal' = "none" /\ sane' = (sane /\ server = "alive")
  /\ UNCHANGED <<main, loop, print, server, lock, size, torn, stopped, interrupts, printed>>

(* m_io.stop() waits for the mutex that run holds as it picks: for ever, if *)
(* it is this very run that was interrupted.                                *)
Stops ==
  /\ signal # "none" /\ main \notin {"picking", "gone"}
  /\ signal' = "none" /\ stopped' = TRUE /\ sane' = (sane /\ server = "alive")
  /\ UNCHANGED <<main, loop, print, server, lock, size, torn, interrupts, printed>>

Next == Main \/ PrintThread \/ Stops \/ \E t \in Threads : Interrupts(t)

Spec == Init /\ [][Next]_vars

(* Both threads go on, and get a mutex that is free again and again.        *)
Fairness == WF_vars(Main) /\ WF_vars(PrintThread) /\ SF_vars(MainLocks) /\ SF_vars(Stops)

FairSpec == Spec /\ Fairness
-----------------------------------------------------------------------------
LifecycleTypeOK ==
  /\ main \in InRun \cup {"begin", "built", "drain", "quits", "exit", "gone"}
  /\ loop \in {"run", "drain"} /\ print \in {"none", "awake", "printing", "asleep"}
  /\ signal \in Threads \cup {"none"} /\ server \in {"none", "alive", "deleted"}
  /\ lock \in Threads \cup {"none"} /\ size \in Nat /\ interrupts \in Nat
  /\ {torn, stopped, sane, printed} \subseteq BOOLEAN

(* The count printed is never that of a list half changed: the print thread *)
(* reads under the lock, and main, which reads without it at tcp_server.h:37*)
(* while it drains, is the only one that writes.                            *)
CountIsWhole == ~printed

(* Whenever SIGINT comes, nothing is used that is not there until main      *)
(* deletes the server.  (After, SIGINT and the print thread may.)           *)
SaneUntilDeleted == server # "deleted" => sane

(* A SIGINT that found the server ends its run, wherever main was, but for  *)
(* one that interrupts main inside the io_service, with its mutex: that one *)
(* hangs.                                                                   *)
Hangs == signal = "main" /\ main = "picking"
StopEndsRun ==
  (signal # "none" /\ server = "alive") ~> (Hangs \/ main \notin InRun \cup {"built"} \/ loop = "drain")
=============================================================================
