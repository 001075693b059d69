---------------------------- MODULE PeerContract ----------------------------
(***************************************************************************)
(* What peer_connections promise tcp_server, which knows them by four      *)
(* getters: how closed, the IO count, the watch dog and the task's end may *)
(* change, one handler at a time.  PeerConnection implements it; TcpServer *)
(* is built on it.                                                         *)
(***************************************************************************)
EXTENDS Naturals

CONSTANT Conn

VARIABLES
  life,     \* life[c]: what the getters of connection c return
  running   \* no handler has thrown

vars == <<life, running>>

(* m_closed, pending_io_count, m_is_watch_dog_finish_work, the task started *)
(* and m_pingpong_task_finished.                                            *)
Life == [closed : BOOLEAN, pending : 0..1, watched : BOOLEAN,
         started : BOOLEAN, finished : BOOLEAN]

(* A new connection reads, under its watch dog.                             *)
New == [closed |-> FALSE, pending |-> 1, watched |-> TRUE,
        started |-> FALSE, finished |-> FALSE]

Init == life = [c \in Conn |-> New] /\ running = TRUE
-----------------------------------------------------------------------------
(* Mistake: an error path counts the handler out once more.                 *)
ReturnedTwice(l) == [l EXCEPT !.pending = @ - 2]

(* read_handler and write_handler count themselves out first.               *)
Returned(l) == [l EXCEPT !.pending = 0]

(* They then find the connection closed, close it, or (the first) start the *)
(* task.  A partial write counts itself in again, which nobody sees.        *)
AfterIo(l) ==
  IF l.closed
  THEN {Returned(l)}
  ELSE {[Returned(l) EXCEPT !.closed = TRUE]} \cup
       (IF l.started THEN {} ELSE {[Returned(l) EXCEPT !.started = TRUE]})

(* on_detect_finished replies unless the connection is closed.              *)
AfterTask(l) ==
  IF l.closed THEN [l EXCEPT !.finished = TRUE]
              ELSE [l EXCEPT !.finished = TRUE, !.pending = 1]

(* watch_dog_handler leaves the connection closed.                          *)
AfterWatchDog(l) == [l EXCEPT !.watched = FALSE, !.closed = TRUE]

(* The connection has nothing to do any more.                               *)
Quiet(l) == l.pending = 0 /\ ~l.watched /\ (l.started => l.finished)
-----------------------------------------------------------------------------
IoReturns(c) ==
  /\ life[c].pending = 1
  /\ \E l \in AfterIo(life[c]) : life' = [life EXCEPT ![c] = l]

TaskFinishes(c) ==
  /\ life[c].started /\ ~life[c].finished
  /\ life' = [life EXCEPT ![c] = AfterTask(@)]

WatchDogReturns(c) ==
  /\ life[c].watched
  /\ life' = [life EXCEPT ![c] = AfterWatchDog(@)]

(* A handler throws, a read_handler once it has counted itself out.         *)
Throws(c) ==
  /\ running' = FALSE
  /\ \/ UNCHANGED life
     \/ ~life[c].closed /\ life[c].pending = 1 /\ life' = [life EXCEPT ![c] = Returned(@)]

Next ==
  /\ running
  /\ \E c \in Conn :
       \/ (IoReturns(c) \/ TaskFinishes(c) \/ WatchDogReturns(c)) /\ UNCHANGED running
       \/ Throws(c)

Spec == Init /\ [][Next]_vars
=============================================================================
