--------------------------- MODULE TcpServerProofs ---------------------------
(***************************************************************************)
(* The theorems of TcpServer, for any number of connection objects.  The   *)
(* two action properties need no invariant but the types: what makes them  *)
(* true is the order, in each handler, of the assignments and of the sweep *)
(* that shutdown_and_close makes from inside it.                           *)
(***************************************************************************)
EXTENDS TcpServer, TLAPS

(* What the handlers of a connection leave is what its getters may return.  *)
LEMMA LifeTypes ==
  /\ New \in Life
  /\ \A l \in Life : /\ Returned(l) \in Life /\ AfterIo(l) \subseteq Life
                     /\ AfterTask(l) \in Life /\ AfterWatchDog(l) \in Life
<1>1. New \in Life
  BY DEF New, Life
<1>2. ASSUME NEW l \in Life
      PROVE  /\ Returned(l) \in Life /\ AfterIo(l) \subseteq Life
             /\ AfterTask(l) \in Life /\ AfterWatchDog(l) \in Life
  <2>1. ASSUME NEW r \in Life
        PROVE  /\ [r EXCEPT !.closed = TRUE] \in Life /\ [r EXCEPT !.started = TRUE] \in Life
               /\ \A n \in 0..1 : [r EXCEPT !.pending = n] \in Life
    <3>1. [r EXCEPT !.closed = TRUE] \in Life
      BY DEF Life
    <3>2. [r EXCEPT !.started = TRUE] \in Life
      BY DEF Life
    <3>3. \A n \in 0..1 : [r EXCEPT !.pending = n] \in Life
      BY DEF Life
    <3> QED BY <3>1, <3>2, <3>3
  <2>2. Returned(l) \in Life
    <3>1. Returned(l) = [l EXCEPT !.pending = 0]
      BY DEF Returned
    <3>2. 0 \in 0..1
      OBVIOUS
    <3> QED BY <2>1, <3>1, <3>2
  <2>3. AfterIo(l) \subseteq Life
    BY <2>1, <2>2 DEF AfterIo
  <2>4. AfterTask(l) \in Life
    <3>1. CASE l.closed
      BY <3>1 DEF AfterTask, Life
    <3>2. CASE ~l.closed
      <4> DEFINE r == [l EXCEPT !.finished = TRUE]
      <4>0. 1 \in 0..1
        OBVIOUS
      <4>1. r \in Life
        BY DEF Life
      <4>2. AfterTask(l) = [r EXCEPT !.pending = 1]
        BY <3>2 DEF AfterTask
      <4> HIDE DEF r
      <4> QED BY <2>1, <4>0, <4>1, <4>2
    <3> QED BY <3>1, <3>2
  <2>5. AfterWatchDog(l) \in Life
    BY DEF AfterWatchDog, Life
  <2> QED BY <2>2, <2>3, <2>4, <2>5
<1> QED BY <1>1, <1>2

(* A connection found removable has nothing to do any more.                 *)
LEMMA RemovableQuiet == \A l : Removable(l) => Quiet(l) /\ l.closed
BY DEF Removable, Quiet

(* The steps that are not a connection's leave every connection alone, but  *)
(* for the one that is accepted.                                            *)
ServerSteps ==
  AcceptCompletes \/ AcceptFails \/ Interrupt \/ RunReturns \/ Drains \/ Quits

LEMMA ServerStepsLeave == ServerSteps => UNCHANGED vars
BY DEF ServerSteps, AcceptCompletes, AcceptFails, Interrupt, RunReturns, Drains, Quits

(* tcp_server's members keep their types: in particular the IO count of a   *)
(* connection is 0 or 1, and the list holds connections.                    *)
THEOREM ServerTypeCorrect == ServerSpec => []ServerTypeOK
<1>1. ServerInit => ServerTypeOK
  BY LifeTypes DEF ServerInit, ServerTypeOK, SockOp, Phases
<1>2. ServerTypeOK /\ [ServerNext]_server_vars => ServerTypeOK'
  <2> SUFFICES ASSUME ServerTypeOK, [ServerNext]_server_vars
               PROVE  ServerTypeOK'
    OBVIOUS
  <2> USE DEF ServerTypeOK
  <2>1. CASE UNCHANGED server_vars
    BY <2>1 DEF server_vars, vars
  <2>2. CASE ServerSteps
    BY <2>2 DEF ServerSteps, AcceptCompletes, AcceptFails, Interrupt, RunReturns, Drains, Quits,
                TryRemoveConnections, vars, SockOp, Phases
  <2>3. ASSUME NEW c \in Conn, Accepts(c)
        PROVE  ServerTypeOK'
    BY <2>3, LifeTypes DEF Accepts, SockOp
  <2>4. ASSUME NEW c \in Conn, ConnectionIo(c)
        PROVE  ServerTypeOK'
    <3>1. life' \in [Conn -> Life]
      BY <2>4, LifeTypes DEF ConnectionIo, IoReturns
    <3>2. list' \subseteq Conn
      BY <2>4 DEF ConnectionIo, TryRemoveConnections
    <3> QED BY <2>4, <3>1, <3>2 DEF ConnectionIo
  <2>5. ASSUME NEW c \in Conn, ConnectionTask(c)
        PROVE  ServerTypeOK'
    <3>1. life' \in [Conn -> Life]
      BY <2>5, LifeTypes DEF ConnectionTask, TaskFinishes
    <3> QED BY <2>5, <3>1 DEF ConnectionTask
  <2>6. ASSUME NEW c \in Conn, ConnectionWatchDog(c)
        PROVE  ServerTypeOK'
    <3>1. life' \in [Conn -> Life]
      BY <2>6, LifeTypes DEF ConnectionWatchDog, WatchDogReturns
    <3>2. list' \subseteq Conn
      BY <2>6 DEF ConnectionWatchDog, TryRemoveConnections
    <3> QED BY <2>6, <3>1, <3>2 DEF ConnectionWatchDog
  <2>7. ASSUME NEW c \in Conn, ConnectionThrows(c)
        PROVE  ServerTypeOK'
    <3>1. life' \in [Conn -> Life]
      BY <2>7, LifeTypes DEF ConnectionThrows, Throws
    <3> QED BY <2>7, <3>1 DEF ConnectionThrows, Throws, Phases
  <2> QED BY <2>1, <2>2, <2>3, <2>4, <2>5, <2>6, <2>7 DEF ServerNext, ServerSteps, Connection
<1> QED BY <1>1, <1>2, PTL DEF ServerSpec
-----------------------------------------------------------------------------
(* A handler of c that returns from IO and has closed c: the sweep it made  *)
(* saw c still open, and the others as they are.                            *)
LEMMA ClosingSweep ==
  ASSUME ServerTypeOK, NEW c \in Conn, ConnectionIo(c)
  PROVE  /\ life' \in [Conn -> Life] /\ \A d \in Conn \ {c} : life'[d] = life[d]
         /\ ~life[c].closed /\ life'[c].closed =>
              list' = {d \in list : d = c \/ ~Removable(life[d])}
         /\ ~(~life[c].closed /\ life'[c].closed) => list' = list
<1>1. PICK l \in AfterIo(life[c]) : life' = [life EXCEPT ![c] = l]
  BY DEF ConnectionIo, IoReturns
<1>2. life[c] \in Life /\ l \in Life /\ life'[c] = l /\ Returned(life[c]) \in Life
  BY <1>1, LifeTypes DEF ServerTypeOK
<1>3. life[c].closed => l.closed
  BY <1>1, <1>2 DEF AfterIo, Returned, Life
<1>4. Returned(life[c]).closed = life[c].closed
  BY <1>2 DEF Returned, Life
<1>5. life' \in [Conn -> Life] /\ \A d \in Conn \ {c} : life'[d] = life[d]
  BY <1>1, <1>2 DEF ServerTypeOK
<1>6. ASSUME ~life[c].closed, l.closed
      PROVE  list' = {d \in list : d = c \/ ~Removable(life[d])}
  <2> DEFINE during == [life EXCEPT ![c] = Returned(@)]
  <2>1. list' = {d \in list : ~Removable(during[d])}
    BY <1>2, <1>6 DEF ConnectionIo, TryRemoveConnections
  <2>2. \A d \in Conn : d # c => during[d] = life[d]
    BY DEF ServerTypeOK
  <2>3. ~Removable(during[c])
    BY <1>4, <1>6 DEF ServerTypeOK, Removable
  <2>4. list \subseteq Conn
    BY DEF ServerTypeOK
  <2> HIDE DEF during
  <2> QED BY <2>1, <2>2, <2>3, <2>4
<1>7. ASSUME ~(~life[c].closed /\ l.closed)
      PROVE  list' = list
  <2>1. l.closed = life[c].closed
    BY <1>2, <1>3, <1>7 DEF Life
  <2> QED BY <1>2, <2>1 DEF ConnectionIo
<1> QED BY <1>2, <1>5, <1>6, <1>7

(* A watch dog that returns: the connection it belongs to is not swept.     *)
LEMMA WatchDogSweep ==
  ASSUME ServerTypeOK, NEW c \in Conn, ConnectionWatchDog(c)
  PROVE  /\ ~Removable(life[c])
         /\ life' \in [Conn -> Life] /\ \A d \in Conn \ {c} : life'[d] = life[d]
         /\ \/ list' = {d \in list : ~Removable(life[d])}
            \/ life[c].closed /\ list' = list
<1>1. life[c].watched /\ life' = [life EXCEPT ![c] = AfterWatchDog(@)]
  BY DEF ConnectionWatchDog, WatchDogReturns
<1>2. ~Removable(life[c])
  BY <1>1 DEF Removable
<1>3. life' \in [Conn -> Life] /\ \A d \in Conn \ {c} : life'[d] = life[d]
  BY <1>1, LifeTypes DEF ServerTypeOK
<1>4. \/ list' = {d \in list : ~Removable(life[d])}
      \/ life[c].closed /\ list' = list
  BY DEF ConnectionWatchDog, TryRemoveConnections
<1> QED BY <1>2, <1>3, <1>4

(* Whatever leaves the list is freed: it had no handler to come, and was    *)
(* not freed by one of its own.                                             *)
THEOREM FreesQuiet == ServerSpec => FreesOnlyQuiet
<1> DEFINE Freed == \A c \in list \ list' : Quiet(life[c]) /\ life'[c] = life[c]
<1>1. ASSUME ServerTypeOK, [ServerNext]_server_vars
      PROVE  [Freed]_server_vars
  <2>0. list \subseteq Conn /\ life \in [Conn -> Life]
    BY <1>1 DEF ServerTypeOK
  <2>1. CASE UNCHANGED server_vars
    BY <2>1
  <2>2. CASE ServerSteps
    <3>1. life' = life
      BY <2>2, ServerStepsLeave DEF vars
    <3>2. list' = list \/ list' = {c \in list : ~Removable(life[c])}
      BY <2>2 DEF ServerSteps, AcceptCompletes, AcceptFails, Interrupt, RunReturns, Drains,
                  Quits, TryRemoveConnections
    <3> QED BY <3>1, <3>2, RemovableQuiet
  <2>3. ASSUME NEW c \in Conn, Accepts(c) \/ ConnectionTask(c) \/ ConnectionThrows(c)
        PROVE  Freed
    <3>1. list \subseteq list'
      BY <2>3 DEF Accepts, ConnectionTask, ConnectionThrows
    <3> QED BY <3>1
  <2>4. ASSUME NEW c \in Conn, ConnectionIo(c)
        PROVE  Freed
    <3>1. /\ \A d \in Conn \ {c} : life'[d] = life[d]
          /\ list' = list \/ list' = {d \in list : d = c \/ ~Removable(life[d])}
      BY <1>1, <2>4, ClosingSweep
    <3> QED BY <2>0, <3>1, RemovableQuiet
  <2>5. ASSUME NEW c \in Conn, ConnectionWatchDog(c)
        PROVE  Freed
    <3>1. /\ ~Removable(life[c])
          /\ \A d \in Conn \ {c} : life'[d] = life[d]
          /\ list' = list \/ list' = {d \in list : ~Removable(life[d])}
      BY <1>1, <2>5, WatchDogSweep
    <3> QED BY <2>0, <3>1, RemovableQuiet
  <2> QED BY <1>1, <2>1, <2>2, <2>3, <2>4, <2>5 DEF ServerNext, ServerSteps, Connection
<1> QED BY <1>1, ServerTypeCorrect, PTL DEF ServerSpec, FreesOnlyQuiet

(* When a connection closes, all others that are ready to be freed are.     *)
THEOREM SweepComplete == ServerSpec => SweepIsComplete
<1> DEFINE Swept == \A c \in Conn : ~life[c].closed /\ life'[c].closed =>
                      \A d \in list' \ {c} : ~Removable(life'[d])
<1>1. ASSUME ServerTypeOK, [ServerNext]_server_vars
      PROVE  [Swept]_server_vars
  <2>0. list \subseteq Conn /\ life \in [Conn -> Life]
    BY <1>1 DEF ServerTypeOK
  <2>1. CASE UNCHANGED server_vars
    BY <2>1
  <2>2. CASE ServerSteps
    BY <2>2, ServerStepsLeave DEF vars
  <2>3. ASSUME NEW c \in Conn, Accepts(c)
        PROVE  Swept
    <3>1. life' = [life EXCEPT ![c] = New] /\ ~New.closed
      BY <2>3 DEF Accepts, New
    <3> QED BY <2>0, <3>1
  <2>4. ASSUME NEW c \in Conn, ConnectionTask(c) \/ ConnectionThrows(c)
        PROVE  Swept
    <3>1. \A d \in Conn : life'[d].closed = life[d].closed
      BY <2>0, <2>4
         DEF ConnectionTask, ConnectionThrows, TaskFinishes, Throws, AfterTask, Returned, Life
    <3> QED BY <3>1
  <2>5. ASSUME NEW c \in Conn, ConnectionIo(c)
        PROVE  Swept
    <3> SUFFICES ASSUME NEW e \in Conn, ~life[e].closed, life'[e].closed,
                        NEW d \in list' \ {e}
                 PROVE  ~Removable(life'[d])
      OBVIOUS
    <3>1. /\ \A x \in Conn \ {c} : life'[x] = life[x]
          /\ ~life[c].closed /\ life'[c].closed =>
               list' = {x \in list : x = c \/ ~Removable(life[x])}
      BY <1>1, <2>5, ClosingSweep
    <3>2. e = c
      BY <3>1
    <3> QED BY <2>0, <3>1, <3>2
  <2>6. ASSUME NEW c \in Conn, ConnectionWatchDog(c)
        PROVE  Swept
    <3> SUFFICES ASSUME NEW e \in Conn, ~life[e].closed, life'[e].closed,
                        NEW d \in list' \ {e}
                 PROVE  ~Removable(life'[d])
      OBVIOUS
    <3>1. /\ \A x \in Conn \ {c} : life'[x] = life[x]
          /\ \/ list' = {x \in list : ~Removable(life[x])}
             \/ life[c].closed /\ list' = list
      BY <1>1, <2>6, WatchDogSweep
    <3>2. e = c
      BY <3>1
    <3> QED BY <2>0, <3>1, <3>2
  <2> QED BY <1>1, <2>1, <2>2, <2>3, <2>4, <2>5, <2>6 DEF ServerNext, ServerSteps, Connection
<1> QED BY <1>1, ServerTypeCorrect, PTL DEF ServerSpec, SweepIsComplete
=============================================================================
