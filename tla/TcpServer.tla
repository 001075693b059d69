------------------------------ MODULE TcpServer ------------------------------
(***************************************************************************)
(* tcp_server (tcp_server.h) and the main that runs it (BlockDet.cpp), over *)
(* connections that keep PeerContract: accepting, the list that owns the   *)
(* connections, the sweep of it whenever one closes, SIGINT, and the drain *)
(* that waits for the list to empty once io_service::run has returned.     *)
(* A slot of Conn is a connection object; it is used again once freed.     *)
(***************************************************************************)
EXTENDS PeerContract, AsioOps

VARIABLES
  list,      \* m_peer_conns_am_i_blocked
  acceptor,  \* the async_accept
  stopped,   \* m_io.stop() was called: no more handlers are run
  phase      \* where main is

server_vars == <<vars, list, acceptor, stopped, phase>>

Phases == {"run", "drain", "quit"}

(* Mistakes: erased with an operation pending, and never erased when no task*)
(* was started.                                                             *)
RemovableAnyIo(l) == l.closed /\ ~l.watched /\ (l.started => l.finished)

RemovableOnceDetected(l) == l.closed /\ l.pending = 0 /\ ~l.watched /\ l.finished

(* The four getters allow the connection to be erased.                      *)
Removable(l) ==
  l.closed /\ l.pending = 0 /\ ~l.watched /\ (l.started => l.finished)

(* Mistake: the loop ends with the first connection it erases.              *)
TryRemoveOne(during) ==
  LET removable == {c \in list : Removable(during[c])}
  IN  list' = list \ (IF removable = {} THEN {} ELSE {CHOOSE c \in removable : TRUE})

(* try_remove_connections, with the getters as they are during the call.    *)
TryRemoveConnections(during) == list' = {c \in list : ~Removable(during[c])}

ServerInit ==
  /\ life = [c \in Conn |-> New] /\ running = TRUE
  /\ list = {} /\ acceptor = "wait" /\ stopped = FALSE /\ phase = "run"

Dispatching == phase = "run" /\ ~stopped
-----------------------------------------------------------------------------
AcceptCompletes ==
  /\ Dispatching
  /\ acceptor = "wait" /\ acceptor' \in {"ok", "err"}
  /\ UNCHANGED <<vars, list, stopped, phase>>

(* accept_handler: a new connection, and the next accept.                   *)
Accepts(c) ==
  /\ Dispatching
  /\ acceptor = "ok" /\ acceptor' = "wait"
  /\ c \notin list
  /\ life' = [life EXCEPT ![c] = New] /\ list' = list \cup {c}
  /\ UNCHANGED <<running, stopped, phase>>

(* On an error it returns, and nothing accepts any more.                    *)
AcceptFails ==
  /\ Dispatching
  /\ acceptor = "err" /\ acceptor' = "idle"
  /\ UNCHANGED <<vars, list, stopped, phase>>

(* A handler of a connection.  Closing sweeps the list from inside the      *)
(* handler, before its last assignments: the connection's own m_closed and  *)
(* m_is_watch_dog_finish_work are still those before.                       *)
ConnectionIo(c) ==
  /\ Dispatching /\ c \in list
  /\ IoReturns(c)
  /\ IF life'[c].closed # life[c].closed
     THEN TryRemoveConnections([life EXCEPT ![c] = Returned(@)])
     ELSE UNCHANGED list
  /\ UNCHANGED <<running, acceptor, stopped, phase>>

ConnectionTask(c) ==
  /\ Dispatching /\ c \in list
  /\ TaskFinishes(c)
  /\ UNCHANGED <<running, list, acceptor, stopped, phase>>

(* The watch dog that had expired before another handler closed closes the  *)
(* connection again, and the list is swept again.                           *)
ConnectionWatchDog(c) ==
  /\ Dispatching /\ c \in list
  /\ WatchDogReturns(c)
  /\ \/ TryRemoveConnections(life)
     \/ life[c].closed /\ UNCHANGED list
  /\ UNCHANGED <<running, acceptor, stopped, phase>>

(* A handler throws: run is left, and main deletes the server.              *)
ConnectionThrows(c) ==
  /\ Dispatching /\ c \in list
  /\ Throws(c)
  /\ phase' = "quit"
  /\ UNCHANGED <<list, acceptor, stopped>>
-----------------------------------------------------------------------------
(* signal_fun, on SIGINT: at any time, in any phase.                        *)
Interrupt ==
  /\ phase # "quit" /\ ~stopped
  /\ stopped' = TRUE
  /\ UNCHANGED <<vars, list, acceptor, phase>>

(* m_io.run returns: stopped, or with nothing left to wait for.             *)
RunReturns ==
  /\ phase = "run" /\ phase' = "drain"
  /\ stopped \/ (acceptor = "idle" /\ \A c \in list : Quiet(life[c]))
  /\ UNCHANGED <<vars, list, acceptor, stopped>>

(* Mistake: waiting for handlers to sweep, when none will run any more.     *)
DrainsIdly ==
  /\ phase = "drain" /\ list # {}
  /\ UNCHANGED server_vars

(* The loop that waits for the list to empty, once a second.                *)
Drains ==
  /\ phase = "drain" /\ list # {}
  /\ TryRemoveConnections(life)
  /\ UNCHANGED <<vars, acceptor, stopped, phase>>

Quits ==
  /\ phase = "drain" /\ list = {}
  /\ phase' = "quit"
  /\ UNCHANGED <<vars, list, acceptor, stopped>>
-----------------------------------------------------------------------------
Connection(c) ==
  ConnectionIo(c) \/ ConnectionTask(c) \/ ConnectionWatchDog(c) \/ ConnectionThrows(c)

ServerNext ==
  \/ AcceptCompletes \/ AcceptFails \/ Interrupt \/ RunReturns \/ Drains \/ Quits
  \/ \E c \in Conn : Accepts(c) \/ Connection(c)

ServerSpec == ServerInit /\ [][ServerNext]_server_vars

(* Handlers run, and a connection winds down, which PeerConnection shows    *)
(* (EventuallyRemovable).  Nobody needs to connect, fail or interrupt.      *)
ServerFairness ==
  /\ WF_server_vars(AcceptFails) /\ WF_server_vars(RunReturns)
  /\ WF_server_vars(Drains) /\ WF_server_vars(Quits)
  /\ \A c \in Conn :
       /\ WF_server_vars(ConnectionIo(c)) /\ WF_server_vars(ConnectionTask(c))
       /\ WF_server_vars(ConnectionWatchDog(c))

ServerFairSpec == ServerSpec /\ ServerFairness
-----------------------------------------------------------------------------
ServerTypeOK ==
  /\ life \in [Conn -> Life] /\ running \in BOOLEAN
  /\ list \subseteq Conn /\ acceptor \in SockOp /\ stopped \in BOOLEAN /\ phase \in Phases

(* A connection leaves the list, and is freed, only with no handler of it   *)
(* to come, and never from inside its own (the conflict that                *)
(* peer_connection.cpp:197 ponders).                                        *)
FreesOnlyQuiet ==
  [][\A c \in list \ list' : Quiet(life[c]) /\ life'[c] = life[c]]_server_vars

(* A sweep frees every connection that the getters allow, but for the one   *)
(* it was called from: nothing removable survives a close of another.       *)
SweepIsComplete ==
  [][\A c \in Conn : ~life[c].closed /\ life'[c].closed =>
       \A d \in list' \ {c} : ~Removable(life'[d])]_server_vars

(* When no SIGINT cuts it short, the run ends with every connection ready to*)
(* be freed, and the drain ends, even if a SIGINT comes during it.          *)
NaturalDrainEnds == (phase = "drain" /\ ~stopped) ~> phase = "quit"

(* A failed accept is the end of the server: what it has is served, and     *)
(* main quits, unless it is interrupted first.                              *)
FailedAcceptQuits == acceptor = "idle" ~> (phase = "quit" \/ stopped)

(* tcp_server.h:36, "waitting all connections quiting safely": the drain    *)
(* ends.                                                                    *)
DrainEnds == phase = "drain" ~> phase = "quit"
=============================================================================
