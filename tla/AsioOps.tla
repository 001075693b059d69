------------------------------- MODULE AsioOps -------------------------------
(***************************************************************************)
(* What the server's code relies on of boost::asio (a library outside the  *)
(* repository): the life of one asynchronous operation and of one deadline *)
(* timer wait, as the handlers of peer_connection, pingpong_task and       *)
(* tcp_server start, cancel and receive them.                              *)
(*                                                                         *)
(* An operation is "idle" when none is outstanding, "wait" from the call   *)
(* that starts it until the reactor completes it, then "ok" or "err" while *)
(* its handler is queued, and "idle" again once the handler is called.     *)
(* The codes an error can have are not told apart: no handler does.        *)
(* A timer wait ends "expired" or "canceled", which the handlers do tell   *)
(* apart.  asio promises no order among queued handlers, and none is       *)
(* assumed here.                                                           *)
(***************************************************************************)

SockOp  == {"idle", "wait", "ok", "err"}
TimerOp == {"idle", "wait", "expired", "canceled"}

Outstanding(op) == op # "idle"          \* its handler is still to be called
Queued(op)      == op \notin {"idle", "wait"}

(* socket::close: an operation still in the reactor is queued with          *)
(* operation_aborted; one that is queued already keeps its result.          *)
Closed(op) == IF op = "wait" THEN "err" ELSE op

(* deadline_timer::cancel: the same rule.  In particular a wait that has    *)
(* expired and is queued is NOT canceled: its handler sees no error.        *)
Canceled(op) == IF op = "wait" THEN "canceled" ELSE op

(* The state of an operation started on a socket: on a closed one it is     *)
(* queued at once with an error (bad_descriptor).                           *)
StartedOn(open) == IF open THEN "wait" ELSE "err"
=============================================================================
