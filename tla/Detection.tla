------------------------------ MODULE Detection ------------------------------
(***************************************************************************)
(* What a detection promises the connection that asked for it, whatever    *)
(* sockets, timers and aborts it takes: some probes may reach the client,  *)
(* and it answers once, claiming only probes that did.                     *)
(***************************************************************************)
CONSTANT Probe

VARIABLES
  answered,   \* the answer was given
  verdict,    \* the probes it claims
  reached     \* the probes that succeeded

Init == answered = FALSE /\ verdict = {} /\ reached = {}

Reach(p) ==
  /\ reached' = reached \cup {p}
  /\ UNCHANGED <<answered, verdict>>

Answer ==
  /\ ~answered
  /\ answered' = TRUE
  /\ verdict' \in SUBSET reached
  /\ UNCHANGED reached

Next == Answer \/ \E p \in Probe : Reach(p)

Spec == Init /\ [][Next]_<<answered, verdict, reached>>
=============================================================================
