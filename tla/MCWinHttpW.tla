----------------------------- MODULE MCWinHttpW -----------------------------
(* An instance of WinHttpW for TLC: one handle is as good as another.       *)
EXTENDS WinHttpW, TLC

HandleSymmetry == Permutations(Handle)
=============================================================================
