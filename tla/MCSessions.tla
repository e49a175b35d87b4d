----------------------------- MODULE MCSessions -----------------------------
(* Two users, two tokens, two passwords, two overlapping requests; the     *)
(* clock runs past the end of a session opened at its second tick.         *)
EXTENDS Sessions
=============================================================================
