--------------------------- MODULE MCLoginLimiter ---------------------------
(* Constant values for checking LoginLimiter: attempts from one address. *)
EXTENDS LoginLimiter, TLC

CONSTANT ip

MCAddressOf(r) == ip
MCSymmetry == Permutations(Attempts)
=============================================================================
