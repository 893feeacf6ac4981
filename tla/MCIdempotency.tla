--------------------------- MODULE MCIdempotency ---------------------------
(***************************************************************************)
(* Two executions that share two keys; each may start over after an end of *)
(* the process.                                                            *)
(***************************************************************************)
EXTENDS Idempotency, TLC

Symmetry == Permutations(Key)
=============================================================================
