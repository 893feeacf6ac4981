--------------------------- MODULE MCBrainRouter ---------------------------
(***************************************************************************)
(* A review loop: test sends its failures back to code, which is left      *)
(* towards test.                                                           *)
(***************************************************************************)
EXTENDS BrainRouter

CONSTANTS code, test

MCNode == {code, test}
MCEdge == {<<code, test>>, <<test, code>>}
=============================================================================
