---------------------------- MODULE MCSupervisor ----------------------------
(***************************************************************************)
(* Instances of Supervisor for TLC: an agent node and an approval gate of  *)
(* two executions that have the same name, and an agent node of its own.   *)
(***************************************************************************)
EXTENDS Supervisor, TLC

CONSTANTS agent, gate, other, review, build

Tasks == {agent, gate, other}
Names == {review, build}
Naming == agent :> review @@ gate :> review @@ other :> build
WithTimeout == {agent, other}

Symmetry == Permutations(Resumer)
=============================================================================
