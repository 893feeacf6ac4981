------------------------------ MODULE MCEvents ------------------------------
(***************************************************************************)
(* Instances of Events for TLC: one client of the bus, one gRPC client and *)
(* the bridge.                                                             *)
(***************************************************************************)
EXTENDS Events

\* The ends of two workflows and the completion of nodes, which names no execution.
Transitions == {[type |-> "workflow_completed", exec |-> "e1"],
                [type |-> "workflow_completed", exec |-> "e2"],
                [type |-> "node_completed", exec |-> None]}

\* A wildcard and a subject; as the name of a channel the wildcard is a subject too.
CONSTANTS any, spine
Subjects == {any, spine}
Wildcards == {<<any, any>>, <<any, spine>>, <<spine, spine>>}
=============================================================================
