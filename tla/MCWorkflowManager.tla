------------------------- MODULE MCWorkflowManager -------------------------
(***************************************************************************)
(* Two callers that race for the only place of the queue, so that one      *)
(* execution runs and another waits for its permit; three executions of a  *)
(* process, four runs in all, and one crash.                               *)
(***************************************************************************)
EXTENDS WorkflowManager
=============================================================================
