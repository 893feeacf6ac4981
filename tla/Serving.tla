------------------------------ MODULE Serving ------------------------------
(***************************************************************************)
(* Who answers the node tasks of a process: the front ends (main.rs `run`  *)
(* and `serve`, mcp_server.rs, autonomic_api.rs) wire executors, the local *)
(* agent (agent.rs) and the gRPC handlers (api.rs) to supervisors, and     *)
(* only those that were given the same supervisor meet.                    *)
(*                                                                         *)
(* Every action of module Supervisor is taken over; a name is the pair of a *)
(* supervisor and a node name, so that one map stands for the maps of all  *)
(* supervisors.  A run is a line of node tasks here, and of its payload    *)
(* only the `approved` flag is kept.                                       *)
(***************************************************************************)
EXTENDS Supervisor

CONSTANTS
  Prev,        \* Prev[t]: the node task before t in its run, or None
  FrontEndOf,  \* FrontEndOf[t]: the front end that has started the run of t
  LocalAgent,  \* the resumers that are local agents; the others are gRPC clients
  SaysGate     \* the names with "gate" or "approve" in them

FrontEnd == {"run", "serve", "mcp", "http"}

ASSUME LinesOfTasks == Prev \in [Task -> Task \cup {None}]
ASSUME FrontEndsOfTasks == FrontEndOf \in [Task -> FrontEnd]
ASSUME RunsHaveOneFrontEnd ==
  \A t \in Task : Prev[t] # None => FrontEndOf[Prev[t]] = FrontEndOf[t]
ASSUME AgentsResume == LocalAgent \subseteq Resumer
ASSUME GateNames == SaysGate \subseteq Name

VARIABLES
  autoApprove,  \* the setting of the local agents
  input,        \* the payload that a run was started with says approved: true
  result,       \* result[t]: the payload after t says so
  listed        \* listed[r]: the names r has listed and not looked at yet

wiring == <<autoApprove, input>>
servingVars == <<vars, wiring, result, listed>>

----------------------------------------------------------------------------
(***************************************************************************)
(* The supervisors.                                                        *)
(***************************************************************************)

\* `run` makes one supervisor for its executor and its local agent, and the manager of
\* `serve` and `mcp-serve` one for all of its executors.
RunSupervisor == <<"run">>
ManagerSupervisor == <<"manager">>

\* Mutant: the local agent gets a supervisor of its own.
OwnSupervisor == <<"agent">>

\* LocalAgent::new(supervisor.clone()).
AgentSupervisor == RunSupervisor

\* `serve` makes another one for the gRPC handlers.
ApiSupervisor == <<"api">>

\* A POST to /api/v1/workflows/run makes one for itself.
RequestSupervisor(t) == <<"request", t>>

ExecutorSupervisor(t) ==
  CASE FrontEndOf[t] = "run" -> RunSupervisor
    [] FrontEndOf[t] \in {"serve", "mcp"} -> ManagerSupervisor
    [] FrontEndOf[t] = "http" -> RequestSupervisor(t)

ASSUME NamesAreQualified == \A t \in Task : NameOf[t][1] = ExecutorSupervisor(t)

SupervisorOf(r) == IF r \in LocalAgent THEN AgentSupervisor ELSE ApiSupervisor

Gate == Task \ Timed

----------------------------------------------------------------------------
(***************************************************************************)
(* The runs.                                                               *)
(***************************************************************************)
ServingInit ==
  /\ Init
  /\ autoApprove \in BOOLEAN
  /\ input \in BOOLEAN
  /\ result = [t \in Task |-> FALSE]
  /\ listed = [r \in Resumer |-> {}]

\* The flag in the payload that t delegates with.
Given(t) == IF Prev[t] = None THEN input ELSE result[Prev[t]]

Begin(t) ==
  /\ Prev[t] # None => outcome[Prev[t]] = "ok"
  /\ Delegate(t) \/ DelegateRejected(t)
  /\ UNCHANGED <<wiring, result, listed>>

\* The flag in the local agent's answer for t: set for what it takes for a gate, and
\* else that of the payload it has read.
Answered(t) == NameOf[t] \in SaysGate \/ Given(t)

\* An operator's payload may say anything.
Receive(t) ==
  /\ ReceiveAnswer(t)
  /\ \E flag \in IF FrontEndOf[t] = "run" THEN {Answered(chan[t].task)} ELSE BOOLEAN :
       result' = [result EXCEPT ![t] = flag]
  /\ UNCHANGED <<wiring, listed>>

Wake(t) ==
  \/ Receive(t)
  \/ /\ ReceiveClosed(t) \/ Expire(t) \/ DropReceiver(t) \/ Cleanup(t)
     /\ UNCHANGED <<wiring, result, listed>>

Cancel(t) == Abort(t) /\ UNCHANGED <<wiring, result, listed>>

----------------------------------------------------------------------------
(***************************************************************************)
(* The local agent and the clients: pending_tasks, then one name at a time *)
(* pending_payload (or GetPendingTaskDetail), then auto_resolve (or        *)
(* ResumeExecution).  The local agent sleeps when it is through its list.  *)
(***************************************************************************)
List(r) ==
  /\ rpc[r] = "idle"
  /\ listed[r] = {}
  /\ listed' = [listed EXCEPT ![r] =
       {x \in Name : x[1] = SupervisorOf(r) /\ pending[x] # None}]
  /\ UNCHANGED <<vars, wiring, result>>

LookAt(r, x) ==
  /\ x \in listed[r]
  /\ ReadInfo(r, x) \/ (rpc[r] = "idle" /\ pending[x] = None /\ UNCHANGED vars)
  /\ listed' = [listed EXCEPT ![r] = @ \ {x}]
  /\ UNCHANGED <<wiring, result>>

\* Mutant: the local agent leaves no gate to an operator.
LeavesNothing(r, t) == FALSE

\* What the local agent skips: is_gate && !auto_approve && !has_approved.
Leaves(r, t) ==
  r \in LocalAgent /\ NameOf[t] \in SaysGate /\ ~autoApprove /\ ~Given(t)

Skip(r) ==
  /\ rpc[r] = "working"
  /\ Leaves(r, about[r].task)
  /\ Leave(r)
  /\ UNCHANGED <<wiring, result, listed>>

Answer(r) ==
  /\ \/ rpc[r] = "working" /\ ~Leaves(r, about[r].task) /\ (TakeTask(r) \/ NotPending(r))
     \/ SendAnswer(r)
  /\ UNCHANGED <<wiring, result, listed>>

Resume(r) == List(r) \/ (\E x \in Name : LookAt(r, x)) \/ Skip(r) \/ Answer(r)

----------------------------------------------------------------------------

ServingNext ==
  \/ \E t \in Task : Begin(t) \/ Wake(t) \/ Cancel(t)
  \/ \E r \in Resumer : Resume(r)

\* The runtime polls tasks and timers.
ServingSpec ==
  /\ ServingInit
  /\ [][ServingNext]_servingVars
  /\ \A t \in Task : WF_servingVars(Wake(t))

\* It also polls the loop of the local agent, and clients answer all that they are shown.
Answering == \A r \in Resumer : WF_servingVars(Resume(r))

----------------------------------------------------------------------------

ServingTypeOK ==
  /\ TypeOK
  /\ autoApprove \in BOOLEAN
  /\ input \in BOOLEAN
  /\ result \in [Task -> BOOLEAN]
  /\ listed \in [Resumer -> SUBSET Name]

\* With auto_approve off, a gate of `run` that is called one is passed only by a payload
\* that was approved when the run was started: no node before it, no retry, and no answer
\* that was meant for another attempt lets it through (LocalAgent::run).
UnapprovedGateWaits ==
  ~autoApprove /\ ~input =>
    \A t \in Gate : FrontEndOf[t] = "run" /\ NameOf[t] \in SaysGate => outcome[t] # "ok"

\* The local agent gets round to every task of its run, however many it has skipped or
\* lost to their timeouts meanwhile: no call of `run` waits for ever, a gate's neither.
RunIsServed ==
  Answering /\ autoApprove =>
    \A t \in Task : FrontEndOf[t] = "run" =>
      (pc[t] = "waiting" ~> pc[t] \in {"idle", "aborted"})

\* Whatever the front end, and also when whoever has taken its entry out of the map
\* answers no more, a call with a timeout returns, or its run is gone.
TimedCallReturns ==
  \A t \in Timed : pc[t] = "waiting" ~> pc[t] \in {"idle", "aborted"}

\* README: an approval gate "suspends execution and awaits operator `agent-spine approve`
\* or dashboard action"; with operators who answer all they are shown, it ends.
ServedGateEnds ==
  Answering => \A t \in Gate : FrontEndOf[t] = "serve" =>
    (pc[t] = "waiting" ~> pc[t] \in {"idle", "aborted"})
=============================================================================
