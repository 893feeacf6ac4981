---------------------------- MODULE BrainRouter ----------------------------
(***************************************************************************)
(* Routing through agent-brain: BrainRouter (brain_router.rs) over the     *)
(* bridge of module McpBridge, with the heuristic of ConfidenceRouter      *)
(* (router.rs) to fall back on, wake_on_call.rs, and the selection of a    *)
(* workflow by MetaRouter (meta_router.rs).                                *)
(*                                                                         *)
(* The methods are synchronous and drive the bridge with Handle::block_on: *)
(* what a call does depends on its thread.  A thread that blocks may, a    *)
(* worker of the runtime panics, and without a runtime there is no handle. *)
(***************************************************************************)
EXTENDS McpBridge, FiniteSets

CONSTANTS
  Node,       \* node names
  Edge,       \* the edges of the workflow
  Context,    \* threads that call: of "blocking", "worker" and "none"
  Cwd,        \* what cwd may be: of "none", "file" and "directory"
  MaxRetries, \* the threshold of the fallback
  MaxEvals,   \* bound on the transitions evaluated
  None        \* nothing evaluated, nothing escalated

ASSUME ContextsAreKnown == Context \subseteq {"blocking", "worker", "none"}
ASSUME CwdsAreKnown == Cwd \subseteq {"none", "file", "directory"}
ASSUME EdgesJoinNodes == Edge \subseteq Node \X Node
ASSUME NoneIsNew == None \notin Node /\ None \notin [from : Node, to : Node, ok : BOOLEAN]
ASSUME LimitsAreNat == MaxRetries \in Nat \ {0} /\ MaxEvals \in Nat

VARIABLES
  op,         \* what the router is doing
  cwd,        \* BrainRouter::cwd, handed to the bridge as the path of the binary
  attempted,  \* connect_attempted
  bridged,    \* self.bridge is Some
  arg,        \* the transition being evaluated
  counts,     \* failure_counts of the fallback
  verdict,    \* who gave the router's last answer, and the node it escalates or None
  judged,     \* history: the transitions evaluated so far, whoever judged them
  selected    \* what select_workflow returned

routerVars == <<op, cwd, attempted, bridged, arg, counts, verdict, judged, selected>>
vars == <<bridgeVars, routerVars>>

\* The state of the router but for what it is doing.
rest == <<cwd, attempted, bridged, arg, counts, verdict, judged, selected>>

Transition == {t \in [from : Node, to : Node, ok : BOOLEAN] : <<t.from, t.to>> \in Edge}
NoVerdict == [by |-> "nobody", escalate |-> None]

Init ==
  /\ BridgeInit
  /\ op \in {"idle", "select"}
  /\ cwd \in Cwd
  /\ attempted = FALSE /\ bridged = FALSE
  /\ arg = None
  /\ counts = [n \in Node |-> 0]
  /\ verdict = NoVerdict
  /\ judged = <<>>
  /\ selected = "none"

----------------------------------------------------------------------------

\* What block_on does in a context: it goes on to the step, or panics.
Blocking(ctx, step) == IF ctx = "worker" THEN "panicked" ELSE step

\* resolve_brain_path: an override must be a file.
Resolves(path) == path # "directory"

Before == IF bridged THEN "route" ELSE "fallback"

\* evaluate_transition, up to the first use of the bridge.
Evaluate(ctx) ==
  /\ op = "idle"
  /\ Len(judged) < MaxEvals
  /\ arg' \in Transition
  /\ judged' = Append(judged, arg')
  /\ verdict' = NoVerdict
  /\ IF ~bridged /\ ~attempted /\ cwd # "none"
     THEN /\ attempted' = TRUE
          /\ op' = IF ctx = "none" THEN "fallback" ELSE Blocking(ctx, "connect")
     ELSE /\ UNCHANGED attempted
          /\ op' = IF ~bridged THEN "fallback"
                   ELSE IF ctx = "none" THEN "lost" ELSE Blocking(ctx, "route")
  /\ UNCHANGED <<bridgeVars, cwd, bridged, counts, selected>>

\* The steps of a connection: op before the bridge is spawned, and after.
Spawning == {"connect", "reconnect", "select connect"}
Shaking == {"shake", "shake again", "select shake"}

Spawned ==
  CASE op = "connect" -> "shake" [] op = "reconnect" -> "shake again" [] OTHER -> "select shake"

Spawn ==
  /\ op \in Spawning
  /\ op = "select connect" \/ Resolves(cwd)
  /\ Connect
  /\ op' = Spawned
  /\ UNCHANGED rest

\* Neither the path, nor the spawn, nor the handshake need succeed.
ConnectFails ==
  /\ op \in Spawning \cup Shaking
  /\ pc = "none"
  /\ IF op \in {"select connect", "select shake"}
     THEN op' = "idle" /\ selected' = "default"
     ELSE /\ op' = IF op \in {"connect", "shake"} THEN "wake" ELSE "fallback"
          /\ UNCHANGED selected
  /\ ResultTaken
  /\ UNCHANGED <<child, pc, nextId, target, calls, counters>>
  /\ UNCHANGED <<cwd, attempted, bridged, arg, counts, verdict, judged>>

Connected ==
  /\ op \in Shaking
  /\ pc = "idle"
  /\ ResultTaken
  /\ IF op = "select shake"
     THEN op' = "select route" /\ UNCHANGED bridged
     ELSE op' = "route" /\ bridged' = TRUE
  /\ UNCHANGED <<child, pc, nextId, target, calls, counters>>
  /\ UNCHANGED <<cwd, attempted, arg, counts, verdict, judged, selected>>

\* A brain is started and some agent-brain process is seen to run, or not in time.
WakeOnCall ==
  /\ op = "wake"
  /\ op' \in {"reconnect", "fallback"}
  /\ UNCHANGED <<bridgeVars, rest>>

CallRouteTask ==
  /\ op = "route"
  /\ CallTool
  /\ op' = "routing"
  /\ UNCHANGED rest

\* agent-brain has decided; it may recommend to escalate.
Routed ==
  /\ op = "routing" /\ pc = "idle" /\ ret = "ok"
  /\ \E n \in {None, arg.to} : verdict' = [by |-> "brain", escalate |-> n]
  /\ op' = "idle"
  /\ arg' = None
  /\ ResultTaken
  /\ UNCHANGED <<child, pc, nextId, target, calls, counters>>
  /\ UNCHANGED <<cwd, attempted, bridged, counts, judged, selected>>

\* A failed call is the end of the bridge, and the fallback decides.
BridgeLost ==
  /\ op = "lost" \/ (op = "routing" /\ pc = "idle" /\ ret # "ok")
  /\ bridged' = FALSE
  /\ Dropped
  /\ op' = "fallback"
  /\ ResultTaken
  /\ UNCHANGED <<nextId, target, calls, counters>>
  /\ UNCHANGED <<cwd, attempted, arg, counts, verdict, judged, selected>>

\* Mutant: a success forgives the node that comes next.
CountedOfTarget ==
  IF arg.ok THEN [counts EXCEPT ![arg.to] = 0] ELSE [counts EXCEPT ![arg.to] = @ + 1]

\* ConfidenceRouter: a failure counts for the node it goes back to, and a success
\* forgives the node that was passed.
Counted ==
  IF arg.ok THEN [counts EXCEPT ![arg.from] = 0] ELSE [counts EXCEPT ![arg.to] = @ + 1]

Fallback ==
  /\ op = "fallback"
  /\ counts' = Counted
  /\ verdict' = [by |-> "fallback",
                 escalate |-> IF ~arg.ok /\ Counted[arg.to] >= MaxRetries
                              THEN arg.to ELSE None]
  /\ op' = "idle"
  /\ arg' = None
  /\ UNCHANGED <<bridgeVars, cwd, attempted, bridged, judged, selected>>

(***************************************************************************)
(* Calls whose outcome is ignored; the bridge is kept when they fail.      *)
(***************************************************************************)
BestEffort(ctx) ==
  /\ op = "idle"
  /\ bridged
  /\ ctx # "none"
  /\ IF ctx = "worker"
     THEN op' = "panicked" /\ UNCHANGED bridgeVars
     ELSE op' = "ignoring" /\ CallTool
  /\ UNCHANGED rest

StoreTrajectory(ctx) == BestEffort(ctx)
EnrichPayload(ctx) == BestEffort(ctx)
SyncProcedureTransition(ctx) == BestEffort(ctx)
GetContextForNode(ctx) == BestEffort(ctx)

Ignored ==
  /\ op = "ignoring" /\ pc = "idle"
  /\ op' = "idle"
  /\ ResultTaken
  /\ UNCHANGED <<child, pc, nextId, target, calls, counters, rest>>

(***************************************************************************)
(* MetaRouter::select_workflow: a bridge of its own for one question.      *)
(***************************************************************************)
SelectWorkflow(ctx) ==
  /\ op = "select"
  /\ IF ctx = "none" THEN op' = "idle" /\ selected' = "default"
                     ELSE op' = Blocking(ctx, "select connect") /\ UNCHANGED selected
  /\ UNCHANGED <<bridgeVars, cwd, attempted, bridged, arg, counts, verdict, judged>>

AskForWorkflow ==
  /\ op = "select route"
  /\ CallTool
  /\ op' = "selecting"
  /\ UNCHANGED rest

\* The briefing names a workflow that exists, or not.
Selected ==
  /\ op = "selecting" /\ pc = "idle"
  /\ selected' \in IF ret = "ok" THEN {"workflow", "default"} ELSE {"default"}
  /\ Dropped
  /\ op' = "idle"
  /\ ResultTaken
  /\ UNCHANGED <<nextId, target, calls, counters>>
  /\ UNCHANGED <<cwd, attempted, bridged, arg, counts, verdict, judged>>

----------------------------------------------------------------------------

RouterStep ==
  \/ Spawn \/ ConnectFails \/ Connected \/ WakeOnCall \/ CallRouteTask \/ Routed
  \/ BridgeLost \/ Fallback \/ Ignored \/ AskForWorkflow \/ Selected

UserRequest ==
  \E ctx \in Context :
    \/ Evaluate(ctx) \/ SelectWorkflow(ctx)
    \/ StoreTrajectory(ctx) \/ EnrichPayload(ctx)
    \/ SyncProcedureTransition(ctx) \/ GetContextForNode(ctx)

Next ==
  \/ UserRequest \/ RouterStep
  \/ (BridgeStep \/ ChildStep) /\ UNCHANGED routerVars

Spec == Init /\ [][Next]_vars

FairSpec == Spec /\ BridgeFairness

----------------------------------------------------------------------------

RouterTypeOK ==
  /\ op \in {"idle", "select", "connect", "shake", "wake", "reconnect", "shake again", "route",
             "routing", "lost", "fallback", "ignoring", "select connect", "select shake",
             "select route", "selecting", "panicked"}
  /\ cwd \in Cwd
  /\ attempted \in BOOLEAN /\ bridged \in BOOLEAN
  /\ arg \in Transition \cup {None}
  /\ counts \in [Node -> Nat]
  /\ verdict \in [by : {"nobody", "brain", "fallback"}, escalate : Node \cup {None}]
  /\ judged \in Seq(Transition)
  /\ selected \in {"none", "workflow", "default"}

\* The failing transitions into n that no successful one from n has followed.
Unforgiven(n) ==
  {i \in 1 .. Len(judged) :
     /\ judged[i].to = n /\ ~judged[i].ok
     /\ \A j \in i .. Len(judged) : ~(judged[j].from = n /\ judged[j].ok)}

\* Where the fallback escalates a node, MaxRetries transitions into it have failed and it was
\* not passed after the first of them: also when agent-brain was lost on the way, and with
\* it the failures and the successes that it had judged (ConfidenceRouter behind
\* BrainRouter).
EscalationIsEarned ==
  verdict.by = "fallback" /\ verdict.escalate # None =>
    Cardinality(Unforgiven(verdict.escalate)) >= MaxRetries

\* False of the code: that the failures are "consecutive".  A successful transition into the
\* node between two failing ones does not interrupt them.
EscalationIsConsecutive ==
  verdict.by = "fallback" /\ verdict.escalate # None =>
    Cardinality({i \in 1 .. Len(judged) :
                   /\ judged[i].to = verdict.escalate
                   /\ \A j \in i .. Len(judged) : judged[j].to = judged[i].to => ~judged[j].ok})
      >= MaxRetries

\* select_workflow "returns Some(workflow_path) when brain recommends a specific workflow,
\* or None to use the default workflow".
SelectReturns == op # "panicked"
=============================================================================
