------------------------------ MODULE Executor ------------------------------
(***************************************************************************)
(* Executor::run (executor/runner.rs): the walk over the graph of one      *)
(* validated workflow, level by level.  A level is a set of nodes that run *)
(* in parallel under a cap of permits; when all of them have succeeded     *)
(* their payloads are merged in the order in which they completed, the     *)
(* next level is computed, and one snapshot is stored.                     *)
(*                                                                         *)
(* A payload is a function from the leaf paths of the JSON object to the   *)
(* number of the level that wrote them (0: the submitter).  Which          *)
(* conditional edges are taken is arbitrary, and so is the order in which  *)
(* the queued nodes are spawned (the scheduler's priority).                *)
(***************************************************************************)
EXTENDS Integers, Sequences, FiniteSets

CONSTANTS
  Node,         \* the workflow's nodes
  Edge,         \* its edges, pairs of nodes
  Conditional,  \* the edges with a condition
  Start,        \* start_node
  Joins,        \* nodes of kind Join
  PassThrough,  \* nodes that return their payload at once: Fork, Join, SpeculativeFork
  Gates,        \* nodes of kind ApprovalGate
  Key,          \* leaf paths of payloads
  Writes,       \* Writes[n]: the paths that the result of node n sets
  Submitted,    \* the paths present in the submitted payload
  Permits,      \* max_in_flight
  MaxLevels     \* bound: levels walked, for graphs with cycles

\* WorkflowDefinition::validate guarantees this much of the graph, and no more.
ASSUME GraphIsClosed == Edge \subseteq Node \X Node /\ Start \in Node /\ IsFiniteSet(Edge)
ASSUME ConditionsAreOnEdges == Conditional \subseteq Edge
ASSUME KindsAreDisjoint ==
  Joins \subseteq PassThrough /\ PassThrough \subseteq Node /\ Gates \subseteq Node \ PassThrough
ASSUME PathsAreKeys == Writes \in [Node -> SUBSET Key] /\ Submitted \subseteq Key
ASSUME PassThroughsWriteNothing == \A n \in PassThrough : Writes[n] = {}
ASSUME PermitsArePositive == Permits \in Nat \ {0}
ASSUME MaxLevelsIsNat == MaxLevels \in Nat

VARIABLES
  pc,         \* "start", "check" (top of the loop), "level", "ended"
  level,      \* current_node_names
  queue,      \* nodes of the level not spawned yet
  running,    \* spawned nodes, each with a permit; after the end, what an aborted level left
  done,       \* the results of the level in completion order
  failed,     \* nodes of the level whose task has returned Err
  joined,     \* join_completed
  payload,    \* payload of current_snapshot
  history,    \* the stored snapshots' transition edges
  cancelled,  \* the cancel token
  outcome,    \* "running", "ok" or "failed"
  started,    \* history: how often each node was spawned
  passed      \* history: how often each node succeeded

vars == <<pc, level, queue, running, done, failed, joined, payload, history, cancelled,
          outcome, started, passed>>

pool == <<queue, running, done, failed>>   \* the level in flight
counts == <<started, passed>>

Closing == {{"END"}, {"CANCELLED"}}

\* Nothing in the code reserves the two names; a node that has one of them makes an open
\* history look closed.
ASSUME NamesAreNotClosing == Closing \cap SUBSET Node = {}

\* merge_json(&mut a, b) on leaf paths: b's value wherever b has one.
Overlay(a, b) == [k \in DOMAIN a \cup DOMAIN b |-> IF k \in DOMAIN b THEN b[k] ELSE a[k]]

\* Mutant: the last branch to complete decides alone.
MergedLastOnly(base, results) == results[Len(results)].out

\* merge_json of all results into base, in completion order: the last one to have a
\* path sets it.
Merged(base, results) ==
  LET Having(k) == {i \in DOMAIN results : k \in DOMAIN results[i].out}
      Last(S) == CHOOSE i \in S : \A j \in S : j <= i
  IN [k \in DOMAIN base \cup UNION {DOMAIN results[i].out : i \in DOMAIN results} |->
        IF Having(k) = {} THEN base[k] ELSE results[Last(Having(k))].out[k]]

\* join_incoming.
InDegree(j) == Cardinality({e \in Edge : e[2] = j})

Outgoing(S) == {e \in Edge : e[1] \in S}

\* join_completed after the edges in taken have fired.
JoinedAfter(taken) ==
  [j \in Joins |-> joined[j] + Cardinality({e \in taken : e[2] = j})]

\* Mutant: no barrier.
NextLevelNoBarrier(taken) == {e[2] : e \in taken}

\* next_node_names: a join only once its count has reached its in-degree.
NextLevel(taken) ==
  {n \in Node : /\ \E e \in taken : e[2] = n
                /\ n \in Joins => JoinedAfter(taken)[n] >= InDegree(n)}

Record(to) == Append(history, [from |-> level, to |-> to])

Init ==
  /\ pc = "start"
  /\ level = {Start}
  /\ queue = {} /\ running = {} /\ done = <<>> /\ failed = {}
  /\ joined = [j \in Joins |-> 0]
  /\ payload = [k \in Submitted |-> 0]
  /\ history = <<>>
  /\ cancelled \in BOOLEAN
  /\ outcome = "running"
  /\ started = [n \in Node |-> 0]
  /\ passed = [n \in Node |-> 0]

----------------------------------------------------------------------------

\* The root snapshot.
StoreRoot ==
  /\ pc = "start"
  /\ history' = <<[from |-> {}, to |-> {}]>>
  /\ pc' = "check"
  /\ UNCHANGED <<level, pool, joined, payload, cancelled, outcome, counts>>

\* SIGINT, SIGTERM, or whoever else holds the token; it is never reset.
Cancel ==
  /\ ~cancelled
  /\ cancelled' = TRUE
  /\ UNCHANGED <<pc, level, pool, joined, payload, history, outcome, counts>>

\* Mutants: the loop goes on; the token is looked at before the first level only.
StopCancelledNoBreak ==
  /\ pc = "check"
  /\ cancelled
  /\ history' = Record({"CANCELLED"})
  /\ outcome' = "ok"
  /\ UNCHANGED <<pc, level, pool, joined, payload, cancelled, counts>>
StopCancelledAtStart ==
  /\ pc = "check"
  /\ cancelled
  /\ Len(history) = 1
  /\ history' = Record({"CANCELLED"})
  /\ pc' = "ended"
  /\ outcome' = "ok"
  /\ UNCHANGED <<level, pool, joined, payload, cancelled, counts>>

StopCancelled ==
  /\ pc = "check"
  /\ cancelled
  /\ history' = Record({"CANCELLED"})
  /\ pc' = "ended"
  /\ outcome' = "ok"
  /\ UNCHANGED <<level, pool, joined, payload, cancelled, counts>>

BeginLevel ==
  /\ pc = "check"
  /\ ~cancelled
  /\ Len(history) <= MaxLevels
  /\ pc' = "level"
  /\ queue' = level
  /\ UNCHANGED <<level, running, done, failed, joined, payload, history, cancelled, outcome, counts>>

\* Mutants: the node stays in the queue; a permit too few.
SpawnPeeks(n) ==
  /\ n \in queue
  /\ Cardinality(running) < Permits
  /\ running' = running \cup {n}
  /\ started' = [started EXCEPT ![n] = @ + 1]
  /\ UNCHANGED <<pc, level, queue, done, failed, joined, payload, history, cancelled, outcome, passed>>
SpawnOffByOne(n) ==
  /\ n \in queue
  /\ Cardinality(running) + 1 < Permits
  /\ queue' = queue \ {n}
  /\ running' = running \cup {n}
  /\ started' = [started EXCEPT ![n] = @ + 1]
  /\ UNCHANGED <<pc, level, done, failed, joined, payload, history, cancelled, outcome, passed>>

Spawn(n) ==
  /\ n \in queue
  /\ Cardinality(running) < Permits
  /\ queue' = queue \ {n}
  /\ running' = running \cup {n}
  /\ started' = [started EXCEPT ![n] = @ + 1]
  /\ UNCHANGED <<pc, level, done, failed, joined, payload, history, cancelled, outcome, passed>>

\* The results node n can return: the payload it was given with its own paths set, or,
\* from an agent that answers with a payload of its own, those paths only.
Results(n) ==
  LET own == [k \in Writes[n] |-> Len(history)] IN
  IF n \in PassThrough THEN {payload} ELSE {Overlay(payload, own), own}

NodeSucceeds(n) ==
  /\ pc = "level"
  /\ n \in running
  /\ \E out \in Results(n) : done' = Append(done, [node |-> n, out |-> out])
  /\ running' = running \ {n}
  /\ passed' = [passed EXCEPT ![n] = @ + 1]
  /\ UNCHANGED <<pc, level, queue, failed, joined, payload, history, cancelled, outcome, started>>

\* Delegation failed for good, verification failed, or the gate rejected.
NodeFails(n) ==
  /\ pc = "level"
  /\ n \in running \ PassThrough
  /\ failed' = failed \cup {n}
  /\ running' = running \ {n}
  /\ UNCHANGED <<pc, level, queue, done, joined, payload, history, cancelled, outcome, counts>>

\* run returns an Err, and its locals are dropped: the nodes not spawned yet are never
\* started, and the tasks of the JoinSet are marked for abortion, which none of them has
\* noticed so far.
Fail ==
  /\ pc' = "ended"
  /\ outcome' = "failed"
  /\ queue' = {}
  /\ UNCHANGED <<level, running, done, failed, joined, payload, history, cancelled, counts>>

\* A task that was left running comes to an await, or to its end, which nobody sees; a
\* command of a Verify node, which is not killed, may go on long after its task.
Fade(n) ==
  /\ pc = "ended"
  /\ n \in running
  /\ running' = running \ {n}
  /\ UNCHANGED <<pc, level, queue, done, failed, joined, payload, history, cancelled, outcome, counts>>

\* Results are collected only when every node of the level has been spawned; the first
\* Err ends run, whatever still runs.
FailLevel ==
  /\ pc = "level"
  /\ queue = {}
  /\ failed # {}
  /\ Fail

\* Mutants: an Err among the results is passed over; the first results are enough.
LevelDoneAnyway == pc = "level" /\ queue = {} /\ running = {}
LevelDoneEarly == pc = "level" /\ queue = {} /\ done # <<>> /\ failed = {}

LevelDone == pc = "level" /\ queue = {} /\ running = {} /\ failed = {}

CompleteLevel ==
  /\ LevelDone
  /\ \E skipped \in SUBSET (Conditional \cap Outgoing(level)) :
       LET taken == Outgoing(level) \ skipped
           next == NextLevel(taken)
       IN /\ joined' = JoinedAfter(taken)
          /\ history' = Record(IF next = {} THEN {"END"} ELSE next)
          /\ level' = IF next = {} THEN level ELSE next
          /\ pc' = IF next = {} THEN "ended" ELSE "check"
          /\ outcome' = IF next = {} THEN "ok" ELSE outcome
  /\ payload' = Merged(payload, done)
  /\ done' = <<>>
  /\ UNCHANGED <<queue, running, failed, cancelled, counts>>

\* Mutant: after a failed append the level is run again.
StoreFailsRetries ==
  /\ LevelDone
  /\ pc' = "check"
  /\ done' = <<>>
  /\ UNCHANGED <<level, queue, running, failed, joined, payload, history, cancelled, outcome, counts>>

\* The append of a snapshot fails (a busy store, a full disk, a payload too large).
StoreFails ==
  /\ \/ pc = "start"
     \/ pc = "check" /\ cancelled
     \/ LevelDone
  /\ Fail

----------------------------------------------------------------------------

\* The steps of the task that runs `run`.
Walk ==
  \/ StoreRoot \/ StopCancelled \/ BeginLevel \/ FailLevel \/ CompleteLevel
  \/ \E n \in Node : Spawn(n)

Return(n) == NodeSucceeds(n) \/ NodeFails(n)

Next ==
  \/ Walk \/ Cancel \/ StoreFails
  \/ \E n \in Node : Return(n) \/ Fade(n)

Spec == Init /\ [][Next]_vars

\* The runtime polls run, and every node but a gate returns: a delegation times out and
\* is retried finitely often, a verification command times out.
FairSpec == Spec /\ WF_vars(Walk) /\ \A n \in Node \ Gates : WF_vars(Return(n))

----------------------------------------------------------------------------

IsPayload(p) == DOMAIN p \subseteq Key /\ p \in [DOMAIN p -> Nat]

TypeOK ==
  /\ pc \in {"start", "check", "level", "ended"}
  /\ level \in SUBSET Node
  /\ queue \in SUBSET Node /\ running \in SUBSET Node /\ failed \in SUBSET Node
  /\ \A i \in DOMAIN done : done[i].node \in level /\ IsPayload(done[i].out)
  /\ joined \in [Joins -> Nat]
  /\ IsPayload(payload)
  /\ history \in Seq([from : SUBSET Node, to : (SUBSET Node) \cup Closing])
  /\ cancelled \in BOOLEAN
  /\ outcome \in {"running", "ok", "failed"}
  /\ started \in [Node -> Nat] /\ passed \in [Node -> Nat]

\* The stored transitions form a chain from the start node: each starts with the nodes
\* the one before announced, and the nodes at work, or at fault when run failed, are
\* those announced last, so that a reader of the store knows where the run was.
HistoryIsChain ==
  /\ \A k \in 2 .. Len(history) :
       history[k].from = IF k = 2 THEN {Start} ELSE history[k - 1].to
  /\ history # <<>> /\ outcome # "ok" =>
       level = IF Len(history) = 1 THEN {Start} ELSE history[Len(history)].to

\* How often stored transitions vouch for node n: those that leave it, but for the one a
\* cancelled run ends with, whose level was never begun.
Vouched(n) ==
  Cardinality({k \in 2 .. Len(history) :
                 n \in history[k].from /\ history[k].to # {"CANCELLED"}})

\* A transition is stored only after every node it leaves has succeeded, once for each
\* time it is left; a level with a failed node leaves no snapshot.
RecordedNodesPassed == \A n \in Node : Vouched(n) <= passed[n]

\* What a failed level or a failed append keeps out of the history is that one level: a
\* node has been started as often as stored transitions vouch for it, or once more if the
\* run is at its level, or failed there.
StartsAreRecorded ==
  \A n \in Node : started[n] # Vouched(n) =>
    n \in level /\ started[n] = Vouched(n) + 1 /\ outcome # "ok"

\* run returns Ok exactly if it has closed the history, and then, unlike after an Err, no
\* node that it has started is still running.  (The command of a Verify node that has
\* exceeded its time limit may be: its node has returned.)
OkMeansFinished ==
  /\ outcome = "ok" <=> history # <<>> /\ history[Len(history)].to \in Closing
  /\ outcome = "ok" => queue = {} /\ running = {}

\* "Avoid leaving nodes half-run": nothing that a run has started outlives it.
NothingOutlivesRun == pc = "ended" => running = {}

\* A result on a path that the level's other nodes neither write nor were given is in the
\* next snapshot, in whatever order the branches complete (merge_json).
Fresh(n, k) ==
  /\ k \in Writes[n] \ DOMAIN payload
  /\ \A m \in level \ {n} : k \notin Writes[m]
FreshOutputIsKept ==
  [][pc = "level" /\ history' # history =>
       \A n \in level : \A k \in Key :
         Fresh(n, k) => k \in DOMAIN payload' /\ payload'[k] = Len(history)]_vars

\* Branches meet in joins only.  Nothing in the code demands it, or that the graph has
\* no cycle.
ForkJoinShaped ==
  /\ InDegree(Start) = 0
  /\ \A n \in Node \ Joins : InDegree(n) <= 1

\* "Each node runs once, in dependency order": true of workflows that are
\* ForkJoinShaped, also where their branches differ in length or end at a false
\* condition.
NodeRunsOnce == \A n \in Node : started[n] <= 1

\* A join "waits for all branches": when it is started, each predecessor has succeeded.
JoinWaits ==
  \A j \in Joins : started[j] > 0 =>
    \A e \in Edge : e[2] = j => passed[e[1]] > 0

\* The nodes of the level have all been spawned, and gates are left that nobody answers.
OnlyGatesLeft == queue = {} /\ running # {} /\ running \subseteq Gates

\* A run on an acyclic graph ends, unless gates are left that nobody answers; and these
\* keep no other node of their level from being started and finished, as long as a
\* permit is left beside them.
RunEnds == <>[](pc = "ended" \/ OnlyGatesLeft)

\* The token is looked at between levels: a cancelled run ends with the level it is in,
\* however long its loops would go on, unless that level is left waiting for gates.
CancelStops == cancelled ~> (pc = "ended" \/ []OnlyGatesLeft)

\* "Lets a running workflow stop cleanly when the process receives a termination signal":
\* a cancelled run ends.
CancelEnds == cancelled ~> pc = "ended"

\* "Guarantee a dependent node sees its predecessor's output": what a node of the level
\* sets, and no other node of the level does, is what the next level is given.
SuccessorSeesOutput ==
  [][pc = "level" /\ history' # history =>
       \A n \in level : \A k \in Writes[n] :
         (\A m \in level \ {n} : k \notin Writes[m]) =>
           k \in DOMAIN payload' /\ payload'[k] = Len(history)]_vars

\* The stored transitions are an append-only history that ends when it is closed.
History == INSTANCE ExecutionHistory WITH
  Exec <- {"run"}, Opening <- {}, Closing <- Closing, Inner <- (SUBSET Node) \ {{}},
  history <- [e \in {"run"} |-> [k \in 1 .. Len(history) |-> history[k].to]]
ImplementsHistory == History!Spec
=============================================================================
