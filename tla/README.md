# Verification of agent-spine

TLA+ modules for the workflow engine `agent-spine` (`src/agent-spine/src/`; file
names below are relative to that directory), with TLC configurations that check
them on small instances and TLAPS proofs that hold for every instance.

## 1. The system

agent-spine walks a workflow, a graph of nodes read from YAML, level by level.
Agent nodes and approval gates are *delegated*: the executor parks the task in
the supervisor's map of pending tasks until an IDE agent, an operator or the
built-in local agent answers it by node name. After each level an immutable
snapshot goes to a SQLite store. `serve` runs many workflows at once through a
workflow manager and offers gRPC, HTTP and MCP APIs; `run` walks one workflow.

| Part | State | Operations | Talks to |
|---|---|---|---|
| Executor (`executor/runner.rs`) | current level, join counters, current snapshot | `run` | store (append), supervisor (`delegate`), brain (routing, enrichment) |
| Node retry (`executor/runner.rs` 447-576, `executor/resilience.rs`) | attempts, circuit breaker | retry loop, dead letter | supervisor, event bus |
| Scheduler (`executor/scheduler.rs`) | ready queue | critical-path priority | executor |
| Supervisor (`supervisor.rs`) | map name -> pending task, oneshot channels | `delegate`, `resume`, `auto_resolve`, listing | executors above it, APIs and local agent below |
| Local agent (`agent.rs`) | none | polling loop | supervisor |
| Snapshot store (`state.rs`, `snapshot.rs`) | table `snapshots` | `append`, `history`, `list_executions` | all executors and APIs, other processes |
| Workflow manager (`workflow_manager.rs`) | status map, semaphore | `submit`, `recover_interrupted`, listing | executors, store |
| Workflow definition (`workflow.rs`, `condition.rs`) | none | `validate`, `evaluate` | executor |
| Cancellation (`cancellation.rs`) | one flag | `cancel` | executor, signal handler |
| Idempotency (`idempotency.rs`) | key table | check, mark | callers of the library |
| Event bus (`event.rs`, `nats_bus.rs`, `jetstream.rs`, `jetstream_bridge.rs`) | broadcast channels | publish, subscribe | APIs, NATS |
| MCP bridge (`mcp_bridge.rs`) | child process, request ids | handshake, `call_tool` | agent-brain over two pipes |
| Brain router (`brain_router.rs`, `router.rs`, `meta_router.rs`, `wake_on_call.rs`) | bridge or none, failure counts | evaluate a transition, best-effort calls, choose a workflow | MCP bridge, executor |
| Front ends (`main.rs`, `api.rs`, `autonomic_api.rs`, `mcp_server.rs`) | which supervisor each part was given | handlers | manager, supervisor, store |

What is hard here: executors, resumers and timers race on a map that is keyed by
node name only; tasks are aborted in the middle of a delegation; several
processes append to one SQLite file with a check and a write that are separate
statements; a crash may come between any two of them; results of parallel nodes
are merged in the order in which they happen to complete; joins count what they
should collect; a request to agent-brain that has timed out is still answered,
into the pipe of the next request; readers of events fall behind; an effect and
the record that it has happened are two steps. `PROJECT.json` lists each of these
hazards at its line.

What makes the parts correct:

- *Store*: a history is contiguous, linked, closed at most once, never rewritten,
  and a run that reports success has written its end.
- *Supervisor*: a waiting caller can always still be woken, an answer that has
  arrived is not lost, entries do not outlive their calls.
- *Front ends*: no gate is passed that nobody approved, and whoever waits is shown
  to somebody who may answer.
- *Executor*: nodes run once and in order on fork-join workflows, joins wait, a
  stored transition means that its nodes succeeded, of what has been started at most
  the last level is not in the history, a run that reports success has left nothing
  behind, a run ends, and one that is cancelled goes into no further level.
- *Manager*: bounds on queued and running workflows, a status that follows the
  run. *Retry*: a node fails after exactly the attempts it was promised, or when its
  circuit opens.
- *Idempotency*: a caller repeats an effect only where its record was lost.
- *Events*: what was sent was received once, or the reader was told how many it lost,
  or its stream has ended.
- *Bridge and router*: an answer goes to its own request, a broken line costs one
  request, a request returns, and an escalation was earned.
- *Definition*: what is validated can be run; priorities are those of the paths.

## 2. Modules

| Module | Models | Instances | Proofs |
|---|---|---|---|
| `ExecutionHistory` | abstract: the history its readers rely on | - | - |
| `SnapshotStore` | store, its writers, start-up recovery | `MCSnapshotStore` | `SnapshotStoreProofs` |
| `Supervisor` | supervisor, its callers and resumers | `MCSupervisor` | `SupervisorProofs` |
| `Serving` | the front ends' supervisors, the local agent and gRPC clients, over `Supervisor` | `MCServing` | `SupervisorProofs` |
| `Executor` | the walk of one workflow | `MCExecutor` | `ExecutorProofs` |
| `NodeRetry` | the retry loop inside the nodes of a level | `MCNodeRetry` | `NodeRetryProofs` |
| `WorkflowManager` | the serving process: submission, permits, status, start-up | `MCWorkflowManager` | `WorkflowManagerProofs` |
| `EffectLedger` | abstract: a write-once ledger of effects | - | - |
| `Idempotency` | both idempotency stores and their callers | `MCIdempotency` | `IdempotencyProofs` |
| `McpBridge` | the bridge and the child at the other end of its pipes | `MCBrainRouter` | `BrainRouterProofs` |
| `BrainRouter` | routing, fallback and choice of a workflow, over `McpBridge` | `MCBrainRouter` | `BrainRouterProofs` |
| `Events` | event bus, event streams, JetStream bridge | `MCEvents` | `EventsProofs` |
| `Definition` | validation and conditions: pure operators | `MCDefinition` | `ExecutorProofs` |
| `Scheduler` | the search for priorities and the ready queue, over `Definition` | `MCDefinition` | `NodeRetryProofs` |

`ExecutionHistory` is implemented twice: by the table of `SnapshotStore`, where the
question is what racing connections do to it, and by the transitions that
`Executor` stores, where the question is what the walk makes of it. `EffectLedger` is
implemented by `Idempotency`.

Three modules compose others by EXTENDS. `Serving` takes over every action of
`Supervisor` and adds who calls it: a name there is the pair of a supervisor and a
node name, so one map stands for the maps of all supervisors. `BrainRouter` takes
over every action of `McpBridge` and makes the requests. `Scheduler` adds its inputs to those of
`Definition`, and the steps that work on them.

The other modules meet in what they assume of each other. `Executor` takes a node
as something that ends with a result or an error (`TaskEnds` of `NodeRetry`), unless
it is a gate; `NodeRetry` takes `delegate` as something that returns
(`TimedCallReturns` of `Serving`); `Supervisor` takes its callers as tasks that retry
and may be aborted (`RetryLater` and `Abort` of `NodeRetry`, `Fail` and `Fade` of `Executor`);
`WorkflowManager` takes a run as something that may or may not return, and that stores a root
before levels and levels before its end; `Executor` takes a graph as
one whose edges join its nodes (`ValidatedIsFound` of `Definition`) and spawns a level
in any order, so nothing it shows depends on the priorities of `Scheduler`.

Operators whose comment begins with *Mutant* are bugs a definition could have.
They are not used by any specification; each shows that a property notices the
bug when it is put in place of the definition below it.

### SnapshotStore

A *writer* is an executor or a run of `recover_interrupted`; each has its own
connection. `rows[e]` are the rows of execution `e`, `snap[w]` the snapshot that
writer `w` holds in memory, `pc[w]` its place. An append is `CountRows` (the
`SELECT COUNT` and the sequence check) and then `InsertRow` or, when the UNIQUE
index refuses the key, `InsertRejected`; `StoreError` stands for a busy or full
database and for a payload over the size limit. Executors start (`StartRun`),
make a snapshot after each level (`MakeSnapshot`), fail without one (`NodeFails`)
and crash. A recovery lists the executions, reads them one at a time
(`ReadHistory`, `ReadFails`), closes what is open, and stops at the first append
that fails. A snapshot's UUID is represented by its maker and sequence number.

### Supervisor

`pending[x]` is the call whose sender the map holds under name `x`. A *call* is a
task and the number of its attempt. Each critical section under the lock is one
step. `delegate` is split where another thread may run: the insertion, the wait,
the moment between the timer's firing and the drop of the receiver, and the
clean-up of the map. `resume` is split between taking the entry out and sending, and who
has read about a task may `Leave` it unanswered.
`chan[t]` holds the call an answer was made for, so that a model checker sees an
answer reach another call than the one it was made for. `Abort` is the drop of
the JoinSet in `Executor::run` when a sibling fails. An aborted call leaves its entry in
the map; one that has returned does not (`EntryOutlivesNoCall`), however the timer, the
clean-up, a namesake's insertion and a resumer follow each other.

### Serving

`Begin`, `Wake` and `Cancel` are the calls of `Supervisor` made by the node tasks of runs,
which are lines of tasks here (`Prev`); of a payload only the flag `approved` is
kept (`Given`, `result`), which is what the local agent looks at. `ExecutorSupervisor`,
`AgentSupervisor` and `ApiSupervisor` say which supervisor each front end hands out.
The local agent and the clients `List` what is pending and then take the names one at a
time: `LookAt` reads the payload, `Skip` leaves a gate to an operator, `Answer` resolves.
Between these steps the task may have timed out, been retried or been replaced by a
namesake. What makes a gate a gate for the local agent is its name (`SaysGate`).

### Executor

`level` is `current_node_names`; `queue`, `running`, `done`, `failed` are the
level in flight. `Spawn` takes a permit, `NodeSucceeds` and `NodeFails` return
it. Results are looked at only when the queue is empty, as in the code, where
the spawn loop waits for permits before `join_next` is first called. `FailLevel`
ends the run: what is queued is never started, what runs is only marked for abortion and
disappears later (`Fade`), a task at its next `.await`, the command of a Verify node when it
is done, since nothing kills it. `CompleteLevel` is the whole of phases 4 to 6:
merge, conditional edges, join counters, next level, snapshot. A payload maps
leaf paths to the number of the level that wrote them, enough to tell whether a
result was kept or overwritten. Left out: brain enrichment and routing (they add
payload fields and never change the edges taken), the trajectory log, redaction,
the order in which the queue is spawned. The names of nodes differ from END,
CANCELLED and INTERRUPTED (`NamesAreNotClosing`), which `validate` does not require.

### NodeRetry

`pc[n]` is where the task of node `n` is in the loop: at its `top`, where the
circuit is looked at, `calling` `delegate`, `sleeping` between attempts,
`publishing` a dead letter. `retries`, `failures`, `open` and `wait` are the
variables of the code. `Answer` has one action for each way out of the call:
`Succeed`, `GiveUp` (the last retry of a node without escalation), `EscalationFails`
and `RetryLater`. Each `.await` is a point where `Abort` may end the task, because any
other node of the level has failed, a gate or a Verify node too, or the run itself was
dropped. `made` and `escalated` count what has happened
and are read by the properties only. Whether a dead letter reaches its subject or
file is a choice (`Publish`), since the code ignores the result. Left out: the role
hints that escalation adds, and the payload.

### WorkflowManager

`Admit` and `Insert` are the two critical sections of `submit`, with `OpenFails`
between them; `Refuse` is the full queue. The spawned task is `Acquire`,
`MarkRunning`, the run (`StoreRoot`, `StoreLevel`, then `RunOk`, `RunErr` or `Panic`, or
nothing more), `MarkEnded` and `Emit`; a permit that is dropped goes to the first waiter, as
tokio's semaphore does it (`Release`). The id that `submit` gives (`Exec`) and the one under
which the run stores its history (`Run`) are different, and the code relates them nowhere;
`ran` does, and only properties read it. `Crash` ends the process and all it holds in
memory; `Recover` runs before the servers are started, passing over what it cannot read
(`unread`), and ends the process again when it fails (`RecoverFails`). The store is one word per
run: `root` if only the root snapshot is there, which recovery passes over, `open`, or
`closed`. One process at a time is on the store here; several are in `SnapshotStore`.

### Idempotency

A caller asks (`IsConsumed`, then `GetResult` for a key that has a record: two critical
sections), acts if it was told nothing (`Effect`) and stores the result (`MarkConsumed`).
`CheckFails` and `MarkFails` are failing statements of the SQLite store, `EndOfProcess`
may come between any two steps. `durable` tells the two stores apart: the in-memory one
appends whatever it is given and forgets all, the other ignores a second record. `did`
and `lost` count effects and are read by properties only. The record comes after the effect
(section 5), so two callers may both act on a key; what the model promises is about each
caller by itself, and that all are told the same result. Nothing in the repository but tests
calls `check_idempotency`: the order is the one that its comment and the tests give.

### McpBridge and BrainRouter

One request is in flight at a time: `pc` is where the bridge is with it (`flush`, `read`,
`pong` while it answers a request of the child, `ack` after a handshake), `target` its id.
The child is external: it reads, answers what it has read in any order, well or not or
never, sends lines of its own, and dies. A timeout abandons the request, and what was
read of a line that had not arrived in full is gone (`cut`): its rest is a line that is no
JSON. `inbox` is bounded by `PipeCap`: a flush waits while the pipe is full, and the write is
before the timeout in the code, so that `CallReturns` needs a child that reads.

The router's methods are synchronous and drive the bridge with `block_on`, so what they
do depends on the thread they are called on (`Context`): a worker of the runtime panics.
`op` is what the router is doing: connecting (`connect`, `shake`), waking a brain and
connecting again, routing, falling back. `Evaluate` to `Fallback` are `evaluate_transition`;
a failed call ends the bridge for good (`attempted`). `BestEffort` stands for the four calls
whose outcome is ignored. `SelectWorkflow` to `Selected` are the meta router with a bridge
of its own. `judged` records all transitions, as an observer would see them, while `counts`
sees only those that reach the fallback. A node is escalated for failures that no success of
that node has followed (`Unforgiven`); they need not be consecutive (section 5).

### Events

`feed[r]` is what was sent to reader `r`'s channel since it subscribed, `read[r]` how far it
has come, `got[r]` what it received. A channel holds the last `Capacity` events; `Lagged`
skips to the oldest of these. An HTTP client and the bridge are told the number of events they
lost; for a gRPC client the number is dropped, and its stream ends with an error. A publish
through HTTP finds the channel (`EnsureChannel`) and sends later (`Publish`); it fails on the
in-memory bus when the channel has no receiver, and on JetStream at any time (`PublishFails`).
The bridge publishes one event at a time
(`flight`); `PublishDedup` has the outcomes of a publish with a message id made of
execution, type and millisecond: stored, taken for a duplicate, or failed.

### Definition and Scheduler

A behaviour picks one input and computes one output. `Validated` returns the first error
in the order of the code; names carry whether there are blanks around them, since node names
are trimmed when they are indexed and not when they are looked up. `Holds` evaluates a
condition over tagged JSON values; conditions that cannot be parsed, or whose path
leads nowhere, hold.

`Scheduler` adds the levels of a workflow, and plans one step by step. `stack` holds the
calls of `dfs` (a node, the successors it has still to ask, the best so far), `cpp` the memo, and
`Visiting` is the set of the nodes on the stack. A step is a call (`Begin`, `Descend`), the value
that a call gets from a successor (`Known`, and `MeetAgain` on a cycle), or a return (`Leave`);
`Pop` takes the maximum of the heap. The nodes and the edges come in an order in the code and
in any order here. The properties are reference definitions: the numeric order of versions, and
the weights of all paths, where a path is a sequence that passes no node twice.

## 3. Runs

| Run | Instance | Shows |
|---|---|---|
| `store` | 2 executions, 2 recoveries, 1 level beyond the root | closedness, success means stored, recovery closes, refinement of the history |
| `supervisor` | agent and gate of the same name, another agent, 2 resumers, 2 calls each | no lost wake-up, service of unique names, no entry outlives its call |
| `serving` | a `run` of gate-like, agent and gate nodes, a gate submitted twice to `serve`, an HTTP request; local agent and client | no unapproved gate passed, the local agent serves its run, calls with a timeout return |
| `serving_gate` | same | violation: a gate submitted to `serve` waits for ever |
| `executor_forkjoin` | 8 nodes, 3 branches of different lengths, 2 conditional edges, a gate | nodes run once, join waits, the run ends or waits for gates only |
| `executor_loop` | review loop with a gate, up to 7 levels | recorded nodes passed, started nodes recorded but for the last level, success leaves nothing behind, fresh output kept, refinement, cancellation stops the run at the end of its level |
| `retry` | 4 nodes with 1, 5, 1 and 4 retries, the last two with escalation; circuit opens at 5 | failure after exactly what was promised or what the circuit allows, growing back-off, end |
| `manager` | 2 callers, queue of 1, 1 permit, 3 executions, 4 runs, 1 crash | overshoot, permits, status and events and store agree, recovery before service, progress |
| `brain` | 2 nodes in a loop, 4 requests, 3 transitions, 1 line of the child's own | own answers, broken lines, earned escalation, requests return |
| `events` | a bus client, a gRPC client and the bridge; 3 events, 2 milliseconds, channels of 1 | losses are told or end the stream, JetStream has the events in order, ends are no duplicates |
| `idempotency` | 2 callers, 2 keys, 3 checks each, 1 end of the process | repeats are bounded by losses, refinement of the ledger |
| `definition` | definitions of up to 2 nodes, versions of up to 3 parts, all graphs over 3 nodes of two weights, searched in any order | validation, versions, conditions, priorities |

Bounds. Two writers of each kind are enough for every race of the store: a conflict is between
two connections, and with two of each a recovery races an executor, another recovery, and a
second recovery that starts after the first. `MaxSteps = 1` gives histories of root, inner and
closing row, and longer ones repeat the inner row. In the supervisor a second call per task lets
answers and clean-ups of the first meet the second; `serving` keeps that and adds a run whose
second task is an agent between two gates, so that a flag can be carried on. In the executor two
permits for three parallel nodes make the queue wait, and seven levels walk the loop more than
twice. In `NodeRetry` the four policies are one for each order of the limits: retries used up
before the circuit opens and after, escalation as the last attempt before the circuit opens and
after; `MaxWait` is small enough for the back-off to saturate. In `WorkflowManager` two callers
race for the only place of the queue, so that one execution runs while another waits for its
permit, a third follows when one ends or would exceed the bound, and the crash separates two
processes, with a run of the first left to recover; an execution's id is the order of its
submission, as ids are otherwise interchangeable. In `BrainRouter` four requests are a
handshake, a transition that is judged, a request that times out and one that meets what is left
of it; three would not reach that, as a bridge is made only for a transition, whose failure ends
it; the threshold of the fallback is 2 (3 in the code), so that three transitions can reach it
with a forgiving one in between. In `Events` a capacity of 1 (256 in the code) makes a reader
lag with two events, the third comes after the loss, and two milliseconds make message ids equal
or different. In `Idempotency` a third check meets a record after a loss, and the process ends
once. The models stop at `MaxSteps`, `MaxCalls`, `MaxLevels`, `MaxCrashes`, `MaxChecks`,
`MaxEnds`, `MaxEvals`, `MaxNoise`, `MaxSent` and `MaxMillis`, and runs and tasks end, so
deadlock is not checked.

Fairness. What is assumed is weak fairness of tasks which the runtime polls and of timers which
fire. `FairSpec` of Executor: the task of `run` and every node but gates, since an operator may
never answer one; `RunEnds` therefore says that a run ends or has nothing running but gates, and
`CancelStops` that a cancelled run does. `FairSpec` of NodeRetry: the steps of each task, the
return of `delegate` among them, as every attempt has a timeout. `FairSpec` of WorkflowManager:
the start-up, and the steps of each spawned task but those of its run, which may wait for a gate
for ever or go round a loop; `QueuedStarts` therefore says that a queued execution is started
unless all permits are kept by such runs. Callers need not submit, and a crash need not happen.
`ServingSpec`: a caller's wake-ups and timers; that the loop of the local agent is polled and
that clients answer what they are shown is not assumed but is the premise (`Answering`) of the
two properties that need it, and `TimedCallReturns` does without. `FairSpec` of BrainRouter: the
bridge's own futures and its timer; that the child reads is a premise of `CallReturns`, and that
it answers is assumed nowhere.

## 4. Proofs

`SnapshotStoreProofs` proves type correctness, `Contiguous`, `ParentStored`,
`ClosedIsLast`, `OkMeansStored`, `AppendOnly` and the refinement of
`ExecutionHistory` for any number of executions, recoveries and levels. The
inductive invariant `IInv` adds what each writer knows (`WriterOK`): its snapshot
extends a stored open row, and between COUNT and INSERT the count it saw is a
lower bound, so that a key which the UNIQUE index accepts is exactly the next one
(`InsertIsAtEnd`). `RecInv` adds what a recovery has done to the executions it found lost:
those it has passed are closed or have only their root (`Handled`), and as their owners are
dead, no other writer can change that but by closing them too.

`SupervisorProofs` proves the type invariant and the four safety properties of
`Supervisor` for any number of tasks, namesakes, resumers and attempts. The
inductive invariant `SupInv` follows a sender, which is in exactly one place from
the insertion until it is used or dropped: in the map, or with one resumer that has
taken it (`OneHolder`), which holds a call that has really been made
(`ResumerKnows`, `Numbered`). Of the map it says that a returned call has left no entry
there (`EntryOutlivesNoCall`). A call whose channel has been filled or closed has no
sender left (`UsedUp`), so nothing can fill it twice. From this follow one answer per
call and that a waiting call can be woken. `AloneIsServed` uses in addition that
the entry under a name nobody shares is its own task's.

Its second part is about `Serving`. It proves first that every behaviour of `Serving` is one of
`Supervisor` (`ServingIsSupervisor`), so what is proved of the supervisor holds of the whole,
and then `UnapprovedGateWaits` and the types, for any lines of tasks and any number of agents
and clients. `ServInv` adds to `SupInv` that who lists or works on a name does so at the
supervisor it was given (`ListsOwn`, `WorksOnOwn`), that an answer is one made for a task of the
same name (`AnswersOfName`), and that in a `run` that nobody approved no result carries the
flag, no agent that is past its test has a gate in hand, and no gate has an answer or is passed
(`Unapproved`).

`ExecutorProofs` has six parts. `WalkInv` proves that stored transitions form a chain and that
`run` reports the end truthfully and returns Ok with nothing left running (`OkMeansFinished`),
on any graph and with failures of nodes and store at any point. `OnceInv` proves that nodes run
once and joins wait, under the assumption `ForkJoinShaped`: no edge leads to the start node, and
no node but a join has two edges into it. That assumption is not in the code, and without it the
property is false (section 5). The invariant says which nodes have been left behind (`Left`) and
have succeeded, that everything before them has too (`Preceded`), how often the nodes of the
level have been started (`LevelCounts`), and that a join's counter is at most the number of its
edges from nodes left behind, so that it can reach the in-degree only when all of them are. The
lemmas on cardinalities state how the counter and that number grow in one level. `PassInv`
proves, again on any graph and cyclic ones too, that a stored transition vouches for a success
of every node it leaves: a node has succeeded as often as stored transitions leave it, and once
more if it has finished in the level in flight (`Finished`). `StartInv` adds how often a node
has been started, which bounds what a failed run has done and not recorded by its last level
(`StartsAreRecorded`). With `PassInv`, `ExecutorImplementsHistory` maps every step to a step of
`ExecutionHistory` or a stutter. `ResultsInv` types what the nodes return and proves that output
which only one node writes is in the next snapshot. `Merged` takes the last of the results that
have a path, the greatest element of a set of positions; that a finite set of numbers has one
(`HasGreatest`) follows from the well-foundedness of the strict subsets of a finite set, without
the library's induction theorems. The part on ends proves of `RunEnds` and `CancelStops` what is
safety: there is a finite set of things left to do (`ToRun`, `ToStop`: nodes to spawn, to await,
levels to begin and to complete, the end) that every step strictly shrinks, for a cancelled run
on any graph (`CancelledRunsStop`) and for every run of a graph that is `ForkJoinShaped`
(`ForkJoinRunsEnd`), whose nodes run once. That it is finite rests on the edges being so, since
a run can only come to nodes that edges lead to (`ReachInv`, `ReachableIsFinite`). On other
graphs with a cycle a run that nobody cancels may go on for ever. The last part is about
`Definition`, which makes what the walk is given: `ValidatedGraphIsClosed` derives the
assumption `GraphIsClosed` from what `validate` accepts, and the properties on names, versions
and conditions are proved for any definitions, any conditions over any payloads, and
(`VersionsAreShort`) any versions of at most three components. The comparison of versions is
shown to be that of numbers in two steps, from the first place where they differ to the digits
of a number (`SpineIsLexicographic`, `FirstDigitDecides`).

`NodeRetryProofs` proves the safety properties of `NodeRetry` for any nodes and policies.
`RetryInv` says that retries, failures of the circuit and calls are one count seen at different
moments of a round (`Agree`), that the escalated call is the one past the policy's (`Bounded`),
and which of three ways a failed node has ended (`FailedHow`). `WaitInv` says that the last wait
is the backoff of the last retry, from which `BackoffGrows` and the types follow. The powers of
two in it are a recursive function; `PowerIs` proves that its equations have a solution, by an
induction over sets of naturals (`NaturalsByStep`) that cites no theorem with an operator
parameter. `Rank` measures the way of a task to its end, in steps of a round and calls until the
circuit opens: `LoopsEnd` proves that every step lowers the rank of one task and leaves the
others', so that `Threshold` bounds the loop whatever `max_attempts` is, and `NoTaskIsStuck`
that the return for a node past its last retry (`runner.rs`, the case without an escalation
model) is never reached. `CallsAreAllowed` says how the loop fits above the supervisor: it calls
`delegate` as `MayCall` of `Supervisor` says, one call at a time, none after an Ok, and fewer
than a bound that `MaxCalls` stands for.

The second part of `NodeRetryProofs` is about `Scheduler`: for levels of any size with any
edges, cycles included. `PlanInv` keeps, at every step of the search, of each node whose visit
is over a path that its priority is the weight of (`EntriesOK`), of each open call a successor
that its best is the worth of (`FrameOK`), and without a cycle that a priority exceeds those of
all successors by the node's weight (`ExceedsSuccessors`). The path of a node is made when its
call returns, by a node that is in no path of a completed one (`WorthOfLonger`); the calls on
the stack are a path, so a node that is met again is on a cycle (`MetAgainMeansCycle`). From the
last of these facts no path weighs more than the priority of its first node (`PathsAreBounded`,
an induction from the end of the path), which with the first makes it the maximum, and nodes
that lead to others are popped before them (`PathsGiveTheOrder`). Weights are added over sets of
nodes (`WeightAdds`), as a sum by weight class instead of a recursion. `PlansEnd` and
`PlansAreCompleted` are the safety half of termination: every step strictly shrinks a finite set
of things left to do (`Work`: visits, questions, returns, pops), and as long as a node is left
there is a step.

`WorkflowManagerProofs` proves all safety properties of `WorkflowManager` for any
number of callers, executions, permits and crashes. `ManagerInv` counts an admitted
caller like the execution it will insert (`AdmissionBound`), ties the place of a
task to its status and to the history that its run has stored under another id (`Told`), and
says that the semaphore's queue
holds waiting tasks, each once (`QueueOfWaiting`), so that a permit handed on has
one owner. `RecoveryComesFirst` leaves what recovery could not read aside, as the code does.

`IdempotencyProofs` proves type correctness, `RepeatsOnlyTheLost`, `ListedOnce` and the
refinement of `EffectLedger` for any callers, keys, stores and ends of the process. The
inductive invariant `IInv` says that between a check and the record an effect is
accounted for by the caller that has still to store it (`Accounted`), that such a caller
has no record yet (`Unlisted`), that the number in a result counts checked effects (`Counted`),
and that a record which `is_consumed` has found is still there for `get_result`, although
the lock was released (`StillThere`): only the end of the process removes records, and it
ends the caller too.

`BrainRouterProofs` proves `AnswersOwnRequest`, `BadLineCostsOne`, `EscalationIsEarned` and the
types, for any bounds, nodes and threads. `BridgeInv` pairs the number of a request with its id:
they are as far apart as the calls made and the ids used by this bridge (`Match`), in the pipes,
with the child and in flight, so that only one request can have the id that is waited for; and
it finds each broken line in a request that failed, in the pipe, or in a head that was thrown
away (`Spent`). `RouterInv` rests on the fact that the fallback has counted nothing as long
as agent-brain may judge (`Fresh`), since a bridge that was lost is never made again; from then
on a node's count is at most the number of its failures that no success has followed (`Earned`).

`EventsProofs` proves the three invariants of `Events` and the types, for any clients, capacity
and clock. `EventInv` places each reader in its feed (`ReaderOK`): what an HTTP client or the bridge
received and what it was told add up to where it is, and a gRPC client whose stream is open has
received all up to there; it says that the feed of the bridge has the end of an
execution once (`EndsOnce`), that the message in flight comes after all that are stored
(`FlightOK`), and that an id the stream has seen was made for a stored event (`StreamOK`): so an
equal id is of an event of the same type and execution, which no end can be.

Some properties are proved and not checked in a run: the type invariants, `Contiguous`,
`ParentStored` and `AppendOnly` of the store, `AnsweredOnce` of the supervisor, `HistoryIsChain` of the executor, `EscalatesLast`
and `LettersOfTheExhausted` of the retry loop, `ListedOnce`, and the inductive invariants.

The proofs assume of the constants: `NamesAreNotClosing` (node names are not END, CANCELLED or
INTERRUPTED), `GraphIsClosed` (edges join nodes, what `validate` establishes for names without
surrounding blanks), `RunsHaveOneFrontEnd` (a run is served by the front end it was started
from), `PassThroughsWriteNothing` (fork and join nodes return the payload they were given),
`ReadersDiffer` (a receiver has one owner), `NoneIsNothing` (a marker for absence is no value),
`DefinitionsAreParsed` (nodes and edges are sequences, components that parse are numbers),
`NumbersAreOrdered` (JSON has no NaN) and `LevelsAreFinite` (a level has finitely many nodes, whose
names are ordered).

Only model-checked is all liveness (`RunEnds`, `CancelStops`, `TaskEnds`, `QueuedStarts`,
`RunIsServed`, `TimedCallReturns`, `CallReturns`), which is out of the prover's reach. Of the
first three the theorems above prove that the steps run out; that the steps which are left are
taken is what fairness adds, and TLC checks. TLC confirms the type invariant of every module on
its instance.

## 5. Known disagreements

The run `serving_gate` ends in a counterexample: a gate of a workflow submitted to `serve`
waits in the manager's supervisor, while the gRPC handlers were given another one
(`main.rs:475`), so no client is ever shown it. The finding in `PROJECT.json` quotes what the
documentation promises.

The following formulas are false of the code too. They are kept in their modules beside
the properties that hold; to see a counterexample, name one in a cfg.

| Formula | Instance | What the code does |
|---|---|---|
| `EveryCrashedIsClosed` of `SnapshotStore` | `MCSnapshotStore` | a history with the root snapshot only, of an execution that crashed in its first level, is passed over by recovery |
| `PendingIsWaiting` of `Supervisor` | `MCSupervisor` | a task that was aborted stays in the map and is listed as pending |
| `SuccessorSeesOutput` of `Executor` | `MCExecutor` with the fork-join graph and a submitted payload that holds what the branches write | the branches return whole payloads, and a stale copy of one overwrites the result of another |
| `JoinWaits` and `NodeRunsOnce` of `Executor` | `MCExecutor` with `UnevenEdges` and `WritesNothing`, no gate and no condition | a join with a shortcut beside a longer branch counts an edge twice and does not wait |
| `NothingOutlivesRun` of `Executor` | `MCExecutorLoop` | a run should not leave nodes half-run (`.verify/features/execution-control.md:8`); after an Err it returns while tasks of the level still run, as dropping the JoinSet aborts them asynchronously, and the command of a Verify node (`runner.rs:590`) is not killed at all |
| `CancelEnds` of `Executor` | `MCExecutorLoop` | a running workflow should stop cleanly on a signal (`.verify/features/execution-control.md:7`); the token is read between levels only (`runner.rs:329`), so a level that waits for a gate is never cancelled |
| `EscalatesAfterRetries` of `NodeRetry` | `MCNodeRetry` | the other model should be tried after the retries are exhausted (`CHANGELOG.md:325`); a node with four retries has opened its circuit by then, and fails without it and without a dead letter |
| `HistoryHasItsId` of `WorkflowManager` | `MCWorkflowManager` | `submit` should return the execution id to track it by (`CHANGELOG.md:364`, `CONTEXT.md:148`); the run makes another (`runner.rs:299`), which the manager drops (`workflow_manager.rs:191`), so the history of the returned one is not found (`api.rs:65`) |
| `RefusalIsTemporary` of `WorkflowManager` | `MCWorkflowManager` | executions whose task panicked keep their place in the queue for ever, and so do those that wait for a gate nobody answers |
| `RecordedBeforeWork` of `Idempotency` | `MCIdempotency` | a new key should be recorded before the work runs (`.verify/features/execution-control.md:14`, `.verify/knowledge-base/execution-control.md:10`); the stores offer look-up and record, and the record holds the result, so it comes after: two callers, or one before and after a crash, both run the work |
| `EscalationIsConsecutive` of `BrainRouter` | `MCBrainRouter` | the counts are called consecutive failures (`router.rs:7`); a success into the node between two failures does not reset them, only a success of the node itself |
| `SelectReturns` of `BrainRouter` | `MCBrainRouter` | `select_workflow` is called on a worker of the runtime, where `block_on` panics |
| `WildcardsMatch` of `Events` | `MCEvents` | on the in-memory bus a wildcard is the name of a channel like any other |

Seen while reading, and visible in the models as what they allow: `--brain` makes a router
without a path to agent-brain (`brain_router.rs:61`), which therefore never connects and always
uses the fallback; a gate whose name has neither "gate" nor "approve" in it is answered by the
local agent whatever its setting; an HTTP request makes a supervisor that nobody else has, so
its nodes can only time out; the documents say that idempotency runs inside `run` and `serve`,
and nothing there calls it; two nodes that complete in one millisecond have one message id.

## 6. Not modelled, and the plan

Not modelled, for want of state that a property could be about: parsing of YAML and rendering
of graphs; read-only handlers of the APIs; brain enrichment, trajectory log and redaction in
the executor; set-up, update, logging and exports; dashboards and the editor extension; git
and file operations of speculative execution (pure I/O). The agent registry of `event.rs`
(131-163, 242-287) is a map with time stamps that nothing else reads;
`auto_submit_triggered_workflows` of `brain_router.rs` is called by tests only.

Every safety property that a run checks is proved. Left to prove: a refinement mapping from a
composition of `Executor`, `NodeRetry` and `Supervisor` to `Executor` alone. The three are modelled
apart, and `CallsAreAllowed` states of `NodeRetry` alone what `Supervisor` relies on.
