-------------------------- MODULE WorkflowManager --------------------------
(***************************************************************************)
(* The workflow manager (workflow_manager.rs) of a serving process: the    *)
(* submission of executions by concurrent callers, the bound on queued and *)
(* running executions, the semaphore that admits them to run, their status *)
(* map and the events; and the life of the process, which closes what an   *)
(* earlier process has left open before it serves.                         *)
(*                                                                         *)
(* A run is seen from outside: it stores its root under an id of its own,  *)
(* which the manager never learns, then levels, and returns Ok after it    *)
(* has closed its history (module Executor), returns Err, panics, or does  *)
(* not return: it may wait for a gate.  Recovery is one step (module       *)
(* SnapshotStore has its statements).  One process at a time uses the      *)
(* store here; SnapshotStore has several.                                  *)
(***************************************************************************)
EXTENDS Integers, Sequences, FiniteSets

CONSTANTS
  Caller,         \* threads that call submit: gRPC handlers, MCP tools, triggers
  Exec,           \* ids that submit gives, numbered in the order of submission
  Run,            \* ids that runs give themselves, numbered likewise
  None,           \* no run
  MaxQueued,      \* MAX_QUEUED_EXECUTIONS (256)
  MaxConcurrent,  \* max_concurrent (1000)
  MaxCrashes      \* bound: deaths of the process

ASSUME MaxQueuedIsPositive == MaxQueued \in Nat \ {0}
ASSUME MaxConcurrentIsPositive == MaxConcurrent \in Nat \ {0}
ASSUME MaxCrashesIsNat == MaxCrashes \in Nat
ASSUME FinitelyMany == IsFiniteSet(Caller) /\ IsFiniteSet(Exec) /\ IsFiniteSet(Run)
ASSUME IdsAreNumbered == Exec \subseteq Nat /\ Run \subseteq Nat
ASSUME IdsAreUnique == Exec \cap Run = {} /\ None \notin Run

VARIABLES
  phase,    \* "starting" (recovery comes first) or "serving"
  crashes,  \* how often the process has died
  caller,   \* caller[c]: "idle" or "admitted" (between the two locks of submit)
  refused,  \* refused[c]: the last submit of c returned "execution queue is full"
  status,   \* status[e]: the entry of the map, or "absent"
  task,     \* task[e]: where the spawned task of e is
  permits,  \* free permits of the semaphore
  waiters,  \* tasks that wait for one; the semaphore is fair
  stored,   \* stored[r]: the history of run r in the store: "none", "root", "open", "closed"
  emitted,  \* executions whose completion or failure was announced in this process
  ran,      \* history: the run of e in this process, or None; the program relates them nowhere
  unread    \* history: the runs that recovery passed over since it could not read them

vars == <<phase, crashes, caller, refused, status, task, permits, waiters, stored, emitted,
          ran, unread>>

process == <<phase, crashes>>
callers == <<caller, refused>>
semaphore == <<permits, waiters>>
histories == <<stored, ran, unread>>

Active == {e \in Exec : status[e] \in {"queued", "running"}}

\* The tasks that own a permit.
Holders == {e \in Exec : task[e] \in {"permitted", "running", "ok", "err", "marked"}}

Init ==
  /\ phase = "starting"
  /\ crashes = 0
  /\ caller = [c \in Caller |-> "idle"]
  /\ refused = [c \in Caller |-> FALSE]
  /\ status = [e \in Exec |-> "absent"]
  /\ task = [e \in Exec |-> "none"]
  /\ permits = MaxConcurrent
  /\ waiters = <<>>
  /\ stored = [r \in Run |-> "none"]
  /\ emitted = {}
  /\ ran = [e \in Exec |-> None]
  /\ unread = {}

----------------------------------------------------------------------------
(***************************************************************************)
(* submit.                                                                 *)
(***************************************************************************)

\* Mutant: off by one.
HasRoomForOneMore == Cardinality(Active) <= MaxQueued

\* ensure_queue_capacity.
HasRoom == Cardinality(Active) < MaxQueued

Admit(c) ==
  /\ phase = "serving"
  /\ caller[c] = "idle"
  /\ HasRoom
  /\ caller' = [caller EXCEPT ![c] = "admitted"]
  /\ UNCHANGED <<process, refused, status, task, semaphore, histories, emitted>>

Refuse(c) ==
  /\ phase = "serving"
  /\ caller[c] = "idle"
  /\ ~HasRoom
  /\ refused' = [refused EXCEPT ![c] = TRUE]
  /\ UNCHANGED <<process, caller, status, task, semaphore, histories, emitted>>

\* The store cannot be opened.
OpenFails(c) ==
  /\ caller[c] = "admitted"
  /\ caller' = [caller EXCEPT ![c] = "idle"]
  /\ refused' = [refused EXCEPT ![c] = FALSE]
  /\ UNCHANGED <<process, status, task, semaphore, histories, emitted>>

\* e has no entry in the map.  (Of the ids of a dead process nothing is left, in the store
\* neither: they stand for new ones.)
Unused(e) == status[e] = "absent"

\* A new id enters the map, its task is spawned, and submit returns the id.
Insert(c, e) ==
  /\ caller[c] = "admitted"
  /\ Unused(e) /\ \A f \in Exec : Unused(f) => e <= f
  /\ status' = [status EXCEPT ![e] = "queued"]
  /\ task' = [task EXCEPT ![e] = "spawned"]
  /\ caller' = [caller EXCEPT ![c] = "idle"]
  /\ refused' = [refused EXCEPT ![c] = FALSE]
  /\ UNCHANGED <<process, semaphore, histories, emitted>>

----------------------------------------------------------------------------
(***************************************************************************)
(* The spawned task.                                                       *)
(***************************************************************************)

\* semaphore.acquire(): a permit, or a place in the queue.
Acquire(e) ==
  /\ task[e] = "spawned"
  /\ IF permits > 0
     THEN /\ task' = [task EXCEPT ![e] = "permitted"]
          /\ permits' = permits - 1
          /\ UNCHANGED waiters
     ELSE /\ task' = [task EXCEPT ![e] = "waiting"]
          /\ waiters' = Append(waiters, e)
          /\ UNCHANGED permits
  /\ UNCHANGED <<process, callers, status, histories, emitted>>

\* Mutant: a permit is handed on and freed as well.
ReleaseTwice(e, end) ==
  /\ permits' = permits + 1
  /\ IF waiters = <<>>
     THEN /\ task' = [task EXCEPT ![e] = end]
          /\ UNCHANGED waiters
     ELSE /\ task' = [task EXCEPT ![e] = end, ![Head(waiters)] = "permitted"]
          /\ waiters' = Tail(waiters)

\* The task of e ends and drops its permit, which goes to the first waiter.
Release(e, end) ==
  IF waiters = <<>>
  THEN /\ task' = [task EXCEPT ![e] = end]
       /\ permits' = permits + 1
       /\ UNCHANGED waiters
  ELSE /\ task' = [task EXCEPT ![e] = end, ![Head(waiters)] = "permitted"]
       /\ waiters' = Tail(waiters)
       /\ UNCHANGED permits

MarkRunning(e) ==
  /\ task[e] = "permitted"
  /\ task' = [task EXCEPT ![e] = "running"]
  /\ status' = [status EXCEPT ![e] = "running"]
  /\ UNCHANGED <<process, callers, semaphore, histories, emitted>>

\* No run has given itself this id.
Fresh(r) == stored[r] = "none"

\* run makes an id of its own and stores the root snapshot under it.
StoreRoot(e, r) ==
  /\ task[e] = "running"
  /\ ran[e] = None
  /\ Fresh(r) /\ \A q \in Run : Fresh(q) => r <= q
  /\ ran' = [ran EXCEPT ![e] = r]
  /\ stored' = [stored EXCEPT ![r] = "root"]
  /\ UNCHANGED <<process, callers, status, task, semaphore, emitted, unread>>

\* run stores the snapshot of its first level, and then others that differ in nothing here.
StoreLevel(e) ==
  /\ task[e] = "running"
  /\ ran[e] # None
  /\ stored[ran[e]] = "root"
  /\ stored' = [stored EXCEPT ![ran[e]] = "open"]
  /\ UNCHANGED <<process, callers, status, task, semaphore, emitted, ran, unread>>

\* Mutant: run announces its completion itself.
RunOkEmits(e) ==
  /\ task[e] = "running"
  /\ ran[e] # None
  /\ stored' = [stored EXCEPT ![ran[e]] = "closed"]
  /\ task' = [task EXCEPT ![e] = "ok"]
  /\ emitted' = emitted \cup {e}
  /\ UNCHANGED <<process, callers, status, semaphore, ran, unread>>

\* run has stored END or CANCELLED and returns its id, which is dropped.
RunOk(e) ==
  /\ task[e] = "running"
  /\ ran[e] # None
  /\ stored' = [stored EXCEPT ![ran[e]] = "closed"]
  /\ task' = [task EXCEPT ![e] = "ok"]
  /\ UNCHANGED <<process, callers, status, semaphore, emitted, ran, unread>>

RunErr(e) ==
  /\ task[e] = "running"
  /\ task' = [task EXCEPT ![e] = "err"]
  /\ UNCHANGED <<process, callers, status, semaphore, histories, emitted>>

\* Mutant: the guard of the permit is forgotten.
PanicKeepsPermit(e) ==
  /\ task[e] = "running"
  /\ task' = [task EXCEPT ![e] = "panicked"]
  /\ UNCHANGED <<process, callers, status, semaphore, histories, emitted>>

\* run panics (a node name with blanks around it passes validate and is not found, or a
\* node task has panicked); the runtime drops the task and its permit, nobody the entry.
Panic(e) ==
  /\ task[e] = "running"
  /\ Release(e, "panicked")
  /\ UNCHANGED <<process, callers, status, histories, emitted>>

MarkEnded(e) ==
  /\ task[e] \in {"ok", "err"}
  /\ status' = [status EXCEPT ![e] = IF task[e] = "ok" THEN "completed" ELSE "failed"]
  /\ task' = [task EXCEPT ![e] = "marked"]
  /\ UNCHANGED <<process, callers, semaphore, histories, emitted>>

\* WorkflowCompleted or WorkflowFailed; then the task is over.
Emit(e) ==
  /\ task[e] = "marked"
  /\ emitted' = emitted \cup {e}
  /\ Release(e, "over")
  /\ UNCHANGED <<process, callers, status, histories>>

----------------------------------------------------------------------------
(***************************************************************************)
(* The process.                                                            *)
(***************************************************************************)
Crash ==
  /\ crashes < MaxCrashes
  /\ crashes' = crashes + 1
  /\ phase' = "starting"
  /\ caller' = [c \in Caller |-> "idle"]
  /\ refused' = [c \in Caller |-> FALSE]
  /\ status' = [e \in Exec |-> "absent"]
  /\ task' = [e \in Exec |-> "none"]
  /\ permits' = MaxConcurrent
  /\ waiters' = <<>>
  /\ emitted' = {}
  /\ ran' = [e \in Exec |-> None]
  /\ UNCHANGED <<stored, unread>>

Close(S) == stored' = [r \in Run |-> IF r \in S THEN "closed" ELSE stored[r]]

Unclosed == {r \in Run : stored[r] = "open"}

\* recover_interrupted; then the servers are started.  A history that cannot be read looks
\* empty and is passed over without an error.
Recover ==
  /\ phase = "starting"
  /\ \E passed \in SUBSET Unclosed : Close(Unclosed \ passed) /\ unread' = passed
  /\ phase' = "serving"
  /\ UNCHANGED <<crashes, callers, status, task, semaphore, emitted, ran>>

\* Mutant: the process serves although recovery has failed.
RecoverFailsAndServes ==
  /\ phase = "starting"
  /\ \E S \in SUBSET Unclosed : S # Unclosed /\ Close(S)
  /\ phase' = "serving"
  /\ UNCHANGED <<crashes, callers, status, task, semaphore, emitted, ran, unread>>

\* An append fails half-way: the process exits, and is started again.
RecoverFails ==
  /\ phase = "starting"
  /\ \E S \in SUBSET Unclosed : S # Unclosed /\ Close(S)
  /\ UNCHANGED <<process, callers, status, task, semaphore, emitted, ran, unread>>

----------------------------------------------------------------------------

Submit(c) == Admit(c) \/ Refuse(c) \/ OpenFails(c) \/ \E e \in Exec : Insert(c, e)

RunStep(e) ==
  \/ \E r \in Run : StoreRoot(e, r)
  \/ StoreLevel(e) \/ RunOk(e) \/ RunErr(e) \/ Panic(e)

TaskStep(e) == Acquire(e) \/ MarkRunning(e) \/ MarkEnded(e) \/ Emit(e)

Next ==
  \/ \E c \in Caller : Submit(c)
  \/ \E e \in Exec : TaskStep(e) \/ RunStep(e)
  \/ Crash \/ Recover \/ RecoverFails

Spec == Init /\ [][Next]_vars

\* The runtime polls every task, and the first recovery that can succeed does in the end.
\* Nothing is assumed of run: it may wait for a gate that nobody answers, or go round.
FairSpec == Spec /\ WF_vars(Recover) /\ \A e \in Exec : WF_vars(TaskStep(e))

----------------------------------------------------------------------------

TypeOK ==
  /\ phase \in {"starting", "serving"}
  /\ crashes \in 0 .. MaxCrashes
  /\ caller \in [Caller -> {"idle", "admitted"}]
  /\ refused \in [Caller -> BOOLEAN]
  /\ status \in [Exec -> {"absent", "queued", "running", "completed", "failed"}]
  /\ task \in [Exec -> {"none", "spawned", "waiting", "permitted", "running", "ok", "err",
                        "marked", "over", "panicked"}]
  /\ permits \in 0 .. MaxConcurrent
  /\ waiters \in Seq(Exec)
  /\ stored \in [Run -> {"none", "root", "open", "closed"}]
  /\ emitted \in SUBSET Exec
  /\ ran \in [Exec -> Run \cup {None}]
  /\ unread \in SUBSET Run

\* The check of the capacity and the insertion are separate critical sections, so the
\* bound can be passed, but by no more executions than there are other callers.
AdmissionOvershoot == Cardinality(Active) <= MaxQueued + Cardinality(Caller) - 1

\* Every permit is free or owned by one live task, whatever way runs end, and is free only
\* when no task waits: no more than MaxConcurrent runs are in progress, and no fewer
\* while some are queued (in_flight_count).
PermitsConserved ==
  /\ permits + Cardinality(Holders) = MaxConcurrent
  /\ waiters # <<>> => permits = 0

\* What a client is told of an execution agrees with what its run has stored and with the
\* events, though they are written one after the other and under two ids: a queued
\* execution has no run yet, the run of a completed one has a closed history, and who has
\* seen the event of an execution finds its final status.
StatusIsTrue ==
  \A e \in Exec :
    /\ status[e] = "queued" => ran[e] = None
    /\ status[e] = "completed" => ran[e] # None /\ stored[ran[e]] = "closed"
    /\ e \in emitted => status[e] \in {"completed", "failed"}

\* False of the code: that the history of a completed execution is found under the id that
\* submit has returned and that status and events name.
HistoryHasItsId ==
  \A e \in Exec : status[e] = "completed" => e \in {r \in Run : stored[r] = "closed"}

\* While the process serves, an open history is of a run that it has started itself; what
\* an earlier process left open was closed before the first submission, or could not be
\* read then.
OpenIsOfThisProcess ==
  phase = "serving" =>
    \A r \in Run : stored[r] = "open" => r \in unread \/ \E e \in Exec : ran[e] = r

\* A queued execution is started, or lost with its process, also when others panic; unless
\* from some time on every permit is kept by a run that does not return.
QueuedStarts ==
  \A e \in Exec : status[e] = "queued" ~>
    \/ status[e] # "queued"
    \/ [](Cardinality({f \in Exec : task[f] = "running"}) = MaxConcurrent)

\* "execution queue is full; retry once a workflow finishes": a refused caller finds
\* room again.
RefusalIsTemporary == \A c \in Caller : refused[c] ~> HasRoom
=============================================================================
