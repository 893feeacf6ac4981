----------------------------- MODULE Supervisor -----------------------------
(***************************************************************************)
(* The supervisor (supervisor.rs): the map of pending node tasks behind    *)
(* which executors wait in `delegate` and which IDE agents, operators and  *)
(* the local agent answer through `resume` and `auto_resolve`.             *)
(*                                                                         *)
(* All executions of a process share one supervisor, and the map is keyed  *)
(* by the node name alone.  Each critical section under the lock of the    *)
(* map is one step; between two of them every other thread may run.  The   *)
(* oneshot channel of a call is split the way tokio splits it: the sender  *)
(* is in the map, in the hand of a resumer, or gone, and the receiver is   *)
(* alive while the caller waits.                                           *)
(***************************************************************************)
EXTENDS Naturals

CONSTANTS
  Task,      \* node tasks that call delegate, of any number of executions
  Name,      \* node names
  NameOf,    \* the node name of a task
  Timed,     \* the tasks that pass a timeout (all but approval gates)
  Resumer,   \* concurrent callers of resume and auto_resolve
  MaxCalls,  \* bound: a task calls delegate at most this often (its retries)
  None,      \* no entry, nothing held, nothing in the channel
  Closed     \* in a channel: its sender was dropped unused

ASSUME NamesOfTasks == NameOf \in [Task -> Name]
ASSUME TimedTasks == Timed \subseteq Task
ASSUME MaxCallsIsNat == MaxCalls \in Nat

Call == [task : Task, n : Nat]

ASSUME MarksAreFresh ==
  /\ None \notin Call /\ Closed \notin Call /\ None # Closed
  /\ None \notin {"ok", "already_pending", "dropped", "timeout"}

VARIABLES
  pending,  \* pending[x]: the call whose sender the map holds under name x, or None
  calls,    \* calls[t]: how often t has called delegate
  pc,       \* pc[t]: where t is in delegate
  chan,     \* chan[t]: the channel of t's current call: None, Closed, or the
            \* call that the answer in it was made for
  outcome,  \* outcome[t]: what the last call of t returned
  rpc,      \* rpc[r]: where resumer r is
  about,    \* about[r]: the call whose task information r has read and works on
  held      \* held[r]: the call whose sender r has taken out of the map

vars == <<pending, calls, pc, chan, outcome, rpc, about, held>>

callers == <<calls, pc, outcome>>
resumers == <<rpc, about, held>>

Current(t) == [task |-> t, n |-> calls[t]]

\* The receiver of call c still exists.
ReceiverAlive(c) == c = Current(c.task) /\ pc[c.task] \in {"waiting", "expired"}

\* Mutant: the sender is leaked instead of dropped.
LeakSender(c) == chan

\* The channels after the sender of call c is dropped unused.
DropSender(c) ==
  IF c # None /\ ReceiverAlive(c)
  THEN [chan EXCEPT ![c.task] = Closed]
  ELSE chan

Init ==
  /\ pending = [x \in Name |-> None]
  /\ calls = [t \in Task |-> 0]
  /\ pc = [t \in Task |-> "idle"]
  /\ chan = [t \in Task |-> None]
  /\ outcome = [t \in Task |-> None]
  /\ rpc = [r \in Resumer |-> "idle"]
  /\ about = [r \in Resumer |-> None]
  /\ held = [r \in Resumer |-> None]

(***************************************************************************)
(* delegate.                                                               *)
(***************************************************************************)
Return(t, result) ==
  /\ pc' = [pc EXCEPT ![t] = "idle"]
  /\ outcome' = [outcome EXCEPT ![t] = result]

\* A task calls delegate once, and again after a failure if it is retried; a gate is
\* never retried.
MayCall(t) ==
  /\ pc[t] = "idle"
  /\ calls[t] < MaxCalls
  /\ outcome[t] # "ok"
  /\ outcome[t] # None => t \in Timed

\* Mutant: any pending task is in the way.
DelegateRejectedByAny(t) ==
  /\ MayCall(t)
  /\ \E x \in Name : pending[x] # None
  /\ calls' = [calls EXCEPT ![t] = @ + 1]
  /\ Return(t, "already_pending")
  /\ UNCHANGED <<pending, chan, resumers>>

DelegateRejected(t) ==
  /\ MayCall(t)
  /\ pending[NameOf[t]] # None
  /\ calls' = [calls EXCEPT ![t] = @ + 1]
  /\ Return(t, "already_pending")
  /\ UNCHANGED <<pending, chan, resumers>>

Delegate(t) ==
  /\ MayCall(t)
  /\ pending[NameOf[t]] = None
  /\ calls' = [calls EXCEPT ![t] = @ + 1]
  /\ pending' = [pending EXCEPT ![NameOf[t]] = [task |-> t, n |-> calls[t] + 1]]
  /\ chan' = [chan EXCEPT ![t] = None]
  /\ pc' = [pc EXCEPT ![t] = "waiting"]
  /\ UNCHANGED <<outcome, resumers>>

ReceiveAnswer(t) ==
  /\ pc[t] = "waiting"
  /\ chan[t] \notin {None, Closed}
  /\ Return(t, "ok")
  /\ UNCHANGED <<pending, calls, chan, resumers>>

ReceiveClosed(t) ==
  /\ pc[t] = "waiting"
  /\ chan[t] = Closed
  /\ Return(t, "dropped")
  /\ UNCHANGED <<pending, calls, chan, resumers>>

\* Mutant: a reaper expires the entries of the map, so that a call whose entry has been
\* taken out has no timeout any more.
ExpireEntry(t) ==
  /\ t \in Timed
  /\ pc[t] = "waiting"
  /\ chan[t] = None
  /\ pending[NameOf[t]] = Current(t)
  /\ pc' = [pc EXCEPT ![t] = "expired"]
  /\ UNCHANGED <<pending, calls, chan, outcome, resumers>>

\* The timer has run out and the channel was found empty; the receiver still exists.
Expire(t) ==
  /\ t \in Timed
  /\ pc[t] = "waiting"
  /\ chan[t] = None
  /\ pc' = [pc EXCEPT ![t] = "expired"]
  /\ UNCHANGED <<pending, calls, chan, outcome, resumers>>

DropReceiver(t) ==
  /\ pc[t] = "expired"
  /\ pc' = [pc EXCEPT ![t] = "cleanup"]
  /\ UNCHANGED <<pending, calls, chan, outcome, resumers>>

\* Mutant: the caller gives up and leaves its entry for a later resume to find.
CleanupForgets(t) ==
  /\ pc[t] = "cleanup"
  /\ Return(t, "timeout")
  /\ UNCHANGED <<pending, calls, chan, resumers>>

\* pending.remove(&node_name): whatever the map holds under the name goes, and its
\* sender with it.
Cleanup(t) ==
  /\ pc[t] = "cleanup"
  /\ pending' = [pending EXCEPT ![NameOf[t]] = None]
  /\ chan' = DropSender(pending[NameOf[t]])
  /\ Return(t, "timeout")
  /\ UNCHANGED <<calls, resumers>>

\* Another node of the same level failed: run returns, and dropping its JoinSet cancels
\* the task at its await.  Nothing takes its entry out of the map.
Abort(t) ==
  /\ pc[t] = "waiting"
  /\ pc' = [pc EXCEPT ![t] = "aborted"]
  /\ UNCHANGED <<pending, calls, chan, outcome, resumers>>

(***************************************************************************)
(* resume and auto_resolve; pending_task_info and pending_payload before   *)
(* them.                                                                   *)
(***************************************************************************)
ReadInfo(r, x) ==
  /\ rpc[r] = "idle"
  /\ pending[x] # None
  /\ about' = [about EXCEPT ![r] = pending[x]]
  /\ rpc' = [rpc EXCEPT ![r] = "working"]
  /\ UNCHANGED <<pending, chan, held, callers>>

TakeTask(r) ==
  LET x == NameOf[about[r].task] IN
  /\ rpc[r] = "working"
  /\ pending[x] # None
  /\ rpc' = [rpc EXCEPT ![r] = "sending"]
  /\ held' = [held EXCEPT ![r] = pending[x]]
  /\ pending' = [pending EXCEPT ![x] = None]
  /\ UNCHANGED <<chan, about, callers>>

\* Who has read about a task need not answer it.
Leave(r) ==
  /\ rpc[r] = "working"
  /\ rpc' = [rpc EXCEPT ![r] = "idle"]
  /\ about' = [about EXCEPT ![r] = None]
  /\ UNCHANGED <<pending, chan, held, callers>>

NotPending(r) == Leave(r) /\ pending[NameOf[about[r].task]] = None

\* The send succeeds while the receiver exists, and else is reported as Dropped.
SendAnswer(r) ==
  /\ rpc[r] = "sending"
  /\ chan' = IF ReceiverAlive(held[r])
             THEN [chan EXCEPT ![held[r].task] = about[r]]
             ELSE chan
  /\ rpc' = [rpc EXCEPT ![r] = "idle"]
  /\ about' = [about EXCEPT ![r] = None]
  /\ held' = [held EXCEPT ![r] = None]
  /\ UNCHANGED <<pending, callers>>

----------------------------------------------------------------------------

CallerStep(t) ==
  \/ ReceiveAnswer(t) \/ ReceiveClosed(t) \/ Expire(t) \/ DropReceiver(t) \/ Cleanup(t)

ResumerStep(r) == TakeTask(r) \/ NotPending(r) \/ Leave(r) \/ SendAnswer(r)

Next ==
  \/ \E t \in Task : Delegate(t) \/ DelegateRejected(t) \/ CallerStep(t) \/ Abort(t)
  \/ \E r \in Resumer : (\E x \in Name : ReadInfo(r, x)) \/ ResumerStep(r)

Spec == Init /\ [][Next]_vars

----------------------------------------------------------------------------

TypeOK ==
  /\ pending \in [Name -> Call \cup {None}]
  /\ calls \in [Task -> Nat]
  /\ pc \in [Task -> {"idle", "waiting", "expired", "cleanup", "aborted"}]
  /\ chan \in [Task -> Call \cup {None, Closed}]
  /\ outcome \in [Task -> {None} \cup {"ok", "already_pending", "dropped", "timeout"}]
  /\ rpc \in [Resumer -> {"idle", "working", "sending"}]
  /\ about \in [Resumer -> Call \cup {None}]
  /\ held \in [Resumer -> Call \cup {None}]

\* No lost wake-up: a caller that waits on an empty channel can still be woken, since
\* its sender is in the map or in the hand of a resumer, whatever namesakes, timeouts
\* and concurrent resumes did to the map meanwhile (delegate, resume).
SenderSomewhere ==
  \A t \in Task : pc[t] = "waiting" /\ chan[t] = None =>
    \/ pending[NameOf[t]] = Current(t)
    \/ \E r \in Resumer : rpc[r] = "sending" /\ held[r] = Current(t)

\* An entry of the map stands under its task's name and belongs to a call that has not
\* returned, so a node that is retried never finds its own earlier entry in its way.
EntryOutlivesNoCall ==
  \A x \in Name : pending[x] # None =>
    /\ NameOf[pending[x].task] = x
    /\ pending[x] = Current(pending[x].task)
    /\ pc[pending[x].task] # "idle"

\* A task whose name no other task has is never turned away or dropped, and gets an
\* answer that was made for it; for its own call, if it has made only one.
AloneIsServed ==
  \A t \in Task : (\A u \in Task \ {t} : NameOf[u] # NameOf[t]) =>
    /\ outcome[t] \notin {"already_pending", "dropped"}
    /\ chan[t] # Closed
    /\ chan[t] # None => /\ chan[t].task = t
                         /\ calls[t] = 1 => chan[t] = Current(t)

\* Of the resumes that race for a call one answers it: what is in a channel is not
\* replaced by a second answer (remove under the lock, then send).
AnsweredOnce ==
  [][\A t \in Task : chan[t] # None /\ calls'[t] = calls[t] => chan'[t] = chan[t]]_vars

\* pending_tasks: "currently pending tasks waiting for IDE intervention"; an entry's
\* task still waits, but for the moment between its timeout and its own cleanup.
PendingIsWaiting ==
  \A x \in Name : pending[x] # None =>
    pc[pending[x].task] \in {"waiting", "expired", "cleanup"}

=============================================================================
