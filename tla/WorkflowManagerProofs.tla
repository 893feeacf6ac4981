----------------------- MODULE WorkflowManagerProofs -----------------------
(***************************************************************************)
(* Proofs about module WorkflowManager, for any number of callers,         *)
(* executions and crashes, any queue length and any number of permits.     *)
(***************************************************************************)
EXTENDS WorkflowManager, FiniteSetTheorems, SequenceTheorems, TLAPS

TaskState == {"none", "spawned", "waiting", "permitted", "running", "ok", "err",
              "marked", "over", "panicked"}

Owning == {"permitted", "running", "ok", "err", "marked"}

Admitted == {c \in Caller : caller[c] = "admitted"}

\* The place of a task says what is in the map and what its run has stored.
Told(e) ==
  /\ task[e] = "none" <=> status[e] = "absent"
  /\ task[e] \in {"spawned", "waiting", "permitted"} => status[e] = "queued" /\ ran[e] = None
  /\ task[e] \in {"running", "ok", "err", "panicked"} => status[e] = "running"
  /\ task[e] = "none" => ran[e] = None
  /\ task[e] = "ok" => ran[e] # None /\ stored[ran[e]] = "closed"
  /\ task[e] \in {"marked", "over"} => status[e] \in {"completed", "failed"}
  /\ status[e] = "completed" => ran[e] # None /\ stored[ran[e]] = "closed"
  /\ ran[e] # None => stored[ran[e]] # "none"
  /\ e \in emitted => task[e] = "over"

\* The queue of the semaphore holds waiting tasks, each once.
QueueOfWaiting ==
  /\ \A i \in 1 .. Len(waiters) : task[waiters[i]] = "waiting"
  /\ \A i, j \in 1 .. Len(waiters) : waiters[i] = waiters[j] => i = j

\* Nobody submits and nothing runs before recovery is over.
QuietAtStart ==
  phase = "starting" =>
    /\ \A c \in Caller : caller[c] = "idle"
    /\ \A e \in Exec : status[e] = "absent"

\* A caller between the two critical sections counts like the execution it will insert.
AdmissionBound == Cardinality(Active) + Cardinality(Admitted) <= MaxQueued + Cardinality(Caller) - 1

ManagerInv ==
  /\ TypeOK
  /\ QuietAtStart
  /\ \A e \in Exec : Told(e)
  /\ QueueOfWaiting
  /\ PermitsConserved
  /\ AdmissionBound
  /\ OpenIsOfThisProcess

----------------------------------------------------------------------------
(***************************************************************************)
(* The sets that are counted.                                              *)
(***************************************************************************)

\* Subsets of the executions and of the callers are finite and can be counted.
LEMMA Counted ==
  /\ \A S \in SUBSET Exec : IsFiniteSet(S) /\ Cardinality(S) \in Nat
  /\ \A S \in SUBSET Caller : IsFiniteSet(S) /\ Cardinality(S) \in Nat /\ Cardinality(S) <= Cardinality(Caller)
  /\ Cardinality(Caller) \in Nat
<1>1. \A S \in SUBSET Exec : IsFiniteSet(S) /\ Cardinality(S) \in Nat
  BY FinitelyMany, FS_Subset, FS_CardinalityType
<1>2. \A S \in SUBSET Caller : IsFiniteSet(S) /\ Cardinality(S) \in Nat /\ Cardinality(S) <= Cardinality(Caller)
  BY FinitelyMany, FS_Subset, FS_CardinalityType
<1>3. Cardinality(Caller) \in Nat
  BY FinitelyMany, FS_CardinalityType
<1> QED
  BY <1>1, <1>2, <1>3

\* The sets of the invariant are such subsets.
LEMMA SetsAreCounted ==
  /\ Active \in SUBSET Exec /\ Holders \in SUBSET Exec /\ Admitted \in SUBSET Caller
  /\ Cardinality(Active) \in Nat /\ Cardinality(Holders) \in Nat /\ Cardinality(Admitted) \in Nat
<1>1. Active \in SUBSET Exec /\ Holders \in SUBSET Exec /\ Admitted \in SUBSET Caller
  BY DEF Active, Holders, Admitted
<1> QED
  BY <1>1, Counted

\* One element more, one element less.
LEMMA CountAdd ==
  ASSUME NEW S, IsFiniteSet(S), NEW x, x \notin S
  PROVE  Cardinality(S \cup {x}) = Cardinality(S) + 1
BY FS_AddElement

LEMMA CountRemove ==
  ASSUME NEW S, IsFiniteSet(S), NEW x, x \in S
  PROVE  Cardinality(S \ {x}) = Cardinality(S) - 1
BY FS_RemoveElement

----------------------------------------------------------------------------

\* The invariant holds when the process starts for the first time.
LEMMA InitManager == Init => ManagerInv
<1> SUFFICES ASSUME Init PROVE ManagerInv
  OBVIOUS
<1>1. TypeOK
  BY MaxConcurrentIsPositive, MaxCrashesIsNat DEF Init, TypeOK
<1>2. Active = {} /\ Holders = {} /\ Admitted = {}
  BY DEF Init, Active, Holders, Admitted
<1>3. Cardinality({}) = 0
  BY FS_EmptySet
<1>4. PermitsConserved
  BY <1>2, <1>3, MaxConcurrentIsPositive DEF Init, PermitsConserved
<1>5. AdmissionBound
  BY <1>2, <1>3, Counted, MaxQueuedIsPositive DEF AdmissionBound
<1>6. QuietAtStart /\ (\A e \in Exec : Told(e)) /\ OpenIsOfThisProcess
  BY DEF Init, QuietAtStart, Told, OpenIsOfThisProcess
<1>7. QueueOfWaiting
  BY DEF Init, QueueOfWaiting
<1> QED
  BY <1>1, <1>4, <1>5, <1>6, <1>7 DEF ManagerInv
----------------------------------------------------------------------------
(***************************************************************************)
(* The semaphore.                                                          *)
(***************************************************************************)

\* A task that keeps its permit, or stays without, leaves the semaphore as it is.
LEMMA MoveKeepsSemaphore ==
  ASSUME ManagerInv, NEW e \in Exec, NEW s \in TaskState,
         task' = [task EXCEPT ![e] = s], UNCHANGED semaphore,
         task[e] # "waiting", task[e] \in Owning <=> s \in Owning
  PROVE  PermitsConserved' /\ QueueOfWaiting'
<1>1. task \in [Exec -> TaskState] /\ waiters \in Seq(Exec)
  BY DEF ManagerInv, TypeOK, TaskState
<1>2. Holders' = Holders
  BY <1>1 DEF Holders, Owning
<1>3. PermitsConserved'
  BY <1>2 DEF ManagerInv, PermitsConserved, semaphore
<1>4. \A i \in 1 .. Len(waiters) : waiters[i] \in Exec /\ waiters[i] # e
  BY <1>1 DEF ManagerInv, QueueOfWaiting
<1>5. QueueOfWaiting'
  BY <1>1, <1>4 DEF ManagerInv, QueueOfWaiting, semaphore
<1> QED
  BY <1>3, <1>5

\* A task takes a free permit or queues up.
LEMMA AcquireKeepsSemaphore ==
  ASSUME ManagerInv, NEW e \in Exec, Acquire(e)
  PROVE  /\ PermitsConserved' /\ QueueOfWaiting'
         /\ permits' \in 0 .. MaxConcurrent /\ waiters' \in Seq(Exec)
<1>1. task \in [Exec -> TaskState] /\ waiters \in Seq(Exec) /\ permits \in 0 .. MaxConcurrent
  BY DEF ManagerInv, TypeOK, TaskState
<1>2. task[e] = "spawned" /\ MaxConcurrent \in Nat
  BY MaxConcurrentIsPositive DEF Acquire
<1>3. permits + Cardinality(Holders) = MaxConcurrent /\ (waiters # <<>> => permits = 0)
  BY DEF ManagerInv, PermitsConserved
<1>4. CASE permits > 0
  <2>1. task' = [task EXCEPT ![e] = "permitted"] /\ permits' = permits - 1 /\ waiters' = waiters
    BY <1>4 DEF Acquire
  <2>2. Holders' = Holders \cup {e} /\ e \notin Holders
    BY <1>1, <1>2, <2>1 DEF Holders
  <2>3. Cardinality(Holders \cup {e}) = Cardinality(Holders) + 1
    BY <2>2, SetsAreCounted, Counted, CountAdd
  <2>4. Cardinality(Holders') = Cardinality(Holders) + 1
    BY <2>2, <2>3
  <2>5. waiters = <<>>
    BY <1>1, <1>3, <1>4
  <2>6. PermitsConserved'
    BY <1>1, <1>2, <1>3, <1>4, <2>1, <2>4, <2>5, SetsAreCounted DEF PermitsConserved
  <2>7. QueueOfWaiting'
    BY <2>1, <2>5 DEF QueueOfWaiting
  <2> QED
    BY <1>1, <1>2, <1>4, <2>1, <2>6, <2>7
<1>5. CASE ~(permits > 0)
  <2>1. task' = [task EXCEPT ![e] = "waiting"] /\ waiters' = Append(waiters, e) /\ permits' = permits
    BY <1>5 DEF Acquire
  <2>2. Holders' = Holders
    BY <1>1, <1>2, <2>1 DEF Holders
  <2>3. PermitsConserved'
    BY <1>1, <1>3, <1>5, <2>1, <2>2 DEF PermitsConserved
  <2>4. /\ waiters' \in Seq(Exec) /\ Len(waiters') = Len(waiters) + 1 /\ Len(waiters) \in Nat
        /\ waiters'[Len(waiters) + 1] = e
        /\ \A i \in 1 .. Len(waiters) : waiters'[i] = waiters[i] /\ waiters[i] \in Exec
    BY <1>1, <2>1
  <2>5. \A i \in 1 .. Len(waiters) : task[waiters[i]] = "waiting" /\ waiters[i] # e
    BY <1>2 DEF ManagerInv, QueueOfWaiting
  <2>6. \A i \in 1 .. Len(waiters') : task'[waiters'[i]] = "waiting"
    BY <1>1, <2>1, <2>4, <2>5
  <2>7. \A i, j \in 1 .. Len(waiters) : waiters[i] = waiters[j] => i = j
    BY DEF ManagerInv, QueueOfWaiting
  <2>8. \A i, j \in 1 .. Len(waiters') : waiters'[i] = waiters'[j] => i = j
    BY <2>4, <2>5, <2>7
  <2> QED
    BY <1>1, <2>1, <2>3, <2>4, <2>6, <2>8 DEF QueueOfWaiting
<1> QED
  BY <1>4, <1>5

\* What a released permit does: it is free, or the first waiter has it.
Handed(e, end) ==
  /\ task' \in [Exec -> TaskState] /\ task'[e] = end
  /\ \A f \in Exec \ {e} : task'[f] = task[f] \/ (task[f] = "waiting" /\ task'[f] = "permitted")

LEMMA ReleaseKeepsSemaphore ==
  ASSUME ManagerInv, NEW e \in Exec, task[e] \in Owning,
         NEW end \in {"panicked", "over"}, Release(e, end)
  PROVE  /\ PermitsConserved' /\ QueueOfWaiting' /\ Handed(e, end)
         /\ permits' \in 0 .. MaxConcurrent /\ waiters' \in Seq(Exec)
<1>1. task \in [Exec -> TaskState] /\ waiters \in Seq(Exec) /\ permits \in 0 .. MaxConcurrent
  BY DEF ManagerInv, TypeOK, TaskState
<1>2. MaxConcurrent \in Nat /\ end \in TaskState /\ end \notin Owning /\ end # "waiting"
  BY MaxConcurrentIsPositive DEF TaskState, Owning
<1>3. permits + Cardinality(Holders) = MaxConcurrent /\ (waiters # <<>> => permits = 0)
  BY DEF ManagerInv, PermitsConserved
<1>4. e \in Holders
  BY DEF Holders, Owning
<1>5. Cardinality(Holders \ {e}) = Cardinality(Holders) - 1
  BY <1>4, SetsAreCounted, Counted, CountRemove
<1>6. CASE waiters = <<>>
  <2>1. task' = [task EXCEPT ![e] = end] /\ permits' = permits + 1 /\ waiters' = waiters
    BY <1>6 DEF Release
  <2>2. Holders' = Holders \ {e}
    BY <1>1, <1>2, <2>1 DEF Holders, Owning
  <2>3. Cardinality(Holders') = Cardinality(Holders) - 1 /\ Cardinality(Holders') \in Nat
    BY <1>5, <2>2, SetsAreCounted, Counted
  <2>4. PermitsConserved' /\ permits' \in 0 .. MaxConcurrent
    BY <1>1, <1>2, <1>3, <1>6, <2>1, <2>3, SetsAreCounted DEF PermitsConserved
  <2>5. QueueOfWaiting'
    BY <1>6, <2>1 DEF QueueOfWaiting
  <2>6. Handed(e, end)
    BY <1>1, <1>2, <2>1 DEF Handed
  <2> QED
    BY <1>1, <2>1, <2>4, <2>5, <2>6
<1>7. CASE waiters # <<>>
  <2> DEFINE h == Head(waiters)
  <2>1. task' = [task EXCEPT ![e] = end, ![h] = "permitted"] /\ waiters' = Tail(waiters) /\ permits' = permits
    BY <1>7 DEF Release
  <2>2. /\ h \in Exec /\ h = waiters[1] /\ Len(waiters) \in Nat /\ 1 \in 1 .. Len(waiters)
        /\ waiters' \in Seq(Exec) /\ Len(waiters') = Len(waiters) - 1
        /\ \A i \in 1 .. Len(waiters') : waiters'[i] = waiters[i + 1] /\ i + 1 \in 1 .. Len(waiters)
    BY <1>1, <1>7, <2>1
  <2>3. task[h] = "waiting"
    BY <2>2 DEF ManagerInv, QueueOfWaiting
  <2>4. h # e /\ h \notin Holders
    BY <2>3 DEF Owning, Holders
  <2> HIDE DEF h
  <2>5. Holders' = (Holders \ {e}) \cup {h}
    BY <1>1, <1>2, <2>1, <2>2, <2>4 DEF Holders, Owning
  <2>6. Cardinality((Holders \ {e}) \cup {h}) = Cardinality(Holders \ {e}) + 1
    <3>1. Holders \ {e} \in SUBSET Exec
      BY SetsAreCounted
    <3>2. IsFiniteSet(Holders \ {e}) /\ h \notin Holders \ {e}
      BY <3>1, <2>4, Counted
    <3> QED
      BY <3>2, CountAdd
  <2>7. Cardinality(Holders') = Cardinality(Holders)
    BY <1>5, <2>5, <2>6, SetsAreCounted
  <2>8. PermitsConserved'
    BY <1>3, <1>7, <2>1, <2>7 DEF PermitsConserved
  <2>9. \A i \in 1 .. Len(waiters) : waiters[i] \in Exec /\ task[waiters[i]] = "waiting" /\ waiters[i] # e
    BY <1>1 DEF ManagerInv, QueueOfWaiting, Owning
  <2>10. \A i, j \in 1 .. Len(waiters) : waiters[i] = waiters[j] => i = j
    BY DEF ManagerInv, QueueOfWaiting
  <2>11. \A i \in 1 .. Len(waiters') : waiters'[i] # h /\ task'[waiters'[i]] = "waiting"
    BY <1>1, <2>1, <2>2, <2>9, <2>10
  <2>12. \A i, j \in 1 .. Len(waiters') : waiters'[i] = waiters'[j] => i = j
    BY <2>2, <2>10
  <2>13. QueueOfWaiting'
    BY <2>11, <2>12 DEF QueueOfWaiting
  <2>14. Handed(e, end)
    BY <1>1, <1>2, <2>1, <2>2, <2>3, <2>4 DEF Handed, TaskState
  <2> QED
    BY <1>1, <2>1, <2>2, <2>8, <2>13, <2>14
<1> QED
  BY <1>6, <1>7
----------------------------------------------------------------------------
(***************************************************************************)
(* The steps, by the sets they count.                                      *)
(***************************************************************************)

\* A caller passes the check: the bound has room for one more than the other callers.
LEMMA StepAdmit == ASSUME ManagerInv, NEW c \in Caller, Admit(c) PROVE ManagerInv'
<1>1. /\ caller[c] = "idle" /\ caller' = [caller EXCEPT ![c] = "admitted"]
      /\ UNCHANGED <<process, refused, status, task, semaphore, histories, emitted>>
      /\ phase = "serving" /\ Cardinality(Active) < MaxQueued
  BY DEF Admit, HasRoom
<1>2. TypeOK'
  BY <1>1 DEF ManagerInv, TypeOK, process, semaphore, histories
<1>3. Admitted' = Admitted \cup {c} /\ c \notin Admitted /\ Active' = Active
  BY <1>1 DEF ManagerInv, TypeOK, Admitted, Active
<1>4. Cardinality(Admitted \cup {c}) = Cardinality(Admitted) + 1
  BY <1>3, SetsAreCounted, Counted, CountAdd
<1>5. Admitted \cup {c} \in SUBSET Caller
  BY SetsAreCounted
<1>6. Cardinality(Admitted \cup {c}) <= Cardinality(Caller)
  BY <1>5, Counted
<1>7. Cardinality(Admitted') = Cardinality(Admitted) + 1 /\ Cardinality(Admitted') <= Cardinality(Caller)
  BY <1>3, <1>4, <1>6
<1>8. AdmissionBound'
  BY <1>1, <1>3, <1>7, SetsAreCounted, Counted, MaxQueuedIsPositive DEF AdmissionBound
<1>9. QueueOfWaiting' /\ PermitsConserved'
  BY <1>1 DEF ManagerInv, QueueOfWaiting, PermitsConserved, Holders, semaphore
<1>10. QuietAtStart' /\ OpenIsOfThisProcess'
  BY <1>1 DEF ManagerInv, QuietAtStart, OpenIsOfThisProcess, process, histories
<1>11. \A e \in Exec : Told(e)'
  BY <1>1 DEF ManagerInv, Told, histories
<1> QED
  BY <1>2, <1>8, <1>9, <1>10, <1>11 DEF ManagerInv

\* A submission that is refused, or given up, inserts nothing.
LEMMA StepTurnedAway ==
  ASSUME ManagerInv, NEW c \in Caller, Refuse(c) \/ OpenFails(c) PROVE ManagerInv'
<1>1. /\ UNCHANGED <<process, status, task, semaphore, histories, emitted>>
      /\ caller' \in [Caller -> {"idle", "admitted"}] /\ refused' \in [Caller -> BOOLEAN]
      /\ \A d \in Caller : caller'[d] = "admitted" => caller[d] = "admitted"
  BY DEF ManagerInv, TypeOK, Refuse, OpenFails
<1>2. TypeOK'
  BY <1>1 DEF ManagerInv, TypeOK, process, semaphore, histories
<1>3. Admitted' \in SUBSET Admitted /\ Active' = Active
  BY <1>1 DEF Admitted, Active
<1>4. Cardinality(Admitted') <= Cardinality(Admitted) /\ Cardinality(Admitted') \in Nat
  BY <1>3, SetsAreCounted, Counted, FS_Subset, FS_CardinalityType
<1>5. AdmissionBound'
  BY <1>3, <1>4, SetsAreCounted, Counted, MaxQueuedIsPositive DEF ManagerInv, AdmissionBound
<1>6. QueueOfWaiting' /\ PermitsConserved'
  BY <1>1 DEF ManagerInv, QueueOfWaiting, PermitsConserved, Holders, semaphore
<1>7. \A d \in Caller : caller'[d] # "admitted" => caller'[d] = "idle"
  BY <1>1
<1>8. QuietAtStart' /\ OpenIsOfThisProcess'
  BY <1>1, <1>7 DEF ManagerInv, QuietAtStart, OpenIsOfThisProcess, process, histories
<1>9. \A e \in Exec : Told(e)'
  BY <1>1 DEF ManagerInv, Told, histories
<1> QED
  BY <1>2, <1>5, <1>6, <1>8, <1>9 DEF ManagerInv

\* An insertion exchanges an admitted caller for an active execution.
LEMMA StepInsert == ASSUME ManagerInv, NEW c \in Caller, NEW e \in Exec, Insert(c, e) PROVE ManagerInv'
<1>1. /\ caller[c] = "admitted" /\ status[e] = "absent"
      /\ status' = [status EXCEPT ![e] = "queued"]
      /\ task' = [task EXCEPT ![e] = "spawned"]
      /\ caller' = [caller EXCEPT ![c] = "idle"]
      /\ refused' = [refused EXCEPT ![c] = FALSE]
      /\ UNCHANGED <<process, semaphore, histories, emitted>>
  BY DEF Insert, Unused
<1>2. TypeOK'
  BY <1>1 DEF ManagerInv, TypeOK, process, semaphore, histories
<1>3. task[e] = "none" /\ e \notin emitted /\ phase = "serving"
  BY <1>1 DEF ManagerInv, Told, QuietAtStart, TypeOK
<1>4. Active' = Active \cup {e} /\ e \notin Active
  BY <1>1 DEF ManagerInv, TypeOK, Active
<1>5. Admitted' = Admitted \ {c} /\ c \in Admitted
  BY <1>1 DEF ManagerInv, TypeOK, Admitted
<1>6. Cardinality(Active \cup {e}) = Cardinality(Active) + 1
  BY <1>4, SetsAreCounted, Counted, CountAdd
<1>7. Cardinality(Admitted \ {c}) = Cardinality(Admitted) - 1
  BY <1>5, SetsAreCounted, Counted, CountRemove
<1>8. Cardinality(Active') + Cardinality(Admitted') = Cardinality(Active) + Cardinality(Admitted)
  BY <1>4, <1>5, <1>6, <1>7, SetsAreCounted
<1>9. AdmissionBound'
  BY <1>8 DEF ManagerInv, AdmissionBound
<1>10. PermitsConserved' /\ QueueOfWaiting'
  BY <1>1, <1>3, MoveKeepsSemaphore DEF TaskState, Owning
<1>11. QuietAtStart' /\ OpenIsOfThisProcess'
  BY <1>1, <1>3 DEF ManagerInv, TypeOK, QuietAtStart, OpenIsOfThisProcess, process, histories
<1>12. \A f \in Exec : Told(f)'
  BY <1>1, <1>3 DEF ManagerInv, TypeOK, Told, histories
<1> QED
  BY <1>2, <1>9, <1>10, <1>11, <1>12 DEF ManagerInv

\* A step that makes no execution active and admits nobody keeps within the bound.
LEMMA BoundKept ==
  ASSUME ManagerInv, Active' \in SUBSET Active, Admitted' \in SUBSET Admitted PROVE AdmissionBound'
<1>1. Cardinality(Active') <= Cardinality(Active) /\ Cardinality(Active') \in Nat
  BY SetsAreCounted, Counted, FS_Subset, FS_CardinalityType
<1>2. Cardinality(Admitted') <= Cardinality(Admitted) /\ Cardinality(Admitted') \in Nat
  BY SetsAreCounted, Counted, FS_Subset, FS_CardinalityType
<1> QED
  BY <1>1, <1>2, SetsAreCounted, Counted, MaxQueuedIsPositive DEF ManagerInv, AdmissionBound

\* What a run may store: an id that no run has, or its own history, further on.
LEMMA RunsStoreTheirOwn ==
  ASSUME ManagerInv, NEW e \in Exec, RunStep(e)
  PROVE  /\ task[e] = "running" /\ status' = status
         /\ \/ UNCHANGED <<ran, stored>>
            \/ /\ ran' = ran /\ ran[e] \in Run
               /\ \E h \in {"open", "closed"} : stored' = [stored EXCEPT ![ran[e]] = h]
               /\ stored[ran[e]] = "closed" => stored'[ran[e]] = "closed"
            \/ \E r \in Run : /\ ran[e] = None /\ ran' = [ran EXCEPT ![e] = r]
                              /\ stored[r] = "none" /\ stored' = [stored EXCEPT ![r] = "root"]
<1>1. ran[e] \in Run \cup {None} /\ stored \in [Run -> {"none", "root", "open", "closed"}]
  BY DEF ManagerInv, TypeOK
<1>2. CASE \E r \in Run : StoreRoot(e, r)
  BY <1>2 DEF StoreRoot, Fresh
<1>3. CASE StoreLevel(e)
  BY <1>1, <1>3 DEF StoreLevel
<1>4. CASE RunOk(e)
  BY <1>1, <1>4 DEF RunOk
<1>5. CASE RunErr(e) \/ Panic(e)
  BY <1>5 DEF RunErr, Panic, histories
<1> QED
  BY <1>2, <1>3, <1>4, <1>5 DEF RunStep

\* What the store says of the executions stays as true as it was, and what is left open is
\* still of a run of this process.
KeepsTelling(e) ==
  /\ \A f \in Exec : /\ f # e => ran'[f] = ran[f]
                     /\ ran[f] # None => ran'[f] = ran[f]
                     /\ ran'[f] # None => stored'[ran'[f]] # "none"
                     /\ ran[f] # None /\ stored[ran[f]] = "closed" => stored'[ran[f]] = "closed"
  /\ OpenIsOfThisProcess'

\* A step of a run keeps the store telling, and happens while the process serves.
LEMMA RunsKeepOthers ==
  ASSUME ManagerInv, NEW e \in Exec, RunStep(e)
  PROVE  KeepsTelling(e) /\ phase = "serving"
<1>1. /\ ran \in [Exec -> Run \cup {None}] /\ None \notin Run
      /\ stored \in [Run -> {"none", "root", "open", "closed"}]
      /\ \A f \in Exec : ran[f] # None => ran[f] \in Run /\ stored[ran[f]] # "none"
  BY IdsAreUnique DEF ManagerInv, TypeOK, Told
<1>2. phase = "serving" /\ UNCHANGED <<phase, unread>>
  <2>1. status[e] # "absent"
    BY RunsStoreTheirOwn DEF ManagerInv, Told
  <2>2. UNCHANGED <<phase, unread>>
    BY DEF RunStep, StoreRoot, StoreLevel, RunOk, RunErr, Panic, process, histories
  <2> QED
    BY <2>1, <2>2 DEF ManagerInv, QuietAtStart, TypeOK
<1>3. \A r \in Run : stored[r] = "open" => r \in unread \/ \E f \in Exec : ran[f] = r
  BY <1>2 DEF ManagerInv, OpenIsOfThisProcess
<1>4. CASE UNCHANGED <<ran, stored>>
  BY <1>1, <1>2, <1>3, <1>4 DEF KeepsTelling, OpenIsOfThisProcess
<1>5. ASSUME ran' = ran, ran[e] \in Run, NEW h \in {"open", "closed"},
             stored' = [stored EXCEPT ![ran[e]] = h],
             stored[ran[e]] = "closed" => stored'[ran[e]] = "closed"
      PROVE  KeepsTelling(e)
  <2>1. stored'[ran[e]] = h /\ \A r \in Run \ {ran[e]} : stored'[r] = stored[r]
    BY <1>1, <1>5
  <2>2. OpenIsOfThisProcess'
    BY <1>2, <1>3, <1>5, <2>1 DEF OpenIsOfThisProcess
  <2> QED
    BY <1>1, <1>5, <2>1, <2>2 DEF KeepsTelling
<1>6. ASSUME NEW r \in Run, ran[e] = None, ran' = [ran EXCEPT ![e] = r],
             stored[r] = "none", stored' = [stored EXCEPT ![r] = "root"]
      PROVE  KeepsTelling(e)
  <2>1. /\ stored'[r] = "root" /\ \A q \in Run \ {r} : stored'[q] = stored[q]
        /\ ran'[e] = r /\ \A f \in Exec \ {e} : ran'[f] = ran[f]
    BY <1>1, <1>6
  <2>2. \A q \in Run : stored'[q] = "open" => stored[q] = "open"
    BY <2>1
  <2>3. \A f \in Exec, q \in Run : ran[f] = q => ran'[f] = q
    BY <1>1, <1>6, <2>1
  <2>4. OpenIsOfThisProcess'
    BY <1>2, <1>3, <2>2, <2>3 DEF OpenIsOfThisProcess
  <2> QED
    BY <1>1, <1>6, <2>1, <2>4 DEF KeepsTelling
<1> QED
  BY <1>2, <1>4, <1>5, <1>6, RunsStoreTheirOwn

\* The task of e moves on without touching the semaphore.
LEMMA StepOwnMove ==
  ASSUME ManagerInv, NEW e \in Exec,
         MarkRunning(e) \/ MarkEnded(e)
  PROVE  ManagerInv'
<1>1. UNCHANGED <<process, callers, semaphore, histories, emitted>>
  BY DEF MarkRunning, MarkEnded
<1>2. TypeOK'
  BY <1>1 DEF ManagerInv, TypeOK, MarkRunning, MarkEnded, process, callers, semaphore, histories
<1>3. /\ \E s \in TaskState : /\ task' = [task EXCEPT ![e] = s]
                              /\ task[e] \in Owning /\ s \in Owning
      /\ task[e] # "waiting"
  BY DEF MarkRunning, MarkEnded, TaskState, Owning
<1>4. PermitsConserved' /\ QueueOfWaiting'
  BY <1>1, <1>3, MoveKeepsSemaphore
<1>5. Active' \in SUBSET Active
  <2>1. task[e] = "permitted" => status[e] = "queued"
    BY DEF ManagerInv, Told
  <2> QED
    BY <2>1 DEF ManagerInv, TypeOK, Active, MarkRunning, MarkEnded
<1>6. Admitted' = Admitted
  BY <1>1 DEF Admitted, callers
<1>7. AdmissionBound'
  BY <1>5, <1>6, BoundKept
<1>8. status[e] # "absent" /\ phase = "serving"
  <2>1. status[e] # "absent"
    BY <1>3 DEF ManagerInv, Told, Owning
  <2> QED
    BY <2>1 DEF ManagerInv, QuietAtStart, TypeOK
<1>9. QuietAtStart' /\ OpenIsOfThisProcess'
  BY <1>1, <1>8 DEF ManagerInv, QuietAtStart, OpenIsOfThisProcess, process, histories
<1>10. ASSUME NEW f \in Exec PROVE Told(f)'
  <2>1. CASE MarkRunning(e)
    BY <1>1, <2>1 DEF ManagerInv, TypeOK, Told, MarkRunning, histories
  <2>2. CASE MarkEnded(e)
    BY <1>1, <2>2 DEF ManagerInv, TypeOK, Told, MarkEnded, histories
  <2> QED
    BY <2>1, <2>2
<1> QED
  BY <1>2, <1>4, <1>7, <1>9, <1>10 DEF ManagerInv

\* A run goes on, or returns: its task keeps its permit.
LEMMA StepRun ==
  ASSUME ManagerInv, NEW e \in Exec,
         (\E r \in Run : StoreRoot(e, r)) \/ StoreLevel(e) \/ RunOk(e) \/ RunErr(e)
  PROVE  ManagerInv'
<1>1. /\ UNCHANGED <<process, callers, status, semaphore, emitted, unread>>
      /\ task[e] = "running" /\ RunStep(e)
  BY DEF StoreRoot, StoreLevel, RunOk, RunErr, RunStep, histories
<1>2. PICK s \in {"running", "ok", "err"} : task' = [task EXCEPT ![e] = s]
  <2>1. task = [task EXCEPT ![e] = task[e]]
    BY DEF ManagerInv, TypeOK
  <2> QED
    BY <1>1, <2>1 DEF StoreRoot, StoreLevel, RunOk, RunErr
<1>3. /\ stored' \in [Run -> {"none", "root", "open", "closed"}]
      /\ ran' \in [Exec -> Run \cup {None}]
  BY <1>1, RunsStoreTheirOwn DEF ManagerInv, TypeOK
<1>4. TypeOK'
  BY <1>1, <1>2, <1>3 DEF ManagerInv, TypeOK, process, callers, semaphore
<1>5. PermitsConserved' /\ QueueOfWaiting'
  BY <1>1, <1>2, MoveKeepsSemaphore DEF TaskState, Owning
<1>6. Active' = Active /\ Admitted' = Admitted
  BY <1>1 DEF Active, Admitted, callers
<1>7. AdmissionBound'
  BY <1>6, BoundKept
<1>8. QuietAtStart' /\ OpenIsOfThisProcess'
  BY <1>1, RunsKeepOthers DEF ManagerInv, QuietAtStart, process, KeepsTelling
<1>9. s = "ok" => ran'[e] # None /\ stored'[ran'[e]] = "closed"
  BY <1>1, <1>2 DEF ManagerInv, TypeOK, StoreRoot, StoreLevel, RunOk, RunErr
<1>10. ASSUME NEW f \in Exec PROVE Told(f)'
  <2>1. /\ Told(f) /\ status'[f] = status[f] /\ emitted' = emitted
        /\ f # e => ran'[f] = ran[f] /\ task'[f] = task[f]
        /\ ran[f] # None => ran'[f] = ran[f]
        /\ ran'[f] # None => stored'[ran'[f]] # "none"
        /\ ran[f] # None /\ stored[ran[f]] = "closed" => stored'[ran[f]] = "closed"
    BY <1>1, <1>2, RunsKeepOthers DEF ManagerInv, TypeOK, KeepsTelling
  <2>2. CASE f = e
    <3>1. task'[f] = s /\ status[f] = "running" /\ f \notin emitted
      BY <1>1, <1>2, <2>1, <2>2 DEF ManagerInv, TypeOK, Told
    <3> QED
      BY <1>2, <1>9, <2>1, <2>2, <3>1 DEF Told
  <2>3. CASE f # e
    BY <2>1, <2>3 DEF Told
  <2> QED
    BY <2>2, <2>3
<1> QED
  BY <1>4, <1>5, <1>7, <1>8, <1>10 DEF ManagerInv

\* The task of e queues for a permit, or takes one.
LEMMA StepAcquire == ASSUME ManagerInv, NEW e \in Exec, Acquire(e) PROVE ManagerInv'
<1>1. /\ PermitsConserved' /\ QueueOfWaiting'
      /\ permits' \in 0 .. MaxConcurrent /\ waiters' \in Seq(Exec)
  BY AcquireKeepsSemaphore
<1>2. UNCHANGED <<process, callers, status, histories, emitted>> /\ task[e] = "spawned"
  BY DEF Acquire
<1>3. \E s \in {"permitted", "waiting"} : task' = [task EXCEPT ![e] = s]
  BY DEF Acquire
<1>4. TypeOK'
  BY <1>1, <1>2, <1>3 DEF ManagerInv, TypeOK, process, callers, histories
<1>5. Active' = Active /\ Admitted' = Admitted
  BY <1>2 DEF Active, Admitted, callers
<1>6. AdmissionBound'
  BY <1>5, BoundKept
<1>7. QuietAtStart' /\ OpenIsOfThisProcess'
  BY <1>2 DEF ManagerInv, QuietAtStart, OpenIsOfThisProcess, process, callers, histories
<1>8. \A f \in Exec : Told(f)'
  BY <1>2, <1>3 DEF ManagerInv, TypeOK, Told, histories
<1> QED
  BY <1>1, <1>4, <1>6, <1>7, <1>8 DEF ManagerInv

\* A task is over, or has panicked, and its permit goes on.
LEMMA StepRelease == ASSUME ManagerInv, NEW e \in Exec, Panic(e) \/ Emit(e) PROVE ManagerInv'
<1>1. PICK end \in {"panicked", "over"} :
        /\ Release(e, end) /\ UNCHANGED <<process, callers, status, histories>>
        /\ end = "panicked" => task[e] = "running" /\ emitted' = emitted
        /\ end = "over" => task[e] = "marked" /\ emitted' = emitted \cup {e}
  BY DEF Panic, Emit
<1>2. task[e] \in Owning
  BY <1>1 DEF Owning
<1>3. /\ PermitsConserved' /\ QueueOfWaiting' /\ Handed(e, end)
      /\ permits' \in 0 .. MaxConcurrent /\ waiters' \in Seq(Exec)
  BY <1>1, <1>2, ReleaseKeepsSemaphore
<1>4. TypeOK'
  BY <1>1, <1>3 DEF ManagerInv, TypeOK, process, callers, histories, Handed, TaskState
<1>5. Active' = Active /\ Admitted' = Admitted
  BY <1>1 DEF Active, Admitted, callers
<1>6. AdmissionBound'
  BY <1>5, BoundKept
<1>7. QuietAtStart' /\ OpenIsOfThisProcess'
  BY <1>1 DEF ManagerInv, QuietAtStart, OpenIsOfThisProcess, process, callers, histories
<1>8. ASSUME NEW f \in Exec PROVE Told(f)'
  <2>1. Told(f) /\ status'[f] = status[f] /\ stored' = stored /\ ran' = ran
    BY <1>1 DEF ManagerInv, histories
  <2>2. CASE f = e
    BY <1>1, <1>3, <2>1, <2>2 DEF Told, Handed
  <2>3. CASE f # e
    <3>1. task'[f] = task[f] \/ (task[f] = "waiting" /\ task'[f] = "permitted")
      BY <1>3, <2>3 DEF Handed
    <3>2. f \in emitted' <=> f \in emitted
      BY <1>1, <2>3
    <3> QED
      BY <2>1, <3>1, <3>2 DEF Told
  <2> QED
    BY <2>2, <2>3
<1> QED
  BY <1>3, <1>4, <1>6, <1>7, <1>8 DEF ManagerInv

\* The process dies, and what it held in memory with it.
LEMMA StepCrash == ASSUME ManagerInv, Crash PROVE ManagerInv'
<1>1. TypeOK'
  BY MaxConcurrentIsPositive, MaxCrashesIsNat DEF ManagerInv, TypeOK, Crash
<1>2. Active' = {} /\ Holders' = {} /\ Admitted' = {}
  BY DEF Crash, Active, Holders, Admitted
<1>3. Cardinality({}) = 0
  BY FS_EmptySet
<1>4. PermitsConserved'
  BY <1>2, <1>3, MaxConcurrentIsPositive DEF Crash, PermitsConserved
<1>5. AdmissionBound'
  BY <1>2, BoundKept
<1>6. QuietAtStart' /\ (\A e \in Exec : Told(e)') /\ OpenIsOfThisProcess'
  BY DEF Crash, QuietAtStart, Told, OpenIsOfThisProcess
<1>7. QueueOfWaiting'
  BY DEF Crash, QueueOfWaiting
<1> QED
  BY <1>1, <1>4, <1>5, <1>6, <1>7 DEF ManagerInv

\* Recovery closes histories; it serves only when none is left open but those it could not
\* read.
LEMMA StepRecover == ASSUME ManagerInv, Recover \/ RecoverFails PROVE ManagerInv'
<1>1. /\ phase = "starting" /\ UNCHANGED <<crashes, callers, status, task, semaphore, emitted, ran>>
      /\ phase' \in {"starting", "serving"} /\ unread' \in SUBSET Run
      /\ \E S \in SUBSET Unclosed : Close(S) /\ (phase' = "serving" => Unclosed \ S = unread')
  <2>1. CASE Recover
    <3>1. PICK passed \in SUBSET Unclosed : Close(Unclosed \ passed) /\ unread' = passed
      BY <2>1 DEF Recover
    <3>2. Unclosed \ (Unclosed \ passed) = passed /\ Unclosed \ passed \in SUBSET Unclosed
      OBVIOUS
    <3>3. unread' \in SUBSET Run
      BY <3>1 DEF Unclosed
    <3> QED
      BY <2>1, <3>1, <3>2, <3>3 DEF Recover
  <2>2. CASE RecoverFails
    BY <2>2 DEF RecoverFails, process, ManagerInv, TypeOK
  <2> QED
    BY <2>1, <2>2
<1>2. PICK S \in SUBSET Unclosed : Close(S) /\ (phase' = "serving" => Unclosed \ S = unread')
  BY <1>1
<1>3. stored' \in [Run -> {"none", "root", "open", "closed"}]
  BY <1>2 DEF ManagerInv, TypeOK, Close
<1>4. TypeOK'
  BY <1>1, <1>3 DEF ManagerInv, TypeOK, callers, semaphore
<1>5. Active' = Active /\ Admitted' = Admitted
  BY <1>1 DEF Active, Admitted, callers
<1>6. AdmissionBound'
  BY <1>5, BoundKept
<1>7. QueueOfWaiting' /\ PermitsConserved'
  BY <1>1 DEF ManagerInv, QueueOfWaiting, PermitsConserved, Holders, semaphore
<1>8. QuietAtStart'
  BY <1>1 DEF ManagerInv, QuietAtStart, callers
<1>9. OpenIsOfThisProcess'
  <2>1. \A r \in Run : stored'[r] = "open" => r \in Unclosed \ S
    BY <1>2 DEF Close, Unclosed
  <2> QED
    BY <1>2, <2>1 DEF OpenIsOfThisProcess
<1>10. \A e \in Exec : status[e] = "absent" /\ ran[e] = None /\ Told(e)
  BY <1>1 DEF ManagerInv, QuietAtStart, Told
<1>11. \A e \in Exec : Told(e)'
  BY <1>1, <1>10 DEF Told
<1> QED
  BY <1>4, <1>6, <1>7, <1>8, <1>9, <1>11 DEF ManagerInv

----------------------------------------------------------------------------

\* Every step keeps the invariant.
LEMMA NextManager == ManagerInv /\ [Next]_vars => ManagerInv'
<1> SUFFICES ASSUME ManagerInv, [Next]_vars PROVE ManagerInv'
  OBVIOUS
<1>1. ASSUME NEW c \in Caller, Submit(c) PROVE ManagerInv'
  BY <1>1, StepAdmit, StepTurnedAway, StepInsert DEF Submit
<1>2. ASSUME NEW e \in Exec, TaskStep(e) \/ RunStep(e) PROVE ManagerInv'
  BY <1>2, StepAcquire, StepOwnMove, StepRun, StepRelease DEF TaskStep, RunStep
<1>3. ASSUME Crash \/ Recover \/ RecoverFails PROVE ManagerInv'
  BY <1>3, StepCrash, StepRecover
<1>4. CASE UNCHANGED vars
  <2>1. /\ TypeOK' /\ QuietAtStart' /\ QueueOfWaiting' /\ PermitsConserved' /\ OpenIsOfThisProcess'
        /\ \A e \in Exec : Told(e)'
    BY <1>4 DEF vars, ManagerInv, TypeOK, QuietAtStart, QueueOfWaiting, PermitsConserved,
                Holders, OpenIsOfThisProcess, Told
  <2>2. AdmissionBound'
    BY <1>4 DEF vars, ManagerInv, AdmissionBound, Active, Admitted
  <2> QED
    BY <2>1, <2>2 DEF ManagerInv
<1> QED
  BY <1>1, <1>2, <1>3, <1>4 DEF Next

\* The inductive invariant: all the safety properties below follow from it.
THEOREM ManagerInvariant == Spec => []ManagerInv
<1> QED
  BY InitManager, NextManager, PTL DEF Spec

\* Every variable of the manager keeps its type.
THEOREM TypeCorrect == Spec => []TypeOK
<1>1. ManagerInv => TypeOK
  BY DEF ManagerInv
<1> QED
  BY <1>1, ManagerInvariant, PTL

\* Concurrent submissions pass the limit of the queue by no more than the other callers.
THEOREM OvershootIsBounded == Spec => []AdmissionOvershoot
<1>1. ManagerInv => AdmissionOvershoot
  BY SetsAreCounted, Counted, MaxQueuedIsPositive DEF ManagerInv, AdmissionBound, AdmissionOvershoot
<1> QED
  BY <1>1, ManagerInvariant, PTL

\* No permit is lost or doubled, and none is free while a task waits for one.
THEOREM PermitsAreConserved == Spec => []PermitsConserved
<1>1. ManagerInv => PermitsConserved
  BY DEF ManagerInv
<1> QED
  BY <1>1, ManagerInvariant, PTL

\* The status map, the events and what the run of an execution has stored never contradict
\* each other.
THEOREM StatusAgrees == Spec => []StatusIsTrue
<1>1. ManagerInv => StatusIsTrue
  <2> SUFFICES ASSUME ManagerInv, NEW e \in Exec
               PROVE  /\ status[e] = "queued" => ran[e] = None
                      /\ status[e] = "completed" => ran[e] # None /\ stored[ran[e]] = "closed"
                      /\ e \in emitted => status[e] \in {"completed", "failed"}
    BY DEF StatusIsTrue
  <2>1. Told(e) /\ task[e] \in TaskState
    BY DEF ManagerInv, TypeOK, TaskState
  <2> QED
    BY <2>1 DEF Told, TaskState
<1> QED
  BY <1>1, ManagerInvariant, PTL

\* A serving process sees no open history but those of its own runs and those that its
\* recovery could not read.
THEOREM RecoveryComesFirst == Spec => []OpenIsOfThisProcess
<1>1. ManagerInv => OpenIsOfThisProcess
  BY DEF ManagerInv
<1> QED
  BY <1>1, ManagerInvariant, PTL

=============================================================================
