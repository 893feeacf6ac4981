--------------------------- MODULE SnapshotStore ---------------------------
(***************************************************************************)
(* The SQLite snapshot store (state.rs, snapshot.rs) as the executors and  *)
(* the start-up recovery of `serve` and `mcp` use it.                      *)
(*                                                                         *)
(* Every executor opens its own connection on the same state.db, and so    *)
(* does every recovery; several operating system processes may do this at  *)
(* once.  An append is two statements in autocommit mode, a COUNT and then *)
(* an INSERT, and any other connection may write between the two.          *)
(***************************************************************************)
EXTENDS Naturals, FiniteSets

CONSTANTS
  Exec,       \* executions; each has exactly one executor, which is its own writer
  Recoverer,  \* runs of recover_interrupted, one per start of serve or mcp
  None,       \* no snapshot in memory yet
  MaxSteps    \* bound: an execution walks at most this many levels

ASSUME WritersDiffer == Exec \cap Recoverer = {}
ASSUME MaxStepsIsNat == MaxSteps \in Nat

Writer == Exec \cup Recoverer

\* `to` of the transition edge: "none" stands for the root snapshot, which has
\* no transition, and "node" for the names of the next level's nodes.
Terminal == {"END", "CANCELLED", "INTERRUPTED"}
Label == {"none", "node"} \cup Terminal

Id == [by : Writer, seq : Nat]
Root == [by |-> "none", seq |-> 0]          \* parent_id: None

Snapshot == [exec : Exec, by : Writer, seq : Nat, parent : Id \cup {Root}, to : Label]

PcState == {"idle", "append", "insert", "walk", "completed", "failed", "crashed",
            "scan", "done", "aborted"}

VARIABLES
  rows,  \* rows[e]: the rows of the table with execution_id e
  snap,  \* snap[w]: the snapshot w holds in memory (executor: current_snapshot; recovery: closing)
  pc,    \* pc[w]: where writer w is
  todo,  \* todo[r]: the execution ids recovery r has listed and not examined yet
  lost   \* history: lost[r] are the executions that had already crashed when r listed
         \* the store, without those r failed to read

vars == <<rows, snap, pc, todo, lost>>

IdOf(s) == [by |-> s.by, seq |-> s.seq]

InitialSnapshot(e) == [exec |-> e, by |-> e, seq |-> 0, parent |-> Root, to |-> "none"]

\* StateSnapshot::transition: the child of s that writer w makes.
Transition(s, w, to) ==
  [exec |-> s.exec, by |-> w, seq |-> s.seq + 1, parent |-> IdOf(s), to |-> to]

LastRow(e) == CHOOSE s \in rows[e] : \A t \in rows[e] : t.seq <= s.seq

Live(e) == pc[e] \in {"append", "insert", "walk"}

----------------------------------------------------------------------------

Init ==
  /\ rows = [e \in Exec |-> {}]
  /\ snap = [w \in Writer |-> None]
  /\ pc = [w \in Writer |-> "idle"]
  /\ todo = [r \in Recoverer |-> {}]
  /\ lost = [r \in Recoverer |-> {}]

(***************************************************************************)
(* The append shared by executors and recoveries.                          *)
(***************************************************************************)
\* Mutant: a recovery logs the error and goes on.
FailedIsSkipped(w) == IF w \in Recoverer THEN "scan" ELSE "failed"

Failed(w) == IF w \in Recoverer THEN "aborted" ELSE "failed"

AppendedPc(w) ==
  IF w \in Recoverer THEN "scan"
  ELSE IF snap[w].to \in Terminal THEN "completed" ELSE "walk"

\* SELECT COUNT(*) and the InvalidSequence check.
CountRows(w) ==
  /\ pc[w] = "append"
  /\ pc' = [pc EXCEPT ![w] = IF snap[w].seq = Cardinality(rows[snap[w].exec])
                             THEN "insert" ELSE Failed(w)]
  /\ UNCHANGED <<rows, snap, todo, lost>>

\* UNIQUE(execution_id, sequence).
KeyIsFree(s) == \A t \in rows[s.exec] : t.seq # s.seq

\* Mutant: INSERT OR REPLACE.
InsertOrReplace(w) ==
  /\ pc[w] = "insert"
  /\ rows' = [rows EXCEPT ![snap[w].exec] =
                {t \in @ : t.seq # snap[w].seq} \cup {snap[w]}]
  /\ pc' = [pc EXCEPT ![w] = AppendedPc(w)]
  /\ UNCHANGED <<snap, todo, lost>>

InsertRow(w) ==
  /\ pc[w] = "insert"
  /\ KeyIsFree(snap[w])
  /\ rows' = [rows EXCEPT ![snap[w].exec] = @ \cup {snap[w]}]
  /\ pc' = [pc EXCEPT ![w] = AppendedPc(w)]
  /\ UNCHANGED <<snap, todo, lost>>

\* Mutant: INSERT OR IGNORE.
InsertIgnored(w) ==
  /\ pc[w] = "insert"
  /\ ~KeyIsFree(snap[w])
  /\ pc' = [pc EXCEPT ![w] = AppendedPc(w)]
  /\ UNCHANGED <<rows, snap, todo, lost>>

InsertRejected(w) ==
  /\ pc[w] = "insert"
  /\ ~KeyIsFree(snap[w])
  /\ pc' = [pc EXCEPT ![w] = Failed(w)]
  /\ UNCHANGED <<rows, snap, todo, lost>>

\* A busy database, a full disk, or a payload over the size limit.
StoreError(w) ==
  /\ pc[w] \in {"append", "insert"}
  /\ pc' = [pc EXCEPT ![w] = Failed(w)]
  /\ UNCHANGED <<rows, snap, todo, lost>>

(***************************************************************************)
(* Executors.                                                              *)
(***************************************************************************)
StartRun(e) ==
  /\ pc[e] = "idle"
  /\ snap' = [snap EXCEPT ![e] = InitialSnapshot(e)]
  /\ pc' = [pc EXCEPT ![e] = "append"]
  /\ UNCHANGED <<rows, todo, lost>>

\* A level is done (or the cancel token was seen): make the next snapshot.
MakeSnapshot(e) ==
  /\ pc[e] = "walk"
  /\ \E to \in {"node", "END", "CANCELLED"} :
       /\ to = "node" => snap[e].seq < MaxSteps
       /\ snap' = [snap EXCEPT ![e] = Transition(@, e, to)]
  /\ pc' = [pc EXCEPT ![e] = "append"]
  /\ UNCHANGED <<rows, todo, lost>>

\* A node fails: run returns Err and writes nothing.
NodeFails(e) ==
  /\ pc[e] = "walk"
  /\ pc' = [pc EXCEPT ![e] = "failed"]
  /\ UNCHANGED <<rows, snap, todo, lost>>

Crash(e) ==
  /\ Live(e)
  /\ pc' = [pc EXCEPT ![e] = "crashed"]
  /\ UNCHANGED <<rows, snap, todo, lost>>

(***************************************************************************)
(* recover_interrupted.                                                    *)
(***************************************************************************)
ListExecutions(r) ==
  /\ pc[r] = "idle"
  /\ pc' = [pc EXCEPT ![r] = "scan"]
  /\ todo' = [todo EXCEPT ![r] = {e \in Exec : rows[e] # {}}]
  /\ lost' = [lost EXCEPT ![r] = {e \in Exec : pc[e] = "crashed"}]
  /\ UNCHANGED <<rows, snap>>

\* Mutant: cancelled executions are closed again.
NothingToCloseButCancelled(to) == to \in {"none", "END", "INTERRUPTED"}

\* The edges recover_interrupted leaves alone: none at all, and the closing ones.
NothingToClose(to) == to \in {"none", "END", "CANCELLED", "INTERRUPTED"}

ReadHistory(r) ==
  /\ pc[r] = "scan"
  /\ \E e \in todo[r] :
       /\ todo' = [todo EXCEPT ![r] = @ \ {e}]
       /\ IF NothingToClose(LastRow(e).to)
          THEN UNCHANGED <<snap, pc>>
          ELSE /\ snap' = [snap EXCEPT ![r] = Transition(LastRow(e), r, "INTERRUPTED")]
               /\ pc' = [pc EXCEPT ![r] = "append"]
  /\ UNCHANGED <<rows, lost>>

\* history swallows every error of the read: the execution is passed over like one
\* without rows.
ReadFails(r) ==
  /\ pc[r] = "scan"
  /\ \E e \in todo[r] :
       /\ todo' = [todo EXCEPT ![r] = @ \ {e}]
       /\ lost' = [lost EXCEPT ![r] = @ \ {e}]
  /\ UNCHANGED <<rows, snap, pc>>

FinishRecovery(r) ==
  /\ pc[r] = "scan"
  /\ todo[r] = {}
  /\ pc' = [pc EXCEPT ![r] = "done"]
  /\ UNCHANGED <<rows, snap, todo, lost>>

RecoveryCrash(r) ==
  /\ pc[r] \in {"scan", "append", "insert"}
  /\ pc' = [pc EXCEPT ![r] = "aborted"]
  /\ UNCHANGED <<rows, snap, todo, lost>>

----------------------------------------------------------------------------

AppendStep(w) == CountRows(w) \/ InsertRow(w) \/ InsertRejected(w) \/ StoreError(w)

Next ==
  \/ \E w \in Writer : AppendStep(w)
  \/ \E e \in Exec : StartRun(e) \/ MakeSnapshot(e) \/ NodeFails(e) \/ Crash(e)
  \/ \E r \in Recoverer :
       \/ ListExecutions(r) \/ ReadHistory(r) \/ ReadFails(r)
       \/ FinishRecovery(r) \/ RecoveryCrash(r)

Spec == Init /\ [][Next]_vars

----------------------------------------------------------------------------

TypeOK ==
  /\ rows \in [Exec -> SUBSET Snapshot]
  /\ snap \in [Writer -> Snapshot \cup {None}]
  /\ pc \in [Writer -> PcState]
  /\ todo \in [Recoverer -> SUBSET Exec]
  /\ lost \in [Recoverer -> SUBSET Exec]

\* The sequence numbers of an execution are 0, 1, ... without a gap and without a
\* repetition, however the COUNTs and INSERTs of an executor and of recoveries
\* interleave (state.rs append).
Contiguous ==
  \A e \in Exec :
    /\ IsFiniteSet(rows[e])
    /\ {s.seq : s \in rows[e]} = 0 .. Cardinality(rows[e]) - 1
    /\ \A s, t \in rows[e] : s.seq = t.seq => s = t

\* parent_id of every stored snapshot names the row stored just before it, also when
\* a recovery and a live executor both extended the same row (snapshot.rs).
ParentStored ==
  \A e \in Exec : \A s \in rows[e] :
    IF s.seq = 0 THEN s.parent = Root
    ELSE \E p \in rows[e] : IdOf(p) = s.parent /\ p.seq + 1 = s.seq

\* Nothing is stored behind END, CANCELLED or INTERRUPTED: an execution is closed at
\* most once, whoever closes it, and is never continued afterwards.
ClosedIsLast ==
  \A e \in Exec : \A s, t \in rows[e] : s.to \in Terminal => t.seq <= s.seq

\* An executor that reports Ok has stored its own END or CANCELLED row; no recovery
\* has closed the execution instead.
OkMeansStored ==
  \A e \in Exec : pc[e] = "completed" =>
    \E s \in rows[e] : s.by = e /\ s.to \in {"END", "CANCELLED"}

\* A recovery that returns Ok has closed every execution that had crashed before it
\* listed the store, that it could read, and that had got beyond its first level.
RecoveryCloses ==
  \A r \in Recoverer : pc[r] = "done" =>
    \A e \in lost[r] :
      Cardinality(rows[e]) > 1 => \E s \in rows[e] : s.to \in Terminal

\* What is stored stays as it is, and rows are added one at a time at the end.
GrowsAtEnd(e) ==
  \/ rows'[e] = rows[e]
  \/ \E s \in rows'[e] : /\ rows'[e] = rows[e] \cup {s}
                         /\ \A t \in rows[e] : t.seq < s.seq
AppendOnly == [][\A e \in Exec : GrowsAtEnd(e)]_vars

\* The store read the way SqliteStateStore::history reads it, ordered by sequence.
RowAt(e, k) == CHOOSE s \in rows[e] : s.seq = k
Histories == [e \in Exec |-> [k \in 1 .. Cardinality(rows[e]) |-> RowAt(e, k - 1).to]]

\* The store implements the append-only history its readers rely on (state.rs).
History == INSTANCE ExecutionHistory WITH
  history <- Histories, Opening <- "none", Inner <- {"node"}, Closing <- Terminal
ImplementsHistory == History!Spec

\* The test recovery_closes_interrupted_executions_exactly_once: an execution that
\* crashed, whatever it had stored, is closed by the next recovery.
EveryCrashedIsClosed ==
  \A r \in Recoverer : pc[r] = "done" =>
    \A e \in lost[r] : rows[e] # {} => \E s \in rows[e] : s.to \in Terminal
============================================================================
