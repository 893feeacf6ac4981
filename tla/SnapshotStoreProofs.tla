------------------------ MODULE SnapshotStoreProofs ------------------------
(***************************************************************************)
(* The safety of the snapshot store for any number of executions,          *)
(* recoveries and levels.                                                  *)
(***************************************************************************)
EXTENDS SnapshotStore, Sequences, FiniteSetTheorems, SequenceTheorems, TLAPS

\* What the snapshot s is, seen from the rows it will be added to: a root, or the
\* child of a stored row that does not close its execution.
Extends(s) ==
  IF s.seq = 0 THEN s.parent = Root /\ s.to = "none"
  ELSE /\ s.to # "none"
       /\ \E p \in rows[s.exec] :
            IdOf(p) = s.parent /\ p.seq + 1 = s.seq /\ p.to \notin Terminal

\* What each writer knows of the table: between COUNT and INSERT the count it saw is
\* still a lower bound, and while an executor walks, its snapshot is stored and open.
WriterOK(w) ==
  /\ w \in Exec => pc[w] \in {"idle", "append", "insert", "walk", "completed", "failed", "crashed"}
  /\ w \in Recoverer => pc[w] \in {"idle", "scan", "append", "insert", "done", "aborted"}
  /\ pc[w] \in {"append", "insert", "walk"} =>
       /\ snap[w] \in Snapshot
       /\ snap[w].by = w
       /\ w \in Exec => snap[w].exec = w /\ snap[w].to # "INTERRUPTED"
  /\ pc[w] \in {"append", "insert"} => Extends(snap[w])
  /\ pc[w] = "insert" => snap[w].seq <= Cardinality(rows[snap[w].exec])
  /\ pc[w] = "walk" =>
       /\ snap[w] \in rows[snap[w].exec]
       /\ snap[w].to \notin Terminal
  /\ w \in Exec /\ pc[w] = "completed" =>
       \E s \in rows[w] : s.by = w /\ s.to \in {"END", "CANCELLED"}

\* A row is filed under the execution it belongs to.
RowsFiled == \A e \in Exec : \A s \in rows[e] : s.exec = e

IInv ==
  /\ TypeOK
  /\ RowsFiled
  /\ Contiguous
  /\ ParentStored
  /\ ClosedIsLast
  /\ \A w \in Writer : WriterOK(w)
  /\ \A r \in Recoverer : \A e \in todo[r] : rows[e] # {}

\* A set of rows numbered 0, 1, ..., n - 1 that is not empty has a last row, and
\* LastRow picks it.
LEMMA LastRowIsLast ==
  ASSUME TypeOK, Contiguous, NEW e \in Exec, rows[e] # {}
  PROVE  LastRow(e) \in rows[e] /\ \A t \in rows[e] : t.seq <= LastRow(e).seq
<1> DEFINE n == Cardinality(rows[e])
<1>1. n \in Nat
  BY FS_CardinalityType DEF Contiguous
<1>2. \A t \in rows[e] : t.seq \in 0 .. n - 1
  BY DEF Contiguous
<1>3. n > 0
  BY <1>1, <1>2
<1>4. PICK s \in rows[e] : s.seq = n - 1
  BY <1>1, <1>3 DEF Contiguous
<1>5. \A t \in rows[e] : t.seq <= s.seq
  BY <1>1, <1>2, <1>4
<1> QED
  BY <1>4, <1>5 DEF LastRow

\* The INSERT that the UNIQUE index lets through puts its row exactly at the end.
LEMMA InsertIsAtEnd ==
  ASSUME IInv, NEW w \in Writer, InsertRow(w)
  PROVE  snap[w].seq = Cardinality(rows[snap[w].exec])
<1> DEFINE s == snap[w]
<1> DEFINE n == Cardinality(rows[s.exec])
<1>0. WriterOK(w) /\ pc[w] = "insert"
  BY DEF IInv, InsertRow
<1>1. s \in Snapshot /\ s.seq <= n
  BY <1>0 DEF WriterOK
<1>2. s.exec \in Exec /\ s.seq \in Nat
  BY <1>1 DEF Snapshot
<1>3. n \in Nat /\ {t.seq : t \in rows[s.exec]} = 0 .. n - 1
  BY <1>2, FS_CardinalityType DEF IInv, Contiguous
<1>4. s.seq \notin 0 .. n - 1
  BY <1>3 DEF InsertRow, KeyIsFree
<1> QED
  BY <1>1, <1>2, <1>3, <1>4

\* A step that leaves the table alone keeps the three invariants of the table.
LEMMA TableUnchanged ==
  ASSUME IInv, UNCHANGED rows
  PROVE  Contiguous' /\ ParentStored' /\ ClosedIsLast' /\ RowsFiled'
BY DEF IInv, RowsFiled, Contiguous, ParentStored, ClosedIsLast

\* What a writer knows stays true while others add rows.
LEMMA OthersKeep ==
  ASSUME IInv, Contiguous', NEW v \in Writer,
         pc'[v] = pc[v], snap'[v] = snap[v],
         \A e \in Exec : rows[e] \subseteq rows'[e]
  PROVE  WriterOK(v)'
<1> DEFINE s == snap[v]
<1>1. WriterOK(v)
  BY DEF IInv
<1>2. pc[v] \in {"append", "insert", "walk"} => s.exec \in Exec /\ s.seq \in Nat
  BY <1>1 DEF WriterOK, Snapshot
<1>3. ASSUME NEW e \in Exec
      PROVE  /\ Cardinality(rows[e]) \in Nat /\ Cardinality(rows'[e]) \in Nat
             /\ Cardinality(rows[e]) <= Cardinality(rows'[e])
  <2>1. IsFiniteSet(rows[e]) /\ IsFiniteSet(rows'[e])
    BY DEF IInv, Contiguous
  <2>2. QED
    BY <2>1, FS_CardinalityType, FS_Subset
<1>4. pc[v] \in {"append", "insert"} => Extends(s)'
  BY <1>1, <1>2 DEF WriterOK, Extends
<1>5. pc[v] = "insert" => s.seq <= Cardinality(rows'[s.exec])
  BY <1>1, <1>2, <1>3 DEF WriterOK
<1>6. pc[v] = "walk" => s \in rows'[s.exec]
  BY <1>1, <1>2 DEF WriterOK
<1> QED
  BY <1>1, <1>4, <1>5, <1>6 DEF WriterOK

\* The step of one writer that leaves the table and the lists of recoveries alone
\* keeps the invariant if it keeps the writer's own part of it.
LEMMA OneWriterMoves ==
  ASSUME IInv, TypeOK', NEW w \in Writer, UNCHANGED <<rows, todo>>, WriterOK(w)',
         \A v \in Writer \ {w} : pc'[v] = pc[v] /\ snap'[v] = snap[v]
  PROVE  IInv'
<1>1. Contiguous' /\ ParentStored' /\ ClosedIsLast' /\ RowsFiled'
  BY TableUnchanged
<1>2. \A v \in Writer : WriterOK(v)'
  BY <1>1, OthersKeep
<1> QED
  BY <1>1, <1>2 DEF IInv

\* The empty store satisfies IInv.
LEMMA InitEstablishes == Init => IInv
<1> SUFFICES ASSUME Init PROVE IInv
  OBVIOUS
<1>1. Contiguous
  BY FS_EmptySet DEF Init, Contiguous
<1>2. TypeOK
  BY DEF Init, TypeOK, PcState
<1>3. \A w \in Writer : WriterOK(w)
  BY DEF Init, WriterOK
<1> QED
  BY <1>1, <1>2, <1>3 DEF Init, IInv, RowsFiled, ParentStored, ClosedIsLast

\* The one step that changes the table: the row added is the child of the last row,
\* which is open, so numbering, parent links and closedness all carry over.
LEMMA InsertKeeps ==
  ASSUME IInv, NEW w \in Writer, InsertRow(w)
  PROVE  IInv'
<1> DEFINE s == snap[w]
<1> DEFINE x == s.exec
<1> DEFINE n == Cardinality(rows[x])
<1>1. WriterOK(w) /\ pc[w] = "insert"
  BY DEF IInv, InsertRow
<1>2. s \in Snapshot /\ x \in Exec /\ s.seq \in Nat /\ Extends(s)
  BY <1>1 DEF WriterOK, Snapshot
<1>3. s.seq = n
  BY InsertIsAtEnd
<1>4. /\ rows' = [rows EXCEPT ![x] = @ \cup {s}]
      /\ pc' = [pc EXCEPT ![w] = AppendedPc(w)]
      /\ UNCHANGED <<snap, todo, lost>>
      /\ \A t \in rows[x] : t.seq # s.seq
  BY DEF InsertRow, KeyIsFree
<1>5. rows \in [Exec -> SUBSET Snapshot] /\ pc \in [Writer -> PcState]
  BY DEF IInv, TypeOK
<1>6. /\ rows'[x] = rows[x] \cup {s}
      /\ \A e \in Exec \ {x} : rows'[e] = rows[e]
  BY <1>2, <1>4, <1>5
<1>7. /\ IsFiniteSet(rows[x])
      /\ {t.seq : t \in rows[x]} = 0 .. n - 1
      /\ \A t, u \in rows[x] : t.seq = u.seq => t = u
  BY <1>2 DEF IInv, Contiguous
<1>8. n \in Nat /\ IsFiniteSet(rows'[x]) /\ Cardinality(rows'[x]) = n + 1
  <2>1. s \notin rows[x]
    BY <1>4
  <2>2. n \in Nat
    BY <1>7, FS_CardinalityType
  <2>3. /\ IsFiniteSet(rows[x] \cup {s})
        /\ Cardinality(rows[x] \cup {s}) = n + 1
    BY <1>7, <2>1, FS_AddElement
  <2>4. QED
    BY <1>6, <2>2, <2>3
<1>9. TypeOK'
  BY <1>2, <1>4, <1>5, <1>6 DEF IInv, TypeOK, AppendedPc, PcState
<1>10. Contiguous'
  <2>1. {t.seq : t \in rows'[x]} = 0 .. n
    <3>1. {t.seq : t \in rows'[x]} = {t.seq : t \in rows[x]} \cup {n}
      BY <1>3, <1>6
    <3>2. 0 .. n = (0 .. n - 1) \cup {n}
      BY <1>8
    <3>3. QED
      BY <3>1, <3>2, <1>7
  <2>2. \A t, u \in rows'[x] : t.seq = u.seq => t = u
    BY <1>4, <1>6, <1>7
  <2>3. {t.seq : t \in rows'[x]} = 0 .. Cardinality(rows'[x]) - 1
    BY <2>1, <1>8
  <2>4. \A e \in Exec \ {x} :
          /\ IsFiniteSet(rows'[e])
          /\ {t.seq : t \in rows'[e]} = 0 .. Cardinality(rows'[e]) - 1
          /\ \A t, u \in rows'[e] : t.seq = u.seq => t = u
    BY <1>6 DEF IInv, Contiguous
  <2>5. QED
    BY <1>8, <2>2, <2>3, <2>4 DEF Contiguous
<1>11. ParentStored'
  <2>1. IF s.seq = 0 THEN s.parent = Root
        ELSE \E p \in rows'[x] : IdOf(p) = s.parent /\ p.seq + 1 = s.seq
    BY <1>2, <1>6 DEF Extends
  <2>2. \A t \in rows[x] :
          IF t.seq = 0 THEN t.parent = Root
          ELSE \E p \in rows'[x] : IdOf(p) = t.parent /\ p.seq + 1 = t.seq
    BY <1>2, <1>6 DEF IInv, ParentStored
  <2>3. \A e \in Exec \ {x} : \A t \in rows'[e] :
          IF t.seq = 0 THEN t.parent = Root
          ELSE \E p \in rows'[e] : IdOf(p) = t.parent /\ p.seq + 1 = t.seq
    BY <1>6 DEF IInv, ParentStored
  <2>4. QED
    BY <1>6, <2>1, <2>2, <2>3 DEF ParentStored
<1>12. ClosedIsLast'
  <2>1. \A t \in rows[x] : t.seq \in 0 .. n - 1
    BY <1>7
  <2>2. \A t \in rows[x] : t.to \notin Terminal
    <3> SUFFICES ASSUME NEW t \in rows[x], t.to \in Terminal PROVE FALSE
      OBVIOUS
    <3>1. n # 0
      BY <2>1, <1>8
    <3>2. PICK p \in rows[x] : p.seq + 1 = n /\ p.to \notin Terminal
      BY <1>2, <1>3, <3>1 DEF Extends
    <3>3. p.seq <= t.seq
      BY <1>2 DEF IInv, ClosedIsLast
    <3>4. t.seq = p.seq
      BY <2>1, <3>2, <3>3, <1>8
    <3>5. QED
      BY <3>2, <3>4, <1>7
  <2>3. \A t, u \in rows'[x] : t.to \in Terminal => u.seq <= t.seq
    BY <1>3, <1>6, <1>8, <2>1, <2>2
  <2>4. QED
    BY <1>6, <2>3 DEF IInv, ClosedIsLast
<1>13. \A v \in Writer \ {w} : WriterOK(v)'
  BY <1>4, <1>5, <1>6, <1>10, OthersKeep
<1>14. WriterOK(w)'
  <2>1. pc'[w] = AppendedPc(w) /\ snap'[w] = s
    BY <1>4, <1>5
  <2>2. CASE w \in Recoverer
    BY <1>1, <2>1, <2>2, WritersDiffer DEF WriterOK, AppendedPc
  <2>3. CASE w \in Exec
    <3>1. x = w /\ s.by = w /\ s.to # "INTERRUPTED" /\ s \in rows'[w] /\ w \notin Recoverer
      BY <1>1, <1>6, <2>3, WritersDiffer DEF WriterOK
    <3>2. CASE s.to \in Terminal
      BY <1>2, <2>1, <2>3, <3>1, <3>2 DEF WriterOK, AppendedPc, Terminal
    <3>3. CASE s.to \notin Terminal
      BY <1>2, <2>1, <2>3, <3>1, <3>3 DEF WriterOK, AppendedPc
    <3> QED
      BY <3>2, <3>3
  <2>4. QED
    BY <2>2, <2>3 DEF Writer
<1>15. \A r \in Recoverer : \A e \in todo'[r] : rows'[e] # {}
  <2>1. \A r \in Recoverer : \A e \in todo[r] : e \in Exec /\ rows[e] # {}
    BY DEF IInv, TypeOK
  <2>2. QED
    BY <1>4, <1>6, <2>1
<1>16. RowsFiled'
  BY <1>6 DEF IInv, RowsFiled
<1> QED
  BY <1>9, <1>10, <1>11, <1>12, <1>13, <1>14, <1>15, <1>16 DEF IInv

\* A step that only moves the program counter of w to a state in which nothing is
\* known of snap[w].
LEMMA OnlyPcMoves ==
  ASSUME IInv, NEW w \in Writer, NEW q \in PcState, pc' = [pc EXCEPT ![w] = q],
         UNCHANGED <<rows, snap, todo, lost>>,
         WriterOK(w)'
  PROVE  IInv'
<1>1. TypeOK'
  BY DEF IInv, TypeOK
<1>2. \A v \in Writer \ {w} : pc'[v] = pc[v] /\ snap'[v] = snap[v]
  BY DEF IInv, TypeOK
<1> QED
  BY <1>1, <1>2, OneWriterMoves

\* The three outcomes of an append keep IInv.
LEMMA AppendKeeps ==
  ASSUME IInv, NEW w \in Writer, AppendStep(w)
  PROVE  IInv'
<1>1. WriterOK(w) /\ pc \in [Writer -> PcState] /\ rows \in [Exec -> SUBSET Snapshot]
  BY DEF IInv, TypeOK
<1>2. Failed(w) \in PcState /\ "insert" \in PcState
  BY DEF Failed, PcState
<1>3. CASE CountRows(w)
  <2> DEFINE fits == snap[w].seq = Cardinality(rows[snap[w].exec])
  <2> DEFINE q == IF fits THEN "insert" ELSE Failed(w)
  <2>1. /\ pc[w] = "append"
        /\ pc' = [pc EXCEPT ![w] = q]
        /\ UNCHANGED <<rows, snap, todo, lost>>
    BY <1>3 DEF CountRows
  <2>2. q \in PcState /\ pc'[w] = q
    BY <1>1, <1>2, <2>1
  <2>3. snap[w] \in Snapshot /\ snap[w].seq \in Nat
    BY <1>1, <2>1 DEF WriterOK, Snapshot
  <2>4. WriterOK(w)'
    BY <1>1, <2>1, <2>2, <2>3, WritersDiffer DEF WriterOK, Extends, Failed
  <2> QED
    BY <2>1, <2>2, <2>4, OnlyPcMoves
<1>4. CASE InsertRow(w)
  BY <1>4, InsertKeeps
<1>5. CASE InsertRejected(w) \/ StoreError(w)
  <2>1. /\ pc[w] \in {"append", "insert"}
        /\ pc' = [pc EXCEPT ![w] = Failed(w)]
        /\ UNCHANGED <<rows, snap, todo, lost>>
    BY <1>5 DEF InsertRejected, StoreError
  <2>2. WriterOK(w)'
    BY <1>1, <2>1, WritersDiffer DEF WriterOK, Failed
  <2> QED
    BY <1>2, <2>1, <2>2, OnlyPcMoves
<1> QED
  BY <1>3, <1>4, <1>5 DEF AppendStep

\* The steps of an executor that are no append keep IInv.
LEMMA ExecutorKeeps ==
  ASSUME IInv, NEW e \in Exec,
         StartRun(e) \/ MakeSnapshot(e) \/ NodeFails(e) \/ Crash(e)
  PROVE  IInv'
<1>1. /\ e \in Writer /\ e \notin Recoverer /\ WriterOK(e)
      /\ pc \in [Writer -> PcState] /\ snap \in [Writer -> Snapshot \cup {None}]
  BY WritersDiffer DEF IInv, TypeOK, Writer
<1>2. CASE StartRun(e)
  <2>1. InitialSnapshot(e) \in Snapshot
    BY <1>1 DEF InitialSnapshot, Snapshot, Label
  <2>2. /\ pc' = [pc EXCEPT ![e] = "append"]
        /\ snap' = [snap EXCEPT ![e] = InitialSnapshot(e)]
        /\ UNCHANGED <<rows, todo, lost>>
    BY <1>2 DEF StartRun
  <2>3. TypeOK'
    BY <2>1, <2>2 DEF IInv, TypeOK, PcState
  <2>4. WriterOK(e)'
    BY <1>1, <2>1, <2>2 DEF WriterOK, Extends, InitialSnapshot
  <2> QED
    BY <1>1, <2>2, <2>3, <2>4, OneWriterMoves
<1>3. CASE MakeSnapshot(e)
  <2>1. PICK to \in {"node", "END", "CANCELLED"} :
          snap' = [snap EXCEPT ![e] = Transition(@, e, to)]
    BY <1>3 DEF MakeSnapshot
  <2>2. /\ pc[e] = "walk" /\ pc' = [pc EXCEPT ![e] = "append"]
        /\ UNCHANGED <<rows, todo, lost>>
    BY <1>3 DEF MakeSnapshot
  <2>3. /\ snap[e] \in Snapshot /\ snap[e].exec = e /\ snap[e].by = e
        /\ snap[e] \in rows[e] /\ snap[e].to \notin Terminal
    BY <1>1, <2>2 DEF WriterOK
  <2>4. /\ Transition(snap[e], e, to) \in Snapshot
        /\ snap[e].seq \in Nat
    BY <1>1, <2>3 DEF Transition, Snapshot, Label, Terminal, Id, IdOf
  <2>5. snap'[e] = Transition(snap[e], e, to) /\ pc'[e] = "append"
    BY <1>1, <2>1, <2>2
  <2>6. TypeOK'
    BY <1>1, <2>1, <2>2, <2>4 DEF IInv, TypeOK, PcState
  <2>7. Extends(snap[e])'
    BY <2>2, <2>3, <2>4, <2>5 DEF Extends, Transition, IdOf
  <2>8. WriterOK(e)'
    BY <1>1, <2>3, <2>4, <2>5, <2>7 DEF WriterOK, Transition
  <2> QED
    BY <1>1, <2>1, <2>2, <2>6, <2>8, OneWriterMoves
<1>4. CASE NodeFails(e) \/ Crash(e)
  <2>1. PICK q \in {"failed", "crashed"} : pc' = [pc EXCEPT ![e] = q]
    BY <1>4 DEF NodeFails, Crash
  <2>2. q \in PcState /\ UNCHANGED <<rows, snap, todo, lost>>
    BY <1>4 DEF NodeFails, Crash, PcState
  <2>3. WriterOK(e)'
    BY <1>1, <2>1, <2>2 DEF WriterOK
  <2> QED
    BY <1>1, <2>1, <2>2, <2>3, OnlyPcMoves
<1> QED
  BY <1>2, <1>3, <1>4

\* The steps of a recovery that are no append.
RecoveryStep(r) ==
  \/ ListExecutions(r) \/ ReadHistory(r) \/ ReadFails(r)
  \/ FinishRecovery(r) \/ RecoveryCrash(r)

\* The steps of a recovery keep IInv: the snapshot it makes extends a stored row that is
\* not a closing one.
LEMMA RecoveryKeeps ==
  ASSUME IInv, NEW r \in Recoverer,
         RecoveryStep(r)
  PROVE  IInv'
<1>1. /\ r \in Writer /\ r \notin Exec /\ WriterOK(r)
      /\ pc \in [Writer -> PcState] /\ snap \in [Writer -> Snapshot \cup {None}]
      /\ rows \in [Exec -> SUBSET Snapshot]
      /\ todo \in [Recoverer -> SUBSET Exec] /\ lost \in [Recoverer -> SUBSET Exec]
      /\ \A q \in Recoverer : \A e \in todo[q] : rows[e] # {}
  BY WritersDiffer DEF IInv, TypeOK, Writer
<1>2. CASE ListExecutions(r)
  <2>1. /\ pc' = [pc EXCEPT ![r] = "scan"]
        /\ todo' = [todo EXCEPT ![r] = {e \in Exec : rows[e] # {}}]
        /\ lost' = [lost EXCEPT ![r] = {e \in Exec : pc[e] = "crashed"}]
        /\ UNCHANGED <<rows, snap>>
    BY <1>2 DEF ListExecutions
  <2>2. TypeOK'
    BY <1>1, <2>1 DEF TypeOK, PcState
  <2>3. Contiguous' /\ ParentStored' /\ ClosedIsLast' /\ RowsFiled'
    BY <2>1, TableUnchanged
  <2>4. \A v \in Writer \ {r} : WriterOK(v)'
    BY <1>1, <2>1, <2>3, OthersKeep
  <2>5. WriterOK(r)'
    BY <1>1, <2>1 DEF WriterOK
  <2>6. \A q \in Recoverer : \A e \in todo'[q] : rows'[e] # {}
    BY <1>1, <2>1
  <2> QED
    BY <2>2, <2>3, <2>4, <2>5, <2>6 DEF IInv
<1>3. CASE ReadHistory(r)
  <2>1. PICK e \in todo[r] :
          /\ todo' = [todo EXCEPT ![r] = @ \ {e}]
          /\ IF NothingToClose(LastRow(e).to)
             THEN UNCHANGED <<snap, pc>>
             ELSE /\ snap' = [snap EXCEPT ![r] = Transition(LastRow(e), r, "INTERRUPTED")]
                  /\ pc' = [pc EXCEPT ![r] = "append"]
    BY <1>3 DEF ReadHistory
  <2>2. pc[r] = "scan" /\ UNCHANGED <<rows, lost>>
    BY <1>3 DEF ReadHistory
  <2>3. e \in Exec /\ rows[e] # {}
    BY <1>1
  <2> DEFINE l == LastRow(e)
  <2>4. l \in rows[e] /\ l \in Snapshot
    BY <1>1, <2>3, LastRowIsLast DEF IInv
  <2>5. l.exec = e
    BY <2>3, <2>4 DEF IInv, RowsFiled
  <2>6. TypeOK'
    <3>1. Transition(l, r, "INTERRUPTED") \in Snapshot
      BY <1>1, <2>4 DEF Transition, Snapshot, Label, Terminal, Id, IdOf
    <3>2. snap' \in [Writer -> Snapshot \cup {None}] /\ pc' \in [Writer -> PcState]
      BY <1>1, <2>1, <3>1 DEF PcState
    <3>3. todo' \in [Recoverer -> SUBSET Exec]
      BY <1>1, <2>1
    <3> QED
      BY <1>1, <2>2, <3>2, <3>3 DEF TypeOK
  <2>7. WriterOK(r)'
    <3>1. CASE NothingToClose(l.to)
      BY <1>1, <2>1, <2>2, <3>1 DEF WriterOK
    <3>2. CASE ~NothingToClose(l.to)
      <4>1. pc'[r] = "append" /\ snap'[r] = Transition(l, r, "INTERRUPTED")
        BY <1>1, <2>1, <3>2
      <4>2. l.to \notin Terminal
        BY <3>2 DEF NothingToClose, Terminal
      <4>3. l.seq \in Nat
        BY <2>4 DEF Snapshot
      <4>4. Extends(snap[r])'
        BY <2>2, <2>4, <2>5, <4>1, <4>2, <4>3 DEF Extends, Transition, IdOf
      <4>5. snap'[r] \in Snapshot /\ snap'[r].by = r
        BY <1>1, <2>6, <4>1, <2>4 DEF Transition, Snapshot, Label, Terminal, Id, IdOf
      <4> QED
        BY <1>1, <4>1, <4>4, <4>5 DEF WriterOK
    <3> QED
      BY <3>1, <3>2
  <2>8. Contiguous' /\ ParentStored' /\ ClosedIsLast' /\ RowsFiled'
    BY <2>2, TableUnchanged
  <2>9. \A v \in Writer \ {r} : pc'[v] = pc[v] /\ snap'[v] = snap[v]
    BY <1>1, <2>1
  <2>10. \A v \in Writer : WriterOK(v)'
    BY <2>2, <2>7, <2>8, <2>9, OthersKeep
  <2>11. \A q \in Recoverer : \A x \in todo'[q] : rows'[x] # {}
    BY <1>1, <2>1, <2>2
  <2> QED
    BY <2>6, <2>8, <2>10, <2>11 DEF IInv
<1>4. CASE FinishRecovery(r) \/ RecoveryCrash(r)
  <2>1. PICK q \in {"done", "aborted"} : pc' = [pc EXCEPT ![r] = q]
    BY <1>4 DEF FinishRecovery, RecoveryCrash
  <2>2. q \in PcState /\ UNCHANGED <<rows, snap, todo, lost>>
    BY <1>4 DEF FinishRecovery, RecoveryCrash, PcState
  <2>3. WriterOK(r)'
    BY <1>1, <2>1, <2>2 DEF WriterOK
  <2> QED
    BY <1>1, <2>1, <2>2, <2>3, OnlyPcMoves
<1>5. CASE ReadFails(r)
  <2>1. PICK e \in todo[r] :
          /\ todo' = [todo EXCEPT ![r] = @ \ {e}]
          /\ lost' = [lost EXCEPT ![r] = @ \ {e}]
    BY <1>5 DEF ReadFails
  <2>2. UNCHANGED <<rows, snap, pc>>
    BY <1>5 DEF ReadFails
  <2>3. Contiguous' /\ ParentStored' /\ ClosedIsLast' /\ RowsFiled'
    BY <2>2, TableUnchanged
  <2>4. \A w \in Writer : WriterOK(w)'
    BY <2>2, <2>3, OthersKeep
  <2>5. todo' \in [Recoverer -> SUBSET Exec] /\ lost' \in [Recoverer -> SUBSET Exec]
    BY <1>1, <2>1
  <2>6. TypeOK'
    BY <1>1, <2>2, <2>5 DEF TypeOK
  <2>7. \A q \in Recoverer : \A x \in todo'[q] : rows'[x] # {}
    BY <1>1, <2>1, <2>2
  <2> QED
    BY <2>3, <2>4, <2>6, <2>7 DEF IInv
<1> QED
  BY <1>2, <1>3, <1>4, <1>5 DEF RecoveryStep

\* Every step keeps IInv.
LEMMA StepKeeps == IInv /\ [Next]_vars => IInv'
<1> SUFFICES ASSUME IInv, [Next]_vars PROVE IInv'
  OBVIOUS
<1>1. ASSUME NEW w \in Writer, AppendStep(w) PROVE IInv'
  BY <1>1, AppendKeeps
<1>2. ASSUME NEW e \in Exec, StartRun(e) \/ MakeSnapshot(e) \/ NodeFails(e) \/ Crash(e)
      PROVE  IInv'
  BY <1>2, ExecutorKeeps
<1>3. ASSUME NEW r \in Recoverer,
             RecoveryStep(r)
      PROVE  IInv'
  BY <1>3, RecoveryKeeps
<1>4. CASE UNCHANGED vars
  <2>1. UNCHANGED <<rows, snap, pc, todo, lost>>
    BY <1>4 DEF vars
  <2>2. Contiguous' /\ ParentStored' /\ ClosedIsLast' /\ RowsFiled'
    BY <2>1, TableUnchanged
  <2>3. \A w \in Writer : WriterOK(w)'
    BY <2>1, <2>2, OthersKeep
  <2>4. TypeOK' /\ \A r \in Recoverer : \A e \in todo'[r] : rows'[e] # {}
    BY <2>1 DEF IInv, TypeOK
  <2> QED
    BY <2>2, <2>3, <2>4 DEF IInv
<1> QED
  BY <1>1, <1>2, <1>3, <1>4 DEF Next, RecoveryStep

\* IInv is an inductive invariant of the store.
THEOREM Inductive == Spec => []IInv
BY InitEstablishes, StepKeeps, PTL DEF Spec

\* Every variable keeps its type, whatever the number of writers.
THEOREM TypeCorrect == Spec => []TypeOK
<1>1. IInv => TypeOK
  BY DEF IInv
<1> QED
  BY <1>1, Inductive, PTL

\* The histories are numbered 0, 1, ... although COUNT and INSERT are separate
\* statements that other connections may run between (SqliteStateStore::append).
THEOREM HistoriesAreContiguous == Spec => []Contiguous
<1>1. IInv => Contiguous
  BY DEF IInv
<1> QED
  BY <1>1, Inductive, PTL

\* parent_id always names the row stored just before (StateSnapshot::transition).
THEOREM ParentsAreStored == Spec => []ParentStored
<1>1. IInv => ParentStored
  BY DEF IInv
<1> QED
  BY <1>1, Inductive, PTL

\* A closed execution is never extended or closed again, whatever executors and
\* recoveries race for it (recover_interrupted, Executor::run).
THEOREM ClosedHistoriesAreFinal == Spec => []ClosedIsLast
<1>1. IInv => ClosedIsLast
  BY DEF IInv
<1> QED
  BY <1>1, Inductive, PTL

\* An executor that returns Ok has itself closed the history it leaves behind.
THEOREM OkIsStored == Spec => []OkMeansStored
<1>1. IInv => OkMeansStored
  BY DEF IInv, WriterOK, OkMeansStored, Writer
<1> QED
  BY <1>1, Inductive, PTL

\* Rows are only ever added at the end of a history, one at a time.
THEOREM StoreIsAppendOnly == Spec => AppendOnly
<1>1. ASSUME IInv, Next PROVE \A e \in Exec : GrowsAtEnd(e)
  <2>1. CASE UNCHANGED rows
    BY <2>1 DEF GrowsAtEnd
  <2>2. ASSUME NEW w \in Writer, InsertRow(w) PROVE \A e \in Exec : GrowsAtEnd(e)
    <3> DEFINE s == snap[w]
    <3> DEFINE n == Cardinality(rows[s.exec])
    <3>1. WriterOK(w) /\ pc[w] = "insert" /\ rows \in [Exec -> SUBSET Snapshot]
      BY <1>1, <2>2 DEF IInv, TypeOK, InsertRow
    <3>2. s.exec \in Exec
      BY <3>1 DEF WriterOK, Snapshot
    <3>3. rows' = [rows EXCEPT ![s.exec] = @ \cup {s}]
      BY <2>2 DEF InsertRow
    <3>4. s.seq = n
      BY <1>1, <2>2, InsertIsAtEnd
    <3>5. n \in Nat /\ {t.seq : t \in rows[s.exec]} = 0 .. n - 1
      BY <1>1, <3>2, FS_CardinalityType DEF IInv, Contiguous
    <3>6. \A t \in rows[s.exec] : t.seq \in 0 .. n - 1
      BY <3>5
    <3>7. \A t \in rows[s.exec] : t.seq < s.seq
      BY <3>4, <3>5, <3>6
    <3>8. rows'[s.exec] = rows[s.exec] \cup {s} /\ \A e \in Exec \ {s.exec} : rows'[e] = rows[e]
      BY <3>1, <3>2, <3>3
    <3> QED
      BY <3>7, <3>8 DEF GrowsAtEnd
  <2>3. UNCHANGED rows \/ \E w \in Writer : InsertRow(w)
    BY <1>1 DEF Next, AppendStep, CountRows, InsertRejected, StoreError, StartRun, MakeSnapshot,
                NodeFails, Crash, ListExecutions, ReadHistory, ReadFails, FinishRecovery,
                RecoveryCrash
  <2> QED
    BY <2>1, <2>2, <2>3
<1>2. IInv /\ [Next]_vars => [\A e \in Exec : GrowsAtEnd(e)]_vars
  BY <1>1
<1> QED
  BY <1>2, Inductive, PTL DEF Spec, AppendOnly

----------------------------------------------------------------------------

\* A sequence that is one element longer and agrees elsewhere is the result of Append.
LEMMA AppendIs ==
  ASSUME NEW S, NEW n \in Nat, NEW f \in [1 .. n -> S], NEW a \in S,
         NEW g \in [1 .. n + 1 -> S],
         \A k \in 1 .. n : g[k] = f[k], g[n + 1] = a
  PROVE  g = Append(f, a)
<1>1. f \in Seq(S) /\ Len(f) = n /\ g \in Seq(S) /\ Len(g) = n + 1
  OBVIOUS
<1>2. /\ Append(f, a) \in Seq(S)
      /\ Len(Append(f, a)) = n + 1
      /\ \A i \in 1 .. n : Append(f, a)[i] = f[i]
      /\ Append(f, a)[n + 1] = a
  BY <1>1
<1>3. \A i \in 1 .. Len(g) : g[i] = Append(f, a)[i]
  BY <1>1, <1>2
<1> QED
  BY <1>1, <1>2, <1>3, SeqEqual

\* An INSERT appends the label of its snapshot to the history that readers see.
LEMMA InsertAppends ==
  ASSUME IInv, NEW w \in Writer, InsertRow(w)
  PROVE  /\ snap[w].exec \in Exec
         /\ Histories' = [Histories EXCEPT ![snap[w].exec] = Append(@, snap[w].to)]
<1> DEFINE s == snap[w]
<1> DEFINE x == s.exec
<1> DEFINE n == Cardinality(rows[x])
<1>1. WriterOK(w) /\ pc[w] = "insert" /\ rows \in [Exec -> SUBSET Snapshot]
  BY DEF IInv, TypeOK, InsertRow
<1>2. x \in Exec /\ s.seq = n
  BY <1>1, InsertIsAtEnd DEF WriterOK, Snapshot
<1>3. /\ rows'[x] = rows[x] \cup {s}
      /\ \A e \in Exec \ {x} : rows'[e] = rows[e]
  BY <1>1, <1>2 DEF InsertRow
<1>4. IInv'
  BY InsertKeeps
<1>5. /\ n \in Nat
      /\ {t.seq : t \in rows[x]} = 0 .. n - 1
      /\ \A t, u \in rows'[x] : t.seq = u.seq => t = u
  BY <1>2, <1>4, FS_CardinalityType DEF IInv, Contiguous
<1>6. \A t \in rows[x] : t.seq \in 0 .. n - 1
  BY <1>5
<1>7. Cardinality(rows'[x]) = n + 1
  <2>1. s \notin rows[x]
    BY <1>2, <1>5, <1>6
  <2>2. IsFiniteSet(rows[x])
    BY <1>2 DEF IInv, Contiguous
  <2> QED
    BY <1>3, <2>1, <2>2, FS_AddElement
<1>8. \A k \in 1 .. n : (CHOOSE u \in rows'[x] : u.seq = k - 1) = RowAt(x, k - 1)
  <2> SUFFICES ASSUME NEW k \in 1 .. n
               PROVE  (CHOOSE u \in rows'[x] : u.seq = k - 1) = RowAt(x, k - 1)
    OBVIOUS
  <2>1. PICK t \in rows[x] : t.seq = k - 1
    BY <1>5
  <2>2. RowAt(x, k - 1) = t
    BY <1>3, <1>5, <2>1 DEF RowAt
  <2>3. (CHOOSE u \in rows'[x] : u.seq = k - 1) = t
    BY <1>3, <1>5, <2>1
  <2> QED
    BY <2>2, <2>3
<1>9. (CHOOSE u \in rows'[x] : u.seq = n) = s
  BY <1>2, <1>3, <1>5
<1>10. Histories'[x] = Append(Histories[x], s.to)
  <2>1. snap' = snap
    BY DEF InsertRow
  <2> DEFINE new == [k \in 1 .. n + 1 |-> (CHOOSE u \in rows'[x] : u.seq = k - 1).to]
  <2> DEFINE old == [k \in 1 .. n |-> RowAt(x, k - 1).to]
  <2>2. Histories'[x] = new /\ Histories[x] = old
    BY <1>2, <1>7, <2>1 DEF Histories, RowAt
  <2>4. \A k \in 1 .. n : new[k] = old[k]
    BY <1>5, <1>8
  <2>5. new[n + 1] = s.to
    <3>1. (n + 1) - 1 = n /\ n + 1 \in 1 .. n + 1
      BY <1>5
    <3> QED
      BY <1>9, <3>1
  <2>6. new \in [1 .. n + 1 -> Label] /\ old \in [1 .. n -> Label] /\ s.to \in Label
    <3>1. \A t \in rows'[x] : t.to \in Label
      BY <1>2, <1>4 DEF IInv, TypeOK, Snapshot
    <3>2. \A k \in 1 .. n : RowAt(x, k - 1).to \in Label
      <4> SUFFICES ASSUME NEW k \in 1 .. n PROVE RowAt(x, k - 1).to \in Label
        OBVIOUS
      <4>1. \E t \in rows[x] : t.seq = k - 1
        BY <1>5
      <4> QED
        BY <1>3, <3>1, <4>1 DEF RowAt
    <3>3. \A k \in 1 .. n + 1 : new[k] \in Label
      <4>1. s.to \in Label
        BY <1>3, <3>1
      <4>2. \A k \in 1 .. n : new[k] \in Label
        BY <2>4, <3>2
      <4>3. 1 .. n + 1 = (1 .. n) \cup {n + 1}
        BY <1>5
      <4> HIDE DEF new, n
      <4> QED
        BY <2>5, <4>1, <4>2, <4>3
    <3> QED
      BY <1>3, <3>1, <3>2, <3>3
  <2> HIDE DEF new, old
  <2>7. new = Append(old, s.to)
    BY <1>5, <2>4, <2>5, <2>6, AppendIs
  <2> QED
    BY <2>2, <2>7
<1>11. ASSUME NEW e \in Exec, e # x PROVE Histories'[e] = Histories[e]
  <2>1. rows'[e] = rows[e]
    BY <1>3, <1>11
  <2>2. Histories'[e] = [k \in 1 .. Cardinality(rows'[e]) |-> (CHOOSE u \in rows'[e] : u.seq = k - 1).to]
    BY DEF Histories, RowAt
  <2>3. Histories[e] = [k \in 1 .. Cardinality(rows[e]) |-> (CHOOSE u \in rows[e] : u.seq = k - 1).to]
    BY DEF Histories, RowAt
  <2> QED
    BY <2>1, <2>2, <2>3
<1>12. /\ Histories = [e \in Exec |-> Histories[e]]
       /\ Histories' = [e \in Exec |-> Histories'[e]]
  BY DEF Histories
<1> QED
  BY <1>2, <1>10, <1>11, <1>12

\* What Histories says of an execution in a good state: it is empty exactly as long as
\* the execution has no row, and its last element is the label of the last row.
LEMMA HistoryEnd ==
  ASSUME IInv, NEW e \in Exec, NEW p \in rows[e], p.seq + 1 = Cardinality(rows[e])
  PROVE  /\ Histories[e] # <<>>
         /\ Histories[e][Len(Histories[e])] = p.to
<1> DEFINE n == Cardinality(rows[e])
<1>1. n \in Nat /\ \A t, u \in rows[e] : t.seq = u.seq => t = u
  BY FS_CardinalityType DEF IInv, Contiguous
<1>2. p.seq \in Nat
  BY DEF IInv, TypeOK, Snapshot
<1>3. Histories[e] = [k \in 1 .. n |-> RowAt(e, k - 1).to]
  BY DEF Histories
<1>4. RowAt(e, n - 1) = p
  BY <1>1, <1>2 DEF RowAt
<1>5. n \in 1 .. n /\ Len(Histories[e]) = n
  BY <1>1, <1>2, <1>3
<1> QED
  BY <1>3, <1>4, <1>5

\* The store implements the append-only history: the only step readers can see is one
\* label more at the end of one history that was still open.
THEOREM StoreImplementsHistory == Spec => ImplementsHistory
<1>1. Init => History!Init
  <2> SUFFICES ASSUME Init PROVE  Histories = [e \in Exec |-> <<>>]
    BY DEF History!Init
  <2>1. \A e \in Exec : Cardinality(rows[e]) = 0
    BY FS_EmptySet DEF Init
  <2> QED
    BY <2>1 DEF Histories
<1>2. IInv /\ [Next]_vars => [History!Next]_Histories
  <2> SUFFICES ASSUME IInv, [Next]_vars
               PROVE  History!Next \/ UNCHANGED Histories
    OBVIOUS
  <2>1. CASE UNCHANGED rows
    BY <2>1 DEF Histories, RowAt
  <2>2. ASSUME NEW w \in Writer, InsertRow(w) PROVE History!Next
    <3> DEFINE s == snap[w]
    <3> DEFINE x == s.exec
    <3>1. /\ x \in Exec
          /\ Histories' = [Histories EXCEPT ![x] = Append(@, s.to)]
      BY <2>2, InsertAppends
    <3>2. WriterOK(w) /\ pc[w] = "insert" /\ s.seq = Cardinality(rows[x])
      BY <2>2, InsertIsAtEnd DEF IInv, InsertRow
    <3>3. s \in Snapshot /\ Extends(s) /\ s.seq \in Nat /\ s.to \in Label
      BY <3>2 DEF WriterOK, Snapshot
    <3>4. History!Accepts(Histories[x], s.to)
      <4>1. CASE s.seq = 0
        <5>1. Histories[x] = <<>>
          <6>1. Cardinality(rows[x]) = 0
            BY <3>2, <4>1
          <6>2. Histories[x] = [k \in 1 .. 0 |-> RowAt(x, k - 1).to]
            BY <3>1, <6>1 DEF Histories
          <6> QED
            BY <6>2
        <5> QED
          BY <3>3, <4>1, <5>1 DEF Extends, History!Accepts
      <4>2. CASE s.seq # 0
        <5>1. PICK p \in rows[x] : p.seq + 1 = s.seq /\ p.to \notin Terminal
          BY <3>3, <4>2 DEF Extends
        <5>2. Histories[x] # <<>> /\ Histories[x][Len(Histories[x])] = p.to
          BY <3>1, <3>2, <5>1, HistoryEnd
        <5>3. s.to \in {"node"} \cup Terminal
          BY <3>3, <4>2 DEF Extends, Label
        <5> QED
          BY <5>1, <5>2, <5>3 DEF History!Accepts
      <4> QED
        BY <4>1, <4>2
    <3>5. s.to \in {"none"} \cup {"node"} \cup Terminal
      BY <3>3 DEF Label
    <3> QED
      BY <3>1, <3>4, <3>5 DEF History!Next, History!Record
  <2>3. UNCHANGED rows \/ \E w \in Writer : InsertRow(w)
    BY DEF Next, AppendStep, CountRows, InsertRejected, StoreError, StartRun, MakeSnapshot, NodeFails,
           Crash, ListExecutions, ReadHistory, ReadFails,
           FinishRecovery, RecoveryCrash, vars
  <2> QED
    BY <2>1, <2>2, <2>3
<1> QED
  BY <1>1, <1>2, Inductive, PTL DEF Spec, ImplementsHistory, History!Spec
----------------------------------------------------------------------------

Closed(e) == \E s \in rows[e] : s.to \in Terminal
OnlyRoot(e) == \A s \in rows[e] : s.seq = 0

\* Where an execution stands that r has to see to: r has not looked at it yet, there is
\* nothing to close, it is closed, or r is about to close it.
Handled(r, e) ==
  \/ e \in todo[r]
  \/ OnlyRoot(e)
  \/ Closed(e)
  \/ pc[r] \in {"append", "insert"} /\ snap[r].exec = e

\* What a recovery may rely on while it goes through its list.
RecoveryOK(r) ==
  /\ pc[r] \in {"append", "insert"} => snap[r].to = "INTERRUPTED"
  /\ pc[r] = "done" => todo[r] = {}
  /\ \A e \in lost[r] : pc[e] = "crashed"
  /\ pc[r] \in {"scan", "append", "insert", "done"} => \A e \in lost[r] : Handled(r, e)

EdgesOK == \A e \in Exec : \A s \in rows[e] : s.seq # 0 => s.to # "none"

RecInv == EdgesOK /\ \A r \in Recoverer : RecoveryOK(r)

\* A step that leaves the table alone and does nothing to r or to an executor that
\* crashed keeps what r relies on.
LEMMA RecoveryUnmoved ==
  ASSUME TypeOK, NEW r \in Recoverer, RecoveryOK(r), UNCHANGED rows,
         pc'[r] = pc[r], snap'[r] = snap[r], todo'[r] = todo[r], lost'[r] = lost[r],
         \A e \in Exec : pc[e] = "crashed" => pc'[e] = "crashed"
  PROVE  RecoveryOK(r)'
BY DEF TypeOK, RecoveryOK, Handled, OnlyRoot, Closed

\* The row that is added to a crashed execution is the closing row of a recovery.
LEMMA InsertHandles ==
  ASSUME IInv, RecInv, NEW w \in Writer, InsertRow(w)
  PROVE  RecInv'
<1> DEFINE s == snap[w]
<1> DEFINE x == s.exec
<1>1. WriterOK(w) /\ pc[w] = "insert"
  BY DEF IInv, InsertRow
<1>2. s \in Snapshot /\ x \in Exec /\ s.seq \in Nat /\ Extends(s)
  BY <1>1 DEF WriterOK, Snapshot
<1>3. /\ rows' = [rows EXCEPT ![x] = @ \cup {s}]
      /\ pc' = [pc EXCEPT ![w] = AppendedPc(w)]
      /\ UNCHANGED <<snap, todo, lost>>
  BY DEF InsertRow
<1>4. /\ rows \in [Exec -> SUBSET Snapshot] /\ pc \in [Writer -> PcState]
      /\ lost \in [Recoverer -> SUBSET Exec]
  BY DEF IInv, TypeOK
<1>5. /\ rows'[x] = rows[x] \cup {s}
      /\ \A e \in Exec \ {x} : rows'[e] = rows[e]
      /\ pc'[w] = AppendedPc(w)
      /\ \A v \in Writer \ {w} : pc'[v] = pc[v]
  BY <1>2, <1>3, <1>4
<1>6. EdgesOK'
  BY <1>2, <1>5 DEF RecInv, EdgesOK, Extends
<1>7. ASSUME NEW r \in Recoverer PROVE RecoveryOK(r)'
  <2>1. RecoveryOK(r) /\ r \in Writer /\ r \notin Exec
    BY WritersDiffer DEF RecInv, Writer
  <2>2. \A e \in lost'[r] : e \in Exec /\ e \in Writer /\ pc'[e] = "crashed" /\ e # w
    BY <1>1, <1>3, <1>4, <1>5, <2>1 DEF RecoveryOK, Writer
  <2>3. CASE w \in Exec
    <3>1. x = w /\ r # w
      BY <1>1, <2>1, <2>3 DEF WriterOK
    <3>2. \A e \in lost'[r] : rows'[e] = rows[e]
      BY <1>5, <2>2, <3>1
    <3>3. pc'[r] = pc[r] /\ snap'[r] = snap[r] /\ todo'[r] = todo[r] /\ lost'[r] = lost[r]
      BY <1>3, <1>5, <2>1, <3>1
    <3> QED
      BY <2>1, <2>2, <3>2, <3>3 DEF RecoveryOK, Handled, OnlyRoot, Closed
  <2>4. CASE w \in Recoverer
    <3>1. \E t \in rows'[x] : t.to \in Terminal
      <4>1. s.to = "INTERRUPTED"
        BY <1>1, <2>4 DEF RecInv, RecoveryOK
      <4> QED
        BY <1>5, <4>1 DEF Terminal
    <3>2. ASSUME NEW e \in lost'[r], e # x, Handled(r, e) PROVE Handled(r, e)'
      <4>1. rows'[e] = rows[e]
        BY <1>5, <2>2, <3>2
      <4>2. CASE w = r
        BY <1>3, <3>2, <4>1, <4>2 DEF Handled, OnlyRoot, Closed
      <4>3. CASE w # r
        <5>1. pc'[r] = pc[r]
          BY <1>5, <2>1, <4>3
        <5> QED
          BY <1>3, <3>2, <4>1, <5>1 DEF Handled, OnlyRoot, Closed
      <4> QED
        BY <4>2, <4>3
    <3>3. \A e \in lost'[r] : pc'[r] \in {"scan", "append", "insert", "done"} => Handled(r, e)'
      <4>1. pc'[r] \in {"scan", "append", "insert", "done"}
              => pc[r] \in {"scan", "append", "insert", "done"}
        BY <1>1, <1>5, <2>1
      <4>2. \A e \in lost'[r] : e = x => Handled(r, e)'
        BY <3>1 DEF Handled, Closed
      <4> QED
        BY <1>3, <2>1, <3>2, <4>1, <4>2 DEF RecoveryOK
    <3>4. CASE w = r
      BY <1>3, <1>5, <2>2, <2>4, <3>3, <3>4 DEF RecoveryOK, AppendedPc
    <3>5. CASE w # r
      <4>1. pc'[r] = pc[r]
        BY <1>5, <2>1, <3>5
      <4> QED
        BY <1>3, <2>1, <2>2, <3>3, <4>1 DEF RecoveryOK
    <3> QED
      BY <3>4, <3>5
  <2> QED
    BY <2>3, <2>4 DEF Writer
<1> QED
  BY <1>6, <1>7 DEF RecInv

\* The steps of an append that add no row: a recovery whose append fails gives up.
LEMMA NoInsertHandles ==
  ASSUME IInv, RecInv, NEW w \in Writer,
         CountRows(w) \/ InsertRejected(w) \/ StoreError(w)
  PROVE  RecInv'
<1>1. PICK q \in {"insert", Failed(w)} : pc' = [pc EXCEPT ![w] = q]
  BY DEF CountRows, InsertRejected, StoreError
<1>2. pc[w] \in {"append", "insert"} /\ UNCHANGED <<rows, snap, todo, lost>>
  BY DEF CountRows, InsertRejected, StoreError
<1>3. TypeOK /\ pc \in [Writer -> PcState]
  BY DEF IInv, TypeOK
<1>4. pc'[w] = q /\ \A v \in Writer \ {w} : pc'[v] = pc[v]
  BY <1>1, <1>3
<1>5. \A e \in Exec : pc[e] = "crashed" => pc'[e] = "crashed"
  BY <1>2, <1>4 DEF Writer
<1>6. ASSUME NEW r \in Recoverer PROVE RecoveryOK(r)'
  <2>1. RecoveryOK(r) /\ r \in Writer
    BY DEF RecInv, Writer
  <2>2. CASE r # w
    BY <1>2, <1>3, <1>4, <1>5, <2>1, <2>2, RecoveryUnmoved
  <2>3. CASE r = w
    <3>1. pc'[r] \in {"insert", "aborted"}
      BY <1>4, <2>3 DEF Failed
    <3>2. \A e \in lost[r] : pc'[e] = "crashed"
      BY <1>3, <1>5, <2>1 DEF TypeOK, RecoveryOK
    <3>3. \A e \in lost[r] : pc'[r] = "insert" => Handled(r, e)'
      BY <1>2, <2>1, <2>3 DEF RecoveryOK, Handled, OnlyRoot, Closed
    <3>4. snap'[r].to = "INTERRUPTED"
      BY <1>2, <2>1, <2>3 DEF RecoveryOK
    <3> QED
      BY <1>2, <3>1, <3>2, <3>3, <3>4 DEF RecoveryOK
  <2> QED
    BY <2>2, <2>3
<1> QED
  BY <1>2, <1>6 DEF RecInv, EdgesOK

\* An executor's other steps do not concern any recovery: what has crashed stays so.
LEMMA ExecutorHandles ==
  ASSUME IInv, RecInv, NEW e \in Exec,
         StartRun(e) \/ MakeSnapshot(e) \/ NodeFails(e) \/ Crash(e)
  PROVE  RecInv'
<1>1. e \in Writer /\ e \notin Recoverer /\ TypeOK /\ pc \in [Writer -> PcState]
      /\ snap \in [Writer -> Snapshot \cup {None}]
  BY WritersDiffer DEF IInv, TypeOK, Writer
<1>2. UNCHANGED <<rows, todo, lost>> /\ pc[e] # "crashed"
  BY DEF StartRun, MakeSnapshot, NodeFails, Crash, Live
<1>3. \A v \in Writer \ {e} : pc'[v] = pc[v] /\ snap'[v] = snap[v]
  BY <1>1 DEF StartRun, MakeSnapshot, NodeFails, Crash
<1>4. \A x \in Exec : pc[x] = "crashed" => pc'[x] = "crashed"
  BY <1>2, <1>3 DEF Writer
<1>5. ASSUME NEW r \in Recoverer PROVE RecoveryOK(r)'
  <2>1. r \in Writer \ {e} /\ RecoveryOK(r)
    BY <1>1 DEF RecInv, Writer
  <2> QED
    BY <1>1, <1>2, <1>3, <1>4, <2>1, RecoveryUnmoved
<1> QED
  BY <1>2, <1>5 DEF RecInv, EdgesOK

\* The recovery takes an execution off its list only when it has nothing to close, is
\* about to close it, or could not read it.
LEMMA RecoveryHandles ==
  ASSUME IInv, RecInv, NEW r \in Recoverer, RecoveryStep(r)
  PROVE  RecInv'
<1>1. /\ r \in Writer /\ r \notin Exec /\ RecoveryOK(r) /\ TypeOK
      /\ pc \in [Writer -> PcState] /\ snap \in [Writer -> Snapshot \cup {None}]
      /\ todo \in [Recoverer -> SUBSET Exec] /\ lost \in [Recoverer -> SUBSET Exec]
  BY WritersDiffer DEF IInv, RecInv, TypeOK, Writer
<1>2. /\ UNCHANGED rows
      /\ \A v \in Writer \ {r} : pc'[v] = pc[v] /\ snap'[v] = snap[v]
      /\ \A q \in Recoverer \ {r} : todo'[q] = todo[q] /\ lost'[q] = lost[q]
  BY <1>1 DEF RecoveryStep, ListExecutions, ReadHistory, ReadFails, FinishRecovery, RecoveryCrash
<1>3. \A e \in Exec : pc'[e] = pc[e]
  BY <1>1, <1>2 DEF Writer
<1>4. \A q \in Recoverer \ {r} : RecoveryOK(q)'
  <2> SUFFICES ASSUME NEW q \in Recoverer \ {r} PROVE RecoveryOK(q)'
    OBVIOUS
  <2>1. q \in Writer \ {r} /\ RecoveryOK(q)
    BY DEF RecInv, Writer
  <2> QED
    BY <1>1, <1>2, <1>3, <2>1, RecoveryUnmoved
<1>5. RecoveryOK(r)'
  <2>1. CASE ListExecutions(r)
    <3>1. /\ pc'[r] = "scan"
          /\ todo'[r] = {e \in Exec : rows[e] # {}}
          /\ lost'[r] = {e \in Exec : pc[e] = "crashed"}
      BY <1>1, <2>1 DEF ListExecutions
    <3>2. \A e \in lost'[r] : Handled(r, e)'
      BY <1>2, <3>1 DEF Handled, OnlyRoot
    <3> QED
      BY <1>3, <3>1, <3>2 DEF RecoveryOK
  <2>2. CASE ReadHistory(r)
    <3>1. PICK e \in todo[r] :
            /\ todo' = [todo EXCEPT ![r] = @ \ {e}]
            /\ IF NothingToClose(LastRow(e).to)
               THEN UNCHANGED <<snap, pc>>
               ELSE /\ snap' = [snap EXCEPT ![r] = Transition(LastRow(e), r, "INTERRUPTED")]
                    /\ pc' = [pc EXCEPT ![r] = "append"]
      BY <2>2 DEF ReadHistory
    <3>2. pc[r] = "scan" /\ UNCHANGED <<rows, lost>> /\ todo'[r] = todo[r] \ {e}
      BY <1>1, <2>2, <3>1 DEF ReadHistory
    <3>3. e \in Exec /\ rows[e] # {} /\ rows[e] \subseteq Snapshot
      BY <1>1 DEF IInv, TypeOK
    <3> DEFINE l == LastRow(e)
    <3>4. l \in rows[e] /\ \A t \in rows[e] : t.seq <= l.seq
      BY <1>1, <3>3, LastRowIsLast DEF IInv
    <3>5. l.exec = e
      BY <3>3, <3>4 DEF IInv, RowsFiled
    <3>6. \A x \in lost[r] \ {e} : Handled(r, x)'
      BY <1>1, <3>2 DEF RecoveryOK, Handled, OnlyRoot, Closed
    <3>7. CASE NothingToClose(l.to)
      <4>1. pc'[r] = "scan"
        BY <3>1, <3>2, <3>7
      <4>2. CASE l.to = "none"
        <5>1. l.seq = 0
          BY <3>3, <3>4, <4>2 DEF RecInv, EdgesOK
        <5>2. \A t \in rows[e] : t.seq \in Nat
          BY <3>3 DEF Snapshot
        <5>3. OnlyRoot(e)
          BY <3>4, <5>1, <5>2 DEF OnlyRoot
        <5>4. Handled(r, e)'
          BY <3>2, <5>3 DEF Handled, OnlyRoot
        <5> QED
          BY <1>1, <1>3, <3>2, <3>6, <4>1, <5>4 DEF RecoveryOK
      <4>3. CASE l.to \in Terminal
        <5>1. Handled(r, e)'
          BY <3>2, <3>4, <4>3 DEF Handled, Closed
        <5> QED
          BY <1>1, <1>3, <3>2, <3>6, <4>1, <5>1 DEF RecoveryOK
      <4> QED
        BY <3>7, <4>2, <4>3 DEF NothingToClose, Terminal
    <3>8. CASE ~NothingToClose(l.to)
      <4>1. pc'[r] = "append" /\ snap'[r] = Transition(l, r, "INTERRUPTED")
        BY <1>1, <3>1, <3>8
      <4>2. snap'[r].exec = e /\ snap'[r].to = "INTERRUPTED"
        BY <3>5, <4>1 DEF Transition
      <4>3. Handled(r, e)'
        BY <4>1, <4>2 DEF Handled
      <4> QED
        BY <1>1, <1>3, <3>2, <3>6, <4>1, <4>2, <4>3 DEF RecoveryOK
    <3> QED
      BY <3>7, <3>8
  <2>3. CASE ReadFails(r)
    <3>1. PICK e \in todo[r] : todo'[r] = todo[r] \ {e} /\ lost'[r] = lost[r] \ {e}
      BY <1>1, <2>3 DEF ReadFails
    <3>2. pc[r] = "scan" /\ UNCHANGED <<rows, snap, pc>>
      BY <2>3 DEF ReadFails
    <3>3. \A x \in lost'[r] : Handled(r, x)'
      BY <1>1, <3>1, <3>2 DEF RecoveryOK, Handled, OnlyRoot, Closed
    <3> QED
      BY <1>1, <3>1, <3>2, <3>3 DEF RecoveryOK
  <2>4. CASE FinishRecovery(r)
    <3>1. pc[r] = "scan" /\ todo[r] = {} /\ pc'[r] = "done" /\ UNCHANGED <<rows, snap, todo, lost>>
      BY <1>1, <2>4 DEF FinishRecovery
    <3>2. \A x \in lost'[r] : Handled(r, x)'
      BY <1>1, <3>1 DEF RecoveryOK, Handled, OnlyRoot, Closed
    <3> QED
      BY <1>1, <1>3, <3>1, <3>2 DEF RecoveryOK
  <2>5. CASE RecoveryCrash(r)
    <3>1. pc'[r] = "aborted" /\ UNCHANGED <<rows, snap, todo, lost>>
      BY <1>1, <2>5 DEF RecoveryCrash
    <3> QED
      BY <1>1, <1>3, <3>1 DEF RecoveryOK
  <2> QED
    BY <2>1, <2>2, <2>3, <2>4, <2>5 DEF RecoveryStep
<1> QED
  BY <1>2, <1>4, <1>5 DEF RecInv, EdgesOK

\* Every step keeps RecInv.
LEMMA RecoveryInductive == IInv /\ RecInv /\ [Next]_vars => RecInv'
<1> SUFFICES ASSUME IInv, RecInv, [Next]_vars PROVE RecInv'
  OBVIOUS
<1>1. ASSUME NEW w \in Writer, AppendStep(w) PROVE RecInv'
  BY <1>1, InsertHandles, NoInsertHandles DEF AppendStep
<1>2. ASSUME NEW e \in Exec, StartRun(e) \/ MakeSnapshot(e) \/ NodeFails(e) \/ Crash(e)
      PROVE  RecInv'
  BY <1>2, ExecutorHandles
<1>3. ASSUME NEW r \in Recoverer, RecoveryStep(r) PROVE RecInv'
  BY <1>3, RecoveryHandles
<1>4. CASE UNCHANGED vars
  BY <1>4 DEF vars, RecInv, EdgesOK, RecoveryOK, Handled, OnlyRoot, Closed
<1> QED
  BY <1>1, <1>2, <1>3, <1>4 DEF Next, RecoveryStep

\* A recovery that comes to its end has closed every execution that had crashed before
\* it listed the store, that it could read, and that had stored a level
\* (recover_interrupted), whatever executors and other recoveries did meanwhile.
THEOREM RecoveryClosesTheLost == Spec => []RecoveryCloses
<1>1. Init => RecInv
  BY DEF Init, RecInv, EdgesOK, RecoveryOK, Writer
<1>2. IInv /\ RecInv => RecoveryCloses
  <2> SUFFICES ASSUME IInv, RecInv, NEW r \in Recoverer, pc[r] = "done",
                      NEW e \in lost[r], Cardinality(rows[e]) > 1
               PROVE  Closed(e)
    BY DEF RecoveryCloses, Closed
  <2>1. e \in Exec /\ Handled(r, e) /\ todo[r] = {}
    BY DEF IInv, TypeOK, RecInv, RecoveryOK
  <2>2. ~OnlyRoot(e)
    <3>1. Cardinality(rows[e]) \in Nat /\ {s.seq : s \in rows[e]} = 0 .. Cardinality(rows[e]) - 1
      BY <2>1, FS_CardinalityType DEF IInv, Contiguous
    <3>2. 1 \in 0 .. Cardinality(rows[e]) - 1
      BY <3>1
    <3>3. \E s \in rows[e] : s.seq = 1
      BY <3>1, <3>2
    <3> QED
      BY <3>3 DEF OnlyRoot
  <2> QED
    BY <2>1, <2>2 DEF Handled
<1> QED
  BY <1>1, <1>2, Inductive, RecoveryInductive, PTL DEF Spec
=============================================================================
