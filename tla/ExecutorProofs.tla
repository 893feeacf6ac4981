--------------------------- MODULE ExecutorProofs ---------------------------
(***************************************************************************)
(* The walk of the executor, for every workflow graph, and for every graph *)
(* that is ForkJoinShaped.                                                 *)
(***************************************************************************)
EXTENDS Executor, Definition, FiniteSetTheorems, SequenceTheorems, WellFoundedInduction, TLAPS

StoredTransition == [from : SUBSET Node, to : (SUBSET Node) \cup Closing]

\* What holds of the walk on any graph.  A level is in flight only in phase "level", and
\* only its own nodes are.
WalkInv ==
  /\ pc \in {"start", "check", "level", "ended"}
  /\ outcome \in {"running", "ok", "failed"}
  /\ pc = "ended" <=> outcome # "running"
  /\ level \subseteq Node
  /\ queue \subseteq level /\ running \subseteq level /\ failed \subseteq level
  /\ pc # "level" => queue = {}
  /\ pc \in {"start", "check"} => running = {} /\ failed = {}
  /\ history \in Seq(StoredTransition)
  /\ pc = "start" => history = <<>> /\ level = {Start}
  /\ pc \in {"check", "level"} => history # <<>>
  /\ joined \in [Joins -> Nat]
  /\ started \in [Node -> Nat]
  /\ passed \in [Node -> Nat]
  /\ HistoryIsChain
  /\ OkMeansFinished

\* Recording a transition from the current level extends the chain; and it closes the
\* history exactly if its target does.
LEMMA RecordExtendsChain ==
  ASSUME WalkInv, pc \in {"check", "level"}, NEW to \in (SUBSET Node) \cup Closing,
         history' = Record(to)
  PROVE  /\ history' \in Seq(StoredTransition)
         /\ history' # <<>>
         /\ history'[Len(history')].to = to
         /\ Len(history') > 1
         /\ \A k \in 2 .. Len(history') :
              history'[k].from = IF k = 2 THEN {Start} ELSE history'[k - 1].to
<1> DEFINE n == Len(history)
<1> DEFINE t == [from |-> level, to |-> to]
<1>1. history \in Seq(StoredTransition) /\ history # <<>> /\ level \subseteq Node /\ outcome # "ok"
  BY DEF WalkInv
<1>2. t \in StoredTransition
  BY <1>1 DEF StoredTransition
<1>3. n \in Nat /\ n > 0
  BY <1>1
<1>4. history' = Append(history, t)
  BY DEF Record
<1>5. /\ history' \in Seq(StoredTransition)
      /\ Len(history') = n + 1
      /\ history'[n + 1] = t
      /\ \A k \in 1 .. n : history'[k] = history[k]
  BY <1>1, <1>2, <1>4
<1>6. level = IF n = 1 THEN {Start} ELSE history[n].to
  BY <1>1 DEF WalkInv, HistoryIsChain
<1>7. ASSUME NEW k \in 2 .. n + 1
      PROVE  history'[k].from = IF k = 2 THEN {Start} ELSE history'[k - 1].to
  <2>1. CASE k = n + 1
    <3>0. k - 1 = n
      BY <1>3, <2>1
    <3>1. history'[k].from = level
      BY <1>5, <2>1
    <3>2. k = 2 => n = 1
      BY <3>0
    <3>3. k # 2 => n # 1 /\ history'[k - 1] = history[n]
      BY <1>3, <1>5, <2>1
    <3> QED
      BY <1>6, <3>1, <3>2, <3>3
  <2>2. CASE k # n + 1
    <3>1. k \in 2 .. n /\ k - 1 \in 1 .. n /\ k \in 1 .. n
      BY <1>3, <2>2
    <3>2. history'[k] = history[k] /\ history'[k - 1] = history[k - 1]
      BY <1>5, <3>1
    <3>3. history[k].from = IF k = 2 THEN {Start} ELSE history[k - 1].to
      BY <3>1 DEF WalkInv, HistoryIsChain
    <3> QED
      BY <3>2, <3>3
  <2> QED
    BY <2>1, <2>2
<1>8. Len(history') > 1 /\ history'[Len(history')].to = to
  BY <1>3, <1>5
<1>9. \A k \in 2 .. Len(history') :
        history'[k].from = IF k = 2 THEN {Start} ELSE history'[k - 1].to
  BY <1>5, <1>7
<1>10. history' \in Seq(StoredTransition) /\ history' # <<>>
  BY <1>5, <1>8
<1> QED
  BY <1>8, <1>9, <1>10

\* The number of firings of the edges to a join is a number.
LEMMA FiringsAreNat ==
  ASSUME NEW taken \in SUBSET Edge, NEW n
  PROVE  Cardinality({e \in taken : e[2] = n}) \in Nat
<1>1. IsFiniteSet({e \in taken : e[2] = n})
  BY GraphIsClosed, FS_Subset
<1> QED
  BY <1>1, FS_CardinalityType

\* A node that follows an edge taken.
LEMMA NextLevelIsNodes ==
  ASSUME NEW taken
  PROVE  NextLevel(taken) \subseteq Node
BY DEF NextLevel

\* The start state satisfies WalkInv.
LEMMA InitWalk == Init => WalkInv
BY GraphIsClosed DEF Init, WalkInv, HistoryIsChain, OkMeansFinished, StoredTransition

\* Steps that leave the history, the level and the phase alone.
LEMMA QuietStep ==
  ASSUME WalkInv, UNCHANGED <<pc, level, history, outcome, joined>>,
         queue' \subseteq level, running' \subseteq level, failed' \subseteq level,
         pc # "level" => queue' = {},
         pc \in {"start", "check"} => running' = {} /\ failed' = {},
         outcome = "ok" => running' = {},
         started' \in [Node -> Nat], passed' \in [Node -> Nat]
  PROVE  WalkInv'
<1>1. HistoryIsChain'
  BY DEF WalkInv, HistoryIsChain
<1>2. OkMeansFinished'
  BY DEF WalkInv, OkMeansFinished
<1> QED
  BY <1>1, <1>2 DEF WalkInv

\* Steps that end the run in failure.
LEMMA FailWalk == ASSUME WalkInv, Fail, pc # "ended" PROVE WalkInv'
<1>1. outcome = "running" /\ UNCHANGED <<level, running, failed, joined, history, started, passed>>
  BY DEF WalkInv, Fail, counts
<1>2. pc' = "ended" /\ outcome' = "failed" /\ queue' = {}
  BY DEF Fail
<1>3. HistoryIsChain'
  BY <1>1, <1>2 DEF WalkInv, HistoryIsChain
<1>4. OkMeansFinished'
  BY <1>1, <1>2 DEF WalkInv, OkMeansFinished
<1> QED
  BY <1>1, <1>2, <1>3, <1>4 DEF WalkInv

\* A completed level: either the run ends with its end recorded, or the next level is
\* announced.
LEMMA CompleteWalk == ASSUME WalkInv, CompleteLevel PROVE WalkInv'
<1>1. PICK skipped \in SUBSET (Conditional \cap Outgoing(level)) :
        LET taken == Outgoing(level) \ skipped
            next == NextLevel(taken)
        IN /\ joined' = JoinedAfter(taken)
           /\ history' = Record(IF next = {} THEN {"END"} ELSE next)
           /\ level' = IF next = {} THEN level ELSE next
           /\ pc' = IF next = {} THEN "ended" ELSE "check"
           /\ outcome' = IF next = {} THEN "ok" ELSE outcome
  BY DEF CompleteLevel
<1> DEFINE taken == Outgoing(level) \ skipped
<1> DEFINE next == NextLevel(taken)
<1> DEFINE to == IF next = {} THEN {"END"} ELSE next
<1>2. /\ joined' = JoinedAfter(taken)
      /\ history' = Record(to)
      /\ level' = IF next = {} THEN level ELSE next
      /\ pc' = IF next = {} THEN "ended" ELSE "check"
      /\ outcome' = IF next = {} THEN "ok" ELSE outcome
  BY <1>1
<1>3. next \subseteq Node /\ taken \subseteq Edge
  BY NextLevelIsNodes DEF Outgoing
<1>4. /\ pc = "level" /\ queue = {} /\ running = {} /\ failed = {}
      /\ UNCHANGED <<queue, running, failed, started, passed>>
  BY DEF CompleteLevel, LevelDone, counts
<1>5. /\ outcome = "running" /\ level \subseteq Node /\ joined \in [Joins -> Nat]
      /\ started \in [Node -> Nat] /\ passed \in [Node -> Nat]
  BY <1>4 DEF WalkInv
<1>6. to \in (SUBSET Node) \cup Closing
  BY <1>3 DEF Closing
<1>7. to \in Closing <=> next = {}
  BY <1>3, NamesAreNotClosing DEF Closing
<1> HIDE DEF next, taken
<1>8. JoinedAfter(taken) \in [Joins -> Nat]
  <2>1. ASSUME NEW j \in Joins
        PROVE  joined[j] + Cardinality({e \in taken : e[2] = j}) \in Nat
    <3>1. Cardinality({e \in taken : e[2] = j}) \in Nat
      BY <1>3, FiringsAreNat
    <3> QED
      BY <1>5, <3>1
  <2> QED
    BY <2>1 DEF JoinedAfter
<1>9. /\ history' \in Seq(StoredTransition)
      /\ history' # <<>>
      /\ history'[Len(history')].to = to
      /\ Len(history') > 1
      /\ \A k \in 2 .. Len(history') :
           history'[k].from = IF k = 2 THEN {Start} ELSE history'[k - 1].to
  BY <1>2, <1>4, <1>6, RecordExtendsChain
<1> HIDE DEF to
<1>10. outcome' # "ok" => level' = to
  BY <1>2 DEF to
<1>11. HistoryIsChain'
  <2>1. Len(history') # 1
    BY <1>9
  <2>2. history' # <<>> /\ outcome' # "ok" =>
          level' = IF Len(history') = 1 THEN {Start} ELSE history'[Len(history')].to
    BY <1>9, <1>10, <2>1
  <2> QED
    BY <1>9, <2>2 DEF HistoryIsChain
<1>12. OkMeansFinished'
  BY <1>2, <1>4, <1>5, <1>7, <1>9 DEF OkMeansFinished
<1> QED
  BY <1>2, <1>3, <1>4, <1>5, <1>8, <1>9, <1>11, <1>12 DEF WalkInv

\* A cancelled run closes its history.
LEMMA StopWalk == ASSUME WalkInv, StopCancelled PROVE WalkInv'
<1>1. /\ pc = "check" /\ pc' = "ended" /\ outcome' = "ok"
      /\ history' = Record({"CANCELLED"})
      /\ UNCHANGED <<level, queue, running, failed, joined, started, passed>>
  BY DEF StopCancelled, pool, counts
<1>2. /\ history' \in Seq(StoredTransition)
      /\ history' # <<>>
      /\ history'[Len(history')].to = {"CANCELLED"}
      /\ Len(history') > 1
      /\ \A k \in 2 .. Len(history') :
           history'[k].from = IF k = 2 THEN {Start} ELSE history'[k - 1].to
  BY <1>1, RecordExtendsChain DEF Closing
<1>3. HistoryIsChain'
  BY <1>1, <1>2 DEF HistoryIsChain
<1>4. OkMeansFinished'
  BY <1>1, <1>2 DEF OkMeansFinished, WalkInv, Closing
<1> QED
  BY <1>1, <1>2, <1>3, <1>4 DEF WalkInv

\* Every step preserves WalkInv.
LEMMA StepWalk == WalkInv /\ [Next]_vars => WalkInv'
<1> SUFFICES ASSUME WalkInv, [Next]_vars PROVE WalkInv'
  OBVIOUS
<1>1. CASE StoreRoot
  <2>1. /\ history' = <<[from |-> {}, to |-> {}]>> /\ pc = "start" /\ pc' = "check"
        /\ UNCHANGED <<level, queue, running, failed, joined, outcome, started, passed>>
    BY <1>1 DEF StoreRoot, pool, counts
  <2>2. history' \in Seq(StoredTransition) /\ Len(history') = 1 /\ history'[1].to = {}
    BY <2>1 DEF StoredTransition
  <2>3. HistoryIsChain'
    BY <2>1, <2>2 DEF HistoryIsChain, WalkInv
  <2>4. OkMeansFinished'
    BY <2>1, <2>2 DEF OkMeansFinished, WalkInv, Closing
  <2> QED
    BY <2>1, <2>2, <2>3, <2>4 DEF WalkInv
<1>2. CASE Cancel
  BY <1>2, QuietStep DEF Cancel, pool, counts, WalkInv, OkMeansFinished
<1>3. CASE StopCancelled
  BY <1>3, StopWalk
<1>4. CASE BeginLevel
  <2>1. HistoryIsChain'
    BY <1>4 DEF BeginLevel, HistoryIsChain, WalkInv
  <2>2. OkMeansFinished'
    BY <1>4 DEF BeginLevel, OkMeansFinished, WalkInv
  <2> QED
    BY <1>4, <2>1, <2>2 DEF BeginLevel, WalkInv, counts
<1>5. ASSUME NEW n \in Node, Spawn(n) PROVE WalkInv'
  <2>1. started' \in [Node -> Nat] /\ pc = "level" /\ outcome = "running"
    BY <1>5 DEF Spawn, WalkInv
  <2> QED
    BY <1>5, <2>1, QuietStep DEF Spawn, WalkInv
<1>6. ASSUME NEW n \in Node, NodeSucceeds(n) PROVE WalkInv'
  <2>1. passed' \in [Node -> Nat] /\ pc = "level" /\ outcome = "running"
    BY <1>6 DEF NodeSucceeds, WalkInv
  <2> QED
    BY <1>6, <2>1, QuietStep DEF NodeSucceeds, WalkInv
<1>7. ASSUME NEW n \in Node, NodeFails(n) PROVE WalkInv'
  <2>1. pc = "level" /\ outcome = "running"
    BY <1>7 DEF NodeFails, WalkInv
  <2> QED
    BY <1>7, <2>1, QuietStep DEF NodeFails, WalkInv, counts
<1>8. CASE FailLevel
  BY <1>8, FailWalk DEF FailLevel
<1>9. CASE StoreFails
  BY <1>9, FailWalk DEF StoreFails, LevelDone
<1>10. CASE CompleteLevel
  BY <1>10, CompleteWalk
<1>11. CASE UNCHANGED vars
  BY <1>11, QuietStep DEF vars, WalkInv, OkMeansFinished
<1>12. ASSUME NEW n \in Node, Fade(n) PROVE WalkInv'
  BY <1>12, QuietStep DEF Fade, WalkInv, OkMeansFinished, counts
<1> QED
  BY <1>1, <1>2, <1>3, <1>4, <1>5, <1>6, <1>7, <1>8, <1>9, <1>10, <1>11, <1>12
  DEF Next, Walk, Return

\* WalkInv is an invariant of every workflow.
THEOREM WalkInvariant == Spec => []WalkInv
  BY InitWalk, StepWalk, PTL DEF Spec

\* The stored transitions form a chain, and end where the run is.
THEOREM HistoryIsAChain == Spec => []HistoryIsChain
<1>1. WalkInv => HistoryIsChain
  BY DEF WalkInv
<1> QED
  BY <1>1, WalkInvariant, PTL

\* Ok is returned exactly with a closed history, and with nothing left running.
THEOREM OkIsFinished == Spec => []OkMeansFinished
<1>1. WalkInv => OkMeansFinished
  BY DEF WalkInv
<1> QED
  BY <1>1, WalkInvariant, PTL

----------------------------------------------------------------------------
(***************************************************************************)
(* Workflows whose branches meet in joins only.                            *)
(***************************************************************************)

Into(n, S) == {e \in Edge : e[2] = n /\ e[1] \in S}

\* The nodes of the levels completed so far.
Left == {n \in Node : started[n] > 0} \ level

\* The node at the tail of each edge into n is among those left.
Preceded(n) == \A e \in Edge : e[2] = n => e[1] \in Left

\* Where a node stands in a level says how often it has been started.
LevelCounts ==
  /\ pc \in {"start", "check"} => \A n \in level : started[n] = 0
  /\ pc = "level" =>
       /\ \A n \in queue : started[n] = 0
       /\ \A n \in level \ queue : started[n] > 0
       /\ \A n \in level \ (queue \cup running \cup failed) : passed[n] > 0

\* The strengthening: what the run has left has succeeded, what it is at is preceded by
\* nodes it has left, and no join counts more edges than lead to it from those.
OnceInv ==
  /\ WalkInv
  /\ NodeRunsOnce
  /\ JoinWaits
  /\ pc # "ended" =>
       /\ LevelCounts
       /\ \A n \in Left \cup level : Preceded(n)
       /\ \A n \in Left : passed[n] > 0
       /\ \A j \in Joins : joined[j] <= Cardinality(Into(j, Left))

\* Edges are finitely many, and so are those into one node.
LEMMA IntoIsFinite ==
  ASSUME NEW n, NEW S
  PROVE  IsFiniteSet(Into(n, S)) /\ Cardinality(Into(n, S)) \in Nat
<1>1. IsFiniteSet(Into(n, S))
  BY GraphIsClosed, FS_Subset DEF Into
<1> QED
  BY <1>1, FS_CardinalityType

\* Two edges into a node that is not a join are the same edge.
LEMMA OneEdgeInto ==
  ASSUME ForkJoinShaped, NEW n \in Node \ Joins,
         NEW d \in Edge, NEW e \in Edge, d[2] = n, e[2] = n
  PROVE  d = e
<1> DEFINE S == {f \in Edge : f[2] = n}
<1>1. IsFiniteSet(S) /\ Cardinality(S) \in Nat
  BY GraphIsClosed, FS_Subset, FS_CardinalityType
<1>2. Cardinality(S) <= 1
  BY DEF ForkJoinShaped, InDegree
<1>3. d \in S /\ e \in S
  OBVIOUS
<1> HIDE DEF S
<1>4. Cardinality(S) # 0
  BY <1>1, <1>3, FS_EmptySet
<1>5. Cardinality(S) = 1
  BY <1>1, <1>2, <1>4
<1>6. \E x : S = {x}
  BY <1>1, <1>5, FS_Singleton
<1> QED
  BY <1>3, <1>6

\* A node without edges into it has none.
LEMMA NoEdgeInto ==
  ASSUME NEW n, InDegree(n) = 0
  PROVE  \A e \in Edge : e[2] # n
<1>1. IsFiniteSet({e \in Edge : e[2] = n})
  BY GraphIsClosed, FS_Subset
<1>2. {e \in Edge : e[2] = n} = {}
  BY <1>1, FS_EmptySet DEF InDegree
<1> QED
  BY <1>2

\* The edges that fire when a level is left add at most as much to a join's count as
\* there are edges from that level.
LEMMA CountAfterLevel ==
  ASSUME NEW j, NEW S, NEW T, S \cap T = {}, NEW taken \in SUBSET Outgoing(T),
         NEW c \in Nat, c <= Cardinality(Into(j, S))
  PROVE  c + Cardinality({e \in taken : e[2] = j}) <= Cardinality(Into(j, S \cup T))
<1> DEFINE A == Into(j, S)
<1> DEFINE B == Into(j, T)
<1> DEFINE F == {e \in taken : e[2] = j}
<1>1. /\ IsFiniteSet(A) /\ Cardinality(A) \in Nat
      /\ IsFiniteSet(B) /\ Cardinality(B) \in Nat
  BY IntoIsFinite
<1>2. F \subseteq B
  BY DEF Into, Outgoing
<1>3. A \cap B = {} /\ Into(j, S \cup T) = A \cup B
  BY DEF Into
<1> HIDE DEF A, B, F
<1>4. Cardinality(F) \in Nat /\ Cardinality(F) <= Cardinality(B)
  BY <1>1, <1>2, FS_Subset, FS_CardinalityType
<1>5. Cardinality(A \cup B) = Cardinality(A) + Cardinality(B)
  <2>1. Cardinality(A \cap B) = 0
    BY <1>3, FS_EmptySet
  <2>2. Cardinality(A \cup B) = Cardinality(A) + Cardinality(B) - Cardinality(A \cap B)
    BY <1>1, FS_Union
  <2> QED
    BY <1>1, <2>1, <2>2
<1>6. c <= Cardinality(A)
  BY DEF A
<1>7. c + Cardinality(F) <= Cardinality(A \cup B)
  BY <1>1, <1>4, <1>5, <1>6
<1> QED
  BY <1>3, <1>7 DEF F

\* A join whose count has reached its in-degree has been reached on every edge.
LEMMA FullJoin ==
  ASSUME NEW j, NEW S, NEW c \in Nat, c >= InDegree(j), c <= Cardinality(Into(j, S))
  PROVE  \A e \in Edge : e[2] = j => e[1] \in S
<1> DEFINE E == {e \in Edge : e[2] = j}
<1>1. IsFiniteSet(E) /\ Cardinality(E) \in Nat
  BY GraphIsClosed, FS_Subset, FS_CardinalityType
<1>2. Into(j, S) \subseteq E
  BY DEF Into
<1>3. Cardinality(E) <= c
  BY <1>1 DEF InDegree
<1>4. Cardinality(Into(j, S)) \in Nat
  BY IntoIsFinite
<1> HIDE DEF E
<1>5. Cardinality(Into(j, S)) <= Cardinality(E)
  BY <1>1, <1>2, FS_Subset
<1>6. Cardinality(E) = Cardinality(Into(j, S))
  BY <1>1, <1>3, <1>4, <1>5
<1>7. E = Into(j, S)
  BY <1>1, <1>2, <1>6, FS_Subset
<1> QED
  BY <1>7 DEF E, Into

\* The start state satisfies OnceInv.
LEMMA InitOnce == ASSUME ForkJoinShaped, Init PROVE OnceInv
<1>1. WalkInv
  BY InitWalk
<1>2. Left = {}
  BY DEF Init, Left
<1>3. \A n \in Left \cup level : Preceded(n)
  BY <1>2, NoEdgeInto DEF Init, Preceded, ForkJoinShaped
<1>4. \A j \in Joins : joined[j] <= Cardinality(Into(j, Left))
  BY IntoIsFinite DEF Init
<1>5. NodeRunsOnce /\ JoinWaits /\ LevelCounts
  BY KindsAreDisjoint, GraphIsClosed DEF Init, NodeRunsOnce, JoinWaits, LevelCounts
<1> QED
  BY <1>1, <1>2, <1>3, <1>4, <1>5 DEF OnceInv

\* Steps after which the run has ended, and steps that leave the level and the counts.
LEMMA EndOnce ==
  ASSUME OnceInv, WalkInv', pc' = "ended", UNCHANGED <<started, passed>>
  PROVE  OnceInv'
BY DEF OnceInv, NodeRunsOnce, JoinWaits

LEMMA QuietOnce ==
  ASSUME OnceInv, WalkInv', pc' # "ended" => pc # "ended",
         UNCHANGED <<level, joined, started, passed>>, LevelCounts => LevelCounts'
  PROVE  OnceInv'
<1>1. Left' = Left /\ (\A n : Preceded(n)' <=> Preceded(n))
  BY DEF Left, Preceded
<1>2. NodeRunsOnce' /\ JoinWaits'
  BY DEF OnceInv, NodeRunsOnce, JoinWaits
<1> QED
  BY <1>1, <1>2 DEF OnceInv

\* A node of the level is started: for the first time, and all before it have succeeded.
LEMMA SpawnOnce ==
  ASSUME OnceInv, WalkInv', NEW n \in Node, Spawn(n)
  PROVE  OnceInv'
<1>1. /\ pc = "level" /\ n \in level /\ n \in queue
      /\ queue' = queue \ {n} /\ running' = running \cup {n}
      /\ started' = [started EXCEPT ![n] = @ + 1]
      /\ UNCHANGED <<pc, level, failed, joined, passed>>
  BY DEF Spawn, OnceInv, WalkInv
<1>2. /\ started \in [Node -> Nat] /\ passed \in [Node -> Nat] /\ level \subseteq Node
      /\ LevelCounts
  BY <1>1 DEF OnceInv, WalkInv
<1>3. started[n] = 0 /\ started'[n] = 1 /\ \A m \in Node \ {n} : started'[m] = started[m]
  BY <1>1, <1>2 DEF LevelCounts
<1>4. Left' = Left
  BY <1>1, <1>3 DEF Left
<1>5. \A m \in Node : Preceded(m) <=> \A e \in Edge : e[2] = m => e[1] \in Left'
  BY <1>4 DEF Preceded
<1>6. NodeRunsOnce'
  BY <1>3 DEF OnceInv, NodeRunsOnce
<1>7. JoinWaits'
  <2> SUFFICES ASSUME NEW j \in Joins, started'[j] > 0, NEW e \in Edge, e[2] = j
               PROVE  passed'[e[1]] > 0
    BY DEF JoinWaits
  <2>1. CASE j = n
    <3>1. e[1] \in Left
      BY <1>1, <2>1 DEF OnceInv, Preceded
    <3> QED
      BY <1>1, <3>1 DEF OnceInv
  <2>2. CASE j # n
    BY <1>1, <1>3, <2>2, KindsAreDisjoint DEF OnceInv, JoinWaits
  <2> QED
    BY <2>1, <2>2
<1>8. LevelCounts'
  BY <1>1, <1>2, <1>3 DEF LevelCounts
<1>9. \A m \in Left' \cup level' : \A e \in Edge : e[2] = m => e[1] \in Left'
  BY <1>1, <1>2, <1>4 DEF OnceInv, Preceded
<1> QED
  BY <1>1, <1>4, <1>6, <1>7, <1>8, <1>9 DEF OnceInv, Preceded

\* A node succeeds: the counts of successes only grow.
LEMMA SuccessOnce ==
  ASSUME OnceInv, WalkInv', NEW n \in Node, NodeSucceeds(n)
  PROVE  OnceInv'
<1>1. /\ pc = "level" /\ n \in level /\ n \in running
      /\ running' = running \ {n}
      /\ passed' = [passed EXCEPT ![n] = @ + 1]
      /\ UNCHANGED <<pc, level, queue, failed, joined, started>>
  BY DEF NodeSucceeds, OnceInv, WalkInv
<1>2. /\ passed \in [Node -> Nat] /\ level \subseteq Node /\ LevelCounts
  BY <1>1 DEF OnceInv, WalkInv
<1>3. /\ passed'[n] > 0
      /\ \A m \in Node : passed[m] > 0 => passed'[m] > 0
  BY <1>1, <1>2
<1>4. Left' = Left /\ Left \subseteq Node
  BY <1>1 DEF Left
<1>5. NodeRunsOnce'
  BY <1>1 DEF OnceInv, NodeRunsOnce
<1>6. JoinWaits'
  BY <1>1, <1>3, GraphIsClosed DEF OnceInv, JoinWaits
<1>7. LevelCounts'
  BY <1>1, <1>2, <1>3 DEF LevelCounts
<1>8. \A m \in Left' \cup level' : \A e \in Edge : e[2] = m => e[1] \in Left'
  BY <1>1, <1>4 DEF OnceInv, Preceded
<1> QED
  BY <1>1, <1>3, <1>4, <1>5, <1>6, <1>7, <1>8 DEF OnceInv, Preceded

\* The next level: nodes not seen before, and preceded by nodes that have succeeded.
LEMMA CompleteOnce ==
  ASSUME ForkJoinShaped, OnceInv, WalkInv', CompleteLevel, pc' # "ended"
  PROVE  OnceInv'
<1>1. PICK skipped \in SUBSET (Conditional \cap Outgoing(level)) :
        LET taken == Outgoing(level) \ skipped
            next == NextLevel(taken)
        IN /\ joined' = JoinedAfter(taken)
           /\ level' = IF next = {} THEN level ELSE next
           /\ pc' = IF next = {} THEN "ended" ELSE "check"
  BY DEF CompleteLevel
<1> DEFINE taken == Outgoing(level) \ skipped
<1>2. joined' = JoinedAfter(taken) /\ level' = NextLevel(taken) /\ pc' = "check"
  BY <1>1
<1>3. taken \subseteq Outgoing(level) /\ taken \subseteq Edge
  BY DEF Outgoing
<1> HIDE DEF taken
<1>4. /\ pc = "level" /\ queue = {} /\ running = {} /\ failed = {}
      /\ UNCHANGED <<started, passed>>
  BY DEF CompleteLevel, LevelDone, counts
<1>5. /\ level \subseteq Node /\ joined \in [Joins -> Nat]
      /\ started \in [Node -> Nat] /\ passed \in [Node -> Nat]
      /\ LevelCounts
  BY <1>4 DEF OnceInv, WalkInv
<1>6. \A n \in level : started[n] > 0 /\ passed[n] > 0
  BY <1>4, <1>5 DEF LevelCounts
<1>7. ASSUME NEW n \in level' PROVE n \in Node /\ n \notin Left \cup level
  <2>1. PICK e \in taken : e[2] = n
    BY <1>2 DEF NextLevel
  <2>2. e \in Edge /\ e[1] \in level
    BY <1>3 DEF Outgoing
  <2>3. e[1] \notin Left
    BY <2>2 DEF Left
  <2>4. ~Preceded(n)
    BY <2>1, <2>2, <2>3 DEF Preceded
  <2>5. n \notin Left \cup level
    BY <1>4, <2>4 DEF OnceInv
  <2> QED
    BY <1>2, <2>5 DEF NextLevel
<1>8. \A n \in level' : started[n] = 0
  BY <1>5, <1>7 DEF Left
<1>9. Left' = Left \cup level
  BY <1>4, <1>5, <1>6, <1>7 DEF Left
<1>10. \A n \in Left : passed[n] > 0
  BY <1>4 DEF OnceInv
<1>11. ASSUME NEW j \in Joins
       PROVE  joined'[j] \in Nat /\ joined'[j] <= Cardinality(Into(j, Left'))
  <2>1. joined[j] \in Nat /\ joined[j] <= Cardinality(Into(j, Left))
    BY <1>4, <1>5 DEF OnceInv
  <2>2. joined'[j] = joined[j] + Cardinality({e \in taken : e[2] = j})
    BY <1>2 DEF JoinedAfter
  <2>3. Left \cap level = {}
    BY DEF Left
  <2>4. joined'[j] <= Cardinality(Into(j, Left \cup level))
    <3>1. taken \in SUBSET Outgoing(level)
      BY <1>3
    <3>2. joined[j] + Cardinality({e \in taken : e[2] = j})
            <= Cardinality(Into(j, Left \cup level))
      BY <2>1, <2>3, <3>1, CountAfterLevel
    <3> QED
      BY <2>2, <3>2
  <2>5. joined'[j] \in Nat
    BY <1>3, <2>1, <2>2, FiringsAreNat
  <2> QED
    BY <1>9, <2>4, <2>5
<1>12. ASSUME NEW n \in level', NEW e \in Edge, e[2] = n PROVE e[1] \in Left'
  <2>1. CASE n \in Joins
    <3>1. joined'[n] >= InDegree(n)
      BY <1>2, <2>1 DEF NextLevel
    <3> QED
      BY <1>11, <2>1, <3>1, <1>12, FullJoin
  <2>2. CASE n \notin Joins
    <3>1. PICK d \in taken : d[2] = n
      BY <1>2 DEF NextLevel
    <3>2. d \in Edge /\ d[1] \in level
      BY <1>3 DEF Outgoing
    <3>3. d = e
      BY <1>7, <1>12, <2>2, <3>1, <3>2, OneEdgeInto
    <3> QED
      BY <1>9, <3>2, <3>3
  <2> QED
    BY <2>1, <2>2
<1>13. \A n \in Left \cup level : \A e \in Edge : e[2] = n => e[1] \in Left'
  BY <1>4, <1>9 DEF OnceInv, Preceded
<1>14. \A n \in Left' \cup level' : \A e \in Edge : e[2] = n => e[1] \in Left'
  BY <1>9, <1>12, <1>13
<1>15. NodeRunsOnce' /\ JoinWaits'
  BY <1>4 DEF OnceInv, NodeRunsOnce, JoinWaits
<1>16. LevelCounts'
  BY <1>2, <1>4, <1>8 DEF LevelCounts
<1>17. \A n \in Left' : passed'[n] > 0
  BY <1>4, <1>6, <1>9, <1>10
<1> QED
  BY <1>11, <1>14, <1>15, <1>16, <1>17 DEF OnceInv, Preceded

\* Every step of a ForkJoinShaped workflow preserves OnceInv.
LEMMA StepOnce == ASSUME ForkJoinShaped, OnceInv, [Next]_vars PROVE OnceInv'
<1>1. WalkInv' /\ WalkInv
  BY StepWalk DEF OnceInv
<1>2. CASE StoreRoot
  BY <1>1, <1>2, QuietOnce DEF StoreRoot, pool, counts, LevelCounts
<1>3. CASE Cancel
  BY <1>1, <1>3, QuietOnce DEF Cancel, pool, counts, LevelCounts
<1>4. CASE StopCancelled
  BY <1>1, <1>4, EndOnce DEF StopCancelled, counts
<1>5. CASE BeginLevel
  <2>1. LevelCounts => LevelCounts'
    BY <1>1, <1>5 DEF BeginLevel, LevelCounts, WalkInv, counts
  <2> QED
    BY <1>1, <1>5, <2>1, QuietOnce DEF BeginLevel, counts
<1>6. ASSUME NEW n \in Node, Spawn(n) PROVE OnceInv'
  BY <1>1, <1>6, SpawnOnce
<1>7. ASSUME NEW n \in Node, NodeSucceeds(n) PROVE OnceInv'
  BY <1>1, <1>7, SuccessOnce
<1>8. ASSUME NEW n \in Node, NodeFails(n) PROVE OnceInv'
  <2>1. LevelCounts => LevelCounts'
    BY <1>8 DEF NodeFails, LevelCounts, counts
  <2> QED
    BY <1>1, <1>8, <2>1, QuietOnce DEF NodeFails, counts
<1>9. CASE FailLevel \/ StoreFails \/ \E n \in Node : Fade(n)
  BY <1>1, <1>9, EndOnce DEF FailLevel, StoreFails, Fail, Fade, counts
<1>10. CASE CompleteLevel
  <2>1. CASE pc' = "ended"
    BY <1>1, <1>10, <2>1, EndOnce DEF CompleteLevel, counts
  <2>2. CASE pc' # "ended"
    BY <1>1, <1>10, <2>2, CompleteOnce
  <2> QED
    BY <2>1, <2>2
<1>11. CASE UNCHANGED vars
  BY <1>1, <1>11, QuietOnce DEF vars, LevelCounts
<1> QED
  BY <1>2, <1>3, <1>4, <1>5, <1>6, <1>7, <1>8, <1>9, <1>10, <1>11
  DEF Next, Walk, Return

\* In a workflow whose branches meet in joins only, OnceInv is an invariant.
THEOREM OnceInvariant == ASSUME ForkJoinShaped PROVE Spec => []OnceInv
<1>1. Init => OnceInv
  BY InitOnce
<1>2. OnceInv /\ [Next]_vars => OnceInv'
  BY StepOnce
<1> QED
  BY <1>1, <1>2, PTL DEF Spec

\* Such a workflow starts each node at most once, whatever conditions are false and in
\* whatever order its parallel nodes complete.
THEOREM NodesRunOnce == ASSUME ForkJoinShaped PROVE Spec => []NodeRunsOnce
<1>1. OnceInv => NodeRunsOnce
  BY DEF OnceInv
<1> QED
  BY <1>1, OnceInvariant, PTL

\* And none of its joins is started before all of its predecessors have succeeded.
THEOREM JoinsWait == ASSUME ForkJoinShaped PROVE Spec => []JoinWaits
<1>1. OnceInv => JoinWaits
  BY DEF OnceInv
<1> QED
  BY <1>1, OnceInvariant, PTL
----------------------------------------------------------------------------
(***************************************************************************)
(* Any graph again: what is stored of a level, and what becomes of its     *)
(* results.                                                                *)
(***************************************************************************)

\* The nodes of the level in flight that have succeeded.
Finished == IF pc = "level" THEN level \ (queue \cup running \cup failed) ELSE {}

\* The stored transitions that leave n, but for the one a cancelled run ends with.
Leaving(n) ==
  {k \in 2 .. Len(history) : n \in history[k].from /\ history[k].to # {"CANCELLED"}}

\* A node is in one place of the pool at a time, and a node that has finished has one
\* success more than there are transitions that leave it.
PassInv ==
  /\ WalkInv
  /\ queue \cap running = {} /\ failed \cap (queue \cup running) = {}
  /\ \A n \in Node :
       /\ Cardinality(Leaving(n)) <= passed[n]
       /\ n \in Finished => Cardinality(Leaving(n)) < passed[n]

\* Leaving(n) is a finite set of positions.
LEMMA LeavingIsFinite ==
  ASSUME WalkInv, NEW n
  PROVE  IsFiniteSet(Leaving(n)) /\ Cardinality(Leaving(n)) \in Nat
<1>1. Len(history) \in Nat
  BY DEF WalkInv
<1>2. IsFiniteSet(2 .. Len(history))
  BY <1>1, FS_Interval
<1>3. Leaving(n) \subseteq 2 .. Len(history)
  BY DEF Leaving
<1> QED
  BY <1>2, <1>3, FS_Subset, FS_CardinalityType

\* One element more adds at most one to a cardinality.
LEMMA OneMore ==
  ASSUME NEW S, IsFiniteSet(S), NEW x
  PROVE  /\ Cardinality(S \cup {x}) \in Nat /\ Cardinality(S) \in Nat
         /\ Cardinality(S \cup {x}) <= Cardinality(S) + 1
<1>1. Cardinality(S) \in Nat
  BY FS_CardinalityType
<1>2. CASE x \in S
  <2>1. S \cup {x} = S
    BY <1>2
  <2> QED
    BY <1>1, <2>1
<1>3. CASE x \notin S
  <2>1. Cardinality(S \cup {x}) = Cardinality(S) + 1
    BY <1>3, FS_AddElement
  <2> QED
    BY <1>1, <2>1
<1> QED
  BY <1>2, <1>3

\* Recording a transition adds its own position, if it leaves n for another level.
LEMMA LeavingGrows ==
  ASSUME WalkInv, history # <<>>, NEW to \in (SUBSET Node) \cup Closing,
         history' = Record(to), NEW n
  PROVE  Leaving(n)' = IF n \in level /\ to # {"CANCELLED"}
                       THEN Leaving(n) \cup {Len(history) + 1} ELSE Leaving(n)
<1> DEFINE m == Len(history)
<1> DEFINE t == [from |-> level, to |-> to]
<1>1. m \in Nat /\ m >= 1 /\ history \in Seq(StoredTransition) /\ t \in StoredTransition
  BY DEF WalkInv, StoredTransition
<1>2. /\ Len(history') = m + 1
      /\ history'[m + 1] = t
      /\ \A k \in 1 .. m : history'[k] = history[k]
  BY <1>1 DEF Record
<1>3. 2 .. m + 1 = (2 .. m) \cup {m + 1} /\ m + 1 \notin 2 .. m /\ 2 .. m \subseteq 1 .. m
  BY <1>1
<1>4. Leaving(n)' = {k \in 2 .. m + 1 : n \in history'[k].from /\ history'[k].to # {"CANCELLED"}}
  BY <1>2 DEF Leaving
<1>5. \A k \in 2 .. m : history'[k] = history[k]
  BY <1>2, <1>3
<1> QED
  BY <1>2, <1>3, <1>4, <1>5 DEF Leaving

\* A step that stores nothing and takes no success back.
LEMMA NothingLeft ==
  ASSUME PassInv, WalkInv', UNCHANGED history,
         queue' \cap running' = {}, failed' \cap (queue' \cup running') = {},
         \A n \in Node : passed'[n] >= passed[n],
         \A n \in Finished' : n \in Finished \/ passed'[n] > passed[n]
  PROVE  PassInv'
<1>1. ASSUME NEW n \in Node
      PROVE  /\ Cardinality(Leaving(n))' <= passed'[n]
             /\ n \in Finished' => Cardinality(Leaving(n))' < passed'[n]
  <2>1. Leaving(n)' = Leaving(n)
    BY DEF Leaving
  <2>2. /\ Cardinality(Leaving(n)) \in Nat /\ passed[n] \in Nat /\ passed'[n] \in Nat
        /\ Cardinality(Leaving(n)) <= passed[n] /\ passed'[n] >= passed[n]
    BY LeavingIsFinite DEF PassInv, WalkInv
  <2>3. n \in Finished => Cardinality(Leaving(n)) < passed[n]
    BY DEF PassInv
  <2>4. n \in Finished' => Cardinality(Leaving(n)) < passed'[n]
    BY <2>2, <2>3
  <2> QED
    BY <2>1, <2>2, <2>4
<1> QED
  BY <1>1 DEF PassInv

\* A completed level is left by all its nodes, each of which has finished.
LEMMA CompletePass ==
  ASSUME PassInv, WalkInv', CompleteLevel
  PROVE  PassInv'
<1>1. PICK skipped \in SUBSET (Conditional \cap Outgoing(level)) :
        LET taken == Outgoing(level) \ skipped
            next == NextLevel(taken)
        IN history' = Record(IF next = {} THEN {"END"} ELSE next)
  BY DEF CompleteLevel
<1> DEFINE next == NextLevel(Outgoing(level) \ skipped)
<1> DEFINE to == IF next = {} THEN {"END"} ELSE next
<1>2. history' = Record(to) /\ to \in (SUBSET Node) \cup Closing
  BY <1>1, NextLevelIsNodes DEF Closing
<1>3. /\ pc = "level" /\ queue = {} /\ running = {} /\ failed = {} /\ pc' \in {"check", "ended"}
      /\ UNCHANGED <<queue, running, failed, passed>>
  BY DEF CompleteLevel, LevelDone, counts
<1>4. history # <<>> /\ level \subseteq Node
  BY <1>3 DEF PassInv, WalkInv
<1>5. Finished = level /\ Finished' = {}
  BY <1>3 DEF Finished
<1> HIDE DEF to
<1>6. ASSUME NEW n \in Node PROVE Cardinality(Leaving(n)') <= passed'[n]
  <2>1. /\ IsFiniteSet(Leaving(n)) /\ Cardinality(Leaving(n)) \in Nat
        /\ Cardinality(Leaving(n)) <= passed[n] /\ passed[n] \in Nat
    BY LeavingIsFinite DEF PassInv, WalkInv
  <2>2. Leaving(n)' = Leaving(n) \/ (n \in level /\ Leaving(n)' = Leaving(n) \cup {Len(history) + 1})
    BY <1>2, <1>4, LeavingGrows DEF PassInv
  <2>3. CASE Leaving(n)' = Leaving(n)
    BY <1>3, <2>1, <2>3
  <2>4. CASE n \in level /\ Leaving(n)' = Leaving(n) \cup {Len(history) + 1}
    <3>1. Cardinality(Leaving(n)) < passed[n]
      BY <1>5, <2>4 DEF PassInv
    <3>2. /\ Cardinality(Leaving(n) \cup {Len(history) + 1}) \in Nat
          /\ Cardinality(Leaving(n) \cup {Len(history) + 1}) <= Cardinality(Leaving(n)) + 1
      BY <2>1, OneMore
    <3>3. Cardinality(Leaving(n) \cup {Len(history) + 1}) <= passed[n]
      BY <2>1, <3>1, <3>2
    <3> QED
      BY <1>3, <2>4, <3>3
  <2> QED
    BY <2>2, <2>3, <2>4
<1> QED
  BY <1>3, <1>5, <1>6 DEF PassInv

\* A cancelled run stores a transition that does not count, and the root leaves nothing.
LEMMA ClosePass ==
  ASSUME PassInv, WalkInv', StopCancelled \/ StoreRoot
  PROVE  PassInv'
<1>1. /\ UNCHANGED <<queue, running, failed, passed>> /\ pc \in {"check", "start"}
      /\ pc' \in {"check", "ended"}
  BY DEF StopCancelled, StoreRoot, pool, counts
<1>2. ASSUME NEW n \in Node PROVE Cardinality(Leaving(n)') <= passed'[n]
  <2>1. Cardinality(Leaving(n)) <= passed[n] /\ passed[n] \in Nat
    BY DEF PassInv, WalkInv
  <2>2. CASE StopCancelled
    <3>1. history # <<>> /\ history' = Record({"CANCELLED"})
      BY <2>2 DEF StopCancelled, PassInv, WalkInv
    <3>2. Leaving(n)' = Leaving(n)
      BY <3>1, LeavingGrows DEF PassInv, Closing
    <3> QED
      BY <1>1, <2>1, <3>2
  <2>3. CASE StoreRoot
    <3>1. Len(history') = 1
      BY <2>3 DEF StoreRoot
    <3>2. Leaving(n)' = {}
      BY <3>1 DEF Leaving
    <3> QED
      BY <1>1, <2>1, <3>2, FS_EmptySet
  <2> QED
    BY <2>2, <2>3
<1>3. Finished' = {}
  BY <1>1 DEF Finished
<1> QED
  BY <1>1, <1>2, <1>3 DEF PassInv

\* Every step preserves PassInv.
LEMMA StepPass == PassInv /\ [Next]_vars => PassInv'
<1> SUFFICES ASSUME PassInv, [Next]_vars PROVE PassInv'
  OBVIOUS
<1>1. WalkInv /\ WalkInv'
  BY StepWalk DEF PassInv
<1>2. /\ \A n \in Node : passed[n] \in Nat
      /\ queue \cap running = {} /\ failed \cap (queue \cup running) = {}
  BY DEF PassInv, WalkInv
<1>3. CASE StopCancelled \/ StoreRoot
  BY <1>1, <1>3, ClosePass
<1>4. CASE Cancel \/ UNCHANGED vars
  <2>1. UNCHANGED <<history, queue, running, failed, passed, pc, level>>
    BY <1>4 DEF Cancel, vars, pool, counts
  <2>2. Finished' = Finished
    BY <2>1 DEF Finished
  <2> QED
    BY <1>1, <1>2, <2>1, <2>2, NothingLeft
<1>5. CASE BeginLevel
  <2>1. /\ queue' = level /\ pc' = "level" /\ pc = "check"
        /\ UNCHANGED <<history, running, failed, passed, level>>
    BY <1>5 DEF BeginLevel, counts
  <2>2. running = {} /\ failed = {}
    BY <1>1, <2>1 DEF WalkInv
  <2>3. Finished' = {}
    BY <2>1, <2>2 DEF Finished
  <2> QED
    BY <1>1, <1>2, <2>1, <2>2, <2>3, NothingLeft
<1>6. ASSUME NEW n \in Node, Spawn(n) PROVE PassInv'
  <2>1. /\ n \in queue /\ queue' = queue \ {n} /\ running' = running \cup {n}
        /\ UNCHANGED <<history, failed, passed, level, pc>>
    BY <1>6 DEF Spawn
  <2>2. Finished' = Finished
    BY <2>1 DEF Finished
  <2>3. queue' \cap running' = {} /\ failed' \cap (queue' \cup running') = {}
    BY <1>2, <2>1
  <2> QED
    BY <1>1, <1>2, <2>1, <2>2, <2>3, NothingLeft
<1>7. ASSUME NEW n \in Node, NodeSucceeds(n) PROVE PassInv'
  <2>1. /\ n \in running /\ running' = running \ {n}
        /\ passed' = [passed EXCEPT ![n] = @ + 1]
        /\ UNCHANGED <<history, queue, failed, level, pc>>
    BY <1>7 DEF NodeSucceeds
  <2>2. passed'[n] > passed[n] /\ \A m \in Node : passed'[m] >= passed[m]
    BY <1>1, <1>2, <2>1 DEF WalkInv
  <2>3. Finished' \subseteq Finished \cup {n}
    BY <2>1 DEF Finished
  <2>4. queue' \cap running' = {} /\ failed' \cap (queue' \cup running') = {}
    BY <1>2, <2>1
  <2> QED
    BY <1>1, <2>1, <2>2, <2>3, <2>4, NothingLeft
<1>8. ASSUME NEW n \in Node, NodeFails(n) PROVE PassInv'
  <2>1. /\ n \in running /\ running' = running \ {n} /\ failed' = failed \cup {n}
        /\ UNCHANGED <<history, queue, passed, level, pc>>
    BY <1>8 DEF NodeFails, counts
  <2>2. Finished' = Finished
    BY <2>1 DEF Finished
  <2>3. queue' \cap running' = {} /\ failed' \cap (queue' \cup running') = {}
    BY <1>2, <2>1
  <2> QED
    BY <1>1, <1>2, <2>1, <2>2, <2>3, NothingLeft
<1>9. CASE FailLevel \/ StoreFails
  <2>1. /\ pc' = "ended" /\ queue' = {}
        /\ UNCHANGED <<history, running, failed, passed>>
    BY <1>9 DEF FailLevel, StoreFails, Fail, counts
  <2>2. Finished' = {}
    BY <2>1 DEF Finished
  <2> QED
    BY <1>1, <1>2, <2>1, <2>2, NothingLeft
<1>10. CASE CompleteLevel
  BY <1>1, <1>10, CompletePass
<1>11. ASSUME NEW n \in Node, Fade(n) PROVE PassInv'
  <2>1. /\ running' \subseteq running /\ pc' = "ended"
        /\ UNCHANGED <<history, queue, failed, passed>>
    BY <1>11 DEF Fade, counts
  <2>2. Finished' = {}
    BY <2>1 DEF Finished
  <2>3. queue' \cap running' = {} /\ failed' \cap (queue' \cup running') = {}
    BY <1>2, <2>1
  <2> QED
    BY <1>1, <1>2, <2>1, <2>2, <2>3, NothingLeft
<1> QED
  BY <1>3, <1>4, <1>5, <1>6, <1>7, <1>8, <1>9, <1>10, <1>11 DEF Next, Walk, Return

\* The start state satisfies PassInv.
LEMMA InitPass == ASSUME Init PROVE PassInv
<1>1. \A n \in Node : Leaving(n) = {}
  BY DEF Init, Leaving
<1>2. \A n \in Node : Cardinality(Leaving(n)) = 0
  BY <1>1, FS_EmptySet
<1>3. Finished = {}
  BY DEF Init, Finished
<1>4. queue = {} /\ running = {} /\ failed = {} /\ \A n \in Node : passed[n] = 0
  BY DEF Init
<1> QED
  BY <1>2, <1>3, <1>4, InitWalk DEF PassInv

\* PassInv holds of every workflow, cyclic ones included.
THEOREM PassInvariant == Spec => []PassInv
<1>1. Init => PassInv
  BY InitPass
<1> QED
  BY <1>1, StepPass, PTL DEF Spec

\* A stored transition vouches for a success of every node it leaves, each time it is
\* left, however the level's tasks interleaved and whatever failed (Executor::run).
THEOREM StoredNodesHavePassed == Spec => []RecordedNodesPassed
<1>1. PassInv => RecordedNodesPassed
  BY DEF PassInv, RecordedNodesPassed, Vouched, Leaving
<1> QED
  BY <1>1, PassInvariant, PTL

\* How often a node has been started, read off the history: once more than transitions
\* vouch for it, if it is of the level in flight and no longer in the queue.
StartInv ==
  /\ PassInv
  /\ StartsAreRecorded
  /\ \A n \in running : started[n] > 0
  /\ \A n \in Node :
       /\ pc \in {"start", "check"} \/ n \in queue => started[n] = Vouched(n)
       /\ pc = "level" /\ n \in level \ queue => started[n] = Vouched(n) + 1

\* Steps that neither store nor start anything.
LEMMA QuietStart ==
  ASSUME StartInv, PassInv', UNCHANGED <<history, level, started>>, running' \subseteq running,
         outcome' = outcome \/ outcome' # "ok",
         pc' \in {"start", "check"} => pc = pc',
         queue' \subseteq queue \/ (queue' \subseteq level /\ pc = "check"),
         pc' = "level" => (pc = "level" /\ queue' = queue) \/ queue' = level
  PROVE  StartInv'
<1>1. \A n : Vouched(n)' = Vouched(n)
  BY DEF Vouched
<1>2. StartsAreRecorded'
  BY <1>1 DEF StartInv, StartsAreRecorded
<1>3. level \subseteq Node /\ running \subseteq Node
  BY DEF StartInv, PassInv, WalkInv
<1>4. \A n \in running' : started'[n] > 0
  BY DEF StartInv
<1>5. ASSUME NEW n \in Node
      PROVE  /\ pc' \in {"start", "check"} \/ n \in queue' => started'[n] = Vouched(n)'
             /\ pc' = "level" /\ n \in level' \ queue' => started'[n] = Vouched(n)' + 1
  BY <1>1 DEF StartInv
<1> QED
  BY <1>2, <1>4, <1>5 DEF StartInv

\* A node of the level is started.
LEMMA SpawnStart ==
  ASSUME StartInv, PassInv', NEW n \in Node, Spawn(n)
  PROVE  StartInv'
<1>1. /\ pc = "level" /\ n \in level /\ n \in queue /\ outcome = "running"
      /\ queue' = queue \ {n} /\ running' = running \cup {n}
      /\ started' = [started EXCEPT ![n] = @ + 1]
      /\ UNCHANGED <<pc, level, history, outcome>>
      /\ started \in [Node -> Nat] /\ queue \subseteq level /\ running \subseteq level
      /\ level \subseteq Node
  BY DEF Spawn, StartInv, PassInv, WalkInv
<1>2. \A m : Vouched(m)' = Vouched(m)
  BY <1>1 DEF Vouched
<1>3. /\ started[n] = Vouched(n) /\ started'[n] = Vouched(n) + 1 /\ started'[n] > 0
      /\ \A m \in Node \ {n} : started'[m] = started[m]
  BY <1>1 DEF StartInv
<1>4. StartsAreRecorded'
  BY <1>1, <1>2, <1>3 DEF StartInv, StartsAreRecorded
<1>5. \A m \in running' : started'[m] > 0
  BY <1>1, <1>3 DEF StartInv
<1>6. ASSUME NEW m \in Node
      PROVE  /\ pc' \in {"start", "check"} \/ m \in queue' => started'[m] = Vouched(m)'
             /\ pc' = "level" /\ m \in level' \ queue' => started'[m] = Vouched(m)' + 1
  BY <1>1, <1>2, <1>3 DEF StartInv
<1> QED
  BY <1>4, <1>5, <1>6 DEF StartInv

\* A level that has been recorded: its own nodes had been started once more than was vouched
\* for, and are vouched for once more now.
LEMMA CompleteStart ==
  ASSUME StartInv, PassInv', CompleteLevel
  PROVE  StartInv'
<1>1. PICK skipped \in SUBSET (Conditional \cap Outgoing(level)) :
        LET taken == Outgoing(level) \ skipped
            next == NextLevel(taken)
        IN history' = Record(IF next = {} THEN {"END"} ELSE next)
  BY DEF CompleteLevel
<1> DEFINE next == NextLevel(Outgoing(level) \ skipped)
<1> DEFINE to == IF next = {} THEN {"END"} ELSE next
<1>2. history' = Record(to) /\ to \in (SUBSET Node) \cup Closing /\ to # {"CANCELLED"}
  <2>1. next \subseteq Node
    BY NextLevelIsNodes
  <2> QED
    BY <1>1, <2>1, NamesAreNotClosing DEF Closing
<1>3. /\ pc = "level" /\ queue = {} /\ running = {} /\ pc' \in {"check", "ended"}
      /\ UNCHANGED <<queue, running, started>>
  BY DEF CompleteLevel, LevelDone, counts
<1>4. history # <<>> /\ level \subseteq Node /\ outcome = "running" /\ WalkInv
  BY <1>3 DEF StartInv, PassInv, WalkInv
<1> HIDE DEF to
<1>5. ASSUME NEW n \in Node PROVE started'[n] = Vouched(n)'
  <2>1. /\ IsFiniteSet(Leaving(n)) /\ Cardinality(Leaving(n)) \in Nat
        /\ Vouched(n) = Cardinality(Leaving(n)) /\ Vouched(n)' = Cardinality(Leaving(n)')
    BY <1>4, LeavingIsFinite DEF Vouched, Leaving
  <2>2. CASE n \in level
    <3>1. Leaving(n)' = Leaving(n) \cup {Len(history) + 1}
      BY <1>2, <1>4, <2>2, LeavingGrows
    <3>2. Len(history) + 1 \notin Leaving(n)
      BY <1>4 DEF Leaving, WalkInv
    <3>3. Cardinality(Leaving(n)') = Cardinality(Leaving(n)) + 1
      BY <2>1, <3>1, <3>2, FS_AddElement
    <3>4. started[n] = Vouched(n) + 1
      BY <1>3, <2>2 DEF StartInv
    <3> QED
      BY <1>3, <2>1, <3>3, <3>4
  <2>3. CASE n \notin level
    <3>1. Leaving(n)' = Leaving(n)
      BY <1>2, <1>4, <2>3, LeavingGrows
    <3>2. started[n] = Vouched(n)
      BY <2>3 DEF StartInv, StartsAreRecorded
    <3> QED
      BY <1>3, <2>1, <3>1, <3>2
  <2> QED
    BY <2>2, <2>3
<1> QED
  BY <1>3, <1>5 DEF StartInv, StartsAreRecorded

\* A cancelled run stores a transition that vouches for nothing, and so does the root.
LEMMA CloseStart ==
  ASSUME StartInv, PassInv', StopCancelled \/ StoreRoot
  PROVE  StartInv'
<1>1. /\ UNCHANGED <<queue, running, started>> /\ pc \in {"check", "start"}
      /\ pc' \in {"check", "ended"} /\ queue = {} /\ running = {}
  BY DEF StopCancelled, StoreRoot, pool, counts, StartInv, PassInv, WalkInv
<1>2. ASSUME NEW n \in Node PROVE started'[n] = Vouched(n)'
  <2>1. started[n] = Vouched(n)
    BY <1>1 DEF StartInv
  <2>2. CASE StopCancelled
    <3>1. history # <<>> /\ history' = Record({"CANCELLED"}) /\ WalkInv
      BY <2>2 DEF StopCancelled, StartInv, PassInv, WalkInv
    <3>2. Leaving(n)' = Leaving(n)
      BY <3>1, LeavingGrows DEF Closing
    <3> QED
      BY <1>1, <2>1, <3>2 DEF Vouched, Leaving
  <2>3. CASE StoreRoot
    <3>1. Len(history') = 1 /\ Len(history) = 0
      BY <2>3 DEF StoreRoot, StartInv, PassInv, WalkInv
    <3>2. Leaving(n)' = {} /\ Leaving(n) = {}
      BY <3>1 DEF Leaving
    <3> QED
      BY <1>1, <2>1, <3>2 DEF Vouched, Leaving
  <2> QED
    BY <2>2, <2>3
<1> QED
  BY <1>1, <1>2 DEF StartInv, StartsAreRecorded

\* Every step preserves StartInv.
LEMMA StepStart == StartInv /\ [Next]_vars => StartInv'
<1> SUFFICES ASSUME StartInv, [Next]_vars PROVE StartInv'
  OBVIOUS
<1>1. PassInv' /\ WalkInv
  BY StepPass DEF StartInv, PassInv
<1>2. CASE StopCancelled \/ StoreRoot
  BY <1>1, <1>2, CloseStart
<1>3. CASE CompleteLevel
  BY <1>1, <1>3, CompleteStart
<1>4. CASE BeginLevel
  <2>1. /\ pc = "check" /\ pc' = "level" /\ queue' = level
        /\ UNCHANGED <<history, level, started, running, outcome>>
    BY <1>4 DEF BeginLevel, counts
  <2> QED
    BY <1>1, <2>1, QuietStart
<1>5. ASSUME NEW n \in Node, Spawn(n) PROVE StartInv'
  BY <1>1, <1>5, SpawnStart
<1>6. ASSUME NEW n \in Node, Return(n) \/ Fade(n) PROVE StartInv'
  <2>1. running' \subseteq running /\ UNCHANGED <<history, level, started, outcome, pc, queue>>
    BY <1>6 DEF Return, NodeSucceeds, NodeFails, Fade, counts
  <2> QED
    BY <1>1, <2>1, QuietStart
<1>7. CASE Cancel \/ UNCHANGED vars
  <2>1. UNCHANGED <<history, level, started, running, outcome, pc, queue>>
    BY <1>7 DEF Cancel, pool, counts, vars
  <2> QED
    BY <1>1, <2>1, QuietStart
<1>8. CASE FailLevel \/ StoreFails
  <2>1. /\ pc' = "ended" /\ outcome' = "failed" /\ queue' = {}
        /\ UNCHANGED <<history, level, started, running>>
    BY <1>8 DEF FailLevel, StoreFails, Fail, counts
  <2> QED
    BY <1>1, <2>1, QuietStart
<1> QED
  BY <1>2, <1>3, <1>4, <1>5, <1>6, <1>7, <1>8 DEF Next, Walk

\* At the start nothing has been started or stored.
LEMMA InitStart == ASSUME Init PROVE StartInv
<1>1. PassInv
  BY InitPass
<1>2. \A n \in Node : Vouched(n) = 0
  <2>1. \A n \in Node : Leaving(n) = {}
    BY DEF Init, Leaving
  <2> QED
    BY <2>1, FS_EmptySet DEF Vouched, Leaving
<1> QED
  BY <1>1, <1>2 DEF Init, StartInv, StartsAreRecorded

\* What a run has had done and not recorded is at most the level where it is or has failed,
\* each node of it once: on any graph, with failures of nodes and of the store at any point.
THEOREM StartsAreVouchedFor == Spec => []StartsAreRecorded
<1>1. Init => StartInv
  BY InitStart
<1>2. StartInv => StartsAreRecorded
  BY DEF StartInv
<1> QED
  BY <1>1, <1>2, StepStart, PTL DEF Spec
\* The labels of the stored transitions, which is what a reader of the store is shown.
Labels == [k \in 1 .. Len(history) |-> history[k].to]

\* Recording a transition is one step of the abstract history: it was open, and it grows
\* by one label at its end.
LEMMA RecordIsAbstract ==
  ASSUME WalkInv, history # <<>>, outcome # "ok", NEW to \in ((SUBSET Node) \ {{}}) \cup Closing,
         history' = Record(to)
  PROVE  History!Next
<1> DEFINE m == Len(history)
<1> DEFINE t == [from |-> level, to |-> to]
<1>1. m \in Nat /\ m >= 1 /\ history \in Seq(StoredTransition) /\ t \in StoredTransition
  BY DEF WalkInv, StoredTransition
<1>2. /\ Len(history') = m + 1
      /\ history'[m + 1].to = to
      /\ \A k \in 1 .. m : history'[k] = history[k]
  BY <1>1 DEF Record
<1> DEFINE new == [k \in 1 .. m + 1 |-> history'[k].to]
<1>3. Labels' = new
  BY <1>2 DEF Labels
<1>4. /\ Labels \in Seq((SUBSET Node) \cup Closing) /\ Len(Labels) = m
      /\ new \in Seq((SUBSET Node) \cup Closing) /\ Len(new) = m + 1
  <2>0. \A k \in 1 .. m : history[k] \in StoredTransition
    BY <1>1
  <2>1. \A k \in 1 .. m : history[k].to \in (SUBSET Node) \cup Closing
    BY <2>0 DEF StoredTransition
  <2>2. \A k \in 1 .. m + 1 : history'[k].to \in (SUBSET Node) \cup Closing
    BY <1>1, <1>2, <2>1
  <2> QED
    BY <1>1, <2>1, <2>2 DEF Labels
<1>5. new = Append(Labels, to)
  <2>1. \A k \in 1 .. m + 1 : new[k] = Append(Labels, to)[k]
    BY <1>1, <1>2, <1>4 DEF Labels
  <2>2. /\ Append(Labels, to) \in Seq((SUBSET Node) \cup Closing)
        /\ Len(Append(Labels, to)) = m + 1
    BY <1>4
  <2> HIDE DEF new
  <2> QED
    BY <1>4, <2>1, <2>2, SeqEqual
<1>6. Labels # <<>> /\ Labels[m] = history[m].to /\ history[m].to \notin Closing
  BY <1>1, <1>4 DEF Labels, WalkInv, OkMeansFinished
<1> DEFINE h == [e \in {"run"} |-> Labels]
<1>7. History!Accepts(h["run"], to)
  BY <1>4, <1>6 DEF History!Accepts
<1>8. [e \in {"run"} |-> Labels'] = [h EXCEPT !["run"] = Append(@, to)]
  <2> HIDE DEF new
  <2> QED
    BY <1>3, <1>5
<1>9. History!Record("run", to)
  BY <1>7, <1>8 DEF History!Record, Labels
<1> QED
  BY <1>9 DEF History!Next

\* The root is what an empty history accepts.
LEMMA RootIsAbstract ==
  ASSUME WalkInv, StoreRoot
  PROVE  History!Next
<1> DEFINE h == [e \in {"run"} |-> Labels]
<1>1. history = <<>> /\ history' = <<[from |-> {}, to |-> {}]>>
  BY DEF WalkInv, StoreRoot
<1>2. Labels = <<>>
  BY <1>1 DEF Labels
<1>3. Labels' = <<{}>>
  <2>1. Len(history') = 1 /\ history'[1].to = {}
    BY <1>1
  <2>2. Labels' = [k \in 1 .. 1 |-> {}]
    BY <2>1 DEF Labels
  <2> QED
    BY <2>2
<1>4. [e \in {"run"} |-> Labels'] = [h EXCEPT !["run"] = Append(@, {})]
  <2>1. Labels' = Append(Labels, {})
    BY <1>2, <1>3
  <2> QED
    BY <2>1
<1>5. History!Accepts(h["run"], {})
  BY <1>2 DEF History!Accepts
<1>6. History!Record("run", {})
  BY <1>4, <1>5 DEF History!Record, Labels
<1> QED
  BY <1>6 DEF History!Next

\* The executor implements the append-only history: on every graph, a run stores its root
\* first, then one transition at a time, and nothing after END or CANCELLED.
THEOREM ExecutorImplementsHistory == Spec => ImplementsHistory
<1>1. Init => History!Init
  BY DEF Init, History!Init
<1>2. WalkInv /\ [Next]_vars => [History!Next]_([e \in {"run"} |-> [k \in 1 .. Len(history) |-> history[k].to]])
  <2> SUFFICES ASSUME WalkInv, [Next]_vars, history' # history PROVE History!Next
    OBVIOUS
  <2>1. CASE StoreRoot
    BY <2>1, RootIsAbstract
  <2>2. CASE StopCancelled
    <3>1. history # <<>> /\ outcome # "ok" /\ history' = Record({"CANCELLED"})
      BY <2>2 DEF StopCancelled, WalkInv
    <3> QED
      BY <3>1, RecordIsAbstract DEF Closing
  <2>3. CASE CompleteLevel
    <3>1. PICK skipped \in SUBSET (Conditional \cap Outgoing(level)) :
            LET taken == Outgoing(level) \ skipped
                next == NextLevel(taken)
            IN history' = Record(IF next = {} THEN {"END"} ELSE next)
      BY <2>3 DEF CompleteLevel
    <3> DEFINE next == NextLevel(Outgoing(level) \ skipped)
    <3> DEFINE to == IF next = {} THEN {"END"} ELSE next
    <3>2. history' = Record(to) /\ to \in ((SUBSET Node) \ {{}}) \cup Closing
      BY <3>1, NextLevelIsNodes DEF Closing
    <3>3. history # <<>> /\ outcome # "ok"
      BY <2>3 DEF CompleteLevel, LevelDone, WalkInv
    <3> HIDE DEF to
    <3> QED
      BY <3>2, <3>3, RecordIsAbstract
  <2>4. history' = history \/ StoreRoot \/ StopCancelled \/ CompleteLevel
    BY DEF Next, Walk, Return, Cancel, BeginLevel, FailLevel, StoreFails, Fail, Spawn,
           NodeSucceeds, NodeFails, Fade, counts, vars
  <2> QED
    BY <2>1, <2>2, <2>3, <2>4
<1> QED
  BY <1>1, <1>2, WalkInvariant, PTL DEF Spec, ImplementsHistory, History!Spec
----------------------------------------------------------------------------
(***************************************************************************)
(* The payloads.                                                           *)
(***************************************************************************)

Payload == UNION {[D -> Nat] : D \in SUBSET Key}
Result == [node : Node, out : Payload]

\* While a level is in flight, the results collected are those its finished nodes can
\* return, given the payload and the history as they still are.
ResultsInv ==
  /\ PassInv
  /\ IsPayload(payload)
  /\ done \in Seq(Result)
  /\ pc \in {"start", "check"} => done = <<>>
  /\ \A i \in DOMAIN done : done[i].node \in level
  /\ pc = "level" =>
       /\ \A i \in DOMAIN done : done[i].out \in Results(done[i].node)
       /\ \A n \in Finished : \E i \in DOMAIN done : done[i].node = n

\* Payload is the set of the functions that IsPayload describes.
LEMMA PayloadIs ==
  ASSUME NEW p
  PROVE  IsPayload(p) <=> p \in Payload
BY DEF IsPayload, Payload

\* A finite set of integers that is not empty has a greatest element: otherwise the
\* elements above each of its elements would form an endless chain of smaller sets.
LEMMA HasGreatest ==
  ASSUME NEW S, IsFiniteSet(S), S \subseteq Int, S # {}
  PROVE  \E m \in S : \A i \in S : i <= m
<1> DEFINE Above(i) == {j \in S : j > i}
<1> DEFINE T == {Above(i) : i \in S}
<1>1. IsWellFoundedOn(StrictSubsetOrdering(S), SUBSET S)
  BY FS_StrictSubsetOrderingWellFounded, FS_FiniteSubsetsOfFinite
<1>2. T \subseteq SUBSET S /\ T # {}
  OBVIOUS
<1>3. PICK x \in T : \A y \in T : <<y, x>> \notin StrictSubsetOrdering(S)
  <2> HIDE DEF T
  <2> QED
    BY <1>1, <1>2, WFMin
<1>4. PICK m \in S : x = Above(m)
  OBVIOUS
<1>5. ASSUME NEW j \in S, j > m PROVE FALSE
  <2>1. j \in Int /\ m \in Int /\ \A i \in S : i \in Int
    OBVIOUS
  <2>2. Above(j) \subseteq Above(m)
    <3>1. \A i \in S : i > j => i > m
      BY <1>5, <2>1
    <3> QED
      BY <3>1
  <2>3. j \in Above(m) /\ j \notin Above(j)
    BY <1>5, <2>1
  <2>4. Above(j) \in T /\ <<Above(j), Above(m)>> \in (SUBSET S) \X (SUBSET S)
    OBVIOUS
  <2> HIDE DEF Above, T
  <2>5. <<Above(j), Above(m)>> \in StrictSubsetOrdering(S)
    BY <2>2, <2>3, <2>4 DEF StrictSubsetOrdering
  <2> QED
    BY <1>3, <1>4, <2>4, <2>5
<1>6. \A j \in S : j \in Int /\ ~(j > m) /\ m \in Int
  BY <1>5
<1> QED
  BY <1>6

\* What Merged returns: a path that no result has keeps the value of base, and every
\* other path has the value that some result gives it (merge_json).
LEMMA MergedIs ==
  ASSUME NEW base, NEW results \in Seq(Result)
  PROVE  /\ \A k : k \in DOMAIN Merged(base, results) <=>
                    \/ k \in DOMAIN base
                    \/ \E i \in DOMAIN results : k \in DOMAIN results[i].out
         /\ \A k \in DOMAIN Merged(base, results) :
              \/ /\ k \in DOMAIN base
                 /\ \A i \in DOMAIN results : k \notin DOMAIN results[i].out
                 /\ Merged(base, results)[k] = base[k]
              \/ \E i \in DOMAIN results :
                   /\ k \in DOMAIN results[i].out
                   /\ Merged(base, results)[k] = results[i].out[k]
<1> DEFINE Having(k) == {i \in DOMAIN results : k \in DOMAIN results[i].out}
<1> DEFINE Latest(S) == CHOOSE i \in S : \A j \in S : j <= i
<1> DEFINE D == DOMAIN base \cup UNION {DOMAIN results[i].out : i \in DOMAIN results}
<1>1. Merged(base, results) =
        [k \in D |-> IF Having(k) = {} THEN base[k] ELSE results[Latest(Having(k))].out[k]]
  BY DEF Merged
<1>2. ASSUME NEW k \in D, Having(k) # {} PROVE Latest(Having(k)) \in Having(k)
  <2>1. Having(k) \subseteq 1 .. Len(results) /\ Len(results) \in Nat
    OBVIOUS
  <2> HIDE DEF Having
  <2>2. IsFiniteSet(1 .. Len(results)) /\ Having(k) \in SUBSET (1 .. Len(results))
    BY <2>1, FS_Interval
  <2>3. IsFiniteSet(Having(k)) /\ Having(k) \subseteq Int
    BY <2>2, FS_Subset
  <2>4. \E m \in Having(k) : \A i \in Having(k) : i <= m
    BY <1>2, <2>3, HasGreatest
  <2> QED
    BY <2>4
<1>3. ASSUME NEW k \in D, Having(k) = {}
      PROVE  k \in DOMAIN base /\ \A i \in DOMAIN results : k \notin DOMAIN results[i].out
  BY <1>3
<1>4. \A k \in D : \A i \in Having(k) : i \in DOMAIN results /\ k \in DOMAIN results[i].out
  OBVIOUS
<1> HIDE DEF Having, Latest, D
<1>5. DOMAIN Merged(base, results) = D
  BY <1>1
<1>6. ASSUME NEW k \in D
      PROVE  Merged(base, results)[k] =
               IF Having(k) = {} THEN base[k] ELSE results[Latest(Having(k))].out[k]
  BY <1>1
<1>7. ASSUME NEW k \in D
      PROVE  \/ /\ k \in DOMAIN base
                /\ \A i \in DOMAIN results : k \notin DOMAIN results[i].out
                /\ Merged(base, results)[k] = base[k]
             \/ \E i \in DOMAIN results :
                  /\ k \in DOMAIN results[i].out
                  /\ Merged(base, results)[k] = results[i].out[k]
  <2>1. CASE Having(k) = {}
    BY <1>3, <1>6, <2>1
  <2>2. CASE Having(k) # {}
    <3>1. Latest(Having(k)) \in Having(k)
      BY <1>2, <2>2
    <3> QED
      BY <1>4, <1>6, <2>2, <3>1
  <2> QED
    BY <2>1, <2>2
<1>8. \A k : k \in D <=> \/ k \in DOMAIN base
                        \/ \E i \in DOMAIN results : k \in DOMAIN results[i].out
  BY DEF D
<1> QED
  BY <1>5, <1>7, <1>8

\* Merging payloads into a payload gives a payload.
LEMMA MergedIsPayload ==
  ASSUME NEW base, IsPayload(base), NEW results \in Seq(Result)
  PROVE  IsPayload(Merged(base, results))
<1> DEFINE m == Merged(base, results)
<1>0. \A i \in DOMAIN results : results[i] \in Result
  OBVIOUS
<1>1. \A i \in DOMAIN results : IsPayload(results[i].out)
  BY <1>0, PayloadIs DEF Result
<1>2. /\ \A k \in DOMAIN m :
           k \in DOMAIN base \/ \E i \in DOMAIN results : k \in DOMAIN results[i].out
      /\ \A k \in DOMAIN m :
           \/ k \in DOMAIN base /\ m[k] = base[k]
           \/ \E i \in DOMAIN results : k \in DOMAIN results[i].out /\ m[k] = results[i].out[k]
  BY MergedIs
<1>3. DOMAIN m \subseteq Key
  BY <1>1, <1>2 DEF IsPayload
<1>4. \A k \in DOMAIN m : m[k] \in Nat
  BY <1>1, <1>2 DEF IsPayload
<1>5. m = [k \in DOMAIN m |-> m[k]]
  BY DEF Merged
<1> HIDE DEF m
<1>6. m \in [DOMAIN m -> Nat]
  BY <1>4, <1>5
<1> QED
  BY <1>3, <1>6 DEF IsPayload, m

\* What a node can return: a payload, with its own paths set to the number of the level
\* and no path that was neither given nor its own.
LEMMA ResultIs ==
  ASSUME IsPayload(payload), Len(history) \in Nat, NEW n \in Node, NEW ret \in Results(n)
  PROVE  /\ IsPayload(ret)
         /\ DOMAIN ret \subseteq DOMAIN payload \cup Writes[n]
         /\ \A k \in Writes[n] : k \in DOMAIN ret /\ ret[k] = Len(history)
<1>1. Writes[n] \subseteq Key
  BY PathsAreKeys
<1>2. CASE n \in PassThrough
  <2>1. ret = payload /\ Writes[n] = {}
    BY <1>2, PassThroughsWriteNothing DEF Results
  <2> QED
    BY <2>1
<1>3. CASE n \notin PassThrough
  <2> DEFINE own == [k \in Writes[n] |-> Len(history)]
  <2>1. ret \in {Overlay(payload, own), own}
    BY <1>3 DEF Results
  <2>2. DOMAIN own = Writes[n] /\ \A k \in Writes[n] : own[k] = Len(history)
    OBVIOUS
  <2>3. own \in [Writes[n] -> Nat]
    OBVIOUS
  <2>4. CASE ret = own
    BY <1>1, <2>2, <2>3, <2>4 DEF IsPayload
  <2>5. CASE ret = Overlay(payload, own)
    <3> HIDE DEF own
    <3>1. /\ DOMAIN ret = DOMAIN payload \cup Writes[n]
          /\ \A k \in DOMAIN ret : ret[k] = IF k \in Writes[n] THEN own[k] ELSE payload[k]
          /\ ret = [k \in DOMAIN ret |-> ret[k]]
      BY <2>2, <2>5 DEF Overlay
    <3>2. \A k \in DOMAIN ret : ret[k] \in Nat
      BY <2>2, <3>1 DEF IsPayload
    <3>3. ret \in [DOMAIN ret -> Nat]
      BY <3>1, <3>2
    <3>4. DOMAIN ret \subseteq Key
      BY <1>1, <3>1 DEF IsPayload
    <3>5. \A k \in Writes[n] : k \in DOMAIN ret /\ ret[k] = Len(history)
      BY <2>2, <3>1
    <3> QED
      BY <3>1, <3>3, <3>4, <3>5 DEF IsPayload
  <2> QED
    BY <2>1, <2>4, <2>5
<1> QED
  BY <1>2, <1>3

\* A step that leaves the results and what they depend on alone, and by which no node
\* finishes.
LEMMA ResultsKept ==
  ASSUME ResultsInv, PassInv', UNCHANGED <<done, level, payload>>,
         pc' \in {"start", "check"} => done = <<>>,
         pc' = "level" /\ done # <<>> => pc = "level" /\ UNCHANGED history,
         pc' = "level" => Finished' \subseteq Finished /\ pc \in {"check", "level"}
  PROVE  ResultsInv'
<1>1. pc' = "level" /\ pc = "level" =>
        /\ \A i \in DOMAIN done : done[i].out \in Results(done[i].node)
        /\ \A n \in Finished : \E i \in DOMAIN done : done[i].node = n
  BY DEF ResultsInv
<1>2. pc' = "level" => (\A i \in DOMAIN done : done[i].out \in Results(done[i].node))'
  <2>1. ASSUME pc' = "level", done # <<>> PROVE \A n : Results(n)' = Results(n)
    BY <2>1 DEF Results
  <2> QED
    BY <1>1, <2>1
<1>3. pc' = "level" => \A n \in Finished' : \E i \in DOMAIN done : done[i].node = n
  BY <1>1 DEF Finished
<1> QED
  BY <1>2, <1>3 DEF ResultsInv, IsPayload

\* A node that succeeds adds its result.
LEMMA SuccessResults ==
  ASSUME ResultsInv, PassInv', NEW n \in Node, NodeSucceeds(n)
  PROVE  ResultsInv'
<1>1. PICK ret \in Results(n) : done' = Append(done, [node |-> n, out |-> ret])
  BY DEF NodeSucceeds
<1>2. /\ n \in running /\ running' = running \ {n} /\ pc = "level"
      /\ UNCHANGED <<pc, level, queue, failed, payload, history>>
  BY DEF NodeSucceeds
<1>3. n \in level /\ pc = "level" /\ Len(history) \in Nat
  BY <1>2 DEF ResultsInv, PassInv, WalkInv
<1> DEFINE r == [node |-> n, out |-> ret]
<1>4. r \in Result
  BY <1>3, ResultIs, PayloadIs DEF ResultsInv, Result
<1>5. /\ done' \in Seq(Result)
      /\ DOMAIN done' = DOMAIN done \cup {Len(done) + 1}
      /\ done'[Len(done) + 1] = r
      /\ \A i \in DOMAIN done : done'[i] = done[i]
  BY <1>1, <1>4 DEF ResultsInv
<1>6. Finished' \subseteq Finished \cup {n}
  BY <1>2 DEF Finished
<1>7. \A i \in DOMAIN done' : done'[i].node \in level
  BY <1>3, <1>5 DEF ResultsInv
<1>8. \A i \in DOMAIN done' : done'[i].out \in Results(done'[i].node)
  BY <1>3, <1>5 DEF ResultsInv
<1>9. \A m : Results(m)' = Results(m)
  BY <1>2 DEF Results
<1>10. \A m \in Finished' : \E i \in DOMAIN done' : done'[i].node = m
  BY <1>3, <1>5, <1>6 DEF ResultsInv
<1> QED
  BY <1>2, <1>3, <1>5, <1>7, <1>8, <1>9, <1>10 DEF ResultsInv, IsPayload

\* Every step preserves ResultsInv.
LEMMA StepResults == ResultsInv /\ [Next]_vars => ResultsInv'
<1> SUFFICES ASSUME ResultsInv, [Next]_vars PROVE ResultsInv'
  OBVIOUS
<1>1. PassInv /\ PassInv' /\ WalkInv
  BY StepPass DEF ResultsInv, PassInv
<1>2. pc \in {"start", "check"} => done = <<>>
  BY DEF ResultsInv
<1>3. CASE StopCancelled \/ StoreRoot \/ FailLevel \/ StoreFails
  BY <1>1, <1>2, <1>3, ResultsKept DEF StopCancelled, StoreRoot, FailLevel, StoreFails, Fail, pool
<1>4. CASE Cancel \/ UNCHANGED vars
  <2>1. UNCHANGED <<done, level, payload, history, queue, running, failed, pc>>
    BY <1>4 DEF Cancel, vars, pool
  <2>2. Finished' = Finished
    BY <2>1 DEF Finished
  <2> QED
    BY <1>1, <1>2, <2>1, <2>2, ResultsKept
<1>5. CASE BeginLevel
  <2>1. /\ queue' = level /\ pc' = "level" /\ pc = "check"
        /\ UNCHANGED <<done, level, payload>>
    BY <1>5 DEF BeginLevel
  <2>2. Finished' = {} /\ done = <<>>
    BY <1>2, <2>1 DEF Finished
  <2> QED
    BY <1>1, <2>1, <2>2, ResultsKept
<1>6. ASSUME NEW n \in Node, Spawn(n) \/ NodeFails(n) PROVE ResultsInv'
  <2>1. /\ UNCHANGED <<done, level, payload, history, pc>>
        /\ level' \ (queue' \cup running' \cup failed') = level \ (queue \cup running \cup failed)
    BY <1>6 DEF Spawn, NodeFails
  <2>2. Finished' = Finished
    BY <2>1 DEF Finished
  <2>3. pc = "level"
    BY <1>1, <1>6 DEF Spawn, NodeFails, WalkInv
  <2> QED
    BY <1>1, <2>1, <2>2, <2>3, ResultsKept
<1>7. ASSUME NEW n \in Node, NodeSucceeds(n) PROVE ResultsInv'
  BY <1>1, <1>7, SuccessResults
<1>8. CASE CompleteLevel
  <2>1. done' = <<>> /\ payload' = Merged(payload, done) /\ pc' \in {"check", "ended"}
    BY <1>8 DEF CompleteLevel
  <2>2. IsPayload(Merged(payload, done))
    BY MergedIsPayload DEF ResultsInv
  <2>3. IsPayload(payload')
    BY <2>1, <2>2
  <2> QED
    BY <1>1, <2>1, <2>3 DEF ResultsInv, IsPayload
<1>9. ASSUME NEW n \in Node, Fade(n) PROVE ResultsInv'
  <2>1. /\ UNCHANGED <<done, level, payload, history, pc>> /\ pc = "ended"
    BY <1>9 DEF Fade
  <2> QED
    BY <1>1, <2>1, ResultsKept
<1> QED
  BY <1>3, <1>4, <1>5, <1>6, <1>7, <1>8, <1>9 DEF Next, Walk, Return

\* ResultsInv holds of every workflow.
THEOREM ResultsInvariant == Spec => []ResultsInv
<1>1. ASSUME Init PROVE ResultsInv
  <2>1. PassInv
    BY <1>1, InitPass
  <2>2. payload = [k \in Submitted |-> 0] /\ IsPayload(payload)
    BY <1>1, PathsAreKeys DEF Init, IsPayload
  <2> QED
    BY <1>1, <2>1, <2>2 DEF Init, ResultsInv
<1> QED
  BY <1>1, StepResults, PTL DEF Spec

TokenOK == cancelled \in BOOLEAN

\* Every variable of the executor keeps its type, whatever the workflow.
THEOREM TypeCorrect == Spec => []TypeOK
<1>1. Spec => []TokenOK
  <2>1. Init => TokenOK
    BY DEF Init, TokenOK
  <2>2. TokenOK /\ [Next]_vars => TokenOK'
    BY DEF TokenOK, Next, Walk, Return, StoreRoot, StopCancelled, Cancel, BeginLevel, FailLevel, StoreFails,
           Fail, Fade, Spawn, NodeSucceeds, NodeFails, CompleteLevel, vars
  <2> QED
    BY <2>1, <2>2, PTL DEF Spec
<1>2. ASSUME ResultsInv, TokenOK PROVE TypeOK
  <2>1. \A i \in DOMAIN done : done[i] \in Result
    BY <1>2 DEF ResultsInv
  <2>2. \A i \in DOMAIN done : IsPayload(done[i].out)
    BY <2>1, PayloadIs DEF Result
  <2> QED
    BY <1>2, <2>2 DEF TypeOK, TokenOK, ResultsInv, PassInv, WalkInv, StoredTransition
<1> QED
  BY <1>1, <1>2, ResultsInvariant, PTL

\* What only one node of a level writes, on a path the level was not given, is in the
\* next snapshot with that node's value, in whatever order the branches complete and
\* whether they answer with the whole payload or with their own part (merge_json).
THEOREM FreshOutputSurvives == Spec => FreshOutputIsKept
<1>1. ASSUME ResultsInv, Next, pc = "level", history' # history,
             NEW n \in level, NEW k \in Key, Fresh(n, k)
      PROVE  k \in DOMAIN payload' /\ payload'[k] = Len(history)
  <2>1. CompleteLevel
    BY <1>1 DEF Next, Walk, Return, StoreRoot, StopCancelled, Cancel, BeginLevel, FailLevel,
                StoreFails, Fail, Fade, Spawn, NodeSucceeds, NodeFails, counts
  <2>2. payload' = Merged(payload, done) /\ Finished = level
    BY <1>1, <2>1 DEF CompleteLevel, LevelDone, Finished
  <2>3. /\ done \in Seq(Result) /\ IsPayload(payload) /\ level \subseteq Node
        /\ Len(history) \in Nat
    BY <1>1 DEF ResultsInv, PassInv, WalkInv
  <2>4. PICK i \in DOMAIN done : done[i].node = n
    BY <1>1, <2>2 DEF ResultsInv
  <2>5. ASSUME NEW j \in DOMAIN done
        PROVE  /\ done[j].node \in level
               /\ DOMAIN done[j].out \subseteq DOMAIN payload \cup Writes[done[j].node]
               /\ \A q \in Writes[done[j].node] :
                    q \in DOMAIN done[j].out /\ done[j].out[q] = Len(history)
    <3>1. done[j].node \in Node /\ done[j].node \in level /\ done[j].out \in Results(done[j].node)
      BY <1>1, <2>3 DEF ResultsInv
    <3> QED
      BY <2>3, <3>1, ResultIs
  <2>6. k \in Writes[n] /\ k \notin DOMAIN payload /\ \A m \in level \ {n} : k \notin Writes[m]
    BY <1>1 DEF Fresh
  <2>7. k \in DOMAIN done[i].out
    BY <2>4, <2>5, <2>6
  <2>8. \A j \in DOMAIN done : k \in DOMAIN done[j].out => done[j].out[k] = Len(history)
    BY <2>5, <2>6
  <2>9. k \in DOMAIN Merged(payload, done)
    BY <2>3, <2>4, <2>7, MergedIs
  <2>10. \E j \in DOMAIN done : k \in DOMAIN done[j].out /\ Merged(payload, done)[k] = done[j].out[k]
    BY <2>3, <2>4, <2>7, <2>9, MergedIs
  <2> QED
    BY <2>2, <2>8, <2>9, <2>10
<1>2. ResultsInv /\ [Next]_vars =>
        [pc = "level" /\ history' # history =>
           \A n \in level : \A k \in Key :
             Fresh(n, k) => k \in DOMAIN payload' /\ payload'[k] = Len(history)]_vars
  BY <1>1
<1> QED
  BY <1>2, ResultsInvariant, PTL DEF Spec, FreshOutputIsKept
----------------------------------------------------------------------------
(***************************************************************************)
(* Why a run ends: what it has yet to do is finite, and every step does    *)
(* some of it.                                                             *)
(***************************************************************************)

\* The nodes that a run can come to.
Reachable == {Start} \cup {n \in Node : \E e \in Edge : e[2] = n}

\* A level is never empty, and of nodes that an edge leads to.
ReachInv == StartInv /\ level # {} /\ level \subseteq Reachable

\* Edges lead to finitely many nodes.
LEMMA ReachableIsFinite == IsFiniteSet(Reachable)
<1> DEFINE T == {n \in Node : \E e \in Edge : e[2] = n}
<1> DEFINE f == [e \in Edge |-> e[2]]
<1>1. f \in Surjection(Edge, T)
  <2>1. \A e \in Edge : e[2] \in T
    BY GraphIsClosed
  <2>2. f \in [Edge -> T] /\ \A n \in T : \E e \in Edge : f[e] = n
    BY <2>1
  <2> QED
    BY <2>2 DEF Surjection
<1>2. IsFiniteSet(T)
  BY <1>1, GraphIsClosed, FS_Surjection
<1> QED
  BY <1>2, FS_Singleton, FS_Union DEF Reachable

\* Levels stay so.
LEMMA StepReach == ReachInv /\ [Next]_vars => ReachInv'
<1> SUFFICES ASSUME ReachInv, [Next]_vars PROVE ReachInv'
  OBVIOUS
<1>1. StartInv'
  BY StepStart DEF ReachInv
<1>2. CASE CompleteLevel
  <2>1. PICK skipped \in SUBSET (Conditional \cap Outgoing(level)) :
          LET next == NextLevel(Outgoing(level) \ skipped)
          IN  level' = IF next = {} THEN level ELSE next
    BY <1>2 DEF CompleteLevel
  <2>2. NextLevel(Outgoing(level) \ skipped) \subseteq Reachable
    BY DEF NextLevel, Outgoing, Reachable
  <2> QED
    BY <1>1, <2>1, <2>2 DEF ReachInv
<1>3. CASE ~CompleteLevel
  <2>1. level' = level
    BY <1>3 DEF Next, Walk, Return, StoreRoot, StopCancelled, BeginLevel, FailLevel, Spawn,
                Cancel, StoreFails, NodeSucceeds, NodeFails, Fade, Fail, vars, counts
  <2> QED
    BY <1>1, <2>1 DEF ReachInv, Reachable
<1> QED
  BY <1>2, <1>3

\* ReachInv holds of every workflow.
THEOREM ReachInvariant == Spec => []ReachInv
<1>1. Init => ReachInv
  <2>1. Init => StartInv
    BY InitStart
  <2> QED
    BY <2>1 DEF Init, ReachInv, Reachable
<1> QED
  BY <1>1, StepReach, PTL DEF Spec

\* Things to do, each of a kind and of a node.
Items(cancel, root, begin, spawn, return, complete, end) ==
  ({"cancel"} \X cancel) \cup ({"root"} \X root) \cup ({"begin"} \X begin)
  \cup ({"spawn"} \X spawn) \cup ({"return"} \X return)
  \cup ({"complete"} \X complete) \cup ({"end"} \X end)

Shrinks(S, T) == T \subseteq S /\ T # S

\* It shrinks when one kind does and no other grows.
LEMMA ItemsShrink ==
  ASSUME NEW c, NEW r, NEW b, NEW s, NEW t, NEW d, NEW e,
         NEW c2, NEW r2, NEW b2, NEW s2, NEW t2, NEW d2, NEW e2,
         c2 \subseteq c, r2 \subseteq r, b2 \subseteq b, s2 \subseteq s, t2 \subseteq t,
         d2 \subseteq d, e2 \subseteq e,
         \/ c2 # c \/ r2 # r \/ b2 # b \/ s2 # s \/ t2 # t \/ d2 # d \/ e2 # e
  PROVE  Shrinks(Items(c, r, b, s, t, d, e), Items(c2, r2, b2, s2, t2, d2, e2))
<1> DEFINE S == Items(c, r, b, s, t, d, e)
<1> DEFINE T == Items(c2, r2, b2, s2, t2, d2, e2)
<1>1. T \subseteq S
  BY DEF Items
<1>2. ASSUME NEW x
      PROVE  /\ <<"cancel", x>> \in S <=> x \in c
             /\ <<"root", x>> \in S <=> x \in r
             /\ <<"begin", x>> \in S <=> x \in b
             /\ <<"spawn", x>> \in S <=> x \in s
             /\ <<"return", x>> \in S <=> x \in t
             /\ <<"complete", x>> \in S <=> x \in d
             /\ <<"end", x>> \in S <=> x \in e
  BY DEF Items
<1>3. ASSUME NEW x
      PROVE  /\ <<"cancel", x>> \in T <=> x \in c2
             /\ <<"root", x>> \in T <=> x \in r2
             /\ <<"begin", x>> \in T <=> x \in b2
             /\ <<"spawn", x>> \in T <=> x \in s2
             /\ <<"return", x>> \in T <=> x \in t2
             /\ <<"complete", x>> \in T <=> x \in d2
             /\ <<"end", x>> \in T <=> x \in e2
  BY DEF Items
<1>4. \/ \E x \in c : x \notin c2
      \/ \E x \in r : x \notin r2
      \/ \E x \in b : x \notin b2
      \/ \E x \in s : x \notin s2
      \/ \E x \in t : x \notin t2
      \/ \E x \in d : x \notin d2
      \/ \E x \in e : x \notin e2
  OBVIOUS
<1>5. ASSUME S = T PROVE FALSE
  <2> HIDE DEF S, T
  <2>1. ASSUME NEW x
        PROVE  /\ x \in c => x \in c2
               /\ x \in r => x \in r2
               /\ x \in b => x \in b2
               /\ x \in s => x \in s2
               /\ x \in t => x \in t2
               /\ x \in d => x \in d2
               /\ x \in e => x \in e2
    BY <1>2, <1>3, <1>5
  <2> QED
    BY <1>4, <2>1
<1> QED
  BY <1>1, <1>5 DEF Shrinks

\* Of finitely many nodes there are finitely many things to do.
LEMMA ItemsAreFinite ==
  ASSUME NEW N, IsFiniteSet(N),
         NEW c \in SUBSET N, NEW r \in SUBSET N, NEW b \in SUBSET N, NEW s \in SUBSET N,
         NEW t \in SUBSET N, NEW d \in SUBSET N, NEW e \in SUBSET N
  PROVE  IsFiniteSet(Items(c, r, b, s, t, d, e))
<1>1. \A x : IsFiniteSet({x} \X N)
  <2> SUFFICES ASSUME NEW x PROVE IsFiniteSet({x} \X N)
    OBVIOUS
  <2>1. IsFiniteSet({x})
    BY FS_Singleton
  <2> QED
    BY <2>1, FS_Product
<1>2. IsFiniteSet(Items(N, N, N, N, N, N, N))
  <2>1. /\ IsFiniteSet({"cancel"} \X N) /\ IsFiniteSet({"root"} \X N)
        /\ IsFiniteSet({"begin"} \X N) /\ IsFiniteSet({"spawn"} \X N)
        /\ IsFiniteSet({"return"} \X N) /\ IsFiniteSet({"complete"} \X N)
        /\ IsFiniteSet({"end"} \X N)
    BY <1>1
  <2> QED
    BY <2>1, FS_Union DEF Items
<1>3. Items(c, r, b, s, t, d, e) \subseteq Items(N, N, N, N, N, N, N)
  BY DEF Items
<1> QED
  BY <1>2, <1>3, FS_Subset

Once(condition) == IF condition THEN {Start} ELSE {}

\* What a cancelled run has yet to do: to spawn and await the nodes of the level it is at,
\* to complete that level, and to end.
ToStop ==
  Items({}, Once(pc = "start"), {}, queue, queue \cup running, Once(pc = "level"), Once(pc # "ended"))

\* What a run has yet to do that starts no node twice.
Unstarted == {n \in Reachable : started[n] = 0}
ToRun ==
  Items(Once(~cancelled), Once(pc = "start"), Unstarted \ queue, Unstarted, Unstarted \cup running,
        Unstarted \cup (IF pc = "level" THEN level ELSE {}), Once(pc # "ended"))

\* Steps that end a run.
LEMMA EndingsEnd ==
  ASSUME ReachInv, StopCancelled \/ FailLevel \/ StoreFails
  PROVE  /\ pc # "ended" /\ pc' = "ended" /\ queue = {} /\ queue' = {}
         /\ running' \subseteq running /\ cancelled' = cancelled /\ started' = started
         /\ level' = level
BY DEF ReachInv, StartInv, PassInv, WalkInv, StopCancelled, FailLevel, StoreFails, LevelDone, Fail, pool, counts

\* A cancelled run does what is left of its level and ends: a finite work that shrinks with
\* every step, in whatever graph.
LEMMA StopAdvances ==
  ASSUME ReachInv, cancelled, Next
  PROVE  IsFiniteSet(ToStop) /\ Shrinks(ToStop, ToStop')
<1>1. /\ queue \subseteq level /\ running \subseteq level /\ level \subseteq Reachable
      /\ Start \in Reachable /\ queue \cap running = {}
      /\ pc # "level" => queue = {}
  BY DEF ReachInv, StartInv, PassInv, WalkInv, Reachable
<1>2. IsFiniteSet(ToStop)
  <2>1. \A c : Once(c) \in SUBSET Reachable
    BY <1>1 DEF Once
  <2> QED
    BY <1>1, <2>1, ReachableIsFinite, ItemsAreFinite DEF ToStop
<1> SUFFICES /\ Once(pc' = "start") \subseteq Once(pc = "start")
             /\ queue' \subseteq queue
             /\ (queue' \cup running') \subseteq (queue \cup running)
             /\ Once(pc' = "level") \subseteq Once(pc = "level")
             /\ Once(pc' # "ended") \subseteq Once(pc # "ended")
             /\ \/ Once(pc' = "start") # Once(pc = "start")
                \/ queue' # queue
                \/ (queue' \cup running') # (queue \cup running)
                \/ Once(pc' = "level") # Once(pc = "level")
                \/ Once(pc' # "ended") # Once(pc # "ended")
  BY <1>2, ItemsShrink DEF ToStop, Once
<1>3. CASE StoreRoot
  BY <1>1, <1>3 DEF StoreRoot, pool, Once
<1>4. CASE StopCancelled \/ FailLevel \/ StoreFails
  BY <1>1, <1>4, EndingsEnd DEF Once
<1>5. CASE CompleteLevel
  BY <1>1, <1>5 DEF CompleteLevel, LevelDone, Once
<1>6. ASSUME NEW n \in Node, Spawn(n)
      PROVE  /\ pc' = pc /\ queue' \subseteq queue /\ queue' # queue
             /\ (queue' \cup running') \subseteq (queue \cup running)
  BY <1>6 DEF Spawn
<1>7. ASSUME NEW n \in Node, Return(n)
      PROVE  /\ pc' = pc /\ queue' = queue
             /\ (queue' \cup running') \subseteq (queue \cup running)
             /\ (queue' \cup running') # (queue \cup running)
  BY <1>1, <1>7 DEF Return, NodeSucceeds, NodeFails
<1>8. ASSUME NEW n \in Node, Fade(n)
      PROVE  /\ pc' = pc /\ queue' = queue
             /\ (queue' \cup running') \subseteq (queue \cup running)
             /\ (queue' \cup running') # (queue \cup running)
  BY <1>1, <1>8 DEF Fade
<1> QED
  BY <1>3, <1>4, <1>5, <1>6, <1>7, <1>8 DEF Next, Walk, Cancel, BeginLevel, Once

\* "Lets a running workflow stop cleanly": after a cancellation every step of the run uses
\* up some of a finite work that never grows: no node of a further level is ever started,
\* and the steps of the run are used up by the nodes of its last level.
THEOREM CancelledRunsStop ==
  Spec => [][cancelled => IsFiniteSet(ToStop) /\ Shrinks(ToStop, ToStop')]_vars
<1>1. ASSUME ReachInv, [Next]_vars
      PROVE  [cancelled => IsFiniteSet(ToStop) /\ Shrinks(ToStop, ToStop')]_vars
  BY <1>1, StopAdvances
<1> QED
  BY <1>1, ReachInvariant, PTL DEF Spec

\* Every step of a run that starts no node twice does some of what it has to do.
LEMMA RunAdvances ==
  ASSUME ReachInv, OnceInv, Next
  PROVE  IsFiniteSet(ToRun) /\ Shrinks(ToRun, ToRun')
<1> DEFINE atLevel == IF pc = "level" THEN level ELSE {}
<1>1. /\ queue \subseteq level /\ running \subseteq level /\ level \subseteq Reachable
      /\ Start \in Reachable /\ queue \cap running = {} /\ level # {}
      /\ pc # "level" => queue = {}
      /\ level \subseteq Node /\ started \in [Node -> Nat]
      /\ \A n \in running : started[n] > 0
  BY DEF ReachInv, StartInv, PassInv, WalkInv, Reachable
<1>2. /\ pc \in {"start", "check"} => \A n \in level : started[n] = 0
      /\ pc = "level" => /\ \A n \in queue : started[n] = 0
                         /\ \A n \in level \ queue : started[n] > 0
  BY DEF OnceInv, LevelCounts
<1>3. IsFiniteSet(ToRun)
  <2>1. \A c : Once(c) \in SUBSET Reachable
    BY <1>1 DEF Once
  <2> QED
    BY <1>1, <2>1, ReachableIsFinite, ItemsAreFinite DEF ToRun, Unstarted
<1> SUFFICES /\ Once(~cancelled') \subseteq Once(~cancelled)
             /\ Once(pc' = "start") \subseteq Once(pc = "start")
             /\ (Unstarted' \ queue') \subseteq (Unstarted \ queue)
             /\ Unstarted' \subseteq Unstarted
             /\ (Unstarted' \cup running') \subseteq (Unstarted \cup running)
             /\ (Unstarted' \cup atLevel') \subseteq (Unstarted \cup atLevel)
             /\ Once(pc' # "ended") \subseteq Once(pc # "ended")
             /\ \/ Once(~cancelled') # Once(~cancelled)
                \/ Once(pc' = "start") # Once(pc = "start")
                \/ (Unstarted' \ queue') # (Unstarted \ queue)
                \/ Unstarted' # Unstarted
                \/ (Unstarted' \cup running') # (Unstarted \cup running)
                \/ (Unstarted' \cup atLevel') # (Unstarted \cup atLevel)
                \/ Once(pc' # "ended") # Once(pc # "ended")
  BY <1>3, ItemsShrink DEF ToRun, Once
<1>4. started' = started => Unstarted' = Unstarted
  BY DEF Unstarted, Reachable
<1>5. CASE Cancel
  BY <1>4, <1>5 DEF Cancel, pool, counts, Once
<1>6. CASE StoreRoot
  BY <1>1, <1>4, <1>6 DEF StoreRoot, pool, counts, Once
<1>7. CASE StopCancelled \/ FailLevel \/ StoreFails
  BY <1>1, <1>4, <1>7, EndingsEnd DEF Once
<1>8. CASE BeginLevel
  <2>1. /\ pc = "check" /\ pc' = "level" /\ queue' = level /\ queue = {} /\ Unstarted' = Unstarted
        /\ running' = running /\ cancelled' = cancelled /\ level' = level
    BY <1>1, <1>4, <1>8 DEF BeginLevel, counts
  <2>2. level \subseteq Unstarted
    BY <1>1, <1>2, <2>1 DEF Unstarted
  <2> QED
    BY <1>1, <2>1, <2>2 DEF Once
<1>9. CASE CompleteLevel
  <2>1. /\ pc = "level" /\ pc' \in {"check", "ended"} /\ queue' = {} /\ queue = {}
        /\ Unstarted' = Unstarted /\ running' = running /\ cancelled' = cancelled
    BY <1>4, <1>9 DEF CompleteLevel, LevelDone, counts
  <2>2. PICK n \in level : n \notin Unstarted
    BY <1>1, <1>2, <2>1 DEF Unstarted
  <2>3. /\ atLevel = level /\ atLevel' = {}
        /\ n \in Unstarted \cup atLevel /\ n \notin Unstarted' \cup atLevel'
    BY <2>1, <2>2
  <2> HIDE DEF atLevel
  <2> QED
    BY <1>1, <2>1, <2>3 DEF Once
<1>10. ASSUME NEW n \in Node, Spawn(n)
       PROVE  /\ pc' = pc /\ cancelled' = cancelled /\ level' = level
              /\ Unstarted' = Unstarted \ {n} /\ n \in Unstarted /\ n \in level /\ pc = "level"
              /\ queue' = queue \ {n} /\ running' = running \cup {n}
  <2>1. /\ n \in queue /\ n \in level /\ pc = "level" /\ started[n] = 0 /\ started'[n] = 1
        /\ \A m \in Node \ {n} : started'[m] = started[m]
    BY <1>1, <1>2, <1>10 DEF Spawn
  <2>2. Unstarted' = Unstarted \ {n} /\ n \in Unstarted
    <3>1. Reachable \subseteq Node /\ Reachable' = Reachable
      BY GraphIsClosed DEF Reachable
    <3> QED
      BY <1>1, <2>1, <3>1 DEF Unstarted
  <2> QED
    BY <1>10, <2>1, <2>2 DEF Spawn
<1>11. ASSUME NEW n \in Node, Return(n) \/ Fade(n)
       PROVE  /\ pc' = pc /\ cancelled' = cancelled /\ level' = level /\ queue' = queue
              /\ Unstarted' = Unstarted /\ n \notin Unstarted /\ n \in running
              /\ running' = running \ {n}
  <2>1. n \in running
    BY <1>11 DEF Return, NodeSucceeds, NodeFails, Fade
  <2>2. n \notin Unstarted
    BY <1>1, <2>1 DEF Unstarted
  <2> QED
    BY <1>4, <1>11, <2>1, <2>2 DEF Return, NodeSucceeds, NodeFails, Fade, counts
<1>12. CASE \E n \in Node : Spawn(n)
  BY <1>10, <1>12 DEF Once
<1>13. CASE \E n \in Node : Return(n) \/ Fade(n)
  BY <1>11, <1>13 DEF Once
<1> QED
  BY <1>5, <1>6, <1>7, <1>8, <1>9, <1>12, <1>13 DEF Next, Walk

\* A run of a workflow whose branches meet in joins only takes finitely many steps: each uses
\* up some of a finite work that never grows, whatever conditions are false, nodes fail or
\* appends are lost on the way.
THEOREM ForkJoinRunsEnd ==
  ASSUME ForkJoinShaped
  PROVE  Spec => [][IsFiniteSet(ToRun) /\ Shrinks(ToRun, ToRun')]_vars
<1>1. ASSUME ReachInv, OnceInv, [Next]_vars
      PROVE  [IsFiniteSet(ToRun) /\ Shrinks(ToRun, ToRun')]_vars
  BY <1>1, RunAdvances
<1> QED
  BY <1>1, ReachInvariant, OnceInvariant, PTL DEF Spec

----------------------------------------------------------------------------
(***************************************************************************)
(* What the walk is given: a definition that was validated, and edges with *)
(* conditions (module Definition).                                         *)
(***************************************************************************)

\* A version is refused if and only if it is the first thing that is wrong.
LEMMA RefusedForVersion ==
  ASSUME NEW d, d.version \in Nat
  PROVE  Validated(d) = "SpineVersionTooOld" <=>
           d.name.core # "" /\ d.version > 0 /\ ~SpineIsNewEnough(d.minSpine)
<1>1. \A i : NodeError(d.nodes, i) # "SpineVersionTooOld"
  BY DEF NodeError
<1>2. d.version > 0 <=> d.version # 0
  OBVIOUS
<1> QED
  BY <1>1, <1>2 DEF Validated

\* What follows for a definition that has been accepted.
LEMMA AcceptedMeans ==
  ASSUME NEW d, Validated(d) = "ok"
  PROVE  /\ \A i \in DOMAIN d.nodes : NodeError(d.nodes, i) = "none"
         /\ d.start \in {Trim(d.nodes[i].name) : i \in DOMAIN d.nodes}
         /\ KnowsEnds(d)
<1> DEFINE failing == {i \in DOMAIN d.nodes : NodeError(d.nodes, i) # "none"}
<1>1. failing = {} /\ d.start \in {Trim(d.nodes[i].name) : i \in DOMAIN d.nodes} /\ KnowsEnds(d)
  <2>1. \A i : NodeError(d.nodes, i) # "ok"
    BY DEF NodeError
  <2> QED
    BY <2>1 DEF Validated
<1> QED
  BY <1>1

\* Two nodes of an accepted definition differ in their names, blanks aside.
LEMMA NamesDiffer ==
  ASSUME NEW d \in Definitions, Validated(d) = "ok",
         NEW i \in DOMAIN d.nodes, NEW j \in DOMAIN d.nodes,
         d.nodes[i].name.core = d.nodes[j].name.core
  PROVE  i = j
<1>1. DOMAIN d.nodes = 1 .. Len(d.nodes) /\ Len(d.nodes) \in Nat
  BY DefinitionsAreParsed
<1>2. ASSUME NEW k \in DOMAIN d.nodes, NEW l \in DOMAIN d.nodes, l < k,
             d.nodes[l].name.core = d.nodes[k].name.core
      PROVE  FALSE
  <2>1. NodeError(d.nodes, k) = "none"
    BY AcceptedMeans
  <2>2. l \in 1 .. k - 1
    BY <1>1, <1>2
  <2> QED
    BY <1>2, <2>1, <2>2 DEF NodeError
<1>3. i < j \/ j < i \/ i = j
  BY <1>1
<1> QED
  BY <1>2, <1>3

\* Where the start and the edges of an accepted definition lead to, a node is declared,
\* and only one.
LEMMA AcceptedIsFound ==
  ASSUME NEW d \in Definitions, Validated(d) = "ok",
         NEW x \in {d.start} \cup {d.edges[i][2] : i \in DOMAIN d.edges}
  PROVE  \E i \in DOMAIN d.nodes :
           /\ x = Trim(d.nodes[i].name)
           /\ \A j \in DOMAIN d.nodes : Trim(d.nodes[j].name) = Trim(x) <=> j = i
<1>1. x \in {Trim(d.nodes[i].name) : i \in DOMAIN d.nodes}
  BY AcceptedMeans DEF KnowsEnds
<1>2. PICK i \in DOMAIN d.nodes : x = Trim(d.nodes[i].name)
  BY <1>1
<1>3. Trim(x) = x /\ x.core = d.nodes[i].name.core
  BY <1>2 DEF Trim
<1>4. ASSUME NEW j \in DOMAIN d.nodes, Trim(d.nodes[j].name) = Trim(x) PROVE j = i
  <2>1. d.nodes[j].name.core = d.nodes[i].name.core
    BY <1>3, <1>4 DEF Trim
  <2> QED
    BY <2>1, NamesDiffer
<1> QED
  BY <1>2, <1>3, <1>4

\* What is computed is what the input's kind asks for.
OutputOK ==
  \/ /\ kind = "validate" /\ in \in Definitions
     /\ out \in {<<>>, <<Validated(in)>>}
  \/ /\ kind = "evaluate" /\ in \in Conditions
     /\ out \in {<<>>, <<{edge \in 1 .. 2 :
                    Holds(in.payload, in, IF edge = 1 THEN in.op ELSE Opposite(in.op))}>>}

\* The output is computed once.
THEOREM OutputInvariant == DefinitionSpec => []OutputOK
<1>1. DefinitionInit => OutputOK
  BY DEF DefinitionInit, OutputOK
<1>2. OutputOK /\ [DefinitionNext]_inputVars => OutputOK'
  BY DEF OutputOK, DefinitionNext, inputVars, Validate, Evaluate, Becomes
<1> QED
  BY <1>1, <1>2, PTL DEF DefinitionSpec

\* Whatever node a run of an accepted definition reaches, it finds, and only that one,
\* unless the node was declared with blanks around its name (validate).
THEOREM ReachedNodesAreFound == DefinitionSpec => []ValidatedIsFound
<1>1. OutputOK => ValidatedIsFound
  <2> SUFFICES ASSUME OutputOK, Done("validate"), out[1] = "ok",
                      NEW x \in {in.start} \cup {in.edges[i][2] : i \in DOMAIN in.edges}
               PROVE  /\ Cardinality({i \in DOMAIN in.nodes : Trim(in.nodes[i].name) = Trim(x)}) = 1
                      /\ \A i \in DOMAIN in.nodes :
                           Trim(in.nodes[i].name) = Trim(x) =>
                             in.nodes[i].name = x \/ in.nodes[i].name.blanks
    BY DEF ValidatedIsFound
  <2>1. in \in Definitions /\ Validated(in) = "ok"
    BY DEF OutputOK, Done
  <2>2. PICK i \in DOMAIN in.nodes :
          /\ x = Trim(in.nodes[i].name)
          /\ \A j \in DOMAIN in.nodes : Trim(in.nodes[j].name) = Trim(x) <=> j = i
    BY <2>1, AcceptedIsFound
  <2>3. {j \in DOMAIN in.nodes : Trim(in.nodes[j].name) = Trim(x)} = {i}
    BY <2>2
  <2>4. Cardinality({i}) = 1
    BY FS_Singleton
  <2>5. in.nodes[i].name = x \/ in.nodes[i].name.blanks
    <3>1. IsName(in.nodes[i].name)
      BY <2>1, DefinitionsAreParsed
    <3> QED
      BY <2>2, <3>1 DEF IsName, Trim
  <2> QED
    BY <2>2, <2>3, <2>4, <2>5
<1> QED
  BY <1>1, OutputInvariant, PTL

\* Of two edges with opposite conditions one is taken, for a number and for a test of
\* equality; both for a path that leads nowhere, and none if there is no number (evaluate).
THEOREM BranchesExclude == DefinitionSpec => []BranchesAreOpposite
<1>1. OutputOK => BranchesAreOpposite
  <2> DEFINE actual == Resolve(in.payload, in.path)
  <2> DEFINE taken == {edge \in 1 .. 2 :
                        Holds(in.payload, in, IF edge = 1 THEN in.op ELSE Opposite(in.op))}
  <2> SUFFICES ASSUME OutputOK, Done("evaluate"), in.threeParts, Opposite(in.op) # in.op
               PROVE  IF actual.t = "missing" THEN out[1] = {1, 2}
                      ELSE IF in.op = "==" \/ (Numeric(actual) /\ Numeric(in.expected))
                           THEN Cardinality(out[1]) = 1
                           ELSE out[1] = {}
    BY DEF BranchesAreOpposite
  <2>1. in \in Conditions /\ out[1] = taken
    BY DEF OutputOK, Done
  <2>2. \A a \in {actual, in.expected} : Numeric(a) => a.v \in Int
    BY <2>1, NumbersAreOrdered
  <2>3. \/ in.op = "<" /\ Opposite(in.op) = ">="
        \/ in.op = ">" /\ Opposite(in.op) = "<="
        \/ in.op = "==" /\ Opposite(in.op) = "!="
    BY DEF Opposite
  <2>4. taken = {edge \in {1, 2} : \/ edge = 1 /\ Holds(in.payload, in, in.op)
                                   \/ edge = 2 /\ Holds(in.payload, in, Opposite(in.op))}
    OBVIOUS
  <2>5. ASSUME actual.t = "missing" PROVE out[1] = {1, 2}
    <3>1. Holds(in.payload, in, in.op) /\ Holds(in.payload, in, Opposite(in.op))
      BY <2>5 DEF Holds
    <3> QED
      BY <2>1, <2>4, <2>5, <3>1
  <2>6. ASSUME actual.t # "missing", in.op # "==", ~(Numeric(actual) /\ Numeric(in.expected))
        PROVE  out[1] = {}
    <3>1. ~Holds(in.payload, in, in.op) /\ ~Holds(in.payload, in, Opposite(in.op))
      BY <2>3, <2>6 DEF Holds, NumericHolds
    <3> QED
      BY <2>1, <2>4, <2>6, <3>1
  <2>7. ASSUME actual.t # "missing", in.op = "==" \/ (Numeric(actual) /\ Numeric(in.expected))
        PROVE  Cardinality(out[1]) = 1
    <3>1. Holds(in.payload, in, in.op) <=> ~Holds(in.payload, in, Opposite(in.op))
      <4>1. CASE in.op = "=="
        BY <2>3, <2>7, <4>1 DEF Holds
      <4>2. CASE in.op # "==" /\ Numeric(actual) /\ Numeric(in.expected)
        <5>1. actual.v \in Int /\ in.expected.v \in Int
          BY <2>2, <4>2
        <5>2. Holds(in.payload, in, in.op) <=> NumericHolds(actual, in.op, in.expected)
          BY <2>3, <2>7, <4>2 DEF Holds
        <5>3. Holds(in.payload, in, Opposite(in.op)) <=>
                NumericHolds(actual, Opposite(in.op), in.expected)
          BY <2>3, <2>7, <4>2 DEF Holds
        <5>4. NumericHolds(actual, in.op, in.expected) <=>
                ~NumericHolds(actual, Opposite(in.op), in.expected)
          BY <2>3, <4>2, <5>1 DEF NumericHolds
        <5> QED
          BY <5>2, <5>3, <5>4
      <4> QED
        BY <2>7, <4>1, <4>2
    <3>2. taken = {1} \/ taken = {2}
      BY <2>4, <3>1
    <3>3. Cardinality({1}) = 1 /\ Cardinality({2}) = 1
      BY FS_Singleton
    <3> HIDE DEF taken, actual
    <3> QED
      BY <2>1, <2>7, <3>2, <3>3
  <2> HIDE DEF actual, taken
  <2> QED
    BY <2>5, <2>6, <2>7
<1> QED
  BY <1>1, OutputInvariant, PTL

\* With digits below the base, the number before the last digit decides, and the last
\* digit only between equal ones.
LEMMA DigitDecides ==
  ASSUME NEW base \in Nat, NEW a \in Nat, NEW b \in Nat, NEW x \in Nat, NEW y \in Nat,
         x < base, y < base
  PROVE  a * base + x > b * base + y <=> a > b \/ (a = b /\ x > y)
<1>1. ASSUME NEW c \in Nat, NEW d \in Nat, c > d PROVE c * base >= d * base + base
  <2>1. c - (d + 1) \in Nat /\ c * base = (c - (d + 1)) * base + (d * base + base)
    BY <1>1
  <2>2. (c - (d + 1)) * base \in Nat /\ d * base \in Nat
    BY <2>1
  <2> QED
    BY <2>1, <2>2
<1>2. a * base \in Nat /\ b * base \in Nat
  OBVIOUS
<1>3. CASE a > b
  <2>1. a * base >= b * base + base
    BY <1>1, <1>3
  <2> QED
    BY <1>2, <1>3, <2>1
<1>4. CASE b > a
  <2>1. b * base >= a * base + base
    BY <1>1, <1>4
  <2> QED
    BY <1>2, <1>4, <2>1
<1>5. CASE a = b
  BY <1>2, <1>5
<1> QED
  BY <1>3, <1>4, <1>5

\* Numbers of three digits are ordered by their first difference.
LEMMA FirstDigitDecides ==
  ASSUME NEW base \in Nat,
         NEW a \in Nat, NEW b \in Nat, NEW c \in Nat, a < base, b < base, c < base,
         NEW x \in Nat, NEW y \in Nat, NEW z \in Nat, x < base, y < base, z < base
  PROVE  (a * base + b) * base + c > (x * base + y) * base + z
           <=> a > x \/ (a = x /\ b > y) \/ (a = x /\ b = y /\ c > z)
<1> DEFINE ab == a * base + b
<1> DEFINE xy == x * base + y
<1>1. ab \in Nat /\ xy \in Nat
  OBVIOUS
<1>2. ab > xy <=> a > x \/ (a = x /\ b > y)
  BY DigitDecides
<1>3. xy > ab <=> x > a \/ (x = a /\ y > b)
  BY DigitDecides
<1> HIDE DEF ab, xy
<1>4. ab * base + c > xy * base + z <=> ab > xy \/ (ab = xy /\ c > z)
  BY <1>1, DigitDecides
<1>5. ab = xy <=> a = x /\ b = y
  BY <1>1, <1>2, <1>3
<1> QED
  BY <1>2, <1>4, <1>5 DEF ab, xy

\* Max, if there is a greatest element.
LEMMA MaxIs ==
  ASSUME NEW S, NEW m \in S, \A i \in S : m >= i
  PROVE  Max(S) \in S /\ \A i \in S : Max(S) >= i
BY DEF Max

\* Min, if there is a least element.
LEMMA MinIs ==
  ASSUME NEW S, NEW m \in S, \A i \in S : m <= i
  PROVE  Min(S) \in S /\ \A i \in S : Min(S) <= i
BY DEF Min

\* Components of releases are numbers.
LEMMA PartsAreNat ==
  ASSUME NEW v, IsRelease(v), NEW i \in Nat, i > 0
  PROVE  Part(v, i) \in Nat /\ (i > Len(v) => Part(v, i) = 0)
<1>1. v \in Seq(Nat) /\ Len(v) \in Nat
  BY DEF IsRelease
<1> QED
  BY <1>1 DEF Part

\* check_spine_version on versions of three components: the first difference decides.
LEMMA SpineIsLexicographic ==
  ASSUME NEW required, IsRelease(SelectSeq(required, IsNumber)),
         Len(SelectSeq(required, IsNumber)) <= 3, Len(Current) <= 3,
         NEW r, r = SelectSeq(required, IsNumber)
  PROVE  SpineIsNewEnough(required) <=>
           ~ \/ Part(r, 1) > Part(Current, 1)
             \/ Part(r, 1) = Part(Current, 1) /\ Part(r, 2) > Part(Current, 2)
             \/ /\ Part(r, 1) = Part(Current, 1) /\ Part(r, 2) = Part(Current, 2)
                /\ Part(r, 3) > Part(Current, 3)
<1> DEFINE m == Max({Len(r), Len(Current)})
<1> DEFINE D == {i \in 1 .. m : Part(r, i) # Part(Current, i)}
<1> DEFINE first == Min(D)
<1>0. IsRelease(r) /\ IsRelease(Current) /\ Len(r) \in Nat /\ Len(Current) \in Nat
  BY CurrentIsRelease DEF IsRelease
<1>1. m \in Nat /\ m >= Len(r) /\ m >= Len(Current) /\ m <= 3
  <2>1. \E k \in {Len(r), Len(Current)} : \A i \in {Len(r), Len(Current)} : k >= i
    BY <1>0
  <2>2. m \in {Len(r), Len(Current)} /\ \A i \in {Len(r), Len(Current)} : m >= i
    BY <2>1, MaxIs
  <2> QED
    BY <1>0, <2>2
<1> HIDE DEF m
<1>2. \A i \in 1 .. 3 : i \notin D => Part(r, i) = Part(Current, i)
  <2> TAKE i \in 1 .. 3
  <2>1. CASE i <= m
    BY <1>1, <2>1
  <2>2. CASE i > m
    BY <1>0, <1>1, <2>2, PartsAreNat
  <2> QED
    BY <1>1, <2>1, <2>2
<1>3. \A i \in D : i \in 1 .. 3 /\ Part(r, i) # Part(Current, i)
  BY <1>1
<1>4. SpineIsNewEnough(required) <=> D = {} \/ Part(Current, first) > Part(r, first)
  BY DEF SpineIsNewEnough, m
<1>5. \A i \in 1 .. 3 : Part(r, i) \in Nat /\ Part(Current, i) \in Nat
  BY <1>0, PartsAreNat
<1> HIDE DEF D
<1>6. CASE D = {}
  BY <1>2, <1>4, <1>5, <1>6
<1>7. CASE D # {}
  <2>1. \E k \in D : \A i \in D : k <= i
    <3>1. CASE 1 \in D
      BY <1>3, <3>1
    <3>2. CASE 1 \notin D /\ 2 \in D
      BY <1>3, <3>2
    <3>3. CASE 1 \notin D /\ 2 \notin D
      BY <1>3, <1>7, <3>3
    <3> QED
      BY <3>1, <3>2, <3>3
  <2>2. first \in D /\ \A i \in D : first <= i
    BY <2>1, MinIs
  <2> HIDE DEF first
  <2>3. first \in 1 .. 3 /\ Part(r, first) # Part(Current, first)
    BY <1>3, <2>2
  <2>4. \A i \in 1 .. 3 : i < first => Part(r, i) = Part(Current, i)
    BY <1>2, <2>2, <2>3
  <2>5. SpineIsNewEnough(required) <=> Part(Current, first) > Part(r, first)
    BY <1>4, <1>7
  <2>6. CASE first = 1
    BY <1>5, <2>3, <2>5, <2>6
  <2>7. CASE first = 2
    <3>1. Part(r, 1) = Part(Current, 1)
      BY <2>4, <2>7
    <3> QED
      BY <1>5, <2>3, <2>5, <2>7, <3>1
  <2>8. CASE first = 3
    <3>1. Part(r, 1) = Part(Current, 1) /\ Part(r, 2) = Part(Current, 2)
      BY <2>4, <2>8
    <3> QED
      BY <1>5, <2>3, <2>5, <2>8, <3>1
  <2> QED
    BY <2>3, <2>6, <2>7, <2>8
<1> QED
  BY <1>6, <1>7

\* The base of VersionsAreOrdered is above each component.
LEMMA BaseIsAbove ==
  ASSUME NEW r, IsRelease(r),
         NEW base, base = Base(r)
  PROVE  /\ base \in Nat
         /\ \A i \in 1 .. 3 : /\ Part(r, i) \in Nat /\ Part(r, i) < base
                              /\ Part(Current, i) \in Nat /\ Part(Current, i) < base
<1> DEFINE S == {Part(v, i) : v \in {r, Current}, i \in 1 .. 3}
<1>1. \A i \in 1 .. 3 : /\ Part(r, i) \in Nat /\ Part(Current, i) \in Nat
                        /\ Part(r, i) \in S /\ Part(Current, i) \in S
  BY CurrentIsRelease, PartsAreNat
<1>2. S = {Part(r, 1), Part(r, 2), Part(r, 3), Part(Current, 1), Part(Current, 2), Part(Current, 3)}
  <2>1. \A i \in 1 .. 3 : i = 1 \/ i = 2 \/ i = 3
    OBVIOUS
  <2>2. 1 \in 1 .. 3 /\ 2 \in 1 .. 3 /\ 3 \in 1 .. 3
    OBVIOUS
  <2> QED
    BY <2>1, <2>2
<1>3. \A a, b, c \in Nat : \E m \in {a, b, c} : m >= a /\ m >= b /\ m >= c
  OBVIOUS
<1>4. \A i \in S : i \in Nat
  BY <1>1
<1> HIDE DEF S
<1>5. 1 \in 1 .. 3 /\ 2 \in 1 .. 3 /\ 3 \in 1 .. 3
  OBVIOUS
<1>6. PICK m \in {Part(r, 1), Part(r, 2), Part(r, 3)} :
        m >= Part(r, 1) /\ m >= Part(r, 2) /\ m >= Part(r, 3)
  BY <1>1, <1>3, <1>5
<1>7. PICK n \in {Part(Current, 1), Part(Current, 2), Part(Current, 3)} :
        n >= Part(Current, 1) /\ n >= Part(Current, 2) /\ n >= Part(Current, 3)
  BY <1>1, <1>3, <1>5
<1>8. m \in S /\ n \in S /\ m \in Nat /\ n \in Nat
  BY <1>2, <1>4
<1>9. \E k \in S : \A i \in S : k >= i
  <2>1. CASE m >= n
    <3>1. \A i \in S : m >= i
      BY <1>2, <1>4, <1>6, <1>7, <1>8, <2>1
    <3> QED
      BY <1>8, <3>1
  <2>2. CASE n >= m
    <3>1. \A i \in S : n >= i
      BY <1>2, <1>4, <1>6, <1>7, <1>8, <2>2
    <3> QED
      BY <1>8, <3>1
  <2> QED
    BY <1>8, <2>1, <2>2
<1>10. Max(S) \in S /\ \A i \in S : Max(S) >= i
  BY <1>9, MaxIs
<1>11. base = 1 + Max(S)
  BY DEF S, Base
<1> QED
  BY <1>1, <1>4, <1>10, <1>11

\* A workflow is refused for its version if and only if it asks for a greater one
\* (check_spine_version).
THEOREM VersionsCompare == ASSUME VersionsAreShort PROVE DefinitionSpec => []VersionsAreOrdered
<1>1. OutputOK => VersionsAreOrdered
  <2> DEFINE required == SelectSeq(in.minSpine, IsNumber)
  <2> DEFINE base == Base(required)
  <2> SUFFICES ASSUME OutputOK, Done("validate")
               PROVE  (out[1] = "SpineVersionTooOld") <=>
                        /\ in.name.core # "" /\ in.version > 0
                        /\ Number(required, base) > Number(Current, base)
    BY DEF VersionsAreOrdered
  <2>1. in \in Definitions /\ out[1] = Validated(in) /\ in.version \in Nat
        /\ IsRelease(required) /\ Len(required) <= 3 /\ Len(Current) <= 3
    BY DefinitionsAreParsed DEF OutputOK, Done, VersionsAreShort
  <2>2. /\ base \in Nat
        /\ \A i \in 1 .. 3 : /\ Part(required, i) \in Nat /\ Part(required, i) < base
                             /\ Part(Current, i) \in Nat /\ Part(Current, i) < base
    BY <2>1, BaseIsAbove
  <2>3. SpineIsNewEnough(in.minSpine) <=>
          ~ \/ Part(required, 1) > Part(Current, 1)
            \/ Part(required, 1) = Part(Current, 1) /\ Part(required, 2) > Part(Current, 2)
            \/ /\ Part(required, 1) = Part(Current, 1) /\ Part(required, 2) = Part(Current, 2)
               /\ Part(required, 3) > Part(Current, 3)
    BY <2>1, SpineIsLexicographic
  <2> HIDE DEF base, required
  <2>4. Number(required, base) > Number(Current, base) <=>
          \/ Part(required, 1) > Part(Current, 1)
          \/ Part(required, 1) = Part(Current, 1) /\ Part(required, 2) > Part(Current, 2)
          \/ /\ Part(required, 1) = Part(Current, 1) /\ Part(required, 2) = Part(Current, 2)
             /\ Part(required, 3) > Part(Current, 3)
    <3>1. 1 \in 1 .. 3 /\ 2 \in 1 .. 3 /\ 3 \in 1 .. 3
      OBVIOUS
    <3> QED
      BY <2>2, <3>1, FirstDigitDecides DEF Number
  <2>5. Validated(in) = "SpineVersionTooOld" <=>
          in.name.core # "" /\ in.version > 0 /\ ~SpineIsNewEnough(in.minSpine)
    BY <2>1, RefusedForVersion
  <2> QED
    BY <2>1, <2>3, <2>4, <2>5
<1> QED
  BY <1>1, OutputInvariant, PTL

\* What validate accepts, of nodes without blanks around their names, is a graph as the
\* walk assumes it (GraphIsClosed): every name in it that the walk looks up is a node's.
THEOREM ValidatedGraphIsClosed ==
  ASSUME NEW d \in Definitions, Validated(d) = "ok",
         \A i \in DOMAIN d.nodes : ~d.nodes[i].name.blanks,
         NEW nodes, nodes = {d.nodes[i].name : i \in DOMAIN d.nodes},
         NEW edges, edges = {d.edges[i] : i \in DOMAIN d.edges}
  PROVE  edges \subseteq nodes \X nodes /\ d.start \in nodes /\ IsFiniteSet(edges)
<1>1. \A i \in DOMAIN d.nodes : Trim(d.nodes[i].name) = d.nodes[i].name
  BY DefinitionsAreParsed DEF IsName, Trim
<1>2. {Trim(d.nodes[i].name) : i \in DOMAIN d.nodes} = nodes
  BY <1>1
<1>3. d.start \in nodes /\ \A i \in DOMAIN d.edges : d.edges[i][1] \in nodes /\ d.edges[i][2] \in nodes
  BY <1>2, AcceptedMeans DEF KnowsEnds
<1>4. ASSUME NEW i \in DOMAIN d.edges PROVE d.edges[i] \in nodes \X nodes
  <2>1. d.edges[i] = <<d.edges[i][1], d.edges[i][2]>>
    BY DefinitionsAreParsed
  <2>2. d.edges[i][1] \in nodes /\ d.edges[i][2] \in nodes
    BY <1>3
  <2>3. <<d.edges[i][1], d.edges[i][2]>> \in nodes \X nodes
    BY <2>2
  <2> QED
    BY <2>1, <2>3
<1>5. IsFiniteSet(edges)
  <2> DEFINE list == [i \in 1 .. Len(d.edges) |-> d.edges[i]]
  <2>1. Len(d.edges) \in Nat /\ DOMAIN d.edges = 1 .. Len(d.edges)
    BY DefinitionsAreParsed
  <2>2. list \in Seq(edges) /\ Len(list) = Len(d.edges)
    BY <2>1
  <2>3. \A e \in edges : \E i \in 1 .. Len(list) : list[i] = e
    BY <2>1, <2>2
  <2> QED
    BY <2>2, <2>3 DEF IsFiniteSet
<1> QED
  BY <1>3, <1>4, <1>5

=============================================================================
