----------------------------- MODULE MCExecutor -----------------------------
(***************************************************************************)
(* Instances of Executor for TLC, on three workflows.                       *)
(***************************************************************************)
EXTENDS Executor, TLC

CONSTANTS s, a, b, g, c, e, j, d,  \* nodes
          draft, review            \* paths

\* Three branches of different lengths, one behind an approval gate, meet in a join;
\* c and what follows may be skipped, as may the last node.
ForkJoinEdges ==
  {<<s, a>>, <<s, b>>, <<s, g>>, <<a, c>>, <<c, j>>, <<b, j>>, <<g, e>>, <<e, j>>, <<j, d>>}
ForkJoinConditions == {<<a, c>>, <<j, d>>}
ASSUME ForkJoin == Edge = ForkJoinEdges => ForkJoinShaped

\* A review loop: the join sends the draft back, or on.
LoopEdges == {<<s, a>>, <<s, b>>, <<a, j>>, <<b, j>>, <<j, s>>, <<j, d>>}
LoopConditions == {<<j, s>>, <<j, d>>}

\* A join behind a branch with a shortcut and a longer branch.
UnevenEdges == {<<s, a>>, <<s, b>>, <<a, b>>, <<b, j>>, <<s, c>>, <<c, e>>, <<e, d>>, <<d, j>>}

DraftsAndReviews ==
  [n \in Node |-> IF n \in {a, d} THEN {draft} ELSE IF n = b THEN {review} ELSE {}]
WritesNothing == [n \in Node |-> {}]
=============================================================================
