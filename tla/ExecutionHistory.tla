-------------------------- MODULE ExecutionHistory --------------------------
(***************************************************************************)
(* What the snapshot store promises its readers (history, the dashboard    *)
(* replay, the next recovery): the history of an execution is a sequence   *)
(* of labels that starts with the root, only ever grows at its end, one    *)
(* snapshot at a time, and is final once it is closed.                     *)
(***************************************************************************)
EXTENDS Sequences, Naturals

CONSTANTS
  Exec,    \* executions
  Opening, \* the label of a root snapshot
  Closing, \* the labels that close an execution
  Inner    \* all other labels

VARIABLE history

Init == history = [e \in Exec |-> <<>>]

\* A history still accepts a snapshot labelled l.
Accepts(h, l) ==
  IF h = <<>> THEN l = Opening
  ELSE l \in Inner \cup Closing /\ h[Len(h)] \notin Closing

Record(e, l) ==
  /\ Accepts(history[e], l)
  /\ history' = [history EXCEPT ![e] = Append(@, l)]

Next == \E e \in Exec, l \in {Opening} \cup Inner \cup Closing : Record(e, l)

Spec == Init /\ [][Next]_history
=============================================================================
