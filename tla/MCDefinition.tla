---------------------------- MODULE MCDefinition ----------------------------
(***************************************************************************)
(* Inputs for Scheduler:  graphs of at most two declared nodes, versions   *)
(* of at most three components, small payloads, and all graphs over three  *)
(* nodes of a level that also leave the level.                             *)
(***************************************************************************)
EXTENDS Scheduler

Running == <<1, 0, 2>>

Names == [core : {"", "a", "b"}, blanks : BOOLEAN]
NamesInEdges == {[core |-> "a", blanks |-> FALSE], [core |-> "a", blanks |-> TRUE],
                 [core |-> "b", blanks |-> FALSE]}
Nodes == [name : Names, attempts : {0, 1}, backoff : {1}]
         \cup [name : {[core |-> "a", blanks |-> FALSE]}, attempts : {1}, backoff : {0}]
Plain == <<[name |-> [core |-> "a", blanks |-> FALSE], attempts |-> 1, backoff |-> 1]>>

Graphs ==
  [name : {[core |-> "flow", blanks |-> FALSE]}, version : {1}, minSpine : {<<>>},
   nodes : BoundedSeq(Nodes, 2), start : NamesInEdges,
   edges : BoundedSeq(NamesInEdges \X NamesInEdges, 1)]
Heads ==
  [name : Names, version : {0, 1}, minSpine : BoundedSeq(-1 .. 2, 3),
   nodes : {Plain}, start : {Plain[1].name}, edges : {<<>>}]

Leaf == {[t |-> "integer", v |-> n] : n \in 1 .. 2}
        \cup {[t |-> "float", v |-> 1], [t |-> "string", v |-> "x"],
              [t |-> "boolean", v |-> TRUE]}
Object(key, value) == [t |-> "object", v |-> key :> value]
Payloads ==
  {Object("state", Object("x", v)) : v \in Leaf}
  \cup {Object("state", [t |-> "array", v |-> <<v>>]) : v \in Leaf}
  \cup {Object("state", [t |-> "array", v |-> <<>>])}
  \cup {Object("other", v) : v \in Leaf}
Comparisons ==
  [payload : Payloads, path : {<<"state", "x">>, <<"state", "0">>, <<"state", "x", "x">>},
   op : {"<", ">", "==", "~"}, expected : Leaf, threeParts : BOOLEAN]

Inside == 1 .. 3
Outside == {<<1, 4>>, <<4, 2>>}
LevelsOfThree ==
  [kindOf : [Inside -> {"agent", "verify"}],
   edges : {inner \cup Outside : inner \in SUBSET (Inside \X Inside)}]

AllDefinitions == Graphs \cup Heads
=============================================================================
