----------------------------- MODULE Scheduler -----------------------------
(***************************************************************************)
(* In which order the nodes of a level are spawned (executor/scheduler.rs, *)
(* and its caller in executor/runner.rs), beside what Definition computes. *)
(*                                                                         *)
(* The depth-first search of SchedulerPlan::compute is a step machine with *)
(* the call stack for a variable.  The nodes of a level and the edges of a *)
(* workflow come in some order; here they are sets, and the search takes   *)
(* them in any order.                                                      *)
(***************************************************************************)
EXTENDS Definition

CONSTANT Levels  \* the nodes of a level with their kinds, and the edges of the graph

VARIABLES
  stack,  \* the calls of dfs: a node, the successors it has not asked yet, the best so far
  cpp,    \* memo: the priorities computed so far
  order   \* the nodes that the ready queue has been popped of

planVars == <<stack, cpp, order>>
schedulerVars == <<inputVars, planVars>>

\* node_weight_us.
Weight(nodeKind) ==
  IF nodeKind \in {"agent", "debate", "vote"} THEN 800000
  ELSE IF nodeKind = "approval_gate" THEN 50000
  ELSE IF nodeKind \in {"verify", "hydrate"} THEN 5000
  ELSE IF nodeKind = "speculative_fork" THEN 200
  ELSE 100  \* router, checkpoint, fork, join

NodesOf(level) == DOMAIN level.kindOf

WeightIn(level, n) == Weight(level.kindOf[n])

\* The nodes of a level are finitely many, and their names are ordered.
ASSUME LevelsAreFinite ==
  \A level \in Levels :
    IsFiniteSet(NodesOf(level)) /\ NodesOf(level) \subseteq Int

\* The successors of n among the nodes of the level.
Successors(level, n) == {s \in NodesOf(level) : <<n, s>> \in level.edges}

SchedulerInit ==
  /\ \/ DefinitionInit
     \/ kind = "dispatch" /\ in \in Levels /\ out = <<>>
  /\ stack = <<>> /\ cpp = <<>> /\ order = <<>>

----------------------------------------------------------------------------
(***************************************************************************)
(* SchedulerPlan::compute.                                                 *)
(***************************************************************************)
Frame(n) == [node |-> n, rest |-> Successors(in, n), best |-> 0]

Top == stack[Len(stack)]

Visiting == {stack[i].node : i \in DOMAIN stack}

Memoized(n, v) == [m \in DOMAIN cpp \cup {n} |-> IF m = n THEN v ELSE cpp[m]]

\* Mutant: the last successor counts, instead of the best.
BetterLast(a, b) == b

Better(a, b) == IF b > a THEN b ELSE a

\* The call at the top gets v from its successor s.
Takes(s, v) ==
  stack' = [stack EXCEPT ![Len(stack)] =
              [node |-> Top.node, rest |-> Top.rest \ {s}, best |-> Better(Top.best, v)]]

\* The outer loop comes to a node that has no priority yet.
Begin(n) ==
  /\ stack = <<>>
  /\ n \in NodesOf(in) \ DOMAIN cpp
  /\ stack' = <<Frame(n)>>
  /\ UNCHANGED <<cpp, order>>

\* A successor that has a priority, perhaps since just now.
Known(s) ==
  /\ s \in DOMAIN cpp
  /\ Takes(s, cpp[s])
  /\ UNCHANGED <<cpp, order>>

\* A node that is met again while it is visited gets its bare weight, which its own visit
\* overwrites in the end.
MeetAgain(s) ==
  /\ s \notin DOMAIN cpp /\ s \in Visiting
  /\ cpp' = Memoized(s, WeightIn(in, s))
  /\ Takes(s, WeightIn(in, s))
  /\ UNCHANGED order

Descend(s) ==
  /\ s \notin DOMAIN cpp /\ s \notin Visiting
  /\ stack' = Append(stack, Frame(s))
  /\ UNCHANGED <<cpp, order>>

Leave ==
  /\ Top.rest = {}
  /\ cpp' = Memoized(Top.node, WeightIn(in, Top.node) + Top.best)
  /\ stack' = Front(stack)
  /\ UNCHANGED order

Search ==
  \/ \E n \in NodesOf(in) : Begin(n)
  \/ /\ stack # <<>>
     /\ \/ \E s \in Top.rest : Known(s) \/ MeetAgain(s) \/ Descend(s)
        \/ Leave

\* The maximum of the heap: the highest priority, and of equal ones the last name.
PopsBefore(a, b) == cpp[a] > cpp[b] \/ (cpp[a] = cpp[b] /\ a > b)

\* The priorities are there, and the queue is filled and popped.
Planned == kind = "dispatch" /\ stack = <<>> /\ DOMAIN cpp = NodesOf(in)

Pop(n) ==
  /\ Planned
  /\ n \in NodesOf(in) \ ToSet(order)
  /\ \A m \in NodesOf(in) \ (ToSet(order) \cup {n}) : PopsBefore(n, m)
  /\ order' = Append(order, n)
  /\ UNCHANGED <<stack, cpp>>

Dispatch ==
  /\ kind = "dispatch"
  /\ Search \/ \E n \in NodesOf(in) : Pop(n)
  /\ UNCHANGED inputVars

----------------------------------------------------------------------------

SchedulerNext == (DefinitionNext /\ UNCHANGED planVars) \/ Dispatch

SchedulerSpec == SchedulerInit /\ [][SchedulerNext]_schedulerVars

\* The paths through the level that do not pass a node twice.
IsPath(level, path) ==
  /\ path # <<>>
  /\ \A i \in 1 .. Len(path) - 1 : path[i + 1] \in Successors(level, path[i])
  /\ \A i, j \in DOMAIN path : path[i] = path[j] => i = j

Paths(level, n) ==
  {path \in SeqOf(NodesOf(level), Cardinality(NodesOf(level))) :
     IsPath(level, path) /\ path[1] = n}

\* The sum of the weights of some nodes, by their weight.
WeightOf(level, nodes) ==
  LET Sum(w) == w * Cardinality({n \in nodes : WeightIn(level, n) = w})
  IN  Sum(800000) + Sum(50000) + Sum(5000) + Sum(200) + Sum(100)

HasCycle(level) ==
  \E n \in NodesOf(level) : \E path \in Paths(level, n) :
    n \in Successors(level, Last(path))

\* "CPP(n) = weight(n) + max(CPP(s) for successors s)": without a cycle the priority of a
\* node is the weight of the heaviest path from it, in whatever order the search has met
\* the nodes; with a cycle it is the weight of some path, which in its last step may meet a
\* node again.
PrioritiesAreOfPaths ==
  \A n \in NodesOf(in) :
    /\ \E path \in Paths(in, n) :
         \/ cpp[n] = WeightOf(in, ToSet(path))
         \/ /\ HasCycle(in)
            /\ \E s \in Successors(in, Last(path)) :
                 cpp[n] = WeightOf(in, ToSet(path)) + WeightIn(in, s)
    /\ ~HasCycle(in) => \A path \in Paths(in, n) : WeightOf(in, ToSet(path)) <= cpp[n]

\* Of the nodes of a level without a cycle, one that leads to another is spawned first.
LeadersAreFirst ==
  \A j \in DOMAIN order : \A n \in NodesOf(in) :
    order[j] \in Successors(in, n) => \E i \in 1 .. j - 1 : order[i] = n

\* The priorities are the weights of paths once they are computed, and the order in which
\* nodes are spawned follows the paths.
CriticalPathFirst ==
  Planned => PrioritiesAreOfPaths /\ (~HasCycle(in) => LeadersAreFirst)
=============================================================================
