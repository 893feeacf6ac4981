----------------------------- MODULE Definition -----------------------------
(***************************************************************************)
(* What a run of a workflow relies on before its first level: what         *)
(* validate accepts (workflow.rs), and what the condition of an edge means *)
(* (condition.rs).                                                         *)
(*                                                                         *)
(* A behaviour takes one input and computes one output.  A name is a core  *)
(* and whether there are blanks around it; a version is the sequence of    *)
(* its components; a JSON value is tagged by its type.                     *)
(***************************************************************************)
EXTENDS Integers, SequencesExt, FiniteSetsExt

CONSTANTS
  Current,      \* the version of the running agent-spine
  Definitions,  \* workflow definitions to validate
  Conditions    \* a payload with a path, a comparison and an expected value

VARIABLES
  kind,  \* what is computed
  in,    \* of what
  out    \* with what result; <<>> before

inputVars == <<kind, in, out>>

DefinitionInit ==
  /\ \/ kind = "validate" /\ in \in Definitions
     \/ kind = "evaluate" /\ in \in Conditions
  /\ out = <<>>

Becomes(result) == out = <<>> /\ out' = <<result>> /\ UNCHANGED <<kind, in>>

----------------------------------------------------------------------------
(***************************************************************************)
(* validate.                                                               *)
(***************************************************************************)
Trim(x) == [core |-> x.core, blanks |-> FALSE]

\* -1 stands for a component that is not a number.
IsNumber(part) == part >= 0

Part(version, i) == IF i <= Len(version) THEN version[i] ELSE 0

\* Mutant: no component may be newer than the running one's.
EveryComponentIsNewEnough(required) ==
  \A i \in DOMAIN required : required[i] <= Part(Current, i)

\* check_spine_version: components that do not parse are dropped, missing ones are 0, and
\* the first difference decides.
SpineIsNewEnough(required) ==
  LET parts == SelectSeq(required, IsNumber)
      Differs(i) == Part(parts, i) # Part(Current, i)
      places == 1 .. Max({Len(parts), Len(Current)})
  IN  (\A i \in places : ~Differs(i))
      \/ LET first == Min({i \in places : Differs(i)})
         IN  Part(Current, first) > Part(parts, first)

NodeError(nodes, i) ==
  LET n == nodes[i] IN
  IF n.name.core = "" THEN "EmptyNodeName"
  ELSE IF n.attempts = 0 \/ n.backoff = 0 THEN "InvalidRetryPolicy"
  ELSE IF \E j \in 1 .. i - 1 : nodes[j].name.core = n.name.core THEN "DuplicateNodeName"
  ELSE "none"

\* Mutant: only the source of an edge is looked up.
KnowsSources(d) ==
  LET names == {Trim(d.nodes[i].name) : i \in DOMAIN d.nodes}
  IN  \A i \in DOMAIN d.edges : d.edges[i][1] \in names

\* The keys of node_indexes are trimmed; what is looked up in it is not.
KnowsEnds(d) ==
  LET names == {Trim(d.nodes[i].name) : i \in DOMAIN d.nodes}
  IN  \A i \in DOMAIN d.edges : d.edges[i][1] \in names /\ d.edges[i][2] \in names

\* What parsing leaves of a definition: names have a core and blanks or none, and a
\* component of a version that parses is a number (u32, p.parse().ok()).
IsName(x) == x = [core |-> x.core, blanks |-> x.blanks] /\ x.blanks \in BOOLEAN
IsRelease(version) == version \in Seq(Nat)

ASSUME CurrentIsRelease == IsRelease(Current)
ASSUME DefinitionsAreParsed ==
  \A d \in Definitions :
    /\ d.version \in Nat
    /\ IsRelease(SelectSeq(d.minSpine, IsNumber))
    /\ Len(d.nodes) \in Nat /\ DOMAIN d.nodes = 1 .. Len(d.nodes)
    /\ \A i \in DOMAIN d.nodes : IsName(d.nodes[i].name)
    /\ Len(d.edges) \in Nat /\ DOMAIN d.edges = 1 .. Len(d.edges)
    /\ \A i \in DOMAIN d.edges : d.edges[i] = <<d.edges[i][1], d.edges[i][2]>>

\* The first error in the order of the code; of the nodes, that of the first one with any.
Validated(d) ==
  LET names == {Trim(d.nodes[i].name) : i \in DOMAIN d.nodes}
      failing == {i \in DOMAIN d.nodes : NodeError(d.nodes, i) # "none"}
  IN  IF d.name.core = "" THEN "EmptyWorkflowName"
      ELSE IF d.version = 0 THEN "InvalidVersion"
      ELSE IF ~SpineIsNewEnough(d.minSpine) THEN "SpineVersionTooOld"
      ELSE IF d.nodes = <<>> THEN "MissingNodes"
      ELSE IF failing # {} THEN NodeError(d.nodes, Min(failing))
      ELSE IF d.start \notin names THEN "MissingStartNode"
      ELSE IF ~KnowsEnds(d) THEN "UnknownNode"
      ELSE "ok"

Validate == kind = "validate" /\ Becomes(Validated(in))

----------------------------------------------------------------------------
(***************************************************************************)
(* evaluate.                                                               *)
(***************************************************************************)
Missing == [t |-> "missing"]

\* The only segment here that parses as an index.
FirstIndex == "0"

\* resolve_path: a step into an object by key or into an array by index.
Child(value, segment) ==
  CASE value.t = "object" /\ segment \in DOMAIN value.v -> value.v[segment]
    [] value.t = "array" /\ segment = FirstIndex /\ value.v # <<>> -> Head(value.v)
    [] OTHER -> Missing

Resolve(payload, path) == FoldLeft(Child, payload, path)

SameJson(a, b) == a.t = b.t /\ a.v = b.v

\* as_f64 and parse::<f64>: an integer and a float are the same number here, and
\* different JSON values.
Numeric(a) == a.t \in {"integer", "float"}

\* Mutant: a comparison with what is not a number holds.
NumericHoldsOnNaN(a, op, b) ==
  Numeric(a) /\ Numeric(b) =>
    \/ op = "<" /\ a.v < b.v
    \/ op = ">" /\ a.v > b.v
    \/ op = "<=" /\ a.v <= b.v
    \/ op = ">=" /\ a.v >= b.v

NumericHolds(a, op, b) ==
  /\ Numeric(a) /\ Numeric(b)
  /\ \/ op = "<" /\ a.v < b.v
     \/ op = ">" /\ a.v > b.v
     \/ op = "<=" /\ a.v <= b.v
     \/ op = ">=" /\ a.v >= b.v

\* JSON has no number that is none, and numbers are ordered.
ASSUME NumbersAreOrdered ==
  \A c \in Conditions : \A a \in {Resolve(c.payload, c.path), c.expected} :
    Numeric(a) => a.v \in Int

\* A condition that is not of three parts, or has another operator, or whose path leads
\* nowhere, holds.
Holds(payload, c, op) ==
  LET actual == Resolve(payload, c.path) IN
  \/ ~c.threeParts \/ actual.t = "missing"
  \/ op \in {"<", ">", "<=", ">="} /\ NumericHolds(actual, op, c.expected)
  \/ op = "==" /\ SameJson(actual, c.expected)
  \/ op = "!=" /\ ~SameJson(actual, c.expected)
  \/ op \notin {"<", ">", "<=", ">=", "==", "!="}

\* The condition of an edge, and the opposite one of an edge beside it.
Opposite(op) ==
  CASE op = "<" -> ">=" [] op = ">" -> "<=" [] op = "==" -> "!=" [] OTHER -> op

\* Which of the two edges are taken.
Evaluate ==
  /\ kind = "evaluate"
  /\ Becomes({edge \in 1 .. 2 :
       Holds(in.payload, in, IF edge = 1 THEN in.op ELSE Opposite(in.op))})

----------------------------------------------------------------------------

DefinitionNext == Validate \/ Evaluate

DefinitionSpec == DefinitionInit /\ [][DefinitionNext]_inputVars

Done(k) == kind = k /\ out # <<>>

\* A graph that has been validated can be run: whatever node a run reaches, it finds,
\* unless that node was declared with blanks around its name; and no two declared nodes
\* answer to one name (validate against the look-up in Executor::run).
ValidatedIsFound ==
  Done("validate") /\ out[1] = "ok" =>
    LET reached == {in.start} \cup {in.edges[i][2] : i \in DOMAIN in.edges}
        Declares(i, x) == Trim(in.nodes[i].name) = Trim(x)
    IN  \A x \in reached :
          /\ Cardinality({i \in DOMAIN in.nodes : Declares(i, x)}) = 1
          /\ \A i \in DOMAIN in.nodes :
               Declares(i, x) => in.nodes[i].name = x \/ in.nodes[i].name.blanks

\* A version of at most three components as a number, in a base above each component of
\* it and of the running version.
Base(required) == 1 + Max({Part(v, i) : v \in {required, Current}, i \in 1 .. 3})
Number(v, base) == (Part(v, 1) * base + Part(v, 2)) * base + Part(v, 3)

\* No version has more than three components, as those of Cargo.
VersionsAreShort ==
  /\ Len(Current) <= 3
  /\ \A d \in Definitions : Len(SelectSeq(d.minSpine, IsNumber)) <= 3

\* A workflow is refused for its version exactly if the version it asks for is, as a
\* number with its components for digits, greater than the running one
\* (check_spine_version: "compared component-wise").
VersionsAreOrdered ==
  Done("validate") =>
    LET required == SelectSeq(in.minSpine, IsNumber)
    IN  (out[1] = "SpineVersionTooOld") <=>
          /\ in.name.core # "" /\ in.version > 0
          /\ Number(required, Base(required)) > Number(Current, Base(required))

\* Two edges with opposite conditions: one of them is taken for a number and for a test
\* of equality, both for a path that leads nowhere, and none if the number is not one.
BranchesAreOpposite ==
  Done("evaluate") /\ in.threeParts /\ Opposite(in.op) # in.op =>
    LET actual == Resolve(in.payload, in.path)
    IN  IF actual.t = "missing" THEN out[1] = {1, 2}
        ELSE IF in.op = "==" \/ (Numeric(actual) /\ Numeric(in.expected))
             THEN Cardinality(out[1]) = 1
             ELSE out[1] = {}

=============================================================================
