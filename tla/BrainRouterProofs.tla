------------------------- MODULE BrainRouterProofs -------------------------
(***************************************************************************)
(* Proofs about the bridge to agent-brain and the router over it, for any  *)
(* numbers of requests, retries and stray lines and any pipe: answers are  *)
(* matched to requests, a broken line costs one request, and what the      *)
(* fallback escalates has failed often enough.                             *)
(***************************************************************************)
EXTENDS BrainRouter, FiniteSetTheorems, SequenceTheorems, TLAPS

(***************************************************************************)
(* Broken lines in the pipe.                                               *)
(***************************************************************************)
JunkAt(lines) == {i \in 1 .. Len(lines) : lines[i].kind = "junk"}

Junk(lines) == Cardinality(JunkAt(lines))

\* Broken lines are counted by a natural number.
LEMMA JunkIsNat ==
  ASSUME NEW lines \in Seq(Line)
  PROVE  IsFiniteSet(JunkAt(lines)) /\ Junk(lines) \in Nat
<1>1. IsFiniteSet(1 .. Len(lines))
  BY FS_Interval
<1>2. IsFiniteSet(JunkAt(lines))
  BY <1>1, FS_Subset DEF JunkAt
<1> QED
  BY <1>2, FS_CardinalityType DEF Junk

\* An empty pipe has none.
LEMMA NoJunk == Junk(<<>>) = 0
<1>1. JunkAt(<<>>) = {}
  BY DEF JunkAt
<1> QED
  BY <1>1, FS_EmptySet DEF Junk

\* A line that is sent adds one at most.
LEMMA JunkSent ==
  ASSUME NEW lines \in Seq(Line), NEW l \in Line
  PROVE  /\ Append(lines, l) \in Seq(Line)
         /\ Junk(Append(lines, l)) = Junk(lines) + (IF l.kind = "junk" THEN 1 ELSE 0)
<1> DEFINE more == Append(lines, l)
           n == Len(lines) + 1
<1>1. /\ more \in Seq(Line) /\ Len(more) = n /\ Len(lines) \in Nat
      /\ more[n] = l /\ \A i \in 1 .. Len(lines) : more[i] = lines[i]
  OBVIOUS
<1>2. IsFiniteSet(JunkAt(lines)) /\ n \notin JunkAt(lines)
  <2>1. n \notin JunkAt(lines)
    BY <1>1 DEF JunkAt
  <2> QED
    BY <2>1, JunkIsNat
<1> HIDE DEF more, n
<1>3. CASE l.kind = "junk"
  <2>1. JunkAt(more) = JunkAt(lines) \cup {n}
    BY <1>1, <1>3 DEF JunkAt, n
  <2> QED
    BY <1>1, <1>2, <1>3, <2>1, FS_AddElement DEF Junk, more
<1>4. CASE l.kind # "junk"
  <2>1. JunkAt(more) = JunkAt(lines)
    BY <1>1, <1>4 DEF JunkAt, n
  <2>2. Junk(lines) \in Nat
    BY JunkIsNat
  <2> QED
    BY <1>1, <1>4, <2>1, <2>2 DEF Junk, more
<1> QED
  BY <1>3, <1>4

\* A line that is read takes itself with it.
LEMMA JunkRead ==
  ASSUME NEW lines \in Seq(Line), lines # <<>>
  PROVE  /\ Tail(lines) \in Seq(Line) /\ Head(lines) \in Line /\ Head(lines) = lines[1]
         /\ \A i \in 1 .. Len(Tail(lines)) : i + 1 \in 1 .. Len(lines) /\ Tail(lines)[i] = lines[i + 1]
         /\ Junk(Tail(lines)) + (IF Head(lines).kind = "junk" THEN 1 ELSE 0) <= Junk(lines)
<1> DEFINE rest0 == Tail(lines)
           from == JunkAt(lines) \ {1}
           f == [i \in from |-> i - 1]
<1>1. /\ rest0 \in Seq(Line) /\ Len(rest0) = Len(lines) - 1 /\ Len(lines) \in Nat \ {0}
      /\ Head(lines) = lines[1] /\ Head(lines) \in Line
      /\ \A i \in 1 .. Len(rest0) : i + 1 \in 1 .. Len(lines) /\ rest0[i] = lines[i + 1]
  OBVIOUS
<1> HIDE DEF rest0
<1>2. f \in Surjection(from, JunkAt(rest0))
  <2>1. f \in [from -> JunkAt(rest0)]
    <3> SUFFICES ASSUME NEW i \in from PROVE i - 1 \in JunkAt(rest0)
      OBVIOUS
    <3>1. i \in 2 .. Len(lines) /\ lines[i].kind = "junk" /\ i - 1 \in 1 .. Len(rest0)
      BY <1>1 DEF JunkAt
    <3>2. rest0[i - 1] = lines[i]
      BY <1>1, <3>1
    <3> QED
      BY <3>1, <3>2 DEF JunkAt
  <2>2. ASSUME NEW j \in JunkAt(rest0) PROVE \E i \in from : f[i] = j
    <3>1. j \in 1 .. Len(rest0) /\ j + 1 \in 1 .. Len(lines) /\ lines[j + 1].kind = "junk"
      BY <1>1 DEF JunkAt
    <3>2. j + 1 \in from /\ f[j + 1] = j
      BY <3>1 DEF JunkAt
    <3> QED
      BY <3>2
  <2> QED
    BY <2>1, <2>2 DEF Surjection
<1>3. IsFiniteSet(JunkAt(lines)) /\ Junk(lines) \in Nat /\ Junk(rest0) \in Nat
  BY <1>1, JunkIsNat
<1>4. /\ IsFiniteSet(from)
      /\ Cardinality(from) = IF 1 \in JunkAt(lines) THEN Junk(lines) - 1 ELSE Junk(lines)
  BY <1>3, FS_RemoveElement DEF Junk
<1>5. Junk(rest0) <= Cardinality(from)
  <2> HIDE DEF f, from
  <2> QED
    BY <1>2, <1>4, FS_Surjection DEF Junk
<1>6. 1 \in JunkAt(lines) <=> Head(lines).kind = "junk"
  BY <1>1 DEF JunkAt
<1> QED
  BY <1>1, <1>3, <1>4, <1>5, <1>6 DEF rest0
----------------------------------------------------------------------------
(***************************************************************************)
(* The bridge.                                                             *)
(***************************************************************************)

\* A request and its id are as far apart as the calls and ids of this bridge: the number
\* of a request follows from its id.
Pairs(q, next, n) == q.n + next = q.id + n + 1

Match(q) == Pairs(q, nextId, calls)

IsAnswer(l) == l.kind \in {"result", "error", "misshapen"}

\* Without a bridge there is no child and nothing in the pipes.
Quiet ==
  pc = "none" => /\ inbox = <<>> /\ outbox = <<>> /\ todo = {}
                 /\ ~alive /\ ~cut

Numbered == pc # "none" => target + 1 = nextId /\ nextId <= calls

Paired ==
  /\ \A q \in todo : Match(q)
  /\ \A i \in 1 .. Len(inbox) : inbox[i].kind = "request" => Match(inbox[i])
  /\ \A i \in 1 .. Len(outbox) : IsAnswer(outbox[i]) => Match(outbox[i])

\* A handshake's result is kept until it has been acknowledged.
OwnAnswer == pc \in {"idle", "ack"} /\ ret = "ok" => served = calls

\* Every broken line fails a request, or is in the pipe, or its head has been read.
Spent ==
  /\ badLines + Junk(outbox) <= broken
  /\ cut => badLines + Junk(outbox) < broken

BridgeInv ==
  /\ BridgeTypeOK
  /\ Quiet
  /\ Numbered
  /\ Paired
  /\ OwnAnswer
  /\ Spent

\* Sums, apart from the formulas about strings and truth values.
LEMMA SumAtMost ==
  /\ \A a, b \in Nat : a <= b => a + 0 <= b
  /\ \A a, b, z \in Nat : a + z <= b => a <= b
  /\ \A a, b, y, z \in Nat : y <= z /\ a + z <= b => a + y <= b
  /\ \A a, b, y, z \in Nat : y <= z /\ a + z < b => a + y < b
  /\ \A a, b, y, z \in Nat : y + 1 <= z /\ a + z <= b => (a + 1) + y <= b
  /\ \A a, b, y, z \in Nat : y + 1 <= z /\ a + z < b => (a + 1) + y < b
  /\ \A a, b, z \in Nat : a + z <= b => a + z < b + 1 /\ a + z <= b + 1
  /\ \A a, b, z \in Nat : a + z < b => a + (z + 1) <= b
  /\ \A a, b, z \in Nat : a + z <= b => a + (z + 1) <= b + 1
  /\ \A a, b, z \in Nat : a + z < b => a + (z + 1) < b + 1
  /\ \A a, b, z \in Nat : a + z < b => a + z < b + 1
  /\ \A a \in Nat : a + 0 = a /\ a + 1 \in Nat
OBVIOUS

\* The pairing of numbers and ids goes on with every request.
LEMMA PairsGoOn ==
  /\ \A b \in Nat : \A q : q.id = 0 /\ q.n = b + 1 => Pairs(q, 1, b + 1)
  /\ \A a, b \in Nat : \A q : q.id = a /\ q.n = b + 1 => Pairs(q, a + 1, b + 1)
  /\ \A a, b \in Nat : \A q :
       q.id \in Nat /\ q.n \in Nat /\ Pairs(q, a, b) => Pairs(q, a + 1, b + 1)
  /\ \A a, b \in Nat : \A q :
       q.id = a /\ q.n \in Nat /\ Pairs(q, a + 1, b) => q.n = b
BY DEF Pairs

\* The requests and ids that are in use are within the bounds.
LEMMA Numbers ==
  /\ \A c \in 0 .. MaxCalls : c \in Nat /\ c <= MaxCalls
  /\ \A c \in 0 .. MaxCalls : c < MaxCalls => c + 1 \in 0 .. MaxCalls
  /\ \A c \in 0 .. MaxCalls, i \in Nat : i <= c => i \in Ids
  /\ 0 \in Ids
  /\ \A i \in Ids : i \in Nat
  /\ \A a, b, c \in Nat : a + 1 = b /\ b <= c => a <= c /\ b + 1 <= c + 1
  /\ \A c \in Nat : c + 1 \in Nat /\ 1 <= c + 1
  /\ 0 + 1 = 1 /\ 1 \in Nat
BY BoundsAreNat DEF Ids

\* So are those of the messages.
LEMMA FieldsAreNat ==
  \A q : q \in Request \/ q \in Message \/ q \in Line => q.id \in Nat /\ q.n \in Nat
BY BoundsAreNat DEF Request, Message, Line, Ids

\* What the bridge writes of its own accord is a message, and no request.
LEMMA NoteIsMessage ==
  /\ [kind |-> "notification", id |-> 0, n |-> 0] \in Message
  /\ [kind |-> "notification", id |-> 0, n |-> 0].kind # "request"
BY BoundsAreNat DEF Message, Ids

\* What a step adds to a pipe to the child.
LEMMA MessageSent ==
  ASSUME NEW messages \in Seq(Message), NEW m \in Message
  PROVE  /\ Append(messages, m) \in Seq(Message)
         /\ \A i \in 1 .. Len(Append(messages, m)) :
              \/ i \in 1 .. Len(messages) /\ Append(messages, m)[i] = messages[i]
              \/ Append(messages, m)[i] = m
OBVIOUS

\* A pipe holds what was sent.
LEMMA ElementsAreIn == \A S : \A q \in Seq(S) : \A i \in 1 .. Len(q) : q[i] \in S
OBVIOUS

\* Empty pipes are pipes.
LEMMA EmptyPipes ==
  /\ <<>> \in Seq(Message) /\ <<>> \in Seq(Line) /\ {} \subseteq Request
  /\ \A i \in 1 .. Len(<<>>) : FALSE
OBVIOUS

\* There is no bridge at the start.
LEMMA InitBridge == BridgeInit => BridgeInv
<1> SUFFICES ASSUME BridgeInit PROVE BridgeInv
  OBVIOUS
<1>1. BridgeTypeOK
  <2>1. 0 \in Ids /\ 0 \in 0 .. MaxCalls
    BY BoundsAreNat DEF Ids
  <2> QED
    BY <2>1, EmptyPipes DEF BridgeInit, BridgeTypeOK
<1>2. Spent
  BY NoJunk DEF BridgeInit, Spent
<1>3. Paired
  BY EmptyPipes DEF BridgeInit, Paired
<1> QED
  BY <1>1, <1>2, <1>3 DEF BridgeInit, BridgeInv, Quiet, Numbered, OwnAnswer

\* The bridge is dropped with all that is in its pipes.
LEMMA DropBridge ==
  ASSUME BridgeInv, Dropped,
         UNCHANGED <<nextId, target, calls, noise>>,
         ret' \in {"none", "ok", "misread", "tool error", "bad line", "not connected", "io", "timeout"},
         served' \in 0 .. MaxCalls,
         broken' \in Nat, badLines' \in Nat, badLines' <= broken'
  PROVE  BridgeInv'
<1>1. /\ pc' = "none" /\ alive' = FALSE /\ inbox' = <<>> /\ outbox' = <<>> /\ todo' = {}
      /\ cut' = FALSE
  BY DEF Dropped
<1>2. BridgeTypeOK'
  BY <1>1, EmptyPipes DEF BridgeInv, BridgeTypeOK
<1>3. Spent'
  <2>1. Junk(outbox') = 0
    BY <1>1, NoJunk
  <2>2. badLines' + Junk(outbox') <= broken'
    BY <2>1, SumAtMost, Zenon
  <2> QED
    BY <1>1, <2>2 DEF Spent
<1>4. Paired'
  BY <1>1, EmptyPipes DEF Paired
<1>5. Quiet' /\ Numbered' /\ OwnAnswer'
  BY <1>1 DEF Quiet, Numbered, OwnAnswer
<1> QED
  BY <1>2, <1>3, <1>4, <1>5 DEF BridgeInv

\* What the call leaves in the pipe from the child when it returns.
LEMMA ReturnBridge ==
  ASSUME BridgeInv, pc \in {"read", "pong"},
         NEW how \in {"ok", "misread", "tool error", "bad line", "not connected", "timeout"},
         NEW lines \in Seq(Line), NEW torn \in BOOLEAN,
         Return(how, lines, torn),
         \A i \in 1 .. Len(lines) : IsAnswer(lines[i]) => Match(lines[i]),
         UNCHANGED <<nextId, target, calls, noise>>,
         served' \in 0 .. MaxCalls, how = "ok" => served' = calls,
         broken' \in Nat, badLines' \in Nat,
         badLines' + Junk(lines) <= broken',
         torn => badLines' + Junk(lines) < broken'
  PROVE  BridgeInv'
<1>0. BridgeTypeOK /\ Junk(lines) \in Nat /\ ret' = how
  BY JunkIsNat DEF BridgeInv, Return
<1>1. CASE target = 0 /\ how \notin {"ok", "misread"}
  <2>1. Dropped
    BY <1>1 DEF Return
  <2>2. badLines' <= broken'
    BY <1>0, SumAtMost, Zenon
  <2> QED
    BY <1>0, <2>1, <2>2, DropBridge
<1>2. CASE \/ target # 0 /\ inbox' = inbox /\ pc' = "idle"
           \/ /\ target = 0 /\ pc' = "ack"
              /\ inbox' = Append(inbox, [kind |-> "notification", id |-> 0, n |-> 0])
  <2>0. outbox' = lines /\ cut' = torn /\ UNCHANGED <<alive, todo>>
    BY <1>0, <1>2 DEF Return, Dropped
  <2>1. inbox \in Seq(Message)
    BY <1>0 DEF BridgeTypeOK
  <2>2. /\ inbox' \in Seq(Message)
        /\ \A i \in 1 .. Len(inbox') : inbox'[i].kind = "request" =>
             i \in 1 .. Len(inbox) /\ inbox'[i] = inbox[i]
    BY <1>2, <2>1, NoteIsMessage, MessageSent
  <2>3. BridgeTypeOK'
    BY <1>0, <1>2, <2>0, <2>2 DEF BridgeTypeOK
  <2>4. Quiet' /\ Numbered' /\ OwnAnswer'
    BY <1>0, <1>2, <2>0 DEF BridgeInv, Quiet, Numbered, OwnAnswer
  <2>5. Spent'
    BY <2>0 DEF Spent
  <2>6. Paired'
    BY <2>0, <2>2 DEF BridgeInv, Paired, Match, IsAnswer
  <2> QED
    BY <2>3, <2>4, <2>5, <2>6 DEF BridgeInv
<1> QED
  BY <1>0, <1>1, <1>2 DEF Return, Written

\* A line is read that is not broken: what is left in the pipe.
LEMMA ReadBridge ==
  ASSUME BridgeInv, outbox # <<>>
  PROVE  /\ Tail(outbox) \in Seq(Line) /\ Head(outbox) \in Line
         /\ \A i \in 1 .. Len(Tail(outbox)) :
              IsAnswer(Tail(outbox)[i]) => Match(Tail(outbox)[i])
         /\ IsAnswer(Head(outbox)) => Match(Head(outbox))
         /\ badLines + Junk(Tail(outbox)) <= broken
         /\ cut => badLines + Junk(Tail(outbox)) < broken
         /\ Head(outbox).kind = "junk" =>
              /\ (badLines + 1) + Junk(Tail(outbox)) <= broken
              /\ cut => (badLines + 1) + Junk(Tail(outbox)) < broken
<1>1. outbox \in Seq(Line) /\ badLines \in Nat /\ broken \in Nat
  BY DEF BridgeInv, BridgeTypeOK
<1>2. /\ Tail(outbox) \in Seq(Line) /\ Head(outbox) \in Line
      /\ Head(outbox) = outbox[1] /\ 1 \in 1 .. Len(outbox)
      /\ \A i \in 1 .. Len(Tail(outbox)) :
           i + 1 \in 1 .. Len(outbox) /\ Tail(outbox)[i] = outbox[i + 1]
  <2>1. 1 \in 1 .. Len(outbox)
    BY <1>1
  <2> QED
    BY <1>1, <2>1, JunkRead
<1>3. Paired
  BY DEF BridgeInv
<1>4. /\ \A i \in 1 .. Len(Tail(outbox)) :
           IsAnswer(Tail(outbox)[i]) => Match(Tail(outbox)[i])
      /\ IsAnswer(Head(outbox)) => Match(Head(outbox))
  BY <1>2, <1>3, Zenon DEF Paired
<1>5. /\ Junk(Tail(outbox)) \in Nat /\ Junk(outbox) \in Nat
      /\ Junk(Tail(outbox)) <= Junk(outbox)
      /\ Head(outbox).kind = "junk" => Junk(Tail(outbox)) + 1 <= Junk(outbox)
  <2>1. Junk(Tail(outbox)) \in Nat /\ Junk(outbox) \in Nat
    BY <1>1, <1>2, JunkIsNat
  <2>2. Junk(Tail(outbox)) + (IF Head(outbox).kind = "junk" THEN 1 ELSE 0) <= Junk(outbox)
    BY <1>1, JunkRead
  <2> QED
    BY <2>1, <2>2
<1>6. Spent
  BY DEF BridgeInv
<1> QED
  BY <1>1, <1>2, <1>4, <1>5, <1>6, SumAtMost, Zenon DEF Spent

\* A new bridge has nothing in its pipes but the handshake's request.
LEMMA ConnectBridge == BridgeInv /\ Connect => BridgeInv'
<1> SUFFICES ASSUME BridgeInv, Connect PROVE BridgeInv'
  OBVIOUS
<1>0. PICK m : m = [kind |-> "request", id |-> 0, n |-> calls + 1]
  OBVIOUS
<1>1. BridgeTypeOK /\ Quiet /\ Spent
  BY DEF BridgeInv
<1>2. /\ inbox = <<>> /\ outbox = <<>> /\ todo = {} /\ calls < MaxCalls
      /\ inbox' = Append(inbox, m) /\ outbox' = <<>> /\ todo' = {} /\ cut' = cut
      /\ nextId' = 1 /\ target' = 0 /\ calls' = calls + 1 /\ pc' = "flush" /\ alive' = TRUE
      /\ UNCHANGED <<ret, served, noise, broken, badLines>>
  BY <1>0, <1>1 DEF Connect, Quiet, Written, counters
<1>3. calls \in 0 .. MaxCalls /\ calls \in Nat /\ calls' \in 0 .. MaxCalls /\ 0 \in Ids
  <2>1. calls \in 0 .. MaxCalls
    BY <1>1 DEF BridgeTypeOK
  <2> QED
    BY <1>2, <2>1, Numbers, Zenon
<1>4. m \in Message /\ m.id = 0 /\ m.n = calls + 1
  BY <1>0, <1>2, <1>3 DEF Message
<1>5. inbox' \in Seq(Message) /\ \A i \in 1 .. Len(inbox') : inbox'[i] = m
  <2>1. \A i \in 1 .. Len(<<>>) : FALSE
    BY EmptyPipes
  <2> QED
    BY <1>2, <1>4, <2>1, EmptyPipes, MessageSent, Zenon
<1>6. BridgeTypeOK'
  BY <1>1, <1>2, <1>3, <1>5 DEF BridgeTypeOK
<1>7. Paired'
  <2>1. Pairs(m, nextId', calls')
    BY <1>2, <1>3, <1>4, PairsGoOn, Zenon
  <2>2. \A i \in 1 .. Len(inbox') : Pairs(inbox'[i], nextId', calls')
    BY <1>5, <2>1, Zenon
  <2>3. /\ \A q \in todo' : FALSE
        /\ \A i \in 1 .. Len(outbox') : FALSE
    BY <1>2, EmptyPipes
  <2> QED
    BY <2>2, <2>3, Zenon DEF Paired, Match
<1>8. Quiet' /\ Numbered' /\ OwnAnswer'
  <2>1. Numbered'
    BY <1>2, <1>3, Numbers, Zenon DEF Numbered
  <2> QED
    BY <1>2, <2>1 DEF Quiet, OwnAnswer
<1>9. Spent'
  BY <1>1, <1>2 DEF Spent
<1> QED
  BY <1>6, <1>7, <1>8, <1>9 DEF BridgeInv

\* A request has the next number and the next id.
LEMMA CallBridge == BridgeInv /\ CallTool => BridgeInv'
<1> SUFFICES ASSUME BridgeInv, CallTool PROVE BridgeInv'
  OBVIOUS
<1>0. PICK m : m = [kind |-> "request", id |-> nextId, n |-> calls + 1]
  OBVIOUS
<1>1. BridgeTypeOK /\ Numbered /\ Spent /\ Paired
  BY DEF BridgeInv
<1>2. /\ pc = "idle" /\ calls < MaxCalls
      /\ inbox' = Append(inbox, m) /\ outbox' = outbox /\ todo' = todo /\ cut' = cut
      /\ nextId' = nextId + 1 /\ target' = nextId /\ calls' = calls + 1
      /\ pc' = "flush" /\ alive' = alive
      /\ UNCHANGED <<ret, served, noise, broken, badLines>>
  BY <1>0 DEF CallTool, Written, counters
<1>3. /\ calls \in Nat /\ nextId \in Nat /\ nextId <= calls
      /\ calls' \in 0 .. MaxCalls /\ nextId \in Ids
      /\ nextId' \in Nat /\ nextId + 1 <= calls + 1
  <2>1. calls \in 0 .. MaxCalls /\ nextId \in Nat /\ target \in Nat
    BY <1>1, Numbers DEF BridgeTypeOK
  <2>2. target + 1 = nextId /\ nextId <= calls
    BY <1>1, <1>2 DEF Numbered
  <2> QED
    BY <1>2, <2>1, <2>2, Numbers, Zenon
<1>4. m \in Message /\ m.id = nextId /\ m.n = calls + 1
  BY <1>0, <1>2, <1>3 DEF Message
<1>5. inbox \in Seq(Message)
  BY <1>1 DEF BridgeTypeOK
<1>6. /\ inbox' \in Seq(Message)
      /\ \A i \in 1 .. Len(inbox') :
           \/ i \in 1 .. Len(inbox) /\ inbox'[i] = inbox[i]
           \/ inbox'[i] = m
  BY <1>2, <1>4, <1>5, MessageSent
<1>7. BridgeTypeOK'
  BY <1>1, <1>2, <1>3, <1>6 DEF BridgeTypeOK
<1>8. Paired'
  <2>1. Pairs(m, nextId', calls')
    BY <1>2, <1>3, <1>4, PairsGoOn, Zenon
  <2>2. ASSUME NEW q, q \in Request \/ q \in Message \/ q \in Line, Match(q)
        PROVE  Pairs(q, nextId', calls')
    BY <1>2, <1>3, <2>2, PairsGoOn, FieldsAreNat, Zenon DEF Match
  <2>3. /\ \A q \in todo : q \in Request
        /\ \A i \in 1 .. Len(inbox) : inbox[i] \in Message
        /\ \A i \in 1 .. Len(outbox) : outbox[i] \in Line
    BY <1>1, ElementsAreIn, Zenon DEF BridgeTypeOK
  <2>4. /\ \A q \in todo' : Pairs(q, nextId', calls')
        /\ \A i \in 1 .. Len(outbox') :
             IsAnswer(outbox'[i]) => Pairs(outbox'[i], nextId', calls')
    BY <1>1, <1>2, <2>2, <2>3, Zenon DEF Paired
  <2>5. \A i \in 1 .. Len(inbox') :
          inbox'[i].kind = "request" => Pairs(inbox'[i], nextId', calls')
    BY <1>1, <1>6, <2>1, <2>2, <2>3, Zenon DEF Paired
  <2> QED
    BY <2>4, <2>5, Zenon DEF Paired, Match, IsAnswer
<1>9. Quiet' /\ Numbered' /\ OwnAnswer'
  <2>1. Numbered'
    BY <1>2, <1>3, Zenon DEF Numbered
  <2> QED
    BY <1>2, <2>1 DEF Quiet, OwnAnswer
<1>10. Spent'
  BY <1>1, <1>2 DEF Spent
<1> QED
  BY <1>7, <1>8, <1>9, <1>10 DEF BridgeInv

\* A message that has been written: the bridge reads, or is idle again.
LEMMA FlushBridge == BridgeInv /\ Flushed => BridgeInv'
<1> SUFFICES ASSUME BridgeInv, Flushed PROVE BridgeInv'
  OBVIOUS
<1>1. /\ pc \in {"flush", "pong", "ack"}
      /\ pc' = IF pc = "ack" THEN "idle" ELSE "read"
      /\ UNCHANGED <<alive, inbox, todo, outbox, cut, nextId, target, calls, ret, served,
                     noise, broken, badLines>>
  BY DEF Flushed, child, counters
<1>2. BridgeTypeOK'
  BY <1>1 DEF BridgeInv, BridgeTypeOK
<1>3. Paired' /\ Spent'
  BY <1>1 DEF BridgeInv, Paired, Match, IsAnswer, Spent
<1>4. Quiet' /\ Numbered' /\ OwnAnswer'
  BY <1>1 DEF BridgeInv, Quiet, Numbered, OwnAnswer
<1> QED
  BY <1>2, <1>3, <1>4 DEF BridgeInv

\* A message that cannot be written: the bridge is idle again, or gone.
LEMMA FailedWriteBridge == BridgeInv /\ WriteFails => BridgeInv'
<1> SUFFICES ASSUME BridgeInv, WriteFails PROVE BridgeInv'
  OBVIOUS
<1>1. /\ pc \in {"flush", "pong", "ack"} /\ ret' = "io"
      /\ UNCHANGED <<nextId, target, calls, served, noise, broken, badLines>>
  BY DEF WriteFails, counters
<1>2. BridgeTypeOK
  BY DEF BridgeInv
<1>3. CASE Dropped
  <2>1. /\ broken' \in Nat /\ badLines' \in Nat /\ badLines' <= broken'
        /\ served' \in 0 .. MaxCalls
    <3>1. outbox \in Seq(Line) /\ badLines \in Nat /\ broken \in Nat /\ served \in 0 .. MaxCalls
      BY <1>2 DEF BridgeTypeOK
    <3>2. Junk(outbox) \in Nat /\ Spent
      BY <3>1, JunkIsNat DEF BridgeInv
    <3> QED
      BY <1>1, <3>1, <3>2, SumAtMost, Zenon DEF Spent
  <2> QED
    BY <1>1, <1>3, <2>1, DropBridge
<1>4. CASE pc' = "idle" /\ UNCHANGED <<alive, inbox, todo, outbox, cut>>
  <2>1. BridgeTypeOK'
    BY <1>1, <1>2, <1>4 DEF BridgeTypeOK
  <2>2. Paired' /\ Spent'
    BY <1>1, <1>4 DEF BridgeInv, Paired, Match, IsAnswer, Spent
  <2>3. Quiet' /\ Numbered' /\ OwnAnswer'
    BY <1>1, <1>4 DEF BridgeInv, Quiet, Numbered, OwnAnswer
  <2> QED
    BY <2>1, <2>2, <2>3 DEF BridgeInv
<1> QED
  BY <1>3, <1>4 DEF WriteFails, child

\* A line is read and passed over, with or without a reply.
LEMMA PassBridge == BridgeInv /\ (SkipLine \/ HandleServerRequest) => BridgeInv'
<1> SUFFICES ASSUME BridgeInv, SkipLine \/ HandleServerRequest PROVE BridgeInv'
  OBVIOUS
<1>1. PICK m : m = [kind |-> "pong", id |-> Head(outbox).id, n |-> 0]
  OBVIOUS
<1>2. /\ pc = "read" /\ outbox # <<>> /\ outbox' = Tail(outbox)
      /\ pc' \in {"read", "pong"}
      /\ inbox' = inbox \/ inbox' = Append(inbox, m)
      /\ UNCHANGED <<alive, todo, cut, nextId, target, calls, ret, served,
                     noise, broken, badLines>>
  BY <1>1 DEF SkipLine, HandleServerRequest, Reading, Written, counters
<1>3. BridgeTypeOK
  BY DEF BridgeInv
<1>4. /\ Tail(outbox) \in Seq(Line) /\ Head(outbox) \in Line
      /\ \A i \in 1 .. Len(Tail(outbox)) :
           IsAnswer(Tail(outbox)[i]) => Match(Tail(outbox)[i])
      /\ badLines + Junk(Tail(outbox)) <= broken
      /\ cut => badLines + Junk(Tail(outbox)) < broken
  BY <1>2, ReadBridge
<1>5. m \in Message /\ m.kind # "request"
  BY <1>1, <1>4, BoundsAreNat DEF Message, Line, Ids
<1>6. /\ inbox' \in Seq(Message)
      /\ \A i \in 1 .. Len(inbox') : inbox'[i].kind = "request" =>
           i \in 1 .. Len(inbox) /\ inbox'[i] = inbox[i]
  <2>1. inbox \in Seq(Message)
    BY <1>3 DEF BridgeTypeOK
  <2> QED
    BY <1>2, <1>5, <2>1, MessageSent
<1>7. BridgeTypeOK'
  BY <1>2, <1>3, <1>4, <1>6 DEF BridgeTypeOK
<1>8. Paired'
  BY <1>2, <1>4, <1>6 DEF BridgeInv, Paired, Match, IsAnswer
<1>9. Spent'
  BY <1>2, <1>4 DEF Spent
<1>10. Quiet' /\ Numbered' /\ OwnAnswer'
  BY <1>2 DEF BridgeInv, Quiet, Numbered, OwnAnswer
<1> QED
  BY <1>7, <1>8, <1>9, <1>10 DEF BridgeInv

\* A broken line ends the call.
LEMMA BadLineBridge == BridgeInv /\ BadLine => BridgeInv'
<1> SUFFICES ASSUME BridgeInv, BadLine PROVE BridgeInv'
  OBVIOUS
<1>1. /\ pc = "read" /\ outbox # <<>> /\ Head(outbox).kind = "junk"
      /\ badLines' = badLines + 1
      /\ Return("bad line", Tail(outbox), cut)
      /\ UNCHANGED <<nextId, target, calls, noise, served, broken>>
  BY DEF BadLine, Reading
<1>2. /\ Tail(outbox) \in Seq(Line)
      /\ \A i \in 1 .. Len(Tail(outbox)) :
           IsAnswer(Tail(outbox)[i]) => Match(Tail(outbox)[i])
      /\ badLines' + Junk(Tail(outbox)) <= broken'
      /\ cut => badLines' + Junk(Tail(outbox)) < broken'
  BY <1>1, ReadBridge, Zenon
<1>3. /\ badLines \in Nat /\ broken \in Nat /\ served \in 0 .. MaxCalls /\ cut \in BOOLEAN
  BY DEF BridgeInv, BridgeTypeOK
<1>4. badLines' \in Nat /\ broken' \in Nat /\ served' \in 0 .. MaxCalls
  BY <1>1, <1>3, SumAtMost, Zenon
<1> QED
  BY <1>1, <1>2, <1>3, <1>4, ReturnBridge

\* A result is the answer to the request in flight: no other has its id.
LEMMA AnswerBridge == BridgeInv /\ (TakeAnswer \/ MistakeRequest) => BridgeInv'
<1> SUFFICES ASSUME BridgeInv, TakeAnswer \/ MistakeRequest PROVE BridgeInv'
  OBVIOUS
<1>1. /\ pc = "read" /\ outbox # <<>> /\ Head(outbox).id = target
      /\ UNCHANGED <<nextId, target, calls, noise, broken, badLines>>
  BY DEF TakeAnswer, MistakeRequest, Reading, counters
<1>2. /\ Tail(outbox) \in Seq(Line) /\ Head(outbox) \in Line
      /\ \A i \in 1 .. Len(Tail(outbox)) :
           IsAnswer(Tail(outbox)[i]) => Match(Tail(outbox)[i])
      /\ IsAnswer(Head(outbox)) => Match(Head(outbox))
      /\ badLines' + Junk(Tail(outbox)) <= broken'
      /\ cut => badLines' + Junk(Tail(outbox)) < broken'
  BY <1>1, ReadBridge, Zenon
<1>3. /\ badLines' \in Nat /\ broken' \in Nat /\ cut \in BOOLEAN
      /\ served \in 0 .. MaxCalls /\ calls \in 0 .. MaxCalls
      /\ target \in Ids
  BY <1>1 DEF BridgeInv, BridgeTypeOK
<1>4. CASE UNCHANGED served /\ \E how \in {"tool error", "misread"} : Return(how, Tail(outbox), cut)
  <2>1. PICK how \in {"tool error", "misread"} : Return(how, Tail(outbox), cut)
    BY <1>4
  <2>2. served' \in 0 .. MaxCalls
    BY <1>3, <1>4
  <2> QED
    BY <1>1, <1>2, <1>3, <2>1, <2>2, ReturnBridge
<1>5. CASE /\ Head(outbox).kind = "result" /\ served' = Head(outbox).n
           /\ Return("ok", Tail(outbox), cut)
  <2>1. Pairs(Head(outbox), target + 1, calls)
    <3>1. target + 1 = nextId
      BY <1>1 DEF BridgeInv, Numbered
    <3> QED
      BY <1>2, <1>5, <3>1 DEF Match, IsAnswer
  <2>2. served' = calls
    <3>1. target \in Nat /\ calls \in Nat /\ Head(outbox).n \in Nat
      BY <1>2, <1>3, Numbers, FieldsAreNat, Zenon
    <3> QED
      BY <1>1, <1>5, <2>1, <3>1, PairsGoOn, Zenon
  <2>3. served' \in 0 .. MaxCalls /\ served' = calls'
    BY <1>1, <1>3, <2>2
  <2> QED
    BY <1>1, <1>2, <1>3, <1>5, <2>3, ReturnBridge
<1> QED
  BY <1>4, <1>5 DEF TakeAnswer, MistakeRequest

\* A call that ends without a line leaves the pipe as it is, or a line cut in half.
LEMMA NoAnswerBridge == BridgeInv /\ (ReadEof \/ Timeout) => BridgeInv'
<1> SUFFICES ASSUME BridgeInv, ReadEof \/ Timeout PROVE BridgeInv'
  OBVIOUS
<1>1. /\ pc \in {"read", "pong"}
      /\ UNCHANGED <<nextId, target, calls, served, noise, badLines>>
  BY DEF ReadEof, Timeout, counters
<1>2. /\ outbox \in Seq(Line) /\ badLines' \in Nat /\ badLines \in Nat /\ broken \in Nat
      /\ cut \in BOOLEAN /\ served' \in 0 .. MaxCalls
  BY <1>1 DEF BridgeInv, BridgeTypeOK
<1>3. \A i \in 1 .. Len(outbox) : IsAnswer(outbox[i]) => Match(outbox[i])
  BY DEF BridgeInv, Paired
<1>4. Junk(outbox) \in Nat /\ badLines + Junk(outbox) <= broken
  BY <1>2, JunkIsNat DEF BridgeInv, Spent
<1>5. CASE UNCHANGED broken /\ \E how \in {"not connected", "timeout"} : Return(how, outbox, cut)
  <2>1. PICK how \in {"not connected", "timeout"} : Return(how, outbox, cut)
    BY <1>5
  <2>2. broken' \in Nat /\ badLines' + Junk(outbox) <= broken'
    BY <1>1, <1>2, <1>4, <1>5
  <2>3. cut => badLines' + Junk(outbox) < broken'
    BY <1>1, <1>5, Zenon DEF BridgeInv, Spent
  <2> QED
    BY <1>1, <1>2, <1>3, <2>1, <2>2, <2>3, ReturnBridge
<1>6. CASE broken' = broken + 1 /\ Return("timeout", outbox, TRUE)
  <2>1. /\ broken' \in Nat /\ badLines' + Junk(outbox) <= broken'
        /\ badLines' + Junk(outbox) < broken'
    BY <1>1, <1>2, <1>4, <1>6, SumAtMost, Zenon
  <2> QED
    BY <1>1, <1>2, <1>3, <1>6, <2>1, ReturnBridge
<1> QED
  BY <1>5, <1>6 DEF ReadEof, Timeout, counters

\* The child reads a request and may answer it from now on.
LEMMA ReadByChild == BridgeInv /\ ChildReads => BridgeInv'
<1> SUFFICES ASSUME BridgeInv, ChildReads PROVE BridgeInv'
  OBVIOUS
<1>1. /\ alive /\ inbox # <<>> /\ inbox' = Tail(inbox)
      /\ todo' = IF Head(inbox).kind = "request"
                 THEN todo \cup {[id |-> Head(inbox).id, n |-> Head(inbox).n]}
                 ELSE todo
      /\ UNCHANGED <<alive, outbox, cut, pc, nextId, target, calls, ret, served,
                     noise, broken, badLines>>
  BY DEF ChildReads, counters
<1>2. BridgeTypeOK /\ Paired /\ pc # "none"
  BY <1>1 DEF BridgeInv, Quiet
<1>3. /\ inbox' \in Seq(Message)
      /\ Head(inbox) \in Message /\ Head(inbox) = inbox[1] /\ 1 \in 1 .. Len(inbox)
      /\ \A i \in 1 .. Len(inbox') : i + 1 \in 1 .. Len(inbox) /\ inbox'[i] = inbox[i + 1]
  <2>1. inbox \in Seq(Message)
    BY <1>2 DEF BridgeTypeOK
  <2> QED
    BY <1>1, <2>1
<1>4. PICK q : q = [id |-> Head(inbox).id, n |-> Head(inbox).n]
  OBVIOUS
<1>5. q \in Request /\ q.id = Head(inbox).id /\ q.n = Head(inbox).n
  BY <1>3, <1>4 DEF Message, Request
<1>6. todo' = todo \/ (todo' = todo \cup {q} /\ Head(inbox).kind = "request")
  BY <1>1, <1>4
<1>7. BridgeTypeOK'
  BY <1>1, <1>2, <1>3, <1>5, <1>6 DEF BridgeTypeOK
<1>8. Paired'
  <2>1. Head(inbox).kind = "request" => Pairs(q, nextId, calls)
    BY <1>2, <1>3, <1>5 DEF Paired, Match, Pairs
  <2>2. \A r \in todo' : Match(r)
    BY <1>2, <1>6, <2>1, Zenon DEF Paired, Match
  <2>3. \A i \in 1 .. Len(inbox') : inbox'[i].kind = "request" => Match(inbox'[i])
    BY <1>2, <1>3, Zenon DEF Paired
  <2> QED
    BY <1>1, <1>2, <2>2, <2>3 DEF Paired, Match, IsAnswer
<1>9. Quiet' /\ Numbered' /\ OwnAnswer' /\ Spent'
  BY <1>1, <1>2 DEF BridgeInv, Quiet, Numbered, OwnAnswer, Spent
<1> QED
  BY <1>7, <1>8, <1>9 DEF BridgeInv

\* The texts without an id.
LEMMA TextIsLine ==
  /\ \A kind \in {"notification", "blank", "junk"} : Text(kind) \in Line
  /\ \A kind : Text(kind).kind = kind
  /\ \A kind \in {"notification", "blank", "junk"} : ~IsAnswer(Text(kind))
BY BoundsAreNat DEF Text, Line, Ids, IsAnswer

\* A line that arrives whole answers what the child has read, and is counted when it is
\* broken; of a line that was cut in half the loss has been counted before.
LEMMA ArriveBridge ==
  ASSUME BridgeInv, alive,
         NEW line \in Line, Arrives(line), IsAnswer(line) => Match(line),
         todo' \subseteq todo,
         UNCHANGED <<alive, inbox, pc, nextId, target, calls, ret, served, badLines>>,
         noise' \in Nat,
         broken' = broken \/ broken' = broken + 1,
         line.kind = "junk" => broken' = broken + 1
  PROVE  BridgeInv'
<1>1. BridgeTypeOK /\ Paired /\ Spent /\ pc # "none"
  BY DEF BridgeInv, Quiet
<1>2. /\ outbox \in Seq(Line) /\ badLines \in Nat /\ broken \in Nat
      /\ Junk(outbox) \in Nat
  BY <1>1, JunkIsNat DEF BridgeTypeOK
<1>3. PICK l : /\ outbox' = Append(outbox, l) /\ cut' = FALSE
               /\ l \in IF cut THEN {Text("junk"), Text("blank")} ELSE {line}
  BY DEF Arrives
<1>4. /\ l \in Line /\ (IsAnswer(l) => Match(l))
      /\ cut \/ l = line
  BY <1>3, TextIsLine
<1>5. /\ outbox' \in Seq(Line)
      /\ Junk(outbox') = Junk(outbox) \/ (l.kind = "junk" /\ Junk(outbox') = Junk(outbox) + 1)
  <2>1. Junk(outbox) + 0 = Junk(outbox)
    BY <1>2, SumAtMost, Zenon
  <2> QED
    BY <1>2, <1>3, <1>4, <2>1, JunkSent
<1>6. /\ \A i \in 1 .. Len(outbox') :
           \/ i \in 1 .. Len(outbox) /\ outbox'[i] = outbox[i]
           \/ outbox'[i] = l
  BY <1>2, <1>3, <1>4
<1>7. BridgeTypeOK'
  <2>1. broken + 1 \in Nat
    BY <1>2, SumAtMost, Zenon
  <2>2. broken' \in Nat
    BY <1>2, <2>1
  <2> QED
    BY <1>1, <1>3, <1>5, <2>2 DEF BridgeTypeOK
<1>8. Paired'
  <2>1. \A i \in 1 .. Len(outbox') : IsAnswer(outbox'[i]) => Match(outbox'[i])
    BY <1>1, <1>4, <1>6, Zenon DEF Paired
  <2> QED
    BY <1>1, <2>1 DEF Paired, Match, IsAnswer
<1>9. Spent'
  <2>1. badLines' = badLines /\ ~cut' /\ badLines + Junk(outbox) <= broken
    BY <1>1, <1>3 DEF Spent
  <2>2. badLines + Junk(outbox) <= broken + 1
    BY <1>2, <2>1, SumAtMost, Zenon
  <2>3. CASE Junk(outbox') = Junk(outbox)
    BY <2>1, <2>2, <2>3, Zenon DEF Spent
  <2>4. CASE l.kind = "junk" /\ Junk(outbox') = Junk(outbox) + 1
    <3>1. CASE cut
      <4>1. badLines + Junk(outbox) < broken
        BY <1>1, <3>1, Zenon DEF Spent
      <4>2. /\ badLines + (Junk(outbox) + 1) <= broken
            /\ badLines + (Junk(outbox) + 1) <= broken + 1
        BY <1>2, <2>1, <4>1, SumAtMost, Zenon
      <4> QED
        BY <2>1, <2>4, <4>2, Zenon DEF Spent
    <3>2. CASE l = line
      <4>1. broken' = broken + 1
        BY <2>4, <3>2
      <4>2. badLines + (Junk(outbox) + 1) <= broken + 1
        BY <1>2, <2>1, SumAtMost, Zenon
      <4> QED
        BY <2>1, <2>4, <4>1, <4>2, Zenon DEF Spent
    <3> QED
      BY <1>4, <3>1, <3>2
  <2> QED
    BY <1>5, <2>3, <2>4
<1>10. Quiet' /\ Numbered' /\ OwnAnswer'
  BY <1>1 DEF BridgeInv, Quiet, Numbered, OwnAnswer
<1> QED
  BY <1>7, <1>8, <1>9, <1>10 DEF BridgeInv

\* Answers, in any order, and what the child sends of its own accord.
LEMMA SentByChild == BridgeInv /\ (ChildAnswers \/ ChildSends) => BridgeInv'
<1> SUFFICES ASSUME BridgeInv, ChildAnswers \/ ChildSends PROVE BridgeInv'
  OBVIOUS
<1>1. BridgeTypeOK /\ Paired
  BY DEF BridgeInv
<1>2. noise \in Nat /\ noise + 1 \in Nat
  BY <1>1, SumAtMost DEF BridgeTypeOK
<1>3. CASE ChildAnswers
  <2>1. PICK q \in todo, kind \in {"result", "error", "misshapen"} :
          /\ Arrives([kind |-> kind, id |-> q.id, n |-> q.n])
          /\ todo' = todo \ {q}
    BY <1>3 DEF ChildAnswers
  <2>2. PICK l : l = [kind |-> kind, id |-> q.id, n |-> q.n]
    OBVIOUS
  <2>3. /\ l \in Line /\ l.kind # "junk" /\ l.id = q.id /\ l.n = q.n
        /\ q \in Request
    BY <1>1, <2>2 DEF BridgeTypeOK, Request, Line
  <2>4. Match(l)
    BY <1>1, <2>1, <2>3 DEF Paired, Match, Pairs
  <2>5. /\ alive /\ todo' \subseteq todo /\ Arrives(l)
        /\ UNCHANGED <<alive, inbox, pc, nextId, target, calls, ret, served, badLines>>
        /\ noise' = noise /\ broken' = broken
    BY <1>3, <2>1, <2>2 DEF ChildAnswers, counters
  <2> QED
    BY <1>2, <2>3, <2>4, <2>5, ArriveBridge
<1>4. CASE ChildSends
  <2>1. /\ alive /\ noise' = noise + 1
        /\ UNCHANGED <<alive, inbox, todo, pc, nextId, target, calls, ret, served, badLines>>
    BY <1>4 DEF ChildSends
  <2>2. PICK l \in Line : /\ Arrives(l) /\ ~IsAnswer(l)
                          /\ \/ l.kind # "junk" /\ broken' = broken
                             \/ broken' = broken + 1
    <3>1. CASE \E i \in 0 .. calls : /\ Arrives([kind |-> "ping", id |-> i, n |-> 0])
                                     /\ UNCHANGED broken
      <4>1. PICK i \in 0 .. calls : /\ Arrives([kind |-> "ping", id |-> i, n |-> 0])
                                    /\ UNCHANGED broken
        BY <3>1
      <4>2. i \in Ids /\ 0 \in 0 .. MaxCalls
        <5>1. calls \in 0 .. MaxCalls
          BY <1>1 DEF BridgeTypeOK
        <5>2. i \in Nat /\ i <= calls
          BY <5>1, BoundsAreNat
        <5> QED
          BY <5>1, <5>2, Numbers, Zenon DEF Ids
      <4>3. /\ [kind |-> "ping", id |-> i, n |-> 0] \in Line
            /\ [kind |-> "ping", id |-> i, n |-> 0].kind = "ping"
        BY <4>2 DEF Line
      <4> QED
        BY <4>1, <4>3 DEF IsAnswer
    <3>2. CASE Arrives(Text("notification")) /\ UNCHANGED broken
      BY <3>2, TextIsLine
    <3>3. CASE Arrives(Text("junk")) /\ broken' = broken + 1
      BY <3>3, TextIsLine
    <3> QED
      BY <1>4, <3>1, <3>2, <3>3 DEF ChildSends
  <2> QED
    BY <1>2, <2>1, <2>2, ArriveBridge
<1> QED
  BY <1>3, <1>4

\* The child dies, within a line or not.
LEMMA DeathOfChild == BridgeInv /\ ChildDies => BridgeInv'
<1> SUFFICES ASSUME BridgeInv, ChildDies PROVE BridgeInv'
  OBVIOUS
<1>1. /\ alive /\ alive' = FALSE /\ todo' = {}
      /\ UNCHANGED <<inbox, cut, pc, nextId, target, calls, ret, served, noise, badLines>>
  BY DEF ChildDies
<1>2. BridgeTypeOK /\ Paired /\ Spent /\ pc # "none"
  BY <1>1 DEF BridgeInv, Quiet
<1>3. /\ outbox \in Seq(Line) /\ badLines \in Nat /\ broken \in Nat
      /\ Junk(outbox) \in Nat
  BY <1>2, JunkIsNat DEF BridgeTypeOK
<1>4. /\ broken' \in Nat /\ outbox' \in Seq(Line)
      /\ \A i \in 1 .. Len(outbox') : IsAnswer(outbox'[i]) => Match(outbox'[i])
      /\ Spent'
  <2>1. CASE UNCHANGED <<outbox, broken>>
    BY <1>1, <1>2, <1>3, <2>1 DEF Paired, Spent
  <2>2. CASE ~cut /\ outbox' = Append(outbox, Text("junk")) /\ broken' = broken + 1
    <3>1. PICK l \in Line : l = Text("junk") /\ l.kind = "junk" /\ ~IsAnswer(l)
      BY TextIsLine
    <3>2. outbox' = Append(outbox, l)
      BY <2>2, <3>1
    <3>3. outbox' \in Seq(Line) /\ Junk(outbox') = Junk(outbox) + 1
      BY <1>3, <3>1, <3>2, JunkSent
    <3>4. \A i \in 1 .. Len(outbox') :
            \/ i \in 1 .. Len(outbox) /\ outbox'[i] = outbox[i]
            \/ outbox'[i] = l
      BY <1>3, <3>2
    <3>5. \A i \in 1 .. Len(outbox') : IsAnswer(outbox'[i]) => Match(outbox'[i])
      BY <1>2, <3>1, <3>4, Zenon DEF Paired
    <3>6. badLines + (Junk(outbox) + 1) <= broken + 1 /\ broken + 1 \in Nat
      BY <1>2, <1>3, SumAtMost, Zenon DEF Spent
    <3>7. Spent'
      BY <1>1, <2>2, <3>3, <3>6, Zenon DEF Spent
    <3> QED
      BY <2>2, <3>3, <3>5, <3>6, <3>7
  <2> QED
    BY <2>1, <2>2 DEF ChildDies
<1>5. BridgeTypeOK'
  BY <1>1, <1>2, <1>4 DEF BridgeTypeOK
<1>6. Paired'
  BY <1>1, <1>2, <1>4 DEF Paired, Match, IsAnswer
<1>7. Quiet' /\ Numbered' /\ OwnAnswer'
  BY <1>1, <1>2 DEF BridgeInv, Quiet, Numbered, OwnAnswer
<1> QED
  BY <1>4, <1>5, <1>6, <1>7 DEF BridgeInv

\* The steps of the bridge and of the child.
LEMMA StepOfBridge == BridgeInv /\ (BridgeStep \/ ChildStep) => BridgeInv'
BY FlushBridge, FailedWriteBridge, PassBridge, BadLineBridge, AnswerBridge, NoAnswerBridge,
   ReadByChild, SentByChild, DeathOfChild
DEF BridgeStep, ReadLine, ChildStep

\* The router looks at a result, and drops the bridge or keeps it.
LEMMA LookAtResult ==
  ASSUME BridgeInv, ResultTaken, UNCHANGED <<nextId, target, calls, counters>>,
         Dropped \/ UNCHANGED <<child, pc>>
  PROVE  BridgeInv'
<1>1. /\ ret' = "none" /\ served' = 0
      /\ UNCHANGED <<nextId, target, calls, noise, broken, badLines>>
  BY DEF ResultTaken, counters
<1>2. BridgeTypeOK /\ 0 \in 0 .. MaxCalls
  BY BoundsAreNat DEF BridgeInv
<1>3. CASE Dropped
  <2>1. broken' \in Nat /\ badLines' \in Nat /\ badLines' <= broken'
    <3>1. outbox \in Seq(Line) /\ badLines \in Nat /\ broken \in Nat
      BY <1>2 DEF BridgeTypeOK
    <3>2. Junk(outbox) \in Nat /\ Spent
      BY <3>1, JunkIsNat DEF BridgeInv
    <3> QED
      BY <1>1, <3>1, <3>2, SumAtMost, Zenon DEF Spent
  <2> QED
    BY <1>1, <1>2, <1>3, <2>1, DropBridge
<1>4. CASE UNCHANGED <<alive, inbox, todo, outbox, cut, pc>>
  <2>1. BridgeTypeOK'
    BY <1>1, <1>2, <1>4 DEF BridgeTypeOK
  <2>2. Paired' /\ Spent'
    BY <1>1, <1>4 DEF BridgeInv, Paired, Match, IsAnswer, Spent
  <2>3. Quiet' /\ Numbered' /\ OwnAnswer'
    BY <1>1, <1>4 DEF BridgeInv, Quiet, Numbered, OwnAnswer
  <2> QED
    BY <2>1, <2>2, <2>3 DEF BridgeInv
<1> QED
  BY <1>3, <1>4 DEF child

\* The bridge as the router uses it: no step of either breaks the invariant.
LEMMA NextBridge == BridgeInv /\ [Next]_vars => BridgeInv'
<1> SUFFICES ASSUME BridgeInv, [Next]_vars PROVE BridgeInv'
  OBVIOUS
<1>1. CASE UNCHANGED bridgeVars
  <2>1. UNCHANGED <<alive, inbox, todo, outbox, cut, pc, nextId, target, calls, ret, served,
                    noise, broken, badLines>>
    BY <1>1 DEF bridgeVars, child, counters
  <2>2. BridgeTypeOK'
    BY <2>1 DEF BridgeInv, BridgeTypeOK
  <2>3. Paired' /\ Spent'
    BY <2>1 DEF BridgeInv, Paired, Match, IsAnswer, Spent
  <2>4. Quiet' /\ Numbered' /\ OwnAnswer'
    BY <2>1 DEF BridgeInv, Quiet, Numbered, OwnAnswer
  <2> QED
    BY <2>2, <2>3, <2>4 DEF BridgeInv
<1>2. CASE CallTool
  BY <1>2, CallBridge
<1>3. CASE UserRequest
  BY <1>1, <1>2, <1>3
  DEF UserRequest, Evaluate, SelectWorkflow, StoreTrajectory, EnrichPayload,
      SyncProcedureTransition, GetContextForNode, BestEffort
<1>4. CASE RouterStep
  <2>1. CASE Spawn
    BY <2>1, ConnectBridge DEF Spawn
  <2>2. CASE ConnectFails \/ Connected \/ Routed \/ Ignored
    <3>1. ResultTaken /\ UNCHANGED <<nextId, target, calls, counters>> /\ UNCHANGED <<child, pc>>
      BY <2>2 DEF ConnectFails, Connected, Routed, Ignored
    <3> QED
      BY <3>1, LookAtResult
  <2>3. CASE BridgeLost \/ Selected
    <3>1. ResultTaken /\ UNCHANGED <<nextId, target, calls, counters>> /\ Dropped
      BY <2>3 DEF BridgeLost, Selected
    <3> QED
      BY <3>1, LookAtResult
  <2>4. CASE WakeOnCall \/ Fallback
    BY <1>1, <2>4 DEF WakeOnCall, Fallback
  <2>5. CASE CallRouteTask \/ AskForWorkflow
    BY <1>2, <2>5 DEF CallRouteTask, AskForWorkflow
  <2> QED
    BY <1>4, <2>1, <2>2, <2>3, <2>4, <2>5 DEF RouterStep
<1>5. CASE BridgeStep \/ ChildStep
  BY <1>5, StepOfBridge
<1>6. CASE UNCHANGED vars
  BY <1>1, <1>6 DEF vars
<1> QED
  BY <1>3, <1>4, <1>5, <1>6 DEF Next

\* The inductive invariant of the bridge (mcp_bridge.rs).
THEOREM BridgeInvariant == Spec => []BridgeInv
<1>1. Init => BridgeInv
  BY InitBridge DEF Init
<1>2. BridgeInv /\ [Next]_vars => BridgeInv'
  BY NextBridge
<1> QED
  BY <1>1, <1>2, PTL DEF Spec

\* The bridge's state has its type.
THEOREM BridgeTypeCorrect == Spec => []BridgeTypeOK
<1>1. BridgeInv => BridgeTypeOK
  BY DEF BridgeInv
<1> QED
  BY <1>1, BridgeInvariant, PTL

\* A request that returns a result returns the answer to itself, whatever late answers are
\* in the pipe (call_tool, read_until_response).
THEOREM AnswersMatch == Spec => []AnswersOwnRequest
<1>1. BridgeInv => AnswersOwnRequest
  BY DEF BridgeInv, OwnAnswer, AnswersOwnRequest
<1> QED
  BY <1>1, BridgeInvariant, PTL

\* A broken line fails one request at most (read_until_response).
THEOREM BadLinesAreSpent == Spec => []BadLineCostsOne
<1>1. ASSUME BridgeInv PROVE BadLineCostsOne
  <2>1. outbox \in Seq(Line) /\ badLines \in Nat /\ broken \in Nat
    BY <1>1 DEF BridgeInv, BridgeTypeOK
  <2>2. Junk(outbox) \in Nat /\ Spent
    BY <1>1, <2>1, JunkIsNat DEF BridgeInv
  <2> QED
    BY <2>1, <2>2, SumAtMost, Zenon DEF Spent, BadLineCostsOne
<1> QED
  BY <1>1, BridgeInvariant, PTL
----------------------------------------------------------------------------
(***************************************************************************)
(* The router.                                                             *)
(***************************************************************************)
\* What the router is doing with a transition in hand, and without one.
Connecting == {"connect", "shake", "wake", "reconnect", "shake again"}
AtBridge == {"route", "routing", "lost"}
Selecting == {"select", "select connect", "select shake", "select route", "selecting"}

Order ==
  /\ op \in {"idle", "ignoring"} \cup Selecting => arg = None
  /\ op \in {"fallback"} \cup Connecting \cup AtBridge => arg # None
  /\ op \in Connecting => attempted /\ ~bridged
  /\ op \in AtBridge => bridged
  /\ op = "fallback" => ~bridged /\ (attempted \/ cwd = "none")
  /\ bridged => attempted

\* The fallback has counted nothing before the bridge is lost or found missing.
Fresh ==
  bridged \/ op \in Connecting \/ (~attempted /\ cwd # "none") =>
    \A n \in Node : counts[n] = 0

\* The failures into a node that are not forgiven.
Owed(n) == Cardinality(Unforgiven(n))

\* What is counted, or will be when the transition in hand is, is within what the node owes.
Earned ==
  /\ arg = None => \A n \in Node : counts[n] <= Owed(n)
  /\ arg # None => \A n \in Node : Counted[n] <= Owed(n)

RouterInv ==
  /\ RouterTypeOK
  /\ Order
  /\ Fresh
  /\ Earned
  /\ EscalationIsEarned

\* The router starts with nothing counted.
LEMMA InitRouter == Init => RouterInv
<1> SUFFICES ASSUME Init PROVE RouterInv
  OBVIOUS
<1>1. RouterTypeOK
  <2>1. /\ op \in {"idle", "select"} /\ cwd \in Cwd
        /\ attempted = FALSE /\ bridged = FALSE /\ arg = None /\ selected = "none"
        /\ counts = [n \in Node |-> 0] /\ verdict = NoVerdict /\ judged = <<>>
    BY DEF Init
  <2>2. judged \in Seq(Transition)
    BY <2>1
  <2>3. /\ verdict \in [by : {"nobody", "brain", "fallback"}, escalate : Node \cup {None}]
        /\ counts \in [Node -> Nat]
    BY <2>1 DEF NoVerdict
  <2> QED
    BY <2>1, <2>2, <2>3 DEF RouterTypeOK
<1>2. Order /\ Fresh
  BY DEF Init, Order, Fresh, Connecting, AtBridge, Selecting
<1>3. Earned /\ EscalationIsEarned
  <2>0. judged = <<>> /\ counts = [n \in Node |-> 0] /\ arg = None /\ verdict = NoVerdict
    BY DEF Init
  <2>4. verdict.escalate = None
    BY <2>0 DEF NoVerdict
  <2>1. judged = <<>> /\ counts = [n \in Node |-> 0] /\ verdict.escalate = None /\ arg = None
    BY <2>0, <2>4
  <2>2. \A n \in Node : Unforgiven(n) = {}
    BY <2>1 DEF Unforgiven
  <2>3. \A n \in Node : Owed(n) = 0
    BY <2>2, FS_EmptySet DEF Owed
  <2> QED
    BY <2>1, <2>3 DEF Earned, EscalationIsEarned
<1> QED
  BY <1>1, <1>2, <1>3 DEF RouterInv

\* A step that does not touch the transition, the counts and the verdict.
LEMMA SteadyRouter ==
  ASSUME RouterInv, UNCHANGED <<cwd, attempted, arg, counts, verdict, judged>>,
         op' \in {"idle", "select", "connect", "shake", "wake", "reconnect", "shake again", "route",
                 "routing", "lost", "fallback", "ignoring", "select connect", "select shake",
                 "select route", "selecting", "panicked"},
         bridged' \in BOOLEAN, selected' \in {"none", "workflow", "default"},
         bridged' => bridged \/ op \in Connecting,
         op' \in Connecting => op \in Connecting,
         Order'
  PROVE  RouterInv'
<1>1. RouterTypeOK'
  BY DEF RouterInv, RouterTypeOK
<1>2. Fresh'
  BY DEF RouterInv, Fresh
<1>3. \A n : Unforgiven(n)' = Unforgiven(n)
  BY DEF Unforgiven
<1>4. \A n : Owed(n)' = Owed(n)
  BY <1>3 DEF Owed
<1>5. Earned'
  BY <1>4 DEF RouterInv, Earned, Counted
<1>6. EscalationIsEarned'
  BY <1>3 DEF RouterInv, EscalationIsEarned
<1> QED
  BY <1>1, <1>2, <1>5, <1>6 DEF RouterInv

\* The failures of a node can be counted.
LEMMA OwedIs ==
  ASSUME judged \in Seq(Transition), NEW n
  PROVE  Owed(n) \in Nat /\ IsFiniteSet(Unforgiven(n))
<1>1. Len(judged) \in Nat /\ Unforgiven(n) \in SUBSET (1 .. Len(judged))
  BY DEF Unforgiven
<1>2. IsFiniteSet(1 .. Len(judged))
  BY <1>1, FS_Interval
<1>3. IsFiniteSet(Unforgiven(n))
  BY <1>1, <1>2, FS_Subset
<1> QED
  BY <1>3, FS_CardinalityType DEF Owed

\* A transition more: a success forgives the node it leaves, a failure is owed by the node it
\* goes to, and the other nodes owe what they did.
LEMMA OwedAfter ==
  ASSUME judged \in Seq(Transition), NEW t \in Transition, judged' = Append(judged, t), NEW n \in Node
  PROVE  /\ t.ok /\ t.from = n => Owed(n)' = 0
         /\ ~t.ok /\ t.to = n => Owed(n)' = Owed(n) + 1
         /\ ~(t.ok /\ t.from = n) /\ ~(~t.ok /\ t.to = n) => Owed(n)' = Owed(n)
<1> DEFINE L == Len(judged)
<1>1. /\ L \in Nat /\ Len(judged') = L + 1 /\ judged'[L + 1] = t
      /\ \A i \in 1 .. L : judged'[i] = judged[i]
  OBVIOUS
<1> HIDE DEF L
<1>2. /\ \A i \in 1 .. L + 1 : i = L + 1 \/ i \in 1 .. L
      /\ \A i \in 1 .. L : i \in 1 .. L + 1 /\ i # L + 1
      /\ L + 1 \in 1 .. L + 1
  BY <1>1
<1>3. \A i \in 1 .. L : \A j : j \in i .. L + 1 <=> j \in i .. L \/ j = L + 1
  BY <1>1
<1>4. \A i \in 1 .. L : \A j \in i .. L : j \in 1 .. L
  BY <1>1
<1>5. (L + 1) .. (L + 1) = {L + 1}
  BY <1>1
<1>6. \A i : i \in Unforgiven(n)' <=>
        /\ i \in 1 .. L + 1 /\ judged'[i].to = n /\ ~judged'[i].ok
        /\ \A j \in i .. L + 1 : ~(judged'[j].from = n /\ judged'[j].ok)
  BY <1>1 DEF Unforgiven
<1>7. \A i : i \in Unforgiven(n) <=>
        /\ i \in 1 .. L /\ judged[i].to = n /\ ~judged[i].ok
        /\ \A j \in i .. L : ~(judged[j].from = n /\ judged[j].ok)
  BY DEF Unforgiven, L
<1>8. \A i \in 1 .. L : i \in Unforgiven(n)' <=> i \in Unforgiven(n) /\ ~(t.from = n /\ t.ok)
  BY <1>1, <1>2, <1>3, <1>4, <1>6, <1>7
<1>9. L + 1 \in Unforgiven(n)' <=> t.to = n /\ ~t.ok
  BY <1>1, <1>2, <1>5, <1>6
<1>10. L + 1 \notin Unforgiven(n)
  BY <1>2, <1>7
<1>11. /\ \A i : i \in Unforgiven(n)' => i = L + 1 \/ i \in 1 .. L
       /\ \A i : i \in Unforgiven(n) => i \in 1 .. L
  BY <1>2, <1>6, <1>7
<1>12. CASE t.ok /\ t.from = n
  <2>1. Unforgiven(n)' = {}
    BY <1>8, <1>9, <1>11, <1>12
  <2> QED
    BY <1>12, <2>1, FS_EmptySet DEF Owed
<1>13. CASE ~t.ok /\ t.to = n
  <2>1. Unforgiven(n)' = Unforgiven(n) \cup {L + 1}
    BY <1>8, <1>9, <1>11, <1>13
  <2>2. Cardinality(Unforgiven(n) \cup {L + 1}) = Cardinality(Unforgiven(n)) + 1
    BY <1>10, OwedIs, FS_AddElement
  <2> QED
    BY <1>13, <2>1, <2>2 DEF Owed
<1>14. CASE ~(t.ok /\ t.from = n) /\ ~(~t.ok /\ t.to = n)
  <2>1. Unforgiven(n)' = Unforgiven(n)
    BY <1>8, <1>9, <1>11, <1>14
  <2> QED
    BY <1>14, <2>1 DEF Owed
<1> QED
  BY <1>12, <1>13, <1>14

\* A transition is taken in hand.
LEMMA EvaluateRouter ==
  ASSUME RouterInv, NEW ctx \in Context, Evaluate(ctx)
  PROVE  RouterInv'
<1>1. /\ op = "idle" /\ arg' \in Transition /\ verdict' = NoVerdict
      /\ judged' = Append(judged, arg')
      /\ UNCHANGED <<cwd, bridged, counts, selected>>
  BY DEF Evaluate
<1>2. \/ /\ ~bridged /\ ~attempted /\ cwd # "none"
         /\ attempted' = TRUE /\ op' \in {"fallback", "panicked", "connect"}
      \/ /\ bridged \/ attempted \/ cwd = "none"
         /\ attempted' = attempted
         /\ op' \in IF bridged THEN {"lost", "panicked", "route"} ELSE {"fallback"}
  BY DEF Evaluate, Blocking
<1>3. /\ RouterTypeOK /\ Order /\ Fresh /\ Earned
      /\ arg = None /\ arg' # None
  BY <1>1, NoneIsNew DEF RouterInv, Order, Transition
<1>4. /\ counts \in [Node -> Nat] /\ judged \in Seq(Transition)
      /\ arg'.from \in Node /\ arg'.to \in Node
  BY <1>1, <1>3 DEF RouterTypeOK, Transition
<1>5. judged' \in Seq(Transition)
  BY <1>1, <1>4
<1>6. RouterTypeOK'
  BY <1>1, <1>2, <1>3, <1>5 DEF RouterTypeOK, NoVerdict
<1>7. Order'
  BY <1>1, <1>2, <1>3 DEF Order, Connecting, AtBridge, Selecting
<1>8. Fresh'
  BY <1>1, <1>2, <1>3 DEF Fresh, Connecting
<1>9. Earned'
  <2>1. ASSUME NEW n \in Node PROVE Counted'[n] <= Owed(n)'
    <3>1. /\ counts[n] <= Owed(n) /\ counts[n] \in Nat /\ Owed(n) \in Nat
      BY <1>3, <1>4, OwedIs DEF Earned
    <3>2. /\ arg'.ok /\ arg'.from = n => Owed(n)' = 0
          /\ ~arg'.ok /\ arg'.to = n => Owed(n)' = Owed(n) + 1
          /\ ~(arg'.ok /\ arg'.from = n) /\ ~(~arg'.ok /\ arg'.to = n) => Owed(n)' = Owed(n)
      BY <1>1, <1>4, OwedAfter
    <3>3. Counted'[n] = IF arg'.ok THEN IF arg'.from = n THEN 0 ELSE counts[n]
                                   ELSE IF arg'.to = n THEN counts[n] + 1 ELSE counts[n]
      BY <1>1, <1>4 DEF Counted
    <3> QED
      BY <3>1, <3>2, <3>3
  <2> QED
    BY <1>3, <2>1 DEF Earned
<1>10. EscalationIsEarned'
  BY <1>1 DEF EscalationIsEarned, NoVerdict
<1> QED
  BY <1>6, <1>7, <1>8, <1>9, <1>10 DEF RouterInv

\* The fallback counts the transition in hand, and escalates what it has counted.
LEMMA FallbackRouter == RouterInv /\ Fallback => RouterInv'
<1> SUFFICES ASSUME RouterInv, Fallback PROVE RouterInv'
  OBVIOUS
<1>1. /\ op = "fallback" /\ counts' = Counted /\ op' = "idle" /\ arg' = None
      /\ verdict' = [by |-> "fallback",
                     escalate |-> IF ~arg.ok /\ Counted[arg.to] >= MaxRetries
                                  THEN arg.to ELSE None]
      /\ UNCHANGED <<cwd, attempted, bridged, judged, selected>>
  BY DEF Fallback
<1>2. RouterTypeOK /\ Order /\ Earned /\ arg # None /\ arg \in Transition
  BY <1>1 DEF RouterInv, Order, RouterTypeOK
<1>3. /\ arg.from \in Node /\ arg.to \in Node
      /\ counts \in [Node -> Nat] /\ judged \in Seq(Transition)
  BY <1>2 DEF RouterTypeOK, Transition
<1>4. Counted \in [Node -> Nat]
  BY <1>3 DEF Counted
<1>5. \A n \in Node : Counted[n] <= Owed(n) /\ Owed(n) \in Nat /\ Unforgiven(n)' = Unforgiven(n)
  BY <1>1, <1>2, <1>3, OwedIs DEF Earned, Unforgiven
<1>11. \A n \in Node : Owed(n)' = Owed(n)
  BY <1>5 DEF Owed
<1>6. verdict'.by = "fallback" /\ verdict'.escalate \in Node \cup {None}
  BY <1>1, <1>3
<1>7. RouterTypeOK'
  BY <1>1, <1>2, <1>3, <1>4 DEF RouterTypeOK
<1>8. Order' /\ Fresh'
  BY <1>1, <1>2 DEF Order, Fresh, Connecting, AtBridge, Selecting
<1>9. Earned'
  BY <1>1, <1>5, <1>11 DEF Earned
<1>10. EscalationIsEarned'
  <2>1. ASSUME NEW m \in Node, m = arg.to, Counted[m] >= MaxRetries
        PROVE  Cardinality(Unforgiven(m)') >= MaxRetries
    <3>1. /\ Counted[m] <= Owed(m) /\ Counted[m] \in Nat /\ Owed(m) \in Nat
          /\ Unforgiven(m)' = Unforgiven(m)
      BY <1>4, <1>5
    <3>2. Owed(m) >= MaxRetries
      BY <2>1, <3>1, LimitsAreNat
    <3> QED
      BY <3>1, <3>2 DEF Owed
  <2>2. verdict'.escalate # None => verdict'.escalate = arg.to /\ Counted[arg.to] >= MaxRetries
    BY <1>1
  <2>3. \A m \in Node : verdict'.escalate = m /\ verdict'.escalate # None
                        => Cardinality(Unforgiven(m)') >= MaxRetries
    BY <2>1, <2>2
  <2>4. verdict'.escalate # None =>
          \E m \in Node : m = verdict'.escalate /\ Cardinality(Unforgiven(m)') >= MaxRetries
    BY <1>3, <2>2, <2>3
  <2>5. (verdict.escalate # None =>
           \E m \in Node : m = verdict.escalate /\ Cardinality(Unforgiven(m)) >= MaxRetries)'
    BY <2>4
  <2>6. (verdict.escalate # None => Cardinality(Unforgiven(verdict.escalate)) >= MaxRetries)'
    BY <2>5
  <2> QED
    BY <2>6 DEF EscalationIsEarned
<1> QED
  BY <1>7, <1>8, <1>9, <1>10 DEF RouterInv

\* agent-brain judges a transition: nothing is counted, and nothing was.
LEMMA RoutedRouter == RouterInv /\ Routed => RouterInv'
<1> SUFFICES ASSUME RouterInv, Routed PROVE RouterInv'
  OBVIOUS
<1>1. /\ op = "routing" /\ op' = "idle" /\ arg' = None
      /\ \E n \in {None, arg.to} : verdict' = [by |-> "brain", escalate |-> n]
      /\ UNCHANGED <<cwd, attempted, bridged, counts, judged, selected>>
  BY DEF Routed
<1>2. RouterTypeOK /\ Order /\ Fresh /\ arg # None /\ bridged
  BY <1>1 DEF RouterInv, Order, AtBridge
<1>3. /\ arg.to \in Node
      /\ counts \in [Node -> Nat] /\ judged \in Seq(Transition)
  BY <1>2 DEF RouterTypeOK, Transition
<1>4. RouterTypeOK'
  BY <1>1, <1>2, <1>3 DEF RouterTypeOK
<1>5. Order' /\ Fresh'
  BY <1>1, <1>2 DEF Order, Fresh, Connecting, AtBridge, Selecting
<1>6. Earned'
  <2>1. \A n \in Node : counts[n] = 0
    BY <1>2 DEF Fresh
  <2>2. \A n \in Node : Unforgiven(n)' = Unforgiven(n) /\ Owed(n) \in Nat
    BY <1>1, <1>3, OwedIs DEF Unforgiven
  <2>3. \A n \in Node : Owed(n)' \in Nat
    BY <2>2 DEF Owed
  <2>4. \A n \in Node : counts'[n] <= Owed(n)'
    BY <1>1, <2>1, <2>3
  <2> QED
    BY <1>1, <2>4 DEF Earned
<1>7. EscalationIsEarned'
  BY <1>1 DEF EscalationIsEarned
<1> QED
  BY <1>4, <1>5, <1>6, <1>7 DEF RouterInv

\* The other steps of the router.
LEMMA OtherRouter ==
  ASSUME RouterInv,
         \/ Spawn \/ ConnectFails \/ Connected \/ WakeOnCall \/ CallRouteTask
         \/ BridgeLost \/ Ignored \/ AskForWorkflow \/ Selected
         \/ \E ctx \in Context : SelectWorkflow(ctx) \/ BestEffort(ctx)
  PROVE  RouterInv'
<1>1. RouterTypeOK /\ Order
  BY DEF RouterInv
<1> USE DEF Connecting, AtBridge, Selecting
<1>2. CASE Spawn
  <2>1. /\ op \in {"connect", "reconnect", "select connect"}
        /\ op' = IF op = "connect" THEN "shake"
                 ELSE IF op = "reconnect" THEN "shake again" ELSE "select shake"
        /\ UNCHANGED rest
    BY <1>2 DEF Spawn, Spawning, Spawned
  <2> QED
    BY <1>1, <2>1, SteadyRouter DEF rest, Order, RouterTypeOK
<1>3. CASE ConnectFails
  <2>1. /\ \/ /\ op \in {"select connect", "select shake"} /\ op' = "idle"
              /\ selected' = "default"
           \/ /\ op \in Connecting /\ op' \in {"wake", "fallback"} /\ selected' = selected
        /\ UNCHANGED <<cwd, attempted, bridged, arg, counts, verdict, judged>>
    BY <1>3 DEF ConnectFails, Spawning, Shaking
  <2> QED
    BY <1>1, <2>1, SteadyRouter DEF Order, RouterTypeOK
<1>4. CASE Connected
  <2>1. /\ \/ /\ op = "select shake" /\ op' = "select route" /\ bridged' = bridged
           \/ /\ op \in Connecting /\ op' = "route" /\ bridged' = TRUE
        /\ UNCHANGED <<cwd, attempted, arg, counts, verdict, judged, selected>>
    BY <1>4 DEF Connected, Shaking
  <2>2. CASE op = "select shake" /\ op' = "select route" /\ bridged' = bridged
    <3>1. Order'
      BY <1>1, <2>1, <2>2 DEF Order
    <3> QED
      BY <1>1, <2>1, <2>2, <3>1, SteadyRouter DEF RouterTypeOK
  <2>3. CASE op \in Connecting /\ op' = "route" /\ bridged' = TRUE
    <3>1. Order'
      BY <1>1, <2>1, <2>3 DEF Order
    <3> QED
      BY <1>1, <2>1, <2>3, <3>1, SteadyRouter DEF RouterTypeOK
  <2> QED
    BY <2>1, <2>2, <2>3
<1>5. CASE WakeOnCall
  <2>1. op = "wake" /\ op' \in {"reconnect", "fallback"} /\ UNCHANGED rest
    BY <1>5 DEF WakeOnCall, rest
  <2> QED
    BY <1>1, <2>1, SteadyRouter DEF rest, Order, RouterTypeOK
<1>6. CASE CallRouteTask
  <2>1. op = "route" /\ op' = "routing" /\ UNCHANGED rest
    BY <1>6 DEF CallRouteTask
  <2> QED
    BY <1>1, <2>1, SteadyRouter DEF rest, Order, RouterTypeOK
<1>7. CASE BridgeLost
  <2>1. /\ op \in {"lost", "routing"} /\ bridged' = FALSE /\ op' = "fallback"
        /\ UNCHANGED <<cwd, attempted, arg, counts, verdict, judged, selected>>
    BY <1>7 DEF BridgeLost
  <2> QED
    BY <1>1, <2>1, SteadyRouter DEF Order, RouterTypeOK
<1>8. CASE Ignored \/ AskForWorkflow
  <2>1. /\ \/ op = "ignoring" /\ op' = "idle"
           \/ op = "select route" /\ op' = "selecting"
        /\ UNCHANGED rest
    BY <1>8 DEF Ignored, AskForWorkflow
  <2> QED
    BY <1>1, <2>1, SteadyRouter DEF rest, Order, RouterTypeOK
<1>9. CASE Selected
  <2>1. /\ op = "selecting" /\ op' = "idle" /\ selected' \in {"workflow", "default"}
        /\ UNCHANGED <<cwd, attempted, bridged, arg, counts, verdict, judged>>
    BY <1>9 DEF Selected
  <2> QED
    BY <1>1, <2>1, SteadyRouter DEF Order, RouterTypeOK
<1>10. CASE \E ctx \in Context : SelectWorkflow(ctx) \/ BestEffort(ctx)
  <2>1. /\ \/ op = "select" /\ op' \in {"idle", "panicked", "select connect"}
           \/ op = "idle" /\ op' \in {"panicked", "ignoring"}
        /\ selected' \in {selected, "default"}
        /\ UNCHANGED <<cwd, attempted, bridged, arg, counts, verdict, judged>>
    BY <1>10 DEF SelectWorkflow, BestEffort, Blocking, rest
  <2> QED
    BY <1>1, <2>1, SteadyRouter DEF Order, RouterTypeOK
<1> QED
  BY <1>2, <1>3, <1>4, <1>5, <1>6, <1>7, <1>8, <1>9, <1>10

\* The inductive invariant of the router (brain_router.rs over router.rs).
THEOREM RouterInvariant == Spec => []RouterInv
<1>1. Init => RouterInv
  BY InitRouter
<1>2. ASSUME RouterInv, [Next]_vars PROVE RouterInv'
  <2>1. CASE UNCHANGED routerVars
    <3>1. UNCHANGED <<op, cwd, attempted, bridged, arg, counts, verdict, judged, selected>>
      BY <2>1 DEF routerVars
    <3>2. Order'
      BY <1>2, <3>1 DEF RouterInv, Order
    <3> QED
      BY <1>2, <3>1, <3>2, SteadyRouter DEF RouterInv, RouterTypeOK
  <2>2. CASE UserRequest
    BY <1>2, <2>2, EvaluateRouter, OtherRouter
    DEF UserRequest, StoreTrajectory, EnrichPayload, SyncProcedureTransition, GetContextForNode
  <2>3. CASE RouterStep
    BY <1>2, <2>3, FallbackRouter, RoutedRouter, OtherRouter DEF RouterStep
  <2> QED
    BY <1>2, <2>1, <2>2, <2>3 DEF Next, vars
<1> QED
  BY <1>1, <1>2, PTL DEF Spec

\* The router's state has its type.
THEOREM RouterTypeCorrect == Spec => []RouterTypeOK
<1>1. RouterInv => RouterTypeOK
  BY DEF RouterInv
<1> QED
  BY <1>1, RouterInvariant, PTL

\* What the fallback escalates has failed that often since it was last passed
\* (ConfidenceRouter behind BrainRouter), whatever agent-brain judged before it was lost.
THEOREM EscalationsAreEarned == Spec => []EscalationIsEarned
<1>1. RouterInv => EscalationIsEarned
  BY DEF RouterInv
<1> QED
  BY <1>1, RouterInvariant, PTL
=============================================================================
