-------------------------- MODULE NodeRetryProofs --------------------------
(***************************************************************************)
(* Proofs about what happens in a level: about module NodeRetry, for any   *)
(* number of nodes and any policies, with and without escalation, and      *)
(* about module Scheduler, for any nodes of a level and any edges between  *)
(* them.                                                                   *)
(***************************************************************************)
EXTENDS NodeRetry, Scheduler, FiniteSetTheorems, WellFoundedInduction, TLAPS

\* The escalation adds one call to those of the policy.
Extra(n) == IF n \in Escalating THEN 1 ELSE 0

\* Types of what the invariant is about (the backoffs are not).
Counting ==
  /\ pc \in [Node -> {"top", "calling", "publishing", "sleeping", "ended"}]
  /\ retries \in [Node -> Nat]
  /\ failures \in [Node -> Nat]
  /\ open \in [Node -> BOOLEAN]
  /\ letter \in [Node -> {"none", "sent", "lost"}]
  /\ verdict \in [Node -> {"running", "ok", "failed", "aborted"}]
  /\ made \in [Node -> Nat]
  /\ escalated \in [Node -> Nat]

\* While a node runs, its retries, the failures of its circuit and its calls are the same
\* count, seen before, during or after a call.
Agree(n) ==
  /\ pc[n] \in {"top", "sleeping"} =>
       /\ failures[n] = retries[n] /\ made[n] = retries[n]
       /\ retries[n] <= MaxAttempts[n] + Extra(n)
  /\ pc[n] = "calling" =>
       /\ failures[n] = retries[n] /\ made[n] = retries[n] + 1
       /\ retries[n] <= MaxAttempts[n] + Extra(n)
  /\ pc[n] = "publishing" =>
       n \notin Escalating /\ made[n] = MaxAttempts[n] + 1
  /\ pc[n] # "ended" =>
       /\ verdict[n] = "running" /\ letter[n] = "none"
       /\ pc[n] # "publishing" => (open[n] <=> failures[n] >= Threshold)

\* The bound on the calls, of which the one past the policy's is the escalated one.
Bounded(n) ==
  /\ made[n] <= Threshold
  /\ made[n] <= MaxAttempts[n] + 1 + Extra(n)
  /\ escalated[n] = IF made[n] > MaxAttempts[n] + 1 THEN 1 ELSE 0

\* How a node has failed: at the end of its policy, or at the circuit.
FailedHow(n) ==
  /\ verdict[n] = "failed" =>
       \/ /\ letter[n] = "none" /\ made[n] = Threshold
          /\ Threshold <= MaxAttempts[n] + Extra(n)
       \/ letter[n] # "none" /\ n \notin Escalating /\ made[n] = MaxAttempts[n] + 1
       \/ letter[n] = "none" /\ n \in Escalating /\ made[n] = MaxAttempts[n] + 2
  /\ letter[n] # "none" => verdict[n] = "failed"

NodeInv(n) == Agree(n) /\ Bounded(n) /\ FailedHow(n)

RetryInv == Counting /\ \A n \in Node : NodeInv(n)

----------------------------------------------------------------------------

\* The constants of one node are numbers.
LEMMA Limits ==
  \A n \in Node : /\ MaxAttempts[n] \in Nat /\ MaxAttempts[n] > 0
                  /\ Threshold \in Nat /\ Threshold > 0
                  /\ Extra(n) \in {0, 1} /\ (Extra(n) = 1 <=> n \in Escalating)
BY AttemptsArePositive, ThresholdIsPositive DEF Extra

\* The loops start with all counts at zero.
LEMMA InitRetry == Init => RetryInv
<1> SUFFICES ASSUME Init PROVE RetryInv
  OBVIOUS
<1>1. Counting
  BY DEF Init, Counting
<1>2. ASSUME NEW n \in Node PROVE NodeInv(n)
  BY Limits DEF Init, NodeInv, Agree, Bounded, FailedHow
<1> QED
  BY <1>1, <1>2 DEF RetryInv

\* A step of one node leaves the others as they are.
Others(n) ==
  \A m \in Node \ {n} :
    /\ pc'[m] = pc[m] /\ retries'[m] = retries[m] /\ failures'[m] = failures[m]
    /\ open'[m] = open[m] /\ letter'[m] = letter[m] /\ verdict'[m] = verdict[m]
    /\ made'[m] = made[m] /\ escalated'[m] = escalated[m]

LEMMA OneNodeMoves ==
  ASSUME RetryInv, NEW n \in Node, Counting', Others(n), NodeInv(n)' PROVE RetryInv'
<1>1. ASSUME NEW m \in Node, m # n PROVE NodeInv(m)'
  BY <1>1 DEF RetryInv, Others, NodeInv, Agree, Bounded, FailedHow
<1> QED
  BY <1>1 DEF RetryInv

\* What a step of a node may change.
LEMMA StepIsLocal ==
  ASSUME RetryInv, NEW n \in Node, Step(n) \/ Abort(n) PROVE Counting' /\ Others(n)
<1> USE DEF RetryInv, Counting, Others, counters, history, End
<1>1. CASE Skip(n)
  BY <1>1 DEF Skip
<1>2. CASE Call(n)
  BY <1>2 DEF Call
<1>3. CASE Succeed(n)
  BY <1>3 DEF Succeed
<1>4. CASE GiveUp(n)
  BY <1>4 DEF GiveUp, RecordFailure
<1>5. CASE EscalationFails(n)
  BY <1>5 DEF EscalationFails, RecordFailure
<1>6. CASE RetryLater(n)
  BY <1>6 DEF RetryLater, RecordFailure
<1>7. CASE Wake(n)
  BY <1>7 DEF Wake
<1>8. CASE Publish(n)
  BY <1>8 DEF Publish
<1>9. CASE Abort(n)
  BY <1>9 DEF Abort
<1> QED
  BY <1>1, <1>2, <1>3, <1>4, <1>5, <1>6, <1>7, <1>8, <1>9 DEF Step, Answer

\* The step of a node keeps its counts in agreement.
LEMMA StepKeepsNode ==
  ASSUME RetryInv, NEW n \in Node, Step(n) \/ Abort(n) PROVE NodeInv(n)'
<1>1. Counting /\ NodeInv(n) /\ Counting'
  BY StepIsLocal DEF RetryInv
<1>2. /\ MaxAttempts[n] \in Nat /\ Threshold \in Nat /\ Threshold > 0
      /\ Extra(n) \in {0, 1} /\ (Extra(n) = 1 <=> n \in Escalating)
  BY Limits
<1>3. /\ retries[n] \in Nat /\ failures[n] \in Nat /\ made[n] \in Nat /\ open[n] \in BOOLEAN
      /\ verdict[n] \in {"running", "ok", "failed", "aborted"}
      /\ letter[n] \in {"none", "sent", "lost"}
  BY <1>1 DEF Counting
<1> USE <1>1, <1>2, <1>3 DEF Counting, NodeInv, Agree, Bounded, FailedHow, counters, history, End
<1>4. CASE Skip(n)
  BY <1>4 DEF Skip
<1>5. CASE Call(n)
  BY <1>5 DEF Call
<1>6. CASE Succeed(n)
  BY <1>6 DEF Succeed
<1>7. CASE GiveUp(n)
  BY <1>7 DEF GiveUp, RecordFailure, LastAttempt
<1>8. CASE EscalationFails(n)
  BY <1>8 DEF EscalationFails, RecordFailure, LastAttempt
<1>9. CASE RetryLater(n)
  <2>1. /\ pc[n] = "calling" /\ pc'[n] = "sleeping"
        /\ retries'[n] = retries[n] + 1 /\ failures'[n] = failures[n] + 1
        /\ open'[n] = (open[n] \/ failures[n] + 1 >= Threshold)
        /\ UNCHANGED <<letter, verdict, made, escalated>>
    BY <1>9 DEF RetryLater, RecordFailure
  <2>2. retries[n] + 1 <= MaxAttempts[n] + Extra(n)
    BY <1>9 DEF RetryLater, LastAttempt
  <2> QED
    BY <2>1, <2>2
<1>10. CASE Wake(n)
  BY <1>10 DEF Wake
<1>11. CASE Publish(n)
  BY <1>11 DEF Publish
<1>12. CASE Abort(n)
  BY <1>12 DEF Abort
<1> QED
  BY <1>4, <1>5, <1>6, <1>7, <1>8, <1>9, <1>10, <1>11, <1>12 DEF Step, Answer

\* Every step keeps the invariant.
LEMMA NextRetry == RetryInv /\ [Next]_vars => RetryInv'
<1> SUFFICES ASSUME RetryInv, [Next]_vars PROVE RetryInv'
  OBVIOUS
<1>1. ASSUME NEW n \in Node, Step(n) \/ Abort(n) PROVE RetryInv'
  BY <1>1, StepIsLocal, StepKeepsNode, OneNodeMoves
<1>2. CASE UNCHANGED vars
  BY <1>2 DEF vars, RetryInv, Counting, NodeInv, Agree, Bounded, FailedHow
<1> QED
  BY <1>1, <1>2 DEF Next

\* The inductive invariant: the counters of the loop agree.
THEOREM RetryInvariant == Spec => []RetryInv
<1> QED
  BY InitRetry, NextRetry, PTL DEF Spec

\* A node that fails has spent all that was promised, or has met the open circuit and lost
\* the rest: for any policies and any threshold.
THEOREM FailuresAreSpentOrOpen == Spec => []FailsSpentOrOpen
<1>1. RetryInv => FailsSpentOrOpen
  <2> SUFFICES ASSUME RetryInv, NEW n \in Node
               PROVE  /\ made[n] <= Promised(n)
                      /\ verdict[n] = "failed" =>
                           IF Promised(n) <= Threshold
                           THEN made[n] = Promised(n)
                           ELSE made[n] = Threshold /\ escalated[n] = 0 /\ letter[n] = "none"
    BY DEF FailsSpentOrOpen
  <2>1. NodeInv(n) /\ made[n] \in Nat
    BY DEF RetryInv, Counting
  <2>2. Promised(n) = MaxAttempts[n] + 1 + Extra(n)
    BY DEF Promised, Extra
  <2> QED
    BY <2>1, <2>2, Limits DEF NodeInv, Bounded, FailedHow
<1> QED
  BY <1>1, RetryInvariant, PTL

\* The other model is tried at most once, after all else.
THEOREM EscalationIsLast == Spec => []EscalatesLast
<1>1. RetryInv => EscalatesLast
  <2> SUFFICES ASSUME RetryInv, NEW n \in Node, escalated[n] > 0
               PROVE  n \in Escalating /\ escalated[n] = 1 /\ made[n] = MaxAttempts[n] + 2
    BY DEF EscalatesLast
  <2>1. Bounded(n) /\ made[n] \in Nat /\ escalated[n] \in Nat
    BY DEF RetryInv, NodeInv, Counting
  <2> QED
    BY <2>1, Limits DEF Bounded
<1> QED
  BY <1>1, RetryInvariant, PTL

\* Dead letters are of nodes that have used their policy up, and of all of those that the
\* circuit and escalation do not take another way.
THEOREM LettersAreOfTheExhausted == Spec => []LettersOfTheExhausted
<1>1. RetryInv => LettersOfTheExhausted
  <2> SUFFICES ASSUME RetryInv, NEW n \in Node
               PROVE  /\ letter[n] # "none" => verdict[n] = "failed"
                      /\ verdict[n] = "failed" =>
                           (letter[n] # "none" <=> n \notin Escalating /\ MaxAttempts[n] < Threshold)
    BY DEF LettersOfTheExhausted
  <2>1. NodeInv(n) /\ made[n] \in Nat
    BY DEF RetryInv, Counting
  <2> QED
    BY <2>1, Limits DEF NodeInv, Bounded, FailedHow
<1> QED
  BY <1>1, RetryInvariant, PTL

\* How far a task is from its end: what is left of a round of the loop, and three steps for
\* each further call, of which the circuit allows as many as its threshold.
Rank(n) ==
  IF pc[n] = "ended" THEN 0
  ELSE 3 * (Threshold - made[n])
       + (IF pc[n] = "calling" THEN 3 ELSE IF pc[n] = "sleeping" THEN 2 ELSE 1)

\* A rank is a number, and zero at the end only.
LEMMA RankIs ==
  ASSUME RetryInv, NEW n \in Node
  PROVE  Rank(n) \in 0 .. 3 * Threshold + 3 /\ (Rank(n) = 0 <=> pc[n] = "ended")
<1>1. /\ made[n] \in Nat /\ Threshold \in Nat /\ Threshold > 0
      /\ pc[n] \in {"top", "calling", "publishing", "sleeping", "ended"}
  BY Limits DEF RetryInv, Counting
<1>2. made[n] <= Threshold
  BY DEF RetryInv, NodeInv, Bounded
<1>3. CASE pc[n] = "ended"
  BY <1>1, <1>3 DEF Rank
<1>4. CASE pc[n] # "ended"
  <2>1. Rank(n) \in {3 * (Threshold - made[n]) + 1, 3 * (Threshold - made[n]) + 2,
                     3 * (Threshold - made[n]) + 3}
    BY <1>1, <1>4 DEF Rank
  <2> QED
    BY <1>1, <1>2, <1>4, <2>1
<1> QED
  BY <1>3, <1>4

\* Whatever a node does or suffers brings its task nearer to the end.
LEMMA StepLowersRank ==
  ASSUME RetryInv, NEW n \in Node, Step(n) \/ Abort(n) PROVE Rank(n)' < Rank(n)
<1>1. /\ Bounded(n) /\ Bounded(n)' /\ made[n] \in Nat /\ Threshold \in Nat
      /\ made \in [Node -> Nat]
      /\ pc \in [Node -> {"top", "calling", "publishing", "sleeping", "ended"}]
  BY StepKeepsNode, Limits DEF RetryInv, Counting, NodeInv
<1>2. made[n] <= Threshold
  BY <1>1 DEF Bounded
<1> USE <1>1, <1>2 DEF Rank, End, history
<1>3. CASE Skip(n)
  BY <1>3 DEF Skip
<1>4. CASE Call(n)
  BY <1>4 DEF Call
<1>5. CASE Succeed(n)
  BY <1>5 DEF Succeed
<1>6. CASE GiveUp(n)
  BY <1>6 DEF GiveUp
<1>7. CASE EscalationFails(n)
  BY <1>7 DEF EscalationFails
<1>8. CASE RetryLater(n)
  BY <1>8 DEF RetryLater
<1>9. CASE Wake(n)
  BY <1>9 DEF Wake
<1>10. CASE Publish(n)
  BY <1>10 DEF Publish
<1>11. CASE Abort(n)
  BY <1>11 DEF Abort
<1> QED
  BY <1>3, <1>4, <1>5, <1>6, <1>7, <1>8, <1>9, <1>10, <1>11 DEF Step, Answer

\* Whatever delegate answers, the loops of a level end: each step lowers the rank of one
\* task and leaves the others', and no rank is ever above what the circuit's threshold
\* gives, policies of any number of retries included.
THEOREM LoopsEnd ==
  Spec => /\ [](\A n \in Node : /\ Rank(n) \in 0 .. 3 * Threshold + 3
                                /\ Rank(n) = 0 <=> pc[n] = "ended")
          /\ [][\E n \in Node : /\ Rank(n)' < Rank(n)
                                /\ \A m \in Node \ {n} : Rank(m)' = Rank(m)]_vars
<1>1. RetryInv => \A n \in Node : /\ Rank(n) \in 0 .. 3 * Threshold + 3
                                  /\ Rank(n) = 0 <=> pc[n] = "ended"
  BY RankIs
<1>2. RetryInv /\ [Next]_vars =>
        [\E n \in Node : /\ Rank(n)' < Rank(n)
                         /\ \A m \in Node \ {n} : Rank(m)' = Rank(m)]_vars
  <2> SUFFICES ASSUME RetryInv, NEW n \in Node, Step(n) \/ Abort(n)
               PROVE  /\ Rank(n)' < Rank(n)
                      /\ \A m \in Node \ {n} : Rank(m)' = Rank(m)
    BY DEF Next
  <2>1. Rank(n)' < Rank(n)
    BY StepLowersRank
  <2>2. ASSUME NEW m \in Node \ {n} PROVE Rank(m)' = Rank(m)
    BY StepIsLocal DEF Others, Rank
  <2> QED
    BY <2>1, <2>2
<1> QED
  BY <1>1, <1>2, RetryInvariant, PTL DEF Spec

\* No task is stuck at the top of its loop: it is never past its last retry without another
\* model to try, so that the return which the code has there is never reached: Skip and Call
\* are all that a task at the top can do.
THEOREM NoTaskIsStuck ==
  Spec => [](\A n \in Node : pc[n] = "top" => retries[n] <= MaxAttempts[n] \/ n \in Escalating)
<1>1. RetryInv =>
        \A n \in Node : pc[n] = "top" => retries[n] <= MaxAttempts[n] \/ n \in Escalating
  <2> SUFFICES ASSUME RetryInv, NEW n \in Node, pc[n] = "top"
               PROVE  retries[n] <= MaxAttempts[n] \/ n \in Escalating
    OBVIOUS
  <2>1. Agree(n) /\ retries[n] \in Nat
    BY DEF RetryInv, NodeInv, Counting
  <2> QED
    BY <2>1, Limits DEF Agree
<1> QED
  BY <1>1, RetryInvariant, PTL

\* What module Supervisor lets its callers do (MayCall): a task calls delegate only when it
\* is not in a call, has had no Ok, and has made fewer calls than open the circuit, which is
\* the bound that MaxCalls stands for there; and each call is made once.
THEOREM CallsAreAllowed ==
  Spec => [][\A n \in Node : made'[n] # made[n] =>
               /\ pc[n] # "calling" /\ pc'[n] = "calling"
               /\ verdict[n] = "running"
               /\ made[n] < Threshold /\ made'[n] = made[n] + 1]_vars
<1>1. ASSUME RetryInv, NEW n \in Node, Step(n) \/ Abort(n), NEW m \in Node, made'[m] # made[m]
      PROVE  /\ pc[m] # "calling" /\ pc'[m] = "calling"
             /\ verdict[m] = "running"
             /\ made[m] < Threshold /\ made'[m] = made[m] + 1
  <2>1. m = n
    BY <1>1, StepIsLocal DEF Others
  <2>2. Call(n)
    BY <1>1, <2>1 DEF Step, Answer, Skip, Succeed, GiveUp, EscalationFails, RetryLater, Wake,
                      Publish, Abort, history
  <2>3. /\ made[n] \in Nat /\ made \in [Node -> Nat]
        /\ pc \in [Node -> {"top", "calling", "publishing", "sleeping", "ended"}]
    BY <1>1 DEF RetryInv, Counting
  <2>4. /\ failures[n] = made[n] /\ verdict[n] = "running"
        /\ open[n] <=> failures[n] >= Threshold
    BY <1>1, <2>2 DEF RetryInv, NodeInv, Agree, Call
  <2> QED
    BY <2>1, <2>2, <2>3, <2>4, Limits DEF Call
<1>2. RetryInv /\ [Next]_vars =>
        [\A n \in Node : made'[n] # made[n] =>
           /\ pc[n] # "calling" /\ pc'[n] = "calling"
           /\ verdict[n] = "running"
           /\ made[n] < Threshold /\ made'[n] = made[n] + 1]_vars
  BY <1>1 DEF Next
<1> QED
  BY <1>2, RetryInvariant, PTL DEF Spec

----------------------------------------------------------------------------
(***************************************************************************)
(* Backoffs.  A power of two is a recursive function, so that it has to be *)
(* shown first that there is such a function.                              *)
(***************************************************************************)

\* A set of naturals that has 0, and with each number the next, has all of them: the
\* numbers up to one that is missing would otherwise hold an endless chain of sets.
LEMMA NaturalsByStep ==
  ASSUME NEW G, 0 \in G, \A k \in Nat : k \in G => k + 1 \in G
  PROVE  \A k \in Nat : k \in G
<1> SUFFICES ASSUME NEW n \in Nat, n \notin G PROVE FALSE
  OBVIOUS
<1> DEFINE S == {i \in 0 .. n : i \notin G}
<1> DEFINE Below(i) == {j \in S : j < i}
<1> DEFINE T == {Below(i) : i \in S}
<1>1. IsFiniteSet(S) /\ n \in S
  <2>1. IsFiniteSet(0 .. n) /\ S \in SUBSET (0 .. n)
    BY FS_Interval
  <2>2. IsFiniteSet(S)
    <3> HIDE DEF S
    <3> QED
      BY <2>1, FS_Subset
  <2> QED
    BY <2>2
<1>2. \A i \in S : i \in Nat /\ i <= n /\ i \notin G
  OBVIOUS
<1>3. \A i \in Nat : i <= n /\ i \notin G => i \in S
  OBVIOUS
<1> HIDE DEF S
<1>4. IsWellFoundedOn(StrictSubsetOrdering(S), SUBSET S)
  BY <1>1, FS_StrictSubsetOrderingWellFounded, FS_FiniteSubsetsOfFinite
<1>5. T \subseteq SUBSET S /\ T # {}
  BY <1>1
<1>6. PICK x \in T : \A y \in T : <<y, x>> \notin StrictSubsetOrdering(S)
  <2> HIDE DEF T
  <2> QED
    BY <1>4, <1>5, WFMin
<1>7. PICK m \in S : x = Below(m)
  OBVIOUS
<1>8. ASSUME NEW j \in S, j < m PROVE FALSE
  <2>1. j \in Nat /\ m \in Nat /\ \A i \in S : i \in Nat
    BY <1>2
  <2>2. Below(j) \subseteq Below(m)
    <3>1. \A i \in S : i < j => i < m
      BY <1>8, <2>1
    <3> QED
      BY <3>1
  <2>3. j \in Below(m) /\ j \notin Below(j)
    BY <1>8, <2>1
  <2>4. Below(j) \in T /\ <<Below(j), Below(m)>> \in (SUBSET S) \X (SUBSET S)
    OBVIOUS
  <2> HIDE DEF Below, T
  <2>5. <<Below(j), Below(m)>> \in StrictSubsetOrdering(S)
    BY <2>2, <2>3, <2>4 DEF StrictSubsetOrdering
  <2> QED
    BY <1>6, <1>7, <2>4, <2>5
<1>9. m \in Nat /\ m <= n /\ m \notin G /\ m # 0
  BY <1>2
<1>10. m - 1 \in Nat /\ m - 1 <= n /\ (m - 1) + 1 = m /\ m - 1 < m
  BY <1>9
<1>11. m - 1 \notin G
  BY <1>9, <1>10
<1>12. m - 1 \in S
  BY <1>3, <1>10, <1>11
<1> QED
  BY <1>8, <1>10, <1>12

\* The powers of two up to k.
UpTo(k, f) ==
  /\ f \in [0 .. k -> Nat]
  /\ f[0] = 1
  /\ \A i \in 0 .. k : i > 0 => f[i] = 2 * f[i - 1]

\* There are powers of two up to any number.
LEMMA PowersUpTo == \A k \in Nat : \E f : UpTo(k, f)
<1> DEFINE G == {k \in Nat : \E f : UpTo(k, f)}
<1>1. 0 \in G
  <2>1. UpTo(0, [i \in 0 .. 0 |-> 1])
    BY DEF UpTo
  <2> QED
    BY <2>1
<1>2. ASSUME NEW k \in Nat, k \in G PROVE k + 1 \in G
  <2>1. PICK f : UpTo(k, f)
    BY <1>2
  <2> DEFINE g == [i \in 0 .. k + 1 |-> IF i = k + 1 THEN 2 * f[k] ELSE f[i]]
  <2>2. /\ \A i \in 0 .. k : f[i] \in Nat /\ (i > 0 => f[i] = 2 * f[i - 1])
        /\ f[0] = 1
    BY <2>1 DEF UpTo
  <2>3. \A i \in 0 .. k + 1 : i = k + 1 \/ i \in 0 .. k
    OBVIOUS
  <2>4. \A i \in 0 .. k : i \in 0 .. k + 1 /\ i # k + 1
    OBVIOUS
  <2>5. \A i \in 0 .. k : g[i] = f[i]
    BY <2>4
  <2>6. g[k + 1] = 2 * f[k] /\ k \in 0 .. k
    OBVIOUS
  <2>7. g \in [0 .. k + 1 -> Nat]
    BY <2>2, <2>3, <2>6
  <2>8. ASSUME NEW i \in 0 .. k + 1, i > 0 PROVE g[i] = 2 * g[i - 1]
    <3>1. i - 1 \in 0 .. k /\ g[i - 1] = f[i - 1]
      BY <2>5, <2>8
    <3>2. CASE i = k + 1
      BY <2>6, <3>1, <3>2
    <3>3. CASE i \in 0 .. k
      BY <2>2, <2>5, <2>8, <3>1, <3>3
    <3> QED
      BY <2>3, <3>2, <3>3
  <2>9. g[0] = 1
    <3>1. 0 \in 0 .. k
      OBVIOUS
    <3> QED
      BY <2>2, <2>5, <3>1
  <2>10. UpTo(k + 1, g)
    <3> HIDE DEF g
    <3> QED
      BY <2>7, <2>8, <2>9 DEF UpTo
  <2> QED
    BY <2>10
<1>3. \A k \in Nat : k \in G
  <2> HIDE DEF G
  <2> QED
    BY <1>1, <1>2, NaturalsByStep
<1> QED
  BY <1>3

\* Two lists of powers of two agree where both are defined.
LEMMA PowersAgree ==
  ASSUME NEW k \in Nat, NEW l \in Nat, NEW f, NEW g, UpTo(k, f), UpTo(l, g)
  PROVE  \A i \in Nat : i <= k /\ i <= l => f[i] = g[i]
<1> DEFINE G == {i \in Nat : i <= k /\ i <= l => f[i] = g[i]}
<1>1. /\ f[0] = 1 /\ g[0] = 1
      /\ \A i \in 0 .. k : i > 0 => f[i] = 2 * f[i - 1]
      /\ \A i \in 0 .. l : i > 0 => g[i] = 2 * g[i - 1]
  BY DEF UpTo
<1>2. 0 \in G
  BY <1>1
<1>3. ASSUME NEW i \in Nat, i \in G PROVE i + 1 \in G
  <2> SUFFICES ASSUME i + 1 <= k, i + 1 <= l PROVE f[i + 1] = g[i + 1]
    OBVIOUS
  <2>1. i + 1 \in 0 .. k /\ i + 1 \in 0 .. l /\ i + 1 > 0 /\ (i + 1) - 1 = i /\ i <= k /\ i <= l
    OBVIOUS
  <2>2. f[i + 1] = 2 * f[i] /\ g[i + 1] = 2 * g[i]
    BY <1>1, <2>1
  <2>3. f[i] = g[i]
    BY <1>3, <2>1
  <2> QED
    BY <2>2, <2>3
<1>4. \A i \in Nat : i \in G
  <2> HIDE DEF G
  <2> QED
    BY <1>2, <1>3, NaturalsByStep
<1> QED
  BY <1>4

\* The equations of PowerOfTwo have a solution, so PowerOfTwo is one.
LEMMA PowerIs == PowerOfTwo = [k \in Nat |-> IF k = 0 THEN 1 ELSE 2 * PowerOfTwo[k - 1]]
<1> DEFINE list == [k \in Nat |-> CHOOSE f : UpTo(k, f)]
<1> DEFINE p == [k \in Nat |-> list[k][k]]
<1>1. \A k \in Nat : UpTo(k, list[k])
  BY PowersUpTo
<1> HIDE DEF list
<1>2. p[0] = 1
  BY <1>1 DEF UpTo
<1>3. ASSUME NEW k \in Nat, k # 0 PROVE p[k] = 2 * p[k - 1]
  <2>1. k - 1 \in Nat /\ k \in 0 .. k /\ k > 0 /\ k - 1 <= k - 1 /\ k - 1 <= k
    BY <1>3
  <2>2. list[k][k] = 2 * list[k][k - 1]
    BY <1>1, <2>1 DEF UpTo
  <2>3. UpTo(k, list[k]) /\ UpTo(k - 1, list[k - 1])
    BY <1>1, <2>1
  <2>4. list[k][k - 1] = list[k - 1][k - 1]
    BY <2>1, <2>3, PowersAgree
  <2> QED
    BY <2>1, <2>2, <2>4
<1>4. p = [k \in Nat |-> IF k = 0 THEN 1 ELSE 2 * p[k - 1]]
  <2>1. \A k \in Nat : p[k] = IF k = 0 THEN 1 ELSE 2 * p[k - 1]
    BY <1>2, <1>3
  <2> QED
    BY <2>1
<1> HIDE DEF p
<1>5. \E q : q = [k \in Nat |-> IF k = 0 THEN 1 ELSE 2 * q[k - 1]]
  BY <1>4
<1> QED
  BY <1>5 DEF PowerOfTwo

\* A power of two is a positive number, and the next one is its double.
LEMMA PowersDouble ==
  \A k \in Nat : /\ PowerOfTwo[k] \in Nat /\ PowerOfTwo[k] > 0
                 /\ PowerOfTwo[k + 1] = 2 * PowerOfTwo[k]
<1> DEFINE G == {k \in Nat : PowerOfTwo[k] \in Nat /\ PowerOfTwo[k] > 0}
<1>1. PowerOfTwo[0] = 1
  BY PowerIs
<1>2. \A k \in Nat : PowerOfTwo[k + 1] = 2 * PowerOfTwo[k]
  <2> TAKE k \in Nat
  <2>1. k + 1 \in Nat /\ k + 1 # 0 /\ (k + 1) - 1 = k
    OBVIOUS
  <2> QED
    BY <2>1, PowerIs
<1>3. 0 \in G
  BY <1>1
<1>4. \A k \in Nat : k \in G => k + 1 \in G
  BY <1>2
<1>5. \A k \in Nat : k \in G
  <2> HIDE DEF G
  <2> QED
    BY <1>3, <1>4, NaturalsByStep
<1> QED
  BY <1>2, <1>5

\* The product of positive numbers is positive, and no factor exceeds it.
LEMMA Products ==
  ASSUME NEW a \in Nat, NEW b \in Nat, a > 0
  PROVE  a * b \in Nat /\ a * b >= b /\ (b > 0 => a * b > 0)
<1>1. (a - 1) * b \in Nat /\ a * b = (a - 1) * b + b
  OBVIOUS
<1> QED
  BY <1>1

\* What Backoff returns: at least 1 if there is room for it, and never more than MaxWait.
LEMMA BackoffIsBounded ==
  ASSUME NEW b \in Nat \ {0}, NEW k \in Nat
  PROVE  Backoff(b, k) \in 0 .. MaxWait /\ (Backoff(b, k) > 0 \/ MaxWait = 0)
<1> DEFINE p == PowerOfTwo[k]
<1> DEFINE q == Least(p, MaxWait)
<1>1. p \in Nat /\ p > 0
  BY PowersDouble
<1> HIDE DEF p
<1>2. q \in Nat /\ (q > 0 \/ MaxWait = 0)
  BY <1>1, MaxWaitIsNat DEF Least
<1> HIDE DEF q
<1>3. b * q \in Nat /\ (b * q > 0 \/ MaxWait = 0)
  BY <1>2, Products
<1>4. Least(b * q, MaxWait) \in 0 .. MaxWait /\ (Least(b * q, MaxWait) > 0 \/ MaxWait = 0)
  BY <1>3, MaxWaitIsNat DEF Least
<1> QED
  BY <1>4 DEF Backoff, p, q

\* Of two backoffs in a row the second is the longer one, or there is none longer.
LEMMA BackoffsRise ==
  ASSUME NEW b \in Nat \ {0}, NEW k \in Nat
  PROVE  Backoff(b, k + 1) > Backoff(b, k) \/ Backoff(b, k + 1) = MaxWait
<1> DEFINE p == PowerOfTwo[k]
<1>1. p \in Nat /\ p > 0 /\ PowerOfTwo[k + 1] = 2 * p
  BY PowersDouble
<1> HIDE DEF p
<1>2. /\ Backoff(b, k) = Least(b * Least(p, MaxWait), MaxWait)
      /\ Backoff(b, k + 1) = Least(b * Least(2 * p, MaxWait), MaxWait)
  BY <1>1 DEF Backoff, p
<1>3. CASE 2 * p <= MaxWait
  <2>1. Least(p, MaxWait) = p /\ Least(2 * p, MaxWait) = 2 * p
    BY <1>1, <1>3, MaxWaitIsNat DEF Least
  <2>2. b * p \in Nat /\ b * p > 0 /\ b * (2 * p) = 2 * (b * p)
    BY <1>1, Products
  <2>3. \A m \in Nat : m > 0 =>
          Least(2 * m, MaxWait) > Least(m, MaxWait) \/ Least(2 * m, MaxWait) = MaxWait
    BY MaxWaitIsNat DEF Least
  <2> QED
    BY <1>2, <2>1, <2>2, <2>3
<1>4. CASE 2 * p > MaxWait
  <2>1. Least(2 * p, MaxWait) = MaxWait
    BY <1>1, <1>4, MaxWaitIsNat DEF Least
  <2>2. b * MaxWait \in Nat /\ b * MaxWait >= MaxWait
    BY Products, MaxWaitIsNat
  <2>3. Least(b * MaxWait, MaxWait) = MaxWait
    BY <2>2, MaxWaitIsNat DEF Least
  <2> QED
    BY <1>2, <2>1, <2>3
<1> QED
  BY <1>1, <1>3, <1>4, MaxWaitIsNat

\* The last backoff of a node is that of its last retry; before the first there is none.
WaitInv ==
  /\ wait \in [Node -> 0 .. MaxWait]
  /\ \A n \in Node : wait[n] = IF retries[n] = 0 THEN 0 ELSE Backoff(BaseBackoff[n], retries[n])

\* The base of the backoffs of one node.
LEMMA Bases == \A n \in Node : BaseBackoff[n] \in Nat \ {0}
BY BackoffsArePositive

\* Retries and waits of a step: both are changed by RetryLater, or neither is.
LEMMA WaitsWithRetries ==
  ASSUME RetryInv, WaitInv, NEW n \in Node, Step(n) \/ Abort(n)
  PROVE  \/ UNCHANGED <<retries, wait>>
         \/ /\ retries' = [retries EXCEPT ![n] = @ + 1]
            /\ wait' = [wait EXCEPT ![n] = Backoff(BaseBackoff[n], retries[n] + 1)]
BY DEF Step, Answer, Skip, Call, Succeed, GiveUp, EscalationFails, RetryLater, Wake, Publish,
       Abort, RecordFailure, counters, history

\* A step makes no wait shorter than the one before it.
LEMMA RetryWaitsLonger ==
  ASSUME RetryInv, WaitInv, [Next]_vars
  PROVE  /\ WaitInv'
         /\ \A n \in Node : retries'[n] # retries[n] => wait'[n] > wait[n] \/ wait'[n] = MaxWait
<1>1. CASE UNCHANGED <<retries, wait>>
  BY <1>1 DEF WaitInv
<1>2. ASSUME NEW n \in Node,
             retries' = [retries EXCEPT ![n] = @ + 1],
             wait' = [wait EXCEPT ![n] = Backoff(BaseBackoff[n], retries[n] + 1)]
      PROVE  /\ WaitInv'
             /\ \A m \in Node : retries'[m] # retries[m] => wait'[m] > wait[m] \/ wait'[m] = MaxWait
  <2>1. retries \in [Node -> Nat] /\ wait \in [Node -> 0 .. MaxWait]
    BY DEF RetryInv, Counting, WaitInv
  <2>2. retries[n] \in Nat /\ retries[n] + 1 \in Nat /\ retries[n] + 1 # 0
    BY <2>1
  <2>3. BaseBackoff[n] \in Nat \ {0}
    BY Bases
  <2>4. /\ Backoff(BaseBackoff[n], retries[n] + 1) \in 0 .. MaxWait
        /\ Backoff(BaseBackoff[n], retries[n] + 1) > 0 \/ MaxWait = 0
    BY <2>2, <2>3, BackoffIsBounded
  <2>5. /\ retries'[n] = retries[n] + 1 /\ wait'[n] = Backoff(BaseBackoff[n], retries[n] + 1)
        /\ \A m \in Node \ {n} : retries'[m] = retries[m] /\ wait'[m] = wait[m]
    BY <1>2, <2>1
  <2>6. wait' \in [Node -> 0 .. MaxWait]
    BY <1>2, <2>1, <2>4
  <2>7. WaitInv'
    BY <2>2, <2>5, <2>6 DEF WaitInv
  <2>8. wait'[n] > wait[n] \/ wait'[n] = MaxWait
    <3>1. CASE retries[n] = 0
      <4>1. wait[n] = 0
        BY <3>1 DEF WaitInv
      <4> QED
        BY <2>4, <2>5, <4>1, MaxWaitIsNat
    <3>2. CASE retries[n] # 0
      <4>1. wait[n] = Backoff(BaseBackoff[n], retries[n])
        BY <3>2 DEF WaitInv
      <4> QED
        BY <2>2, <2>3, <2>5, <4>1, BackoffsRise
    <3> QED
      BY <3>1, <3>2
  <2> QED
    BY <2>5, <2>7, <2>8
<1>3. ASSUME NEW n \in Node, Step(n) \/ Abort(n)
      PROVE  /\ WaitInv'
             /\ \A m \in Node : retries'[m] # retries[m] => wait'[m] > wait[m] \/ wait'[m] = MaxWait
  BY <1>1, <1>2, <1>3, WaitsWithRetries
<1>4. CASE UNCHANGED vars
  BY <1>1, <1>4 DEF vars
<1> QED
  BY <1>3, <1>4 DEF Next

\* The loops start without a wait.
LEMMA InitWaits == Init => WaitInv
BY MaxWaitIsNat DEF Init, WaitInv

\* Every wait is the backoff of the node's last retry.
THEOREM WaitInvariant == Spec => []WaitInv
<1>1. RetryInv /\ WaitInv /\ [Next]_vars => WaitInv'
  BY RetryWaitsLonger
<1> QED
  BY <1>1, InitWaits, RetryInvariant, PTL DEF Spec

\* No backoff is shorter than the one before it, up to the greatest number, where
\* exponential_backoff_ms saturates.
THEOREM WaitsGrow == Spec => BackoffGrows
<1>1. RetryInv /\ WaitInv /\ [Next]_vars =>
        [\A n \in Node : retries'[n] # retries[n] =>
           wait'[n] > wait[n] \/ wait'[n] = MaxWait]_vars
  BY RetryWaitsLonger
<1> QED
  BY <1>1, RetryInvariant, WaitInvariant, PTL DEF Spec, BackoffGrows

\* Type correctness: counters are numbers, and waits numbers of 64 bits.
THEOREM TypeCorrect == Spec => []TypeOK
<1>1. RetryInv /\ WaitInv => TypeOK
  BY DEF RetryInv, Counting, WaitInv, TypeOK
<1> QED
  BY <1>1, RetryInvariant, WaitInvariant, PTL

----------------------------------------------------------------------------
(***************************************************************************)
(* Module Scheduler: the weights of sets of nodes and of paths.            *)
(***************************************************************************)

\* A node weighs one of five numbers.
LEMMA WeightsAre ==
  ASSUME NEW level \in Levels, NEW n \in NodesOf(level)
  PROVE  WeightIn(level, n) \in {800000, 50000, 5000, 200, 100}
BY DEF WeightIn, Weight

\* The nodes of a set that have one weight, and what a further node makes of them.
LEMMA CountAdds ==
  ASSUME NEW level \in Levels, NEW S \in SUBSET NodesOf(level),
         NEW n \in NodesOf(level), n \notin S, NEW w
  PROVE  LET count(T) == Cardinality({m \in T : WeightIn(level, m) = w})
         IN  /\ count(S) \in Nat
             /\ count(S \cup {n}) = IF WeightIn(level, n) = w THEN count(S) + 1 ELSE count(S)
<1> DEFINE C == {m \in S : WeightIn(level, m) = w}
<1> DEFINE D == {m \in S \cup {n} : WeightIn(level, m) = w}
<1>1. IsFiniteSet(C) /\ Cardinality(C) \in Nat
  <2>1. IsFiniteSet(NodesOf(level)) /\ C \subseteq NodesOf(level)
    BY LevelsAreFinite
  <2> QED
    BY <2>1, FS_Subset, FS_CardinalityType
<1>2. CASE WeightIn(level, n) = w
  <2>1. D = C \cup {n} /\ n \notin C
    BY <1>2
  <2> QED
    BY <1>1, <1>2, <2>1, FS_AddElement
<1>3. CASE WeightIn(level, n) # w
  <2>1. D = C
    BY <1>3
  <2> QED
    BY <1>1, <1>3, <2>1
<1> QED
  BY <1>2, <1>3

\* A further node adds its weight to that of a set.
LEMMA WeightAdds ==
  ASSUME NEW level \in Levels, NEW S \in SUBSET NodesOf(level),
         NEW n \in NodesOf(level), n \notin S
  PROVE  /\ WeightOf(level, S) \in Nat
         /\ WeightOf(level, S \cup {n}) = WeightOf(level, S) + WeightIn(level, n)
<1> DEFINE count(T, w) == Cardinality({m \in T : WeightIn(level, m) = w})
<1>1. \A w : /\ count(S, w) \in Nat
             /\ count(S \cup {n}, w) =
                  IF WeightIn(level, n) = w THEN count(S, w) + 1 ELSE count(S, w)
  BY CountAdds
<1>2. \A T : WeightOf(level, T) =
         800000 * count(T, 800000) + 50000 * count(T, 50000) + 5000 * count(T, 5000)
         + 200 * count(T, 200) + 100 * count(T, 100)
  BY SMT DEF WeightOf
<1>3. WeightIn(level, n) \in {800000, 50000, 5000, 200, 100}
  BY WeightsAre, SMT
<1> HIDE DEF count
<1>4. /\ count(S, 800000) \in Nat /\ count(S, 50000) \in Nat /\ count(S, 5000) \in Nat
      /\ count(S, 200) \in Nat /\ count(S, 100) \in Nat
  BY <1>1, SMT
<1>5. ASSUME NEW w \in {800000, 50000, 5000, 200, 100}
      PROVE  w * count(S \cup {n}, w) =
               w * count(S, w) + (IF WeightIn(level, n) = w THEN w ELSE 0)
  <2>1. w \in Nat
    BY SMT
  <2>2. \A x \in Nat : w * (x + 1) = w * x + w /\ w * x = w * x + 0
    BY <2>1, SMT
  <2> QED
    BY <1>1, <2>1, <2>2, SMT
<1>6. WeightOf(level, S) \in Nat
  BY <1>2, <1>4, SMT
<1>7. WeightOf(level, S \cup {n}) = WeightOf(level, S) + WeightIn(level, n)
  BY <1>2, <1>3, <1>4, <1>5, SMT
<1> QED
  BY <1>6, <1>7

\* No nodes weigh nothing, so one node its own weight.
LEMMA WeightOfOne ==
  ASSUME NEW level \in Levels, NEW n \in NodesOf(level)
  PROVE  WeightOf(level, {n}) = WeightIn(level, n)
<1>1. WeightOf(level, {}) = 0
  <2>1. \A w : {m \in {} : WeightIn(level, m) = w} = {}
    OBVIOUS
  <2>2. Cardinality({}) = 0
    BY FS_EmptySet
  <2> QED
    BY <2>1, <2>2 DEF WeightOf
<1>2. {} \cup {n} = {n} /\ WeightIn(level, n) \in {800000, 50000, 5000, 200, 100}
  BY WeightsAre
<1> QED
  BY <1>1, <1>2, WeightAdds

\* A path with a node before it.
Extended(n, path) == <<n>> \o path

\* A path gets longer at its beginning.
LEMMA PathGrows ==
  ASSUME NEW level, NEW C, NEW path \in Seq(C), IsPath(level, path),
         NEW n, n \notin C, path[1] \in Successors(level, n)
  PROVE  /\ Extended(n, path) \in Seq(C \cup {n}) /\ IsPath(level, Extended(n, path))
         /\ Extended(n, path)[1] = n
         /\ Last(Extended(n, path)) = Last(path)
         /\ ToSet(Extended(n, path)) = ToSet(path) \cup {n}
<1> DEFINE q == Extended(n, path)
<1>1. /\ Len(path) \in Nat /\ Len(path) > 0 /\ DOMAIN path = 1 .. Len(path)
      /\ \A i \in DOMAIN path : path[i] \in C
  BY DEF IsPath
<1>2. /\ q \in Seq(C \cup {n}) /\ Len(q) = Len(path) + 1 /\ DOMAIN q = 1 .. Len(path) + 1
      /\ q[1] = n
      /\ \A i \in DOMAIN path : q[i + 1] = path[i]
  BY <1>1 DEF Extended
<1>3. \A i \in DOMAIN q : i = 1 \/ (i - 1 \in DOMAIN path /\ q[i] = path[i - 1])
  BY <1>1, <1>2
<1> HIDE DEF q
<1>4. Last(q) = Last(path)
  BY <1>1, <1>2 DEF Last
<1>5. ToSet(q) = ToSet(path) \cup {n}
  <2>1. \A x \in ToSet(q) : x \in ToSet(path) \cup {n}
    BY <1>2, <1>3 DEF ToSet
  <2>2. \A i \in DOMAIN path : i + 1 \in DOMAIN q /\ 1 \in DOMAIN q
    BY <1>1, <1>2
  <2>3. \A x \in ToSet(path) \cup {n} : x \in ToSet(q)
    BY <1>1, <1>2, <2>2 DEF ToSet
  <2> QED
    BY <2>1, <2>3
<1>6. IsPath(level, q)
  <2>1. ASSUME NEW i \in 1 .. Len(q) - 1 PROVE q[i + 1] \in Successors(level, q[i])
    <3>1. i \in DOMAIN path /\ q[i + 1] = path[i]
      BY <1>1, <1>2
    <3>2. CASE i = 1
      BY <1>2, <3>1, <3>2
    <3>3. CASE i # 1
      <4>1. i - 1 \in 1 .. Len(path) - 1 /\ q[i] = path[i - 1] /\ (i - 1) + 1 = i
        <5>1. i \in 1 .. Len(path) /\ i \in DOMAIN q
          BY <1>1, <1>2
        <5>2. i - 1 \in 1 .. Len(path) - 1 /\ (i - 1) + 1 = i
          BY <1>1, <3>3, <5>1
        <5> QED
          BY <1>3, <3>3, <5>1, <5>2
      <4> QED
        BY <3>1, <4>1 DEF IsPath
    <3> QED
      BY <3>2, <3>3
  <2>2. ASSUME NEW i \in DOMAIN q, NEW j \in DOMAIN q, q[i] = q[j] PROVE i = j
    <3>1. i \in Nat /\ j \in Nat
      BY <1>2
    <3>2. CASE i = 1 \/ j = 1
      BY <1>1, <1>2, <1>3, <2>2, <3>2
    <3>3. CASE i # 1 /\ j # 1
      <4>1. i - 1 = j - 1
        BY <1>3, <2>2, <3>3 DEF IsPath
      <4> QED
        BY <3>1, <4>1
    <3> QED
      BY <3>2, <3>3
  <2>3. q # <<>>
    BY <1>1, <1>2
  <2> QED
    BY <2>1, <2>2, <2>3 DEF IsPath
<1> QED
  BY <1>2, <1>4, <1>5, <1>6 DEF q

\* A path is no longer than the level has nodes, so it is one of those in Paths.
LEMMA PathsAreAll ==
  ASSUME NEW level \in Levels, NEW path \in Seq(NodesOf(level)), IsPath(level, path)
  PROVE  path \in Paths(level, path[1])
<1> DEFINE N == NodesOf(level)
<1>1. Len(path) \in Nat /\ path \in [1 .. Len(path) -> N]
  OBVIOUS
<1>2. IsFiniteSet(N) /\ Cardinality(N) \in Nat
  BY LevelsAreFinite, FS_CardinalityType
<1>3. IsFiniteSet(1 .. Len(path)) /\ Cardinality(1 .. Len(path)) = Len(path)
  BY <1>1, FS_Interval
<1>4. ~(Cardinality(N) < Len(path))
  <2> SUFFICES ASSUME Cardinality(N) < Len(path) PROVE FALSE
    OBVIOUS
  <2>1. PICK i, j \in 1 .. Len(path) : i # j /\ path[i] = path[j]
    BY <1>1, <1>2, <1>3, FS_PigeonHole
  <2> QED
    BY <1>1, <2>1 DEF IsPath
<1>5. Len(path) \in 0 .. Cardinality(N)
  BY <1>1, <1>2, <1>4
<1>6. path \in SeqOf(N, Cardinality(N))
  BY <1>1, <1>5 DEF SeqOf
<1> QED
  BY <1>6 DEF Paths

\* Along a path without repetitions the weights of the nodes from a place on are no more
\* than the priority at that place, if every priority exceeds those of the successors by
\* the node's weight.
LEMMA PathsAreBounded ==
  ASSUME NEW level \in Levels, NEW f \in [NodesOf(level) -> Nat],
         \A n \in NodesOf(level) :
           /\ f[n] >= WeightIn(level, n)
           /\ \A s \in Successors(level, n) : f[n] >= WeightIn(level, n) + f[s],
         NEW path \in Seq(NodesOf(level)), IsPath(level, path)
  PROVE  WeightOf(level, ToSet(path)) <= f[path[1]]
<1> DEFINE N == NodesOf(level)
<1> DEFINE L == Len(path)
<1> DEFINE From(i) == {path[j] : j \in {k \in DOMAIN path : k >= i}}
<1> DEFINE G == {k \in Nat : k < L => WeightOf(level, From(L - k)) <= f[path[L - k]]}
<1>1. /\ L \in Nat /\ L > 0 /\ DOMAIN path = 1 .. L
      /\ \A i \in 1 .. L : path[i] \in N
  BY DEF IsPath
<1>2. \A i \in 1 .. L : From(i) \in SUBSET N
  BY <1>1
<1>3. \A i \in 1 .. L : WeightIn(level, path[i]) \in Nat /\ f[path[i]] \in Nat
  BY <1>1, WeightsAre
<1>4. 0 \in G
  <2>1. L \in 1 .. L /\ From(L) = {path[L]}
    BY <1>1
  <2>2. WeightOf(level, From(L)) = WeightIn(level, path[L])
    BY <1>1, <2>1, WeightOfOne
  <2>3. L - 0 = L
    BY <1>1
  <2> HIDE DEF From, L
  <2> QED
    BY <1>1, <1>3, <2>1, <2>2, <2>3
<1>5. ASSUME NEW k \in Nat, k \in G PROVE k + 1 \in G
  <2> SUFFICES ASSUME k + 1 < L
               PROVE  WeightOf(level, From(L - (k + 1))) <= f[path[L - (k + 1)]]
    OBVIOUS
  <2> DEFINE i == L - (k + 1)
  <2>1. i \in 1 .. L - 1 /\ i \in 1 .. L /\ i + 1 \in 1 .. L /\ L - k = i + 1 /\ k < L
    BY <1>1
  <2>2. WeightOf(level, From(i + 1)) <= f[path[i + 1]]
    BY <1>5, <2>1
  <2> HIDE DEF i, L
  <2>3. path[i + 1] \in Successors(level, path[i])
    BY <2>1 DEF IsPath, L
  <2>4. f[path[i]] >= WeightIn(level, path[i]) + f[path[i + 1]]
    BY <1>1, <2>1, <2>3
  <2>5. path[i] \notin From(i + 1)
    <3> SUFFICES ASSUME NEW j \in DOMAIN path, j >= i + 1, path[j] = path[i] PROVE FALSE
      OBVIOUS
    <3>1. j = i
      BY <1>1, <2>1 DEF IsPath
    <3> QED
      BY <1>1, <2>1, <3>1
  <2>6. From(i) = From(i + 1) \cup {path[i]}
    <3>1. \A j \in 1 .. L : j >= i <=> (j >= i + 1 \/ j = i)
      BY <1>1, <2>1
    <3> QED
      BY <1>1, <2>1, <3>1
  <2> HIDE DEF From
  <2>7. WeightOf(level, From(i + 1)) \in Nat
    BY <1>1, <1>2, <2>1, <2>5, WeightAdds
  <2>8. WeightOf(level, From(i)) = WeightOf(level, From(i + 1)) + WeightIn(level, path[i])
    BY <1>1, <1>2, <2>1, <2>5, <2>6, WeightAdds
  <2>9. WeightOf(level, From(i)) <= f[path[i]]
    <3>1. /\ WeightIn(level, path[i]) \in Nat /\ f[path[i]] \in Nat
          /\ f[path[i + 1]] \in Nat
      BY <1>3, <2>1
    <3> QED
      BY <2>2, <2>4, <2>7, <2>8, <3>1
  <2> QED
    BY <2>9 DEF i
<1>6. \A k \in Nat : k \in G
  <2> HIDE DEF G
  <2> QED
    BY <1>4, <1>5, NaturalsByStep
<1>7. L - 1 \in Nat /\ L - 1 < L /\ L - (L - 1) = 1
  BY <1>1
<1>8. WeightOf(level, From(1)) <= f[path[1]]
  <2> HIDE DEF From, L
  <2> QED
    BY <1>6, <1>7
<1>9. From(1) = ToSet(path)
  <2>1. \A k \in DOMAIN path : k >= 1
    BY <1>1
  <2> QED
    BY <2>1 DEF ToSet
<1> QED
  BY <1>8, <1>9

----------------------------------------------------------------------------
(***************************************************************************)
(* What the depth-first search keeps.  Of a node whose visit is over the   *)
(* memo has a priority that a path from it is worth; the calls on the      *)
(* stack lead from one to the next, so a node that is met again while it   *)
(* is visited closes a cycle.                                              *)
(***************************************************************************)

\* What the stack of a search through a level looks like: the calls, each of a node of its
\* own, lead from one to the next.
StackOK(level) ==
  /\ stack \in Seq([node : NodesOf(level), rest : SUBSET NodesOf(level), best : Nat])
  /\ \A i \in DOMAIN stack : stack[i].rest \subseteq Successors(level, stack[i].node)
  /\ \A i \in 1 .. Len(stack) - 1 : stack[i + 1].node \in Successors(level, stack[i].node)
  /\ \A i, j \in DOMAIN stack : stack[i].node = stack[j].node => i = j

\* What the stack holds.
LEMMA StackTypes ==
  ASSUME NEW level, StackOK(level)
  PROVE  /\ Len(stack) \in Nat /\ DOMAIN stack = 1 .. Len(stack)
         /\ stack # <<>> => Len(stack) > 0 /\ Len(stack) \in DOMAIN stack
         /\ \A i \in DOMAIN stack :
              /\ stack[i] = [node |-> stack[i].node, rest |-> stack[i].rest, best |-> stack[i].best]
              /\ stack[i].node \in NodesOf(level)
              /\ stack[i].rest \in SUBSET NodesOf(level)
              /\ stack[i].best \in Nat
<1> DEFINE F == [node : NodesOf(level), rest : SUBSET NodesOf(level), best : Nat]
<1>1. stack \in Seq(F)
  BY DEF StackOK
<1>2. \A f \in F : /\ f = [node |-> f.node, rest |-> f.rest, best |-> f.best]
                   /\ f.node \in NodesOf(level) /\ f.rest \in SUBSET NodesOf(level)
                   /\ f.best \in Nat
  OBVIOUS
<1> HIDE DEF F
<1>3. /\ Len(stack) \in Nat /\ DOMAIN stack = 1 .. Len(stack)
      /\ stack # <<>> => Len(stack) > 0 /\ Len(stack) \in DOMAIN stack
      /\ \A i \in DOMAIN stack : stack[i] \in F
  BY <1>1
<1> QED
  BY <1>2, <1>3

\* A node that the last call leads back to closes a cycle.
LEMMA MetAgainMeansCycle ==
  ASSUME NEW level \in Levels, StackOK(level), stack # <<>>,
         NEW s \in Visiting, s \in Successors(level, Top.node)
  PROVE  HasCycle(level)
<1> DEFINE L == Len(stack)
<1>1. /\ L \in Nat /\ L > 0 /\ DOMAIN stack = 1 .. L
      /\ \A i \in 1 .. L : stack[i].node \in NodesOf(level)
  BY StackTypes
<1>2. PICK k \in 1 .. L : stack[k].node = s
  BY <1>1 DEF Visiting
<1> DEFINE q == [i \in 1 .. L - k + 1 |-> stack[i + k - 1].node]
<1>3. \A i \in 1 .. L - k + 1 : i + k - 1 \in 1 .. L
  BY <1>1
<1>4. L - k + 1 \in Nat /\ L - k + 1 > 0 /\ 1 \in 1 .. L - k + 1 /\ (L - k + 1) + k - 1 = L
      /\ 1 + k - 1 = k
  BY <1>1
<1>5. q \in Seq(NodesOf(level)) /\ Len(q) = L - k + 1 /\ DOMAIN q = 1 .. L - k + 1
  BY <1>1, <1>3, <1>4
<1>6. /\ q[1] = s /\ Last(q) = Top.node
      /\ \A i \in DOMAIN q : q[i] = stack[i + k - 1].node
  BY <1>2, <1>4, <1>5 DEF Last, Top
<1> HIDE DEF q
<1>7. IsPath(level, q)
  <2>1. ASSUME NEW i \in 1 .. Len(q) - 1 PROVE q[i + 1] \in Successors(level, q[i])
    <3>1. /\ i \in DOMAIN q /\ i + 1 \in DOMAIN q
          /\ i + k - 1 \in 1 .. L - 1 /\ (i + 1) + k - 1 = (i + k - 1) + 1
      BY <1>1, <1>5
    <3> QED
      BY <1>6, <3>1 DEF StackOK
  <2>2. ASSUME NEW i \in DOMAIN q, NEW j \in DOMAIN q, q[i] = q[j] PROVE i = j
    <3>1. i + k - 1 = j + k - 1
      BY <1>1, <1>3, <1>5, <1>6, <2>2 DEF StackOK
    <3> QED
      BY <1>5, <3>1
  <2> QED
    BY <1>4, <1>5, <2>1, <2>2 DEF IsPath
<1>8. q \in Paths(level, s)
  BY <1>5, <1>6, <1>7, PathsAreAll
<1>9. s \in NodesOf(level)
  BY <1>1, <1>2
<1> QED
  BY <1>6, <1>8, <1>9 DEF HasCycle

\* The nodes whose visit is over.
Completed == DOMAIN cpp \ Visiting

\* v is the weight of a path from n through the nodes of C, or in a graph with a cycle that
\* of such a path and of one node it leads to.
Worth(level, C, n, v) ==
  \E path \in Seq(C) :
    /\ IsPath(level, path) /\ path[1] = n
    /\ \/ v = WeightOf(level, ToSet(path))
       \/ /\ HasCycle(level)
          /\ \E s \in Successors(level, Last(path)) :
               v = WeightOf(level, ToSet(path)) + WeightIn(level, s)

\* A priority in the memo is that of a path; only the nodes of a cycle have one while they
\* are visited, and it is their weight.
EntriesOK(level) ==
  \A m \in DOMAIN cpp :
    IF m \in Visiting THEN HasCycle(level) /\ cpp[m] = WeightIn(level, m)
    ELSE Worth(level, Completed, m, cpp[m])

Asked(level, f) == Successors(level, f.node) \ f.rest

\* The best that a call has got so far is what one of the successors it has asked is worth,
\* and without a cycle no other is worth more.
FrameOK(level, memo, C, f) ==
  /\ Asked(level, f) \subseteq DOMAIN memo
  /\ Asked(level, f) = {} => f.best = 0
  /\ Asked(level, f) # {} =>
       \E s \in Asked(level, f) :
         Worth(level, C, s, f.best) \/ (HasCycle(level) /\ f.best = WeightIn(level, s))
  /\ ~HasCycle(level) => \A s \in Asked(level, f) : memo[s] <= f.best

\* Without a cycle a priority exceeds those of all successors, which are known.
ExceedsSuccessors(level, memo) ==
  ~HasCycle(level) =>
    \A m \in DOMAIN memo :
      /\ memo[m] >= WeightIn(level, m)
      /\ \A s \in Successors(level, m) : s \in DOMAIN memo /\ memo[m] >= WeightIn(level, m) + memo[s]

MemoOK(level) == DOMAIN cpp \subseteq NodesOf(level) /\ cpp \in [DOMAIN cpp -> Nat]

SearchOK(level) ==
  /\ MemoOK(level) /\ StackOK(level) /\ EntriesOK(level)
  /\ \A i \in DOMAIN stack : FrameOK(level, cpp, Completed, stack[i])
  /\ ExceedsSuccessors(level, cpp)

\* What a path of completed nodes is worth, it stays worth.
LEMMA WorthStays ==
  ASSUME NEW level, NEW C, NEW D, C \subseteq D, NEW n, NEW v, Worth(level, C, n, v)
  PROVE  Worth(level, D, n, v)
<1>1. \A path \in Seq(C) : path \in Seq(D)
  OBVIOUS
<1> QED
  BY <1>1 DEF Worth

\* A node before a path that does not have it is worth its weight more.
LEMMA WorthOfLonger ==
  ASSUME NEW level \in Levels, NEW C \in SUBSET NodesOf(level),
         NEW n \in NodesOf(level), n \notin C,
         NEW s \in Successors(level, n), NEW v, Worth(level, C, s, v)
  PROVE  v \in Nat /\ Worth(level, C \cup {n}, n, WeightIn(level, n) + v)
<1>1. PICK path \in Seq(C) :
        /\ IsPath(level, path) /\ path[1] = s
        /\ \/ v = WeightOf(level, ToSet(path))
           \/ /\ HasCycle(level)
              /\ \E t \in Successors(level, Last(path)) :
                   v = WeightOf(level, ToSet(path)) + WeightIn(level, t)
  BY DEF Worth
<1> DEFINE q == Extended(n, path)
<1>2. /\ q \in Seq(C \cup {n}) /\ IsPath(level, q) /\ q[1] = n /\ Last(q) = Last(path)
      /\ ToSet(q) = ToSet(path) \cup {n}
  <2>1. IsPath(level, path) /\ path[1] \in Successors(level, n)
    BY <1>1
  <2> QED
    BY <2>1, PathGrows
<1>3. ToSet(path) \in SUBSET C
  BY DEF ToSet
<1> HIDE DEF q
<1>4. /\ WeightOf(level, ToSet(path)) \in Nat
      /\ WeightOf(level, ToSet(q)) = WeightOf(level, ToSet(path)) + WeightIn(level, n)
  BY <1>2, <1>3, WeightAdds
<1>5. \A m \in NodesOf(level) : WeightIn(level, m) \in Nat
  BY WeightsAre
<1>6. CASE v = WeightOf(level, ToSet(path))
  <2>1. WeightIn(level, n) + v = WeightOf(level, ToSet(q))
    BY <1>4, <1>5, <1>6
  <2> QED
    BY <1>2, <1>4, <1>6, <2>1 DEF Worth
<1>7. ASSUME HasCycle(level), NEW t \in Successors(level, Last(path)),
             v = WeightOf(level, ToSet(path)) + WeightIn(level, t)
      PROVE  v \in Nat /\ Worth(level, C \cup {n}, n, WeightIn(level, n) + v)
  <2>1. WeightIn(level, t) \in Nat /\ WeightIn(level, n) \in Nat
    BY <1>5 DEF Successors
  <2> DEFINE w == WeightOf(level, ToSet(path))
  <2>2. v \in Nat /\ WeightIn(level, n) + v = (w + WeightIn(level, n)) + WeightIn(level, t)
    BY <1>4, <1>7, <2>1
  <2>3. WeightIn(level, n) + v = WeightOf(level, ToSet(q)) + WeightIn(level, t)
    BY <1>4, <2>2
  <2>4. t \in Successors(level, Last(q))
    BY <1>2, <1>7
  <2> QED
    BY <1>2, <1>7, <2>2, <2>3, <2>4 DEF Worth
<1> QED
  BY <1>1, <1>6, <1>7

\* A node is worth its weight, and with a cycle that of a successor besides.
LEMMA WorthOfOne ==
  ASSUME NEW level \in Levels, NEW n \in NodesOf(level), NEW C, n \in C
  PROVE  /\ Worth(level, C, n, WeightIn(level, n))
         /\ \A s \in Successors(level, n) : HasCycle(level) =>
              Worth(level, C, n, WeightIn(level, n) + WeightIn(level, s))
<1> DEFINE q == <<n>>
<1>1. q \in Seq(C) /\ Len(q) = 1 /\ DOMAIN q = 1 .. 1 /\ q[1] = n
  OBVIOUS
<1> HIDE DEF q
<1>2. IsPath(level, q) /\ Last(q) = n /\ ToSet(q) = {n}
  BY <1>1 DEF IsPath, Last, ToSet
<1>3. WeightOf(level, ToSet(q)) = WeightIn(level, n)
  BY <1>2, WeightOfOne
<1> QED
  BY <1>1, <1>2, <1>3 DEF Worth

\* What a call has got stays right while the memo grows.
LEMMA FrameStays ==
  ASSUME NEW level, NEW memo, NEW C, NEW memo2, NEW C2, NEW f, FrameOK(level, memo, C, f),
         DOMAIN memo \subseteq DOMAIN memo2, C \subseteq C2,
         ~HasCycle(level) => \A m \in DOMAIN memo : memo2[m] = memo[m]
  PROVE  FrameOK(level, memo2, C2, f)
<1>1. \A s : Worth(level, C, s, f.best) => Worth(level, C2, s, f.best)
  BY WorthStays
<1> QED
  BY <1>1 DEF FrameOK

\* A call asks one more of its successors.
LEMMA FrameTakes ==
  ASSUME NEW level, NEW memo, NEW C, NEW f, FrameOK(level, memo, C, f), f.best \in Nat,
         NEW s \in f.rest, f.rest \subseteq Successors(level, f.node),
         s \in DOMAIN memo, \A m \in DOMAIN memo : memo[m] \in Nat,
         Worth(level, C, s, memo[s]) \/ (HasCycle(level) /\ memo[s] = WeightIn(level, s)),
         NEW g, g = [node |-> f.node, rest |-> f.rest \ {s}, best |-> Better(f.best, memo[s])]
  PROVE  FrameOK(level, memo, C, g) /\ g.best \in Nat
<1>1. g.node = f.node /\ g.rest = f.rest \ {s} /\ g.best = Better(f.best, memo[s])
  OBVIOUS
<1>2. Asked(level, g) = Asked(level, f) \cup {s}
  BY <1>1 DEF Asked
<1>3. /\ g.best \in Nat /\ memo[s] <= g.best /\ f.best <= g.best
      /\ g.best = memo[s] \/ (g.best = f.best /\ memo[s] <= f.best)
  BY <1>1 DEF Better
<1>4. g.best = memo[s] \/ (g.best = f.best /\ Asked(level, f) # {})
  BY <1>3 DEF FrameOK
<1>5. \E t \in Asked(level, g) :
        Worth(level, C, t, g.best) \/ (HasCycle(level) /\ g.best = WeightIn(level, t))
  BY <1>2, <1>4 DEF FrameOK
<1>6. ASSUME ~HasCycle(level), NEW t \in Asked(level, g) PROVE memo[t] <= g.best
  <2>1. CASE t = s
    BY <1>3, <2>1
  <2>2. CASE t # s
    <3>1. memo[t] <= f.best
      BY <1>2, <1>6, <2>2 DEF FrameOK
    <3>2. memo[t] \in Nat
      BY <1>2, <1>6, <2>2 DEF FrameOK
    <3> QED
      BY <1>3, <3>1, <3>2
  <2> QED
    BY <2>1, <2>2
<1> QED
  BY <1>2, <1>3, <1>5, <1>6 DEF FrameOK

\* What a call that gets a value does to the stack.
LEMMA TakesIsLocal ==
  ASSUME NEW level, StackOK(level), stack # <<>>, NEW s \in Top.rest, NEW v \in Nat, Takes(s, v)
  PROVE  /\ DOMAIN stack' = DOMAIN stack /\ Len(stack') = Len(stack)
         /\ \A i \in DOMAIN stack :
              /\ stack'[i].node = stack[i].node
              /\ stack'[i] = IF i = Len(stack)
                             THEN [node |-> Top.node, rest |-> Top.rest \ {s},
                                   best |-> Better(Top.best, v)]
                             ELSE stack[i]
         /\ StackOK(level)'
         /\ Visiting' = Visiting
<1> DEFINE L == Len(stack)
<1> DEFINE F == [node : NodesOf(level), rest : SUBSET NodesOf(level), best : Nat]
<1> DEFINE g == [node |-> Top.node, rest |-> Top.rest \ {s}, best |-> Better(Top.best, v)]
<1>1. /\ L \in Nat /\ DOMAIN stack = 1 .. L /\ L \in DOMAIN stack
      /\ Top.node \in NodesOf(level) /\ Top.rest \in SUBSET NodesOf(level) /\ Top.best \in Nat
  BY StackTypes DEF Top
<1>2. g \in F /\ g.node = Top.node /\ g.rest = Top.rest \ {s}
  BY <1>1 DEF Better
<1>3. stack' = [stack EXCEPT ![L] = g] /\ stack \in Seq(F)
  BY DEF Takes, StackOK
<1> HIDE DEF F, g
<1>4. /\ stack' \in Seq(F) /\ Len(stack') = L /\ DOMAIN stack' = 1 .. L
      /\ \A i \in 1 .. L : stack'[i] = IF i = L THEN g ELSE stack[i]
  BY <1>1, <1>2, <1>3
<1>5. \A i \in 1 .. L : stack'[i].node = stack[i].node /\ stack'[i].rest \subseteq stack[i].rest
  BY <1>1, <1>2, <1>4 DEF Top
<1>6. StackOK(level)'
  <2>1. \A i \in DOMAIN stack' : stack'[i].rest \subseteq Successors(level, stack'[i].node)
    BY <1>1, <1>4, <1>5 DEF StackOK
  <2>2. \A i \in 1 .. Len(stack') - 1 :
          stack'[i + 1].node \in Successors(level, stack'[i].node)
    <3>1. \A i \in 1 .. L - 1 : i \in 1 .. L /\ i + 1 \in 1 .. L
      BY <1>1
    <3> QED
      BY <1>4, <1>5, <3>1 DEF StackOK
  <2>3. \A i, j \in DOMAIN stack' : stack'[i].node = stack'[j].node => i = j
    BY <1>1, <1>4, <1>5 DEF StackOK
  <2> QED
    BY <1>4, <2>1, <2>2, <2>3 DEF StackOK, F
<1>7. Visiting' = Visiting
  BY <1>1, <1>4, <1>5 DEF Visiting
<1> QED
  BY <1>1, <1>4, <1>5, <1>6, <1>7 DEF g

\* A value that a call gets is kept right, if it is right in the memo.
LEMMA TakesKeeps ==
  ASSUME NEW level \in Levels, SearchOK(level), stack # <<>>, NEW s \in Top.rest,
         MemoOK(level)', DOMAIN cpp \subseteq DOMAIN cpp', s \in DOMAIN cpp',
         Takes(s, cpp'[s]), EntriesOK(level)',
         ~HasCycle(level) => cpp' = cpp
  PROVE  SearchOK(level)'
<1> DEFINE L == Len(stack)
<1>1. cpp'[s] \in Nat /\ StackOK(level)
  BY DEF MemoOK, SearchOK
<1>2. /\ DOMAIN stack' = DOMAIN stack
      /\ \A i \in DOMAIN stack :
           stack'[i] = IF i = L
                       THEN [node |-> Top.node, rest |-> Top.rest \ {s},
                             best |-> Better(Top.best, cpp'[s])]
                       ELSE stack[i]
      /\ StackOK(level)' /\ Visiting' = Visiting
  BY <1>1, TakesIsLocal
<1>3. Completed \subseteq Completed'
  BY <1>2 DEF Completed
<1>4. /\ L \in DOMAIN stack /\ Top = stack[L] /\ Top.best \in Nat
      /\ Top.rest \subseteq Successors(level, Top.node)
  BY <1>1, StackTypes DEF StackOK, Top
<1>5. \A i \in DOMAIN stack : FrameOK(level, cpp', Completed', stack[i])
  <2> SUFFICES ASSUME NEW i \in DOMAIN stack PROVE FrameOK(level, cpp', Completed', stack[i])
    OBVIOUS
  <2>1. FrameOK(level, cpp, Completed, stack[i])
    BY DEF SearchOK
  <2> QED
    BY <1>3, <2>1, FrameStays
<1>6. Worth(level, Completed', s, cpp'[s]) \/ (HasCycle(level) /\ cpp'[s] = WeightIn(level, s))
  BY DEF EntriesOK
<1>7. \A m \in DOMAIN cpp' : cpp'[m] \in Nat
  BY DEF MemoOK
<1> DEFINE g == [node |-> Top.node, rest |-> Top.rest \ {s}, best |-> Better(Top.best, cpp'[s])]
<1>8. FrameOK(level, cpp', Completed', g)
  <2>1. FrameOK(level, cpp', Completed', Top)
    BY <1>4, <1>5
  <2> QED
    BY <1>4, <1>6, <1>7, <2>1, FrameTakes
<1>9. \A i \in DOMAIN stack' : FrameOK(level, cpp', Completed', stack'[i])
  <2> HIDE DEF g, L
  <2>1. \A i \in DOMAIN stack : stack'[i] = IF i = L THEN g ELSE stack[i]
    BY <1>2 DEF g
  <2> QED
    BY <1>2, <1>5, <1>8, <2>1
<1>10. ExceedsSuccessors(level, cpp')
  BY DEF SearchOK, ExceedsSuccessors
<1> QED
  BY <1>2, <1>9, <1>10 DEF SearchOK

\* A successor with a priority is asked.
LEMMA KnownKeeps ==
  ASSUME NEW level \in Levels, SearchOK(level), stack # <<>>, NEW s \in Top.rest, Known(s)
  PROVE  SearchOK(level)'
<1>1. cpp' = cpp /\ Takes(s, cpp'[s]) /\ s \in DOMAIN cpp'
  BY DEF Known
<1>2. MemoOK(level)' /\ cpp[s] \in Nat
  BY <1>1 DEF SearchOK, MemoOK
<1>3. EntriesOK(level)'
  <2>1. Visiting' = Visiting
    BY <1>1, <1>2, TakesIsLocal DEF SearchOK
  <2> QED
    BY <1>1, <2>1 DEF SearchOK, EntriesOK, Completed
<1> QED
  BY <1>1, <1>2, <1>3, TakesKeeps

\* What the memo holds when a priority is inserted.
LEMMA MemoizedIs ==
  ASSUME NEW level, MemoOK(level), NEW n \in NodesOf(level), NEW v \in Nat,
         cpp' = Memoized(n, v)
  PROVE  /\ DOMAIN cpp' = DOMAIN cpp \cup {n}
         /\ cpp'[n] = v
         /\ \A m \in DOMAIN cpp : m # n => cpp'[m] = cpp[m]
         /\ MemoOK(level)'
<1>1. /\ DOMAIN cpp' = DOMAIN cpp \cup {n} /\ cpp'[n] = v
      /\ \A m \in DOMAIN cpp : m # n => cpp'[m] = cpp[m]
  BY DEF Memoized
<1>2. cpp' \in [DOMAIN cpp \cup {n} -> Nat]
  BY DEF Memoized, MemoOK
<1>3. DOMAIN cpp' \subseteq NodesOf(level)
  BY <1>1 DEF MemoOK
<1> QED
  BY <1>1, <1>2, <1>3 DEF MemoOK

\* A successor that is still visited is asked: only with a cycle.
LEMMA MeetAgainKeeps ==
  ASSUME NEW level \in Levels, in = level, SearchOK(level), stack # <<>>,
         NEW s \in Top.rest, MeetAgain(s)
  PROVE  SearchOK(level)'
<1>1. /\ s \notin DOMAIN cpp /\ s \in Visiting
      /\ cpp' = Memoized(s, WeightIn(level, s)) /\ Takes(s, WeightIn(level, s))
  BY DEF MeetAgain
<1>2. StackOK(level) /\ MemoOK(level) /\ EntriesOK(level)
  BY DEF SearchOK
<1>3. s \in Successors(level, Top.node) /\ s \in NodesOf(level)
  <2>1. Len(stack) \in DOMAIN stack
    BY <1>2, StackTypes
  <2> QED
    BY <1>2, <2>1 DEF StackOK, Top, Successors
<1>4. HasCycle(level)
  BY <1>1, <1>2, <1>3, MetAgainMeansCycle
<1>5. WeightIn(level, s) \in Nat
  BY <1>3, WeightsAre
<1>6. /\ DOMAIN cpp' = DOMAIN cpp \cup {s} /\ cpp'[s] = WeightIn(level, s)
      /\ \A m \in DOMAIN cpp : cpp'[m] = cpp[m]
      /\ MemoOK(level)'
  BY <1>1, <1>2, <1>3, <1>5, MemoizedIs
<1>7. EntriesOK(level)'
  <2>1. Visiting' = Visiting
    BY <1>1, <1>2, <1>5, TakesIsLocal
  <2>2. Completed' = Completed
    BY <1>1, <1>6, <2>1 DEF Completed
  <2>3. ASSUME NEW m \in DOMAIN cpp'
        PROVE  IF m \in Visiting' THEN HasCycle(level) /\ cpp'[m] = WeightIn(level, m)
               ELSE Worth(level, Completed', m, cpp'[m])
    <3>1. CASE m = s
      BY <1>1, <1>4, <1>6, <2>1, <3>1
    <3>2. CASE m # s
      <4>1. m \in DOMAIN cpp /\ cpp'[m] = cpp[m]
        BY <1>6, <3>2
      <4> QED
        BY <1>2, <2>1, <2>2, <4>1 DEF EntriesOK
    <3> QED
      BY <3>1, <3>2
  <2> QED
    BY <2>3 DEF EntriesOK
<1> QED
  BY <1>1, <1>4, <1>6, <1>7, TakesKeeps

\* The places of a stack, and of one that has grown by a call.
LEMMA Places ==
  ASSUME NEW L \in Nat
  PROVE  /\ \A i \in 1 .. L + 1 : i = L + 1 \/ i \in 1 .. L
         /\ \A i \in 1 .. L : i \in 1 .. L + 1
         /\ L + 1 \in 1 .. L + 1 /\ L + 1 \notin 1 .. L /\ (L + 1) - 1 = L
         /\ \A i \in 1 .. L : i # L => i \in 1 .. L - 1 /\ i + 1 \in 1 .. L
OBVIOUS

\* A call of a node that is neither known nor visited.
LEMMA CallKeeps ==
  ASSUME NEW level \in Levels, SearchOK(level), NEW n \in NodesOf(level) \ DOMAIN cpp,
         n \notin Visiting, stack # <<>> => n \in Successors(level, Top.node),
         stack' = Append(stack, [node |-> n, rest |-> Successors(level, n), best |-> 0]),
         cpp' = cpp
  PROVE  SearchOK(level)'
<1> DEFINE L == Len(stack)
<1> DEFINE F == [node : NodesOf(level), rest : SUBSET NodesOf(level), best : Nat]
<1> DEFINE g == [node |-> n, rest |-> Successors(level, n), best |-> 0]
<1>1. StackOK(level) /\ MemoOK(level)
  BY DEF SearchOK
<1>2. L \in Nat /\ DOMAIN stack = 1 .. L /\ stack \in Seq(F) /\ (stack # <<>> => L > 0)
  BY <1>1, StackTypes DEF StackOK
<1>3. g \in F /\ g.node = n /\ g.rest = Successors(level, n) /\ g.best = 0
  BY DEF Successors
<1>4. L = 0 => stack = <<>>
  BY <1>2
<1> HIDE DEF F, g
<1>5. /\ stack' \in Seq(F) /\ Len(stack') = L + 1 /\ DOMAIN stack' = 1 .. L + 1
      /\ stack'[L + 1] = g /\ \A i \in 1 .. L : stack'[i] = stack[i]
  BY <1>2, <1>3 DEF g
<1> HIDE DEF L
<1>6. /\ \A i \in 1 .. L + 1 : i = L + 1 \/ i \in 1 .. L
      /\ \A i \in 1 .. L : i \in 1 .. L + 1
      /\ L + 1 \in 1 .. L + 1 /\ L + 1 \notin 1 .. L /\ (L + 1) - 1 = L
      /\ \A i \in 1 .. L : i # L => i \in 1 .. L - 1 /\ i + 1 \in 1 .. L
  BY <1>2, Places
<1>7. Visiting' = Visiting \cup {n}
  BY <1>2, <1>3, <1>5, <1>6 DEF Visiting
<1>8. Completed' = Completed
  BY <1>7 DEF Completed
<1>9. StackOK(level)'
  <2>1. \A i \in DOMAIN stack' : stack'[i].rest \subseteq Successors(level, stack'[i].node)
    BY <1>1, <1>2, <1>3, <1>5, <1>6 DEF StackOK
  <2>2. ASSUME NEW i \in 1 .. Len(stack') - 1
        PROVE  stack'[i + 1].node \in Successors(level, stack'[i].node)
    <3>1. i \in 1 .. L
      BY <1>5, <1>6
    <3>2. CASE i = L
      <4>1. stack # <<>>
        BY <1>2, <3>1
      <4>2. stack'[i] = Top /\ stack'[i + 1] = g
        BY <1>5, <3>1, <3>2 DEF Top, L
      <4> QED
        BY <1>3, <4>1, <4>2
    <3>3. CASE i # L
      <4>1. i \in 1 .. L - 1 /\ i + 1 \in 1 .. L
        BY <1>6, <3>1, <3>3
      <4> QED
        BY <1>1, <1>5, <4>1 DEF StackOK, L
    <3> QED
      BY <3>2, <3>3
  <2>3. ASSUME NEW i \in DOMAIN stack', NEW j \in DOMAIN stack', stack'[i].node = stack'[j].node
        PROVE  i = j
    <3>1. \A k \in 1 .. L : stack'[k].node # n
      BY <1>2, <1>5 DEF Visiting
    <3>2. CASE i = L + 1 \/ j = L + 1
      BY <1>3, <1>5, <1>6, <2>3, <3>1, <3>2
    <3>3. CASE i \in 1 .. L /\ j \in 1 .. L
      BY <1>1, <1>2, <1>5, <2>3, <3>3 DEF StackOK
    <3> QED
      BY <1>5, <1>6, <3>2, <3>3
  <2> QED
    BY <1>5, <2>1, <2>2, <2>3 DEF StackOK, F
<1>10. EntriesOK(level)'
  BY <1>7, <1>8 DEF SearchOK, EntriesOK
<1>11. \A i \in DOMAIN stack' : FrameOK(level, cpp', Completed', stack'[i])
  <2>1. FrameOK(level, cpp, Completed, g)
    BY <1>3 DEF FrameOK, Asked
  <2> QED
    BY <1>2, <1>5, <1>6, <1>8, <2>1 DEF SearchOK
<1>12. MemoOK(level)' /\ ExceedsSuccessors(level, cpp')
  BY DEF SearchOK, MemoOK
<1> QED
  BY <1>9, <1>10, <1>11, <1>12 DEF SearchOK

\* The outer loop starts a search.
LEMMA BeginKeeps ==
  ASSUME NEW level \in Levels, in = level, SearchOK(level), NEW n, Begin(n)
  PROVE  SearchOK(level)'
<1>1. /\ stack = <<>> /\ n \in NodesOf(level) \ DOMAIN cpp /\ cpp' = cpp
      /\ stack' = <<[node |-> n, rest |-> Successors(level, n), best |-> 0]>>
  BY DEF Begin, Frame
<1>2. \A f : <<f>> = Append(<<>>, f)
  OBVIOUS
<1>3. n \notin Visiting
  BY <1>1 DEF Visiting
<1> QED
  BY <1>1, <1>2, <1>3, CallKeeps

\* A call asks a successor that has neither a priority nor a call.
LEMMA DescendKeeps ==
  ASSUME NEW level \in Levels, in = level, SearchOK(level), stack # <<>>,
         NEW s \in Top.rest, Descend(s)
  PROVE  SearchOK(level)'
<1>1. /\ s \notin DOMAIN cpp /\ s \notin Visiting /\ cpp' = cpp
      /\ stack' = Append(stack, [node |-> s, rest |-> Successors(level, s), best |-> 0])
  BY DEF Descend, Frame
<1>2. s \in Successors(level, Top.node) /\ s \in NodesOf(level)
  <2>1. StackOK(level) /\ Len(stack) \in DOMAIN stack
    BY StackTypes DEF SearchOK
  <2> QED
    BY <2>1 DEF StackOK, Top, Successors
<1> QED
  BY <1>1, <1>2, CallKeeps

\* What is left of the stack when the call at its top returns.
LEMMA FrontIs ==
  ASSUME NEW level, StackOK(level), stack # <<>>, stack' = Front(stack)
  PROVE  /\ Len(stack') = Len(stack) - 1 /\ DOMAIN stack' = 1 .. Len(stack) - 1
         /\ \A i \in DOMAIN stack' : i \in DOMAIN stack /\ stack'[i] = stack[i]
         /\ StackOK(level)'
         /\ Visiting' = Visiting \ {Top.node}
<1> DEFINE L == Len(stack)
<1> DEFINE F == [node : NodesOf(level), rest : SUBSET NodesOf(level), best : Nat]
<1>1. L \in Nat /\ L > 0 /\ DOMAIN stack = 1 .. L /\ L \in DOMAIN stack /\ stack \in Seq(F)
  BY StackTypes DEF StackOK
<1> HIDE DEF F
<1>2. /\ stack' \in Seq(F) /\ Len(stack') = L - 1 /\ DOMAIN stack' = 1 .. L - 1
      /\ \A i \in 1 .. L - 1 : i \in DOMAIN stack /\ stack'[i] = stack[i]
  BY <1>1 DEF Front
<1>3. StackOK(level)'
  <2>1. \A i \in DOMAIN stack' : stack'[i].rest \subseteq Successors(level, stack'[i].node)
    BY <1>2 DEF StackOK
  <2>2. ASSUME NEW i \in 1 .. Len(stack') - 1
        PROVE  stack'[i + 1].node \in Successors(level, stack'[i].node)
    <3>1. i \in 1 .. L - 1 /\ i + 1 \in 1 .. L - 1
      BY <1>1, <1>2
    <3> QED
      BY <1>2, <3>1 DEF StackOK
  <2>3. ASSUME NEW i \in DOMAIN stack', NEW j \in DOMAIN stack',
               stack'[i].node = stack'[j].node
        PROVE  i = j
    <3>1. i \in DOMAIN stack /\ j \in DOMAIN stack /\ stack[i].node = stack[j].node
      BY <1>2, <2>3
    <3> QED
      BY <3>1 DEF StackOK
  <2> QED
    BY <1>2, <2>1, <2>2, <2>3 DEF StackOK, F
<1>4. Visiting' = Visiting \ {Top.node}
  <2>1. \A i, j \in DOMAIN stack : stack[i].node = stack[j].node => i = j
    BY DEF StackOK
  <2>2. Top = stack[L]
    BY DEF Top
  <2> HIDE DEF L
  <2>3. \A i \in DOMAIN stack : i # L => i \in 1 .. L - 1 /\ stack[i].node # Top.node
    BY <1>1, <2>1, <2>2
  <2>4. \A i \in 1 .. L - 1 : i \in DOMAIN stack /\ i # L
    BY <1>1
  <2>5. \A x \in Visiting' : x \in Visiting \ {Top.node}
    BY <1>2, <2>3, <2>4 DEF Visiting
  <2>6. \A x \in Visiting \ {Top.node} : x \in Visiting'
    BY <1>2, <2>2, <2>3 DEF Visiting
  <2> QED
    BY <2>5, <2>6
<1> QED
  BY <1>1, <1>2, <1>3, <1>4

\* A call returns the priority of its node.
LEMMA LeaveKeeps ==
  ASSUME NEW level \in Levels, in = level, SearchOK(level), stack # <<>>, Leave
  PROVE  SearchOK(level)'
<1> DEFINE n == Top.node
<1> DEFINE best == Top.best
<1> DEFINE v == WeightIn(level, n) + best
<1>1. StackOK(level) /\ MemoOK(level) /\ EntriesOK(level) /\ ExceedsSuccessors(level, cpp)
  BY DEF SearchOK
<1>2. /\ Len(stack) \in DOMAIN stack /\ Top = stack[Len(stack)]
      /\ n \in NodesOf(level) /\ best \in Nat /\ Asked(level, Top) = Successors(level, n)
      /\ n \in Visiting
  <2>1. Len(stack) \in DOMAIN stack /\ Top = stack[Len(stack)]
    BY <1>1, StackTypes DEF Top
  <2>2. Top.rest = {}
    BY DEF Leave
  <2> QED
    BY <1>1, <2>1, <2>2, StackTypes DEF Asked, Visiting
<1>3. FrameOK(level, cpp, Completed, Top)
  BY <1>2 DEF SearchOK
<1>4. \A m \in NodesOf(level) : WeightIn(level, m) \in Nat
  BY WeightsAre
<1>5. /\ cpp' = Memoized(n, v) /\ stack' = Front(stack) /\ v \in Nat
  BY <1>2, <1>4 DEF Leave
<1> HIDE DEF n, best, v
<1>6. /\ DOMAIN cpp' = DOMAIN cpp \cup {n} /\ cpp'[n] = v
      /\ \A m \in DOMAIN cpp : m # n => cpp'[m] = cpp[m]
      /\ MemoOK(level)'
  BY <1>1, <1>2, <1>5, MemoizedIs
<1>7. /\ \A i \in DOMAIN stack' : i \in DOMAIN stack /\ stack'[i] = stack[i]
      /\ StackOK(level)' /\ Visiting' = Visiting \ {n}
  BY <1>1, <1>5, FrontIs DEF n
<1>8. Completed' = Completed \cup {n} /\ n \notin Completed /\ Completed \subseteq NodesOf(level)
  BY <1>1, <1>2, <1>6, <1>7 DEF Completed, MemoOK
<1>9. ~HasCycle(level) => n \notin DOMAIN cpp
  BY <1>1, <1>2 DEF EntriesOK
<1>10. Worth(level, Completed', n, v)
  <2>1. CASE Asked(level, Top) = {}
    <3>1. v = WeightIn(level, n)
      BY <1>2, <1>3, <1>4, <2>1 DEF FrameOK, v, best
    <3> QED
      BY <1>2, <1>8, <3>1, WorthOfOne
  <2>2. ASSUME NEW s \in Successors(level, n), Worth(level, Completed, s, best)
        PROVE  Worth(level, Completed', n, v)
    BY <1>2, <1>8, <2>2, WorthOfLonger DEF v
  <2>3. ASSUME NEW s \in Successors(level, n), HasCycle(level), best = WeightIn(level, s)
        PROVE  Worth(level, Completed', n, v)
    BY <1>2, <1>8, <2>3, WorthOfOne DEF v
  <2> QED
    BY <1>2, <1>3, <2>1, <2>2, <2>3 DEF FrameOK, best
<1>11. EntriesOK(level)'
  <2>1. ASSUME NEW m \in DOMAIN cpp'
        PROVE  IF m \in Visiting' THEN HasCycle(level) /\ cpp'[m] = WeightIn(level, m)
               ELSE Worth(level, Completed', m, cpp'[m])
    <3>1. CASE m = n
      BY <1>6, <1>7, <1>10, <3>1
    <3>2. CASE m # n
      <4>1. m \in DOMAIN cpp /\ cpp'[m] = cpp[m] /\ (m \in Visiting' <=> m \in Visiting)
        BY <1>6, <1>7, <3>2
      <4>2. CASE m \in Visiting
        BY <1>1, <4>1, <4>2 DEF EntriesOK
      <4>3. CASE m \notin Visiting
        <5>1. Worth(level, Completed, m, cpp[m])
          BY <1>1, <4>1, <4>3 DEF EntriesOK
        <5> QED
          BY <1>8, <4>1, <4>3, <5>1, WorthStays
      <4> QED
        BY <4>2, <4>3
    <3> QED
      BY <3>1, <3>2
  <2> QED
    BY <2>1 DEF EntriesOK
<1>12. \A i \in DOMAIN stack' : FrameOK(level, cpp', Completed', stack'[i])
  <2> SUFFICES ASSUME NEW i \in DOMAIN stack' PROVE FrameOK(level, cpp', Completed', stack'[i])
    OBVIOUS
  <2>1. FrameOK(level, cpp, Completed, stack[i]) /\ stack'[i] = stack[i]
    BY <1>7 DEF SearchOK
  <2>2. /\ DOMAIN cpp \subseteq DOMAIN cpp' /\ Completed \subseteq Completed'
        /\ ~HasCycle(level) => \A m \in DOMAIN cpp : cpp'[m] = cpp[m]
    BY <1>6, <1>8, <1>9
  <2> QED
    BY <2>1, <2>2, FrameStays
<1>13. ExceedsSuccessors(level, cpp')
  <2> SUFFICES ASSUME ~HasCycle(level), NEW m \in DOMAIN cpp'
               PROVE  /\ cpp'[m] >= WeightIn(level, m)
                      /\ \A s \in Successors(level, m) :
                           s \in DOMAIN cpp' /\ cpp'[m] >= WeightIn(level, m) + cpp'[s]
    BY DEF ExceedsSuccessors
  <2>1. n \notin DOMAIN cpp /\ \A k \in DOMAIN cpp : k \in DOMAIN cpp' /\ cpp'[k] = cpp[k]
    BY <1>6, <1>9
  <2>2. CASE m = n
    <3>1. \A s \in Successors(level, n) : s \in DOMAIN cpp /\ cpp[s] <= best /\ cpp[s] \in Nat
      BY <1>1, <1>2, <1>3 DEF FrameOK, MemoOK, best
    <3>2. v >= WeightIn(level, n) /\ \A x \in Nat : x <= best => v >= WeightIn(level, n) + x
      BY <1>2, <1>4 DEF v
    <3> QED
      BY <1>6, <2>1, <2>2, <3>1, <3>2
  <2>3. CASE m # n
    BY <1>1, <1>6, <2>1, <2>3 DEF ExceedsSuccessors
  <2> QED
    BY <2>2, <2>3
<1> QED
  BY <1>6, <1>7, <1>11, <1>12, <1>13 DEF SearchOK

\* A step of the search keeps all of it.
LEMMA SearchKeeps ==
  ASSUME NEW level \in Levels, in = level, SearchOK(level), Search
  PROVE  SearchOK(level)'
<1>1. CASE \E n \in NodesOf(in) : Begin(n)
  BY <1>1, BeginKeeps
<1>2. CASE /\ stack # <<>>
           /\ \/ \E s \in Top.rest : Known(s) \/ MeetAgain(s) \/ Descend(s)
              \/ Leave
  BY <1>2, KnownKeeps, MeetAgainKeeps, DescendKeeps, LeaveKeeps
<1> QED
  BY <1>1, <1>2 DEF Search

\* The nodes popped so far are those that come first.
OrderOK(level) ==
  /\ order \in Seq(NodesOf(level))
  /\ order # <<>> => stack = <<>> /\ DOMAIN cpp = NodesOf(level)
  /\ \A j \in DOMAIN order : \A m \in NodesOf(level) :
       (\A i \in 1 .. j : order[i] # m) => PopsBefore(order[j], m)

PlanInv == kind = "dispatch" => in \in Levels /\ SearchOK(in) /\ OrderOK(in)

\* The search has not started.
LEMMA InitPlan == SchedulerInit => PlanInv
<1> SUFFICES ASSUME SchedulerInit, kind = "dispatch" PROVE PlanInv
  BY DEF PlanInv
<1>1. in \in Levels /\ stack = <<>> /\ cpp = <<>> /\ order = <<>>
  BY DEF SchedulerInit, DefinitionInit
<1>2. /\ \A S : <<>> \in Seq(S)
      /\ DOMAIN stack = {} /\ DOMAIN cpp = {} /\ DOMAIN order = {} /\ Len(stack) = 0
      /\ \A S : cpp \in [{} -> S]
  BY <1>1
<1>3. 1 .. 0 - 1 = {}
  OBVIOUS
<1>4. StackOK(in)
  BY <1>1, <1>2, <1>3 DEF StackOK
<1>5. MemoOK(in) /\ EntriesOK(in) /\ ExceedsSuccessors(in, cpp)
  BY <1>2 DEF MemoOK, EntriesOK, ExceedsSuccessors
<1>6. OrderOK(in)
  BY <1>1, <1>2 DEF OrderOK
<1> QED
  BY <1>1, <1>2, <1>4, <1>5, <1>6 DEF PlanInv, SearchOK

\* A node is popped.
LEMMA PopKeeps ==
  ASSUME NEW level \in Levels, in = level, SearchOK(level), OrderOK(level),
         NEW n \in NodesOf(level), Pop(n)
  PROVE  SearchOK(level)' /\ OrderOK(level)'
<1>1. /\ stack = <<>> /\ DOMAIN cpp = NodesOf(level)
      /\ \A m \in NodesOf(level) \ (ToSet(order) \cup {n}) : PopsBefore(n, m)
      /\ order' = Append(order, n) /\ stack' = stack /\ cpp' = cpp
  BY DEF Pop, Planned
<1> DEFINE L == Len(order)
<1>2. order \in Seq(NodesOf(level)) /\ L \in Nat /\ DOMAIN order = 1 .. L
  BY DEF OrderOK
<1>3. /\ order' \in Seq(NodesOf(level)) /\ DOMAIN order' = 1 .. L + 1
      /\ order'[L + 1] = n /\ \A i \in 1 .. L : order'[i] = order[i]
  BY <1>1, <1>2
<1> HIDE DEF L
<1>4. ASSUME NEW j \in DOMAIN order', NEW m \in NodesOf(level),
             \A i \in 1 .. j : order'[i] # m
      PROVE  PopsBefore(order'[j], m)
  <2>1. CASE j = L + 1
    <3>1. \A i \in 1 .. L : order[i] # m
      BY <1>2, <1>3, <1>4, <2>1, Places
    <3>2. m # n
      BY <1>2, <1>3, <1>4, <2>1, Places
    <3>3. m \notin ToSet(order)
      BY <1>2, <3>1 DEF ToSet
    <3> QED
      BY <1>1, <1>3, <2>1, <3>2, <3>3
  <2>2. CASE j \in 1 .. L
    <3>1. \A i \in 1 .. j : i \in 1 .. L
      BY <1>2, <2>2
    <3>2. \A i \in 1 .. j : order[i] # m
      BY <1>3, <1>4, <3>1
    <3> QED
      BY <1>2, <1>3, <2>2, <3>2 DEF OrderOK
  <2> QED
    BY <1>2, <1>3, <2>1, <2>2, Places
<1>5. (\A j \in DOMAIN order : \A m \in NodesOf(level) :
         (\A i \in 1 .. j : order[i] # m) => PopsBefore(order[j], m))'
  BY <1>1, <1>4 DEF PopsBefore
<1>6. SearchOK(level)'
  BY <1>1 DEF SearchOK, MemoOK, StackOK, EntriesOK, FrameOK, ExceedsSuccessors, Completed, Visiting
<1>7. OrderOK(level)'
  BY <1>1, <1>3, <1>5 DEF OrderOK
<1> QED
  BY <1>6, <1>7

\* Nothing has been popped while the search goes on.
LEMMA SearchComesFirst ==
  ASSUME NEW level \in Levels, in = level, SearchOK(level), OrderOK(level), Search
  PROVE  order = <<>> /\ order' = <<>>
<1>1. order' = order
  BY DEF Search, Begin, Known, MeetAgain, Descend, Leave
<1>2. stack # <<>> \/ DOMAIN cpp # NodesOf(level)
  BY DEF Search, Begin
<1> QED
  BY <1>1, <1>2 DEF OrderOK

\* Every step keeps the invariant.
LEMMA NextPlan == PlanInv /\ [SchedulerNext]_schedulerVars => PlanInv'
<1> SUFFICES ASSUME PlanInv, [SchedulerNext]_schedulerVars, kind' = "dispatch" PROVE PlanInv'
  BY DEF PlanInv
<1>1. CASE Dispatch
  <2>1. in \in Levels /\ SearchOK(in) /\ OrderOK(in) /\ in' = in
    BY <1>1 DEF PlanInv, Dispatch, inputVars
  <2>2. CASE Search
    <3>1. SearchOK(in)'
      BY <2>1, <2>2, SearchKeeps DEF SearchOK, MemoOK, StackOK, EntriesOK, Completed, Visiting
    <3>2. order' = <<>>
      BY <2>1, <2>2, SearchComesFirst
    <3>3. OrderOK(in)'
      BY <3>2 DEF OrderOK
    <3> QED
      BY <2>1, <3>1, <3>3 DEF PlanInv
  <2>3. CASE \E n \in NodesOf(in) : Pop(n)
    BY <2>1, <2>3, PopKeeps DEF PlanInv
  <2> QED
    BY <1>1, <2>2, <2>3 DEF Dispatch
<1>2. CASE ~Dispatch
  <2>1. kind' = kind /\ in' = in /\ stack' = stack /\ cpp' = cpp /\ order' = order
    BY <1>2 DEF SchedulerNext, DefinitionNext, Validate, Evaluate, Becomes, schedulerVars,
                inputVars, planVars
  <2>2. in \in Levels /\ SearchOK(in) /\ OrderOK(in)
    BY <2>1 DEF PlanInv
  <2>3. SearchOK(in)'
    BY <2>1, <2>2 DEF SearchOK, MemoOK, StackOK, EntriesOK, FrameOK, ExceedsSuccessors,
                      Completed, Visiting
  <2>4. OrderOK(in)'
    BY <2>1, <2>2 DEF OrderOK, PopsBefore
  <2> QED
    BY <2>1, <2>2, <2>3, <2>4 DEF PlanInv
<1> QED
  BY <1>1, <1>2

\* The search of a level (SchedulerPlan::compute) keeps, at every step, of every node that has
\* been visited a priority that some path from it is worth.
THEOREM PlanInvariant == SchedulerSpec => []PlanInv
BY InitPlan, NextPlan, PTL DEF SchedulerSpec

\* Once a search is over, the priorities are those of paths.
LEMMA PrioritiesOfPaths ==
  ASSUME NEW level \in Levels, in = level, SearchOK(level),
         stack = <<>>, DOMAIN cpp = NodesOf(level)
  PROVE  PrioritiesAreOfPaths
<1>1. Visiting = {} /\ Completed = NodesOf(level)
  BY DEF Visiting, Completed
<1>2. cpp \in [NodesOf(level) -> Nat]
  BY DEF SearchOK, MemoOK
<1>3. ASSUME NEW n \in NodesOf(level)
      PROVE  \E path \in Paths(level, n) :
               \/ cpp[n] = WeightOf(level, ToSet(path))
               \/ /\ HasCycle(level)
                  /\ \E s \in Successors(level, Last(path)) :
                       cpp[n] = WeightOf(level, ToSet(path)) + WeightIn(level, s)
  <2>1. Worth(level, NodesOf(level), n, cpp[n])
    BY <1>1 DEF SearchOK, EntriesOK
  <2> QED
    BY <2>1, PathsAreAll DEF Worth
<1>4. ASSUME ~HasCycle(level), NEW n \in NodesOf(level), NEW path \in Paths(level, n)
      PROVE  WeightOf(level, ToSet(path)) <= cpp[n]
  <2>1. path \in Seq(NodesOf(level)) /\ IsPath(level, path) /\ path[1] = n
    BY DEF Paths, SeqOf
  <2>2. \A m \in NodesOf(level) :
          /\ cpp[m] >= WeightIn(level, m)
          /\ \A s \in Successors(level, m) : cpp[m] >= WeightIn(level, m) + cpp[s]
    BY <1>4 DEF SearchOK, ExceedsSuccessors
  <2> QED
    BY <1>2, <2>1, <2>2, PathsAreBounded
<1> QED
  BY <1>3, <1>4 DEF PrioritiesAreOfPaths

\* Without a cycle no node leads to itself.
LEMMA NoLoop ==
  ASSUME NEW level \in Levels, ~HasCycle(level), NEW n \in NodesOf(level)
  PROVE  n \notin Successors(level, n)
<1> DEFINE q == <<n>>
<1>1. q \in Seq(NodesOf(level)) /\ Len(q) = 1 /\ DOMAIN q = 1 .. 1 /\ q[1] = n
      /\ q # <<>>
  OBVIOUS
<1> HIDE DEF q
<1>2. IsPath(level, q) /\ Last(q) = n
  <2>1. 1 .. Len(q) - 1 = {} /\ \A i, j \in 1 .. 1 : i = j
    BY <1>1
  <2>2. IsPath(level, q)
    BY <1>1, <2>1 DEF IsPath
  <2>3. Last(q) = q[Len(q)]
    BY DEF Last
  <2> QED
    BY <1>1, <2>2, <2>3
<1>3. q \in Paths(level, n)
  BY <1>1, <1>2, PathsAreAll
<1> QED
  BY <1>2, <1>3 DEF HasCycle

\* Without a cycle a node comes before those it leads to.
LEMMA LeadersFirst ==
  ASSUME NEW level \in Levels, in = level, SearchOK(level), OrderOK(level), ~HasCycle(level),
         stack = <<>>, DOMAIN cpp = NodesOf(level)
  PROVE  LeadersAreFirst
<1> SUFFICES ASSUME NEW j \in DOMAIN order, NEW n \in NodesOf(level),
                    order[j] \in Successors(level, n),
                    \A i \in 1 .. j - 1 : order[i] # n
             PROVE  FALSE
  BY DEF LeadersAreFirst
<1>1. j \in Nat /\ order[j] \in NodesOf(level) /\ order[j] # n
  BY NoLoop DEF OrderOK
<1>2. \A i \in 1 .. j : order[i] # n
  <2>1. \A i \in 1 .. j : i = j \/ i \in 1 .. j - 1
    BY <1>1
  <2> QED
    BY <1>1, <2>1
<1>3. PopsBefore(order[j], n)
  BY <1>2 DEF OrderOK
<1>4. cpp[n] >= WeightIn(level, n) + cpp[order[j]]
  BY DEF SearchOK, ExceedsSuccessors
<1>5. cpp[n] \in Nat /\ cpp[order[j]] \in Nat
  BY <1>1 DEF SearchOK, MemoOK
<1>6. WeightIn(level, n) \in Nat /\ WeightIn(level, n) > 0
  BY WeightsAre
<1> QED
  BY <1>3, <1>4, <1>5, <1>6 DEF PopsBefore

\* The priorities of a level of any size are the weights of paths, without a cycle those of
\* the heaviest ones, and the nodes are then spawned in an order that follows the paths.
THEOREM PathsGiveTheOrder == SchedulerSpec => []CriticalPathFirst
<1>1. PlanInv => CriticalPathFirst
  BY PrioritiesOfPaths, LeadersFirst DEF PlanInv, CriticalPathFirst, Planned
<1> QED
  BY <1>1, PlanInvariant, PTL

----------------------------------------------------------------------------
(***************************************************************************)
(* A plan is computed and popped in finitely many steps.                   *)
(***************************************************************************)

\* What a search has yet to do: to visit nodes, to ask successors, to return the priorities
\* of nodes, and to pop them.
Unvisited(level) == NodesOf(level) \ (DOMAIN cpp \cup Visiting)

Unasked(level) ==
  {e \in NodesOf(level) \X NodesOf(level) :
     \/ e[1] \in Unvisited(level) /\ e[2] \in Successors(level, e[1])
     \/ \E i \in DOMAIN stack : stack[i].node = e[1] /\ e[2] \in stack[i].rest}

Unreturned(level) == NodesOf(level) \ Completed

Unpopped(level) == NodesOf(level) \ ToSet(order)

Steps(a, b, c, d) ==
  ({"visit"} \X a) \cup ({"ask"} \X b) \cup ({"return"} \X c) \cup ({"pop"} \X d)

Work(level) == Steps(Unvisited(level), Unasked(level), Unreturned(level), Unpopped(level))

\* There is less of the work when there is less of one of its parts.
LEMMA StepsShrink ==
  ASSUME NEW a, NEW b, NEW c, NEW d, NEW a2, NEW b2, NEW c2, NEW d2,
         a2 \subseteq a, b2 \subseteq b, c2 \subseteq c, d2 \subseteq d,
         a2 # a \/ b2 # b \/ c2 # c \/ d2 # d
  PROVE  Steps(a2, b2, c2, d2) \subseteq Steps(a, b, c, d)
         /\ Steps(a2, b2, c2, d2) # Steps(a, b, c, d)
<1>1. \A x, p, q, r, s :
        /\ <<"visit", x>> \in Steps(p, q, r, s) <=> x \in p
        /\ <<"ask", x>> \in Steps(p, q, r, s) <=> x \in q
        /\ <<"return", x>> \in Steps(p, q, r, s) <=> x \in r
        /\ <<"pop", x>> \in Steps(p, q, r, s) <=> x \in s
  BY DEF Steps
<1>2. Steps(a2, b2, c2, d2) \subseteq Steps(a, b, c, d)
  BY DEF Steps
<1>3. \/ \E x \in a : x \notin a2
      \/ \E x \in b : x \notin b2
      \/ \E x \in c : x \notin c2
      \/ \E x \in d : x \notin d2
  OBVIOUS
<1>4. ASSUME Steps(a2, b2, c2, d2) = Steps(a, b, c, d) PROVE FALSE
  <2> DEFINE T == Steps(a, b, c, d)
  <2>1. \A x : /\ <<"visit", x>> \in T <=> x \in a
               /\ <<"ask", x>> \in T <=> x \in b
               /\ <<"return", x>> \in T <=> x \in c
               /\ <<"pop", x>> \in T <=> x \in d
    BY <1>1
  <2>2. \A x : /\ <<"visit", x>> \in T <=> x \in a2
               /\ <<"ask", x>> \in T <=> x \in b2
               /\ <<"return", x>> \in T <=> x \in c2
               /\ <<"pop", x>> \in T <=> x \in d2
    BY <1>1, <1>4
  <2> HIDE DEF T
  <2> QED
    BY <1>3, <2>1, <2>2
<1> QED
  BY <1>2, <1>4

\* The work of a level is finite.
LEMMA WorkIsFinite ==
  ASSUME NEW level \in Levels
  PROVE  IsFiniteSet(Work(level))
<1> DEFINE N == NodesOf(level)
<1>1. IsFiniteSet(N)
  BY LevelsAreFinite
<1>2. \A x, S : IsFiniteSet(S) => IsFiniteSet({x} \X S)
  <2> SUFFICES ASSUME NEW x, NEW S, IsFiniteSet(S) PROVE IsFiniteSet({x} \X S)
    OBVIOUS
  <2>1. IsFiniteSet({x})
    BY FS_Singleton
  <2> QED
    BY <2>1, FS_Product
<1>3. IsFiniteSet(N \X N)
  BY <1>1, FS_Product
<1>4. IsFiniteSet(Steps(N, N \X N, N, N))
  <2>1. /\ IsFiniteSet({"visit"} \X N) /\ IsFiniteSet({"ask"} \X (N \X N))
        /\ IsFiniteSet({"return"} \X N) /\ IsFiniteSet({"pop"} \X N)
    BY <1>1, <1>2, <1>3
  <2> QED
    BY <2>1, FS_Union DEF Steps
<1>5. Work(level) \subseteq Steps(N, N \X N, N, N)
  BY DEF Work, Steps, Unvisited, Unasked, Unreturned, Unpopped
<1> QED
  BY <1>4, <1>5, FS_Subset

\* A node is visited for the first time.
LEMMA CallAdvances ==
  ASSUME NEW level \in Levels, SearchOK(level), NEW n \in NodesOf(level) \ DOMAIN cpp,
         n \notin Visiting,
         stack' = Append(stack, [node |-> n, rest |-> Successors(level, n), best |-> 0]),
         cpp' = cpp
  PROVE  /\ Unvisited(level)' \subseteq Unvisited(level) /\ Unvisited(level)' # Unvisited(level)
         /\ Unasked(level)' \subseteq Unasked(level)
         /\ Unreturned(level)' \subseteq Unreturned(level)
<1> DEFINE L == Len(stack)
<1> DEFINE F == [node : NodesOf(level), rest : SUBSET NodesOf(level), best : Nat]
<1> DEFINE g == [node |-> n, rest |-> Successors(level, n), best |-> 0]
<1>1. L \in Nat /\ DOMAIN stack = 1 .. L /\ stack \in Seq(F)
  BY StackTypes DEF SearchOK, StackOK
<1>2. g \in F /\ g.node = n /\ g.rest = Successors(level, n)
  BY DEF Successors
<1> HIDE DEF F, g
<1>3. /\ DOMAIN stack' = 1 .. L + 1
      /\ stack'[L + 1] = g /\ \A i \in 1 .. L : stack'[i] = stack[i]
  BY <1>1, <1>2 DEF g
<1> HIDE DEF L
<1>4. /\ \A i \in 1 .. L + 1 : i = L + 1 \/ i \in 1 .. L
      /\ \A i \in 1 .. L : i \in 1 .. L + 1
      /\ L + 1 \in 1 .. L + 1
  BY <1>1, Places
<1>5. Visiting' = Visiting \cup {n}
  BY <1>1, <1>2, <1>3, <1>4 DEF Visiting
<1>6. Unvisited(level)' = Unvisited(level) \ {n} /\ n \in Unvisited(level)
  BY <1>5 DEF Unvisited
<1>7. Unreturned(level)' = Unreturned(level)
  BY <1>5 DEF Unreturned, Completed
<1>8. ASSUME NEW e \in NodesOf(level) \X NodesOf(level), NEW i \in DOMAIN stack',
             stack'[i].node = e[1], e[2] \in stack'[i].rest
      PROVE  e \in Unasked(level)
  <2>1. CASE i = L + 1
    BY <1>2, <1>3, <1>6, <1>8, <2>1 DEF Unasked
  <2>2. CASE i \in 1 .. L
    BY <1>1, <1>3, <1>8, <2>2 DEF Unasked
  <2> QED
    BY <1>3, <1>4, <2>1, <2>2
<1>9. Unasked(level)' \subseteq Unasked(level)
  BY <1>6, <1>8 DEF Unasked
<1> QED
  BY <1>6, <1>7, <1>9

\* A successor is asked.
LEMMA TakesAdvances ==
  ASSUME NEW level \in Levels, SearchOK(level), stack # <<>>, NEW s \in Top.rest,
         NEW v \in Nat, Takes(s, v), DOMAIN cpp' \subseteq DOMAIN cpp \cup Visiting,
         DOMAIN cpp \subseteq DOMAIN cpp'
  PROVE  /\ Unvisited(level)' \subseteq Unvisited(level)
         /\ Unasked(level)' \subseteq Unasked(level) /\ Unasked(level)' # Unasked(level)
         /\ Unreturned(level)' \subseteq Unreturned(level)
<1> DEFINE L == Len(stack)
<1>1. /\ DOMAIN stack' = DOMAIN stack
      /\ \A i \in DOMAIN stack :
           /\ stack'[i].node = stack[i].node
           /\ stack'[i] = IF i = L
                          THEN [node |-> Top.node, rest |-> Top.rest \ {s},
                                best |-> Better(Top.best, v)]
                          ELSE stack[i]
      /\ Visiting' = Visiting
  BY TakesIsLocal DEF SearchOK
<1>2. /\ L \in DOMAIN stack /\ Top = stack[L] /\ Top.node \in NodesOf(level)
      /\ Top.rest \in SUBSET NodesOf(level)
      /\ \A i \in DOMAIN stack : stack[i].node = Top.node => i = L
  BY StackTypes DEF SearchOK, StackOK, Top
<1> HIDE DEF L
<1>3. /\ \A i \in DOMAIN stack : stack'[i].rest \subseteq stack[i].rest
      /\ stack'[L].rest = Top.rest \ {s}
  BY <1>1, <1>2
<1>4. Unvisited(level)' = Unvisited(level) /\ Top.node \notin Unvisited(level)
  <2>1. Top.node \in Visiting
    BY <1>2 DEF Visiting
  <2> QED
    BY <1>1, <2>1 DEF Unvisited
<1>5. Unreturned(level)' = Unreturned(level)
  BY <1>1 DEF Unreturned, Completed
<1>6. Unasked(level)' \subseteq Unasked(level)
  BY <1>1, <1>3, <1>4 DEF Unasked
<1>7. <<Top.node, s>> \in Unasked(level)
  BY <1>2 DEF Unasked
<1>8. <<Top.node, s>> \notin Unasked(level)'
  BY <1>1, <1>2, <1>3, <1>4 DEF Unasked
<1> QED
  BY <1>4, <1>5, <1>6, <1>7, <1>8

\* A call returns.
LEMMA LeaveAdvances ==
  ASSUME NEW level \in Levels, in = level, SearchOK(level), stack # <<>>, Leave
  PROVE  /\ Unvisited(level)' \subseteq Unvisited(level)
         /\ Unasked(level)' \subseteq Unasked(level)
         /\ Unreturned(level)' \subseteq Unreturned(level)
         /\ Unreturned(level)' # Unreturned(level)
<1> DEFINE n == Top.node
<1>1. n \in NodesOf(level) /\ n \in Visiting
  BY StackTypes DEF SearchOK, Top, Visiting
<1>2. DOMAIN cpp' = DOMAIN cpp \cup {n}
  BY DEF Leave, Memoized
<1>3. /\ \A i \in DOMAIN stack' : i \in DOMAIN stack /\ stack'[i] = stack[i]
      /\ Visiting' = Visiting \ {n}
  BY FrontIs DEF SearchOK, Leave
<1> HIDE DEF n
<1>4. Unvisited(level)' = Unvisited(level)
  BY <1>1, <1>2, <1>3 DEF Unvisited
<1>5. Unasked(level)' \subseteq Unasked(level)
  BY <1>3, <1>4 DEF Unasked
<1>6. Unreturned(level)' \subseteq Unreturned(level) /\ n \in Unreturned(level)
      /\ n \notin Unreturned(level)'
  BY <1>1, <1>2, <1>3 DEF Unreturned, Completed
<1> QED
  BY <1>4, <1>5, <1>6

\* Every step of the search does some of the work.
LEMMA SearchAdvances ==
  ASSUME NEW level \in Levels, in = level, SearchOK(level), Search
  PROVE  /\ Unvisited(level)' \subseteq Unvisited(level)
         /\ Unasked(level)' \subseteq Unasked(level)
         /\ Unreturned(level)' \subseteq Unreturned(level)
         /\ \/ Unvisited(level)' # Unvisited(level)
            \/ Unasked(level)' # Unasked(level)
            \/ Unreturned(level)' # Unreturned(level)
<1>1. ASSUME NEW n \in NodesOf(level), Begin(n)
      PROVE  /\ n \in NodesOf(level) \ DOMAIN cpp /\ n \notin Visiting /\ cpp' = cpp
             /\ stack' = Append(stack, [node |-> n, rest |-> Successors(level, n), best |-> 0])
  <2>1. \A f : <<f>> = Append(<<>>, f)
    OBVIOUS
  <2> QED
    BY <1>1, <2>1 DEF Begin, Frame, Visiting
<1>2. ASSUME stack # <<>>
      PROVE  \A s \in Top.rest : s \in NodesOf(level)
  BY <1>2, StackTypes DEF SearchOK, Top
<1>3. ASSUME stack # <<>>, NEW s \in Top.rest, Known(s)
      PROVE  Takes(s, cpp[s]) /\ cpp[s] \in Nat /\ cpp' = cpp
  BY <1>3 DEF Known, SearchOK, MemoOK
<1>4. ASSUME stack # <<>>, NEW s \in Top.rest, MeetAgain(s)
      PROVE  /\ Takes(s, WeightIn(level, s)) /\ WeightIn(level, s) \in Nat
             /\ DOMAIN cpp' = DOMAIN cpp \cup {s} /\ s \in Visiting
  BY <1>2, <1>4, WeightsAre DEF MeetAgain, Memoized
<1>5. ASSUME stack # <<>>, NEW s \in Top.rest, Descend(s)
      PROVE  /\ s \in NodesOf(level) \ DOMAIN cpp /\ s \notin Visiting /\ cpp' = cpp
             /\ stack' = Append(stack, [node |-> s, rest |-> Successors(level, s), best |-> 0])
  BY <1>2, <1>5 DEF Descend, Frame
<1>6. CASE \E n \in NodesOf(level) : Begin(n)
  BY <1>1, <1>6, CallAdvances
<1>7. ASSUME stack # <<>>, NEW s \in Top.rest, Known(s)
      PROVE  /\ Unvisited(level)' \subseteq Unvisited(level)
             /\ Unasked(level)' \subseteq Unasked(level) /\ Unasked(level)' # Unasked(level)
             /\ Unreturned(level)' \subseteq Unreturned(level)
  BY <1>3, <1>7, TakesAdvances
<1>8. ASSUME stack # <<>>, NEW s \in Top.rest, MeetAgain(s)
      PROVE  /\ Unvisited(level)' \subseteq Unvisited(level)
             /\ Unasked(level)' \subseteq Unasked(level) /\ Unasked(level)' # Unasked(level)
             /\ Unreturned(level)' \subseteq Unreturned(level)
  BY <1>4, <1>8, TakesAdvances
<1>9. ASSUME stack # <<>>, NEW s \in Top.rest, Descend(s)
      PROVE  /\ Unvisited(level)' \subseteq Unvisited(level)
             /\ Unvisited(level)' # Unvisited(level)
             /\ Unasked(level)' \subseteq Unasked(level)
             /\ Unreturned(level)' \subseteq Unreturned(level)
  BY <1>5, <1>9, CallAdvances
<1> QED
  BY <1>6, <1>7, <1>8, <1>9, LeaveAdvances DEF Search

\* The search of a level and the popping of its queue come to an end, with a cycle among the
\* nodes too: every step does some of a work that is finite and never grows.
THEOREM PlansEnd ==
  SchedulerSpec => [][Dispatch => /\ IsFiniteSet(Work(in)) /\ in' = in
                                  /\ Work(in)' \subseteq Work(in)
                                  /\ Work(in)' # Work(in)]_schedulerVars
<1>1. ASSUME PlanInv, Dispatch
      PROVE  /\ IsFiniteSet(Work(in)) /\ in' = in
             /\ Work(in)' \subseteq Work(in) /\ Work(in)' # Work(in)
  <2>1. in \in Levels /\ SearchOK(in) /\ OrderOK(in) /\ in' = in
    BY <1>1 DEF PlanInv, Dispatch, inputVars
  <2>2. /\ Unvisited(in)' \subseteq Unvisited(in)
        /\ Unasked(in)' \subseteq Unasked(in)
        /\ Unreturned(in)' \subseteq Unreturned(in)
        /\ Unpopped(in)' \subseteq Unpopped(in)
        /\ \/ Unvisited(in)' # Unvisited(in)
           \/ Unasked(in)' # Unasked(in)
           \/ Unreturned(in)' # Unreturned(in)
           \/ Unpopped(in)' # Unpopped(in)
    <3>1. CASE Search
      <4>1. Unpopped(in)' = Unpopped(in)
        BY <2>1, <3>1, SearchComesFirst DEF Unpopped
      <4> QED
        BY <2>1, <3>1, <4>1, SearchAdvances DEF Unvisited, Unasked, Unreturned
    <3>2. ASSUME NEW n \in NodesOf(in), Pop(n)
          PROVE  /\ stack' = stack /\ cpp' = cpp
                 /\ Unpopped(in)' \subseteq Unpopped(in) /\ Unpopped(in)' # Unpopped(in)
      <4>1. /\ order' = Append(order, n) /\ n \notin ToSet(order) /\ stack' = stack
            /\ cpp' = cpp /\ order \in Seq(NodesOf(in))
        BY <2>1, <3>2 DEF Pop, OrderOK
      <4>2. ToSet(order') = ToSet(order) \cup {n}
        BY <4>1 DEF ToSet
      <4> QED
        BY <2>1, <4>1, <4>2 DEF Unpopped
    <3>3. CASE \E n \in NodesOf(in) : Pop(n)
      BY <2>1, <3>2, <3>3 DEF Unvisited, Unasked, Unreturned, Completed, Visiting
    <3> QED
      BY <1>1, <3>1, <3>3 DEF Dispatch
  <2> QED
    BY <2>1, <2>2, WorkIsFinite, StepsShrink DEF Work
<1> QED
  BY <1>1, PlanInvariant, PTL DEF SchedulerSpec

\* Of nodes with priorities one comes before the others.
LEMMA OneComesFirst ==
  ASSUME NEW level \in Levels, cpp \in [NodesOf(level) -> Nat],
         NEW S \in SUBSET NodesOf(level), S # {}
  PROVE  \E n \in S : \A m \in S \ {n} : PopsBefore(n, m)
<1> DEFINE HasFirst(T) == \E n \in T : \A m \in T \ {n} : PopsBefore(n, m)
<1> DEFINE G == {k \in Nat : \A T \in SUBSET NodesOf(level) :
                   Cardinality(T) = k /\ T # {} => HasFirst(T)}
<1>1. \A n \in NodesOf(level) : n \in Int /\ cpp[n] \in Nat
  BY LevelsAreFinite
<1>2. \A T \in SUBSET NodesOf(level) : IsFiniteSet(T) /\ Cardinality(T) \in Nat
  BY LevelsAreFinite, FS_Subset, FS_CardinalityType
<1>3. 0 \in G
  <2>1. \A T \in SUBSET NodesOf(level) : Cardinality(T) = 0 => T = {}
    BY <1>2, FS_EmptySet
  <2> QED
    BY <2>1
<1>4. ASSUME NEW k \in Nat, k \in G PROVE k + 1 \in G
  <2> SUFFICES ASSUME NEW T \in SUBSET NodesOf(level), Cardinality(T) = k + 1, T # {}
               PROVE  HasFirst(T)
    OBVIOUS
  <2>1. PICK x \in T : TRUE
    OBVIOUS
  <2> DEFINE R == T \ {x}
  <2>2. R \in SUBSET NodesOf(level) /\ Cardinality(R) = k
    <3>1. Cardinality(R) = Cardinality(T) - 1
      BY <1>2, <2>1, FS_RemoveElement
    <3> QED
      BY <3>1
  <2>3. CASE R = {}
    BY <2>1, <2>3
  <2>4. CASE R # {}
    <3>1. PICK n \in R : \A m \in R \ {n} : PopsBefore(n, m)
      BY <1>4, <2>2, <2>4
    <3>2. PopsBefore(n, x) \/ PopsBefore(x, n)
      BY <1>1, <2>1 DEF PopsBefore
    <3>3. CASE PopsBefore(n, x)
      BY <3>1, <3>3
    <3>4. CASE PopsBefore(x, n)
      <4>1. ASSUME NEW m \in T \ {x} PROVE PopsBefore(x, m)
        <5>1. CASE m = n
          BY <3>4, <5>1
        <5>2. CASE m # n
          <6>1. PopsBefore(n, m)
            BY <3>1, <5>2
          <6>2. /\ n \in Int /\ m \in Int /\ x \in Int
                /\ cpp[n] \in Nat /\ cpp[m] \in Nat /\ cpp[x] \in Nat
            BY <1>1, <2>1
          <6> QED
            BY <3>4, <6>1, <6>2 DEF PopsBefore
        <5> QED
          BY <5>1, <5>2
      <4> QED
        BY <2>1, <4>1
    <3> QED
      BY <3>2, <3>3, <3>4
  <2> QED
    BY <2>3, <2>4
<1>5. \A k \in Nat : k \in G
  <2> HIDE DEF G
  <2> QED
    BY <1>3, <1>4, NaturalsByStep
<1> QED
  BY <1>2, <1>5

\* A plan does not stop before all nodes of its level are popped: a call is open, or a node
\* has no priority yet, or one of the nodes that are left is the maximum of the heap.
THEOREM PlansAreCompleted ==
  SchedulerSpec =>
    [](kind = "dispatch" /\ Unpopped(in) # {} =>
         \/ stack # <<>>
         \/ \E n \in NodesOf(in) : n \notin DOMAIN cpp
         \/ \E n \in Unpopped(in) : \A m \in Unpopped(in) \ {n} : PopsBefore(n, m))
<1>1. ASSUME PlanInv, kind = "dispatch", Unpopped(in) # {}
      PROVE  \/ stack # <<>>
             \/ \E n \in NodesOf(in) : n \notin DOMAIN cpp
             \/ \E n \in Unpopped(in) : \A m \in Unpopped(in) \ {n} : PopsBefore(n, m)
  <2>1. in \in Levels /\ DOMAIN cpp \subseteq NodesOf(in) /\ cpp \in [DOMAIN cpp -> Nat]
    BY <1>1 DEF PlanInv, SearchOK, MemoOK
  <2>2. CASE DOMAIN cpp = NodesOf(in)
    <3>1. Unpopped(in) \in SUBSET NodesOf(in)
      BY DEF Unpopped
    <3> QED
      BY <1>1, <2>1, <2>2, <3>1, OneComesFirst
  <2> QED
    BY <2>1, <2>2
<1> QED
  BY <1>1, PlanInvariant, PTL
=============================================================================
