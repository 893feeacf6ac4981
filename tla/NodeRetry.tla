----------------------------- MODULE NodeRetry -----------------------------
(***************************************************************************)
(* The retry loop around delegate for the agent nodes of one level         *)
(* (executor/runner.rs, executor/resilience.rs): attempts with exponential *)
(* backoff, a circuit breaker of the node's own, one more attempt with     *)
(* another model if the node names one, and a dead letter on failure.      *)
(*                                                                         *)
(* What delegate returns is arbitrary (module Supervisor); a task may be   *)
(* aborted wherever it awaits: the run may end before the level does.      *)
(***************************************************************************)
EXTENDS Integers

CONSTANTS
  Node,         \* agent nodes of a level
  MaxAttempts,  \* MaxAttempts[n]: retry_policy.max_attempts
  BaseBackoff,  \* BaseBackoff[n]: retry_policy.backoff_ms
  Escalating,   \* the nodes with an escalation_model
  Threshold,    \* failures that open the circuit (5)
  MaxWait       \* u64::MAX: backoffs saturate there

ASSUME AttemptsArePositive == MaxAttempts \in [Node -> Nat \ {0}]
ASSUME BackoffsArePositive == BaseBackoff \in [Node -> Nat \ {0}]
ASSUME EscalatingAreNodes == Escalating \subseteq Node
ASSUME ThresholdIsPositive == Threshold \in Nat \ {0}
ASSUME MaxWaitIsNat == MaxWait \in Nat

VARIABLES
  pc,        \* "top" (of the loop), "calling", "publishing", "sleeping", "ended"
  retries,   \* retries
  failures,  \* the circuit's count of failures
  open,      \* the circuit is open
  wait,      \* the last backoff
  letter,    \* the dead letter: "none", "sent", or "lost" (published in vain)
  verdict,   \* "running", "ok", "failed", "aborted"
  made,      \* history: the calls of delegate
  escalated  \* history: those with _escalation_model in their payload

vars == <<pc, retries, failures, open, wait, letter, verdict, made, escalated>>
counters == <<retries, failures, open, wait>>
history == <<made, escalated>>

Least(a, b) == IF a <= b THEN a ELSE b

\* Powers of two, by a recursive function since proofs are to be written about it.
PowerOfTwo[k \in Nat] == IF k = 0 THEN 1 ELSE 2 * PowerOfTwo[k - 1]

\* Mutant: the arithmetic wraps.
BackoffWrapping(base, attempt) == (base * PowerOfTwo[attempt]) % (MaxWait + 1)

\* exponential_backoff_ms: saturating_pow and saturating_mul.
Backoff(base, attempt) == Least(base * Least(PowerOfTwo[attempt], MaxWait), MaxWait)

Init ==
  /\ pc = [n \in Node |-> "top"]
  /\ retries = [n \in Node |-> 0]
  /\ failures = [n \in Node |-> 0]
  /\ open = [n \in Node |-> FALSE]
  /\ wait = [n \in Node |-> 0]
  /\ letter = [n \in Node |-> "none"]
  /\ verdict = [n \in Node |-> "running"]
  /\ made = [n \in Node |-> 0]
  /\ escalated = [n \in Node |-> 0]

End(n, v) ==
  /\ pc' = [pc EXCEPT ![n] = "ended"]
  /\ verdict' = [verdict EXCEPT ![n] = v]

\* Mutant: the task waits for the circuit to close.
SkipWaits(n) ==
  /\ pc[n] = "top"
  /\ retries[n] <= MaxAttempts[n] \/ n \in Escalating
  /\ open[n]
  /\ pc' = [pc EXCEPT ![n] = "sleeping"]
  /\ UNCHANGED <<counters, letter, verdict, history>>

\* The circuit is found open: no call, no dead letter.
Skip(n) ==
  /\ pc[n] = "top"
  /\ retries[n] <= MaxAttempts[n] \/ n \in Escalating
  /\ open[n]
  /\ End(n, "failed")
  /\ UNCHANGED <<counters, letter, history>>

\* delegate is called, with the escalation model in the payload after the last retry.
\* (A node past its last retry without such a model would return Err here.)
Call(n) ==
  /\ pc[n] = "top"
  /\ retries[n] <= MaxAttempts[n] \/ n \in Escalating
  /\ ~open[n]
  /\ pc' = [pc EXCEPT ![n] = "calling"]
  /\ made' = [made EXCEPT ![n] = @ + 1]
  /\ escalated' = [escalated EXCEPT ![n] = IF retries[n] > MaxAttempts[n] THEN @ + 1 ELSE @]
  /\ UNCHANGED <<counters, letter, verdict>>

\* delegate returns Ok: record_success, and the loop is left.
Succeed(n) ==
  /\ pc[n] = "calling"
  /\ failures' = [failures EXCEPT ![n] = 0]
  /\ open' = [open EXCEPT ![n] = FALSE]
  /\ End(n, "ok")
  /\ UNCHANGED <<retries, wait, letter, history>>

RecordFailure(n) ==
  /\ failures' = [failures EXCEPT ![n] = @ + 1]
  /\ open' = [open EXCEPT ![n] = @ \/ failures[n] + 1 >= Threshold]

\* Mutant: one attempt less.
LastAttemptEarly(n) == retries[n] + 1 >= MaxAttempts[n] /\ n \notin Escalating

\* The attempt that has failed is the last, and no other model is to be tried.
LastAttempt(n) == retries[n] >= MaxAttempts[n] /\ n \notin Escalating

\* delegate has returned Err for the last time: the dead letter is next.
GiveUp(n) ==
  /\ pc[n] = "calling"
  /\ LastAttempt(n)
  /\ RecordFailure(n)
  /\ pc' = [pc EXCEPT ![n] = "publishing"]
  /\ UNCHANGED <<retries, wait, letter, verdict, history>>

\* The escalated attempt has failed: no dead letter.
EscalationFails(n) ==
  /\ pc[n] = "calling"
  /\ ~LastAttempt(n)
  /\ retries[n] > MaxAttempts[n]
  /\ RecordFailure(n)
  /\ End(n, "failed")
  /\ UNCHANGED <<retries, wait, letter, history>>

RetryLater(n) ==
  /\ pc[n] = "calling"
  /\ ~LastAttempt(n)
  /\ retries[n] <= MaxAttempts[n]
  /\ RecordFailure(n)
  /\ retries' = [retries EXCEPT ![n] = @ + 1]
  /\ wait' = [wait EXCEPT ![n] = Backoff(BaseBackoff[n], retries[n] + 1)]
  /\ pc' = [pc EXCEPT ![n] = "sleeping"]
  /\ UNCHANGED <<letter, verdict, history>>

Wake(n) ==
  /\ pc[n] = "sleeping"
  /\ pc' = [pc EXCEPT ![n] = "top"]
  /\ UNCHANGED <<counters, letter, verdict, history>>

\* publish_dlq, over NATS or into the local file; its result is ignored.
Publish(n) ==
  /\ pc[n] = "publishing"
  /\ \E result \in {"sent", "lost"} : letter' = [letter EXCEPT ![n] = result]
  /\ End(n, "failed")
  /\ UNCHANGED <<counters, history>>

\* The JoinSet is dropped: another node of the level has failed, an agent's or any other
\* (a Verify command, a gate), or the run itself was dropped.  The task ends where it
\* awaits, or before it was first polled.
Abort(n) ==
  /\ \/ pc[n] \in {"calling", "sleeping", "publishing"}
     \/ pc[n] = "top" /\ made[n] = 0
  /\ End(n, "aborted")
  /\ UNCHANGED <<counters, letter, history>>

----------------------------------------------------------------------------

Answer(n) == Succeed(n) \/ GiveUp(n) \/ EscalationFails(n) \/ RetryLater(n)

Step(n) == Skip(n) \/ Call(n) \/ Answer(n) \/ Wake(n) \/ Publish(n)

Next == \E n \in Node : Step(n) \/ Abort(n)

Spec == Init /\ [][Next]_vars

\* The task is polled, timers fire, and delegate returns (module Serving,
\* TimedCallReturns: every attempt has a timeout).
FairSpec == Spec /\ \A n \in Node : WF_vars(Step(n))

----------------------------------------------------------------------------

TypeOK ==
  /\ pc \in [Node -> {"top", "calling", "publishing", "sleeping", "ended"}]
  /\ retries \in [Node -> Nat]
  /\ failures \in [Node -> Nat]
  /\ open \in [Node -> BOOLEAN]
  /\ wait \in [Node -> 0 .. MaxWait]
  /\ letter \in [Node -> {"none", "sent", "lost"}]
  /\ verdict \in [Node -> {"running", "ok", "failed", "aborted"}]
  /\ made \in [Node -> Nat]
  /\ escalated \in [Node -> Nat]

\* The calls that the workflow promises: the first, max_attempts retries, the escalation.
Promised(n) == MaxAttempts[n] + 1 + (IF n \in Escalating THEN 1 ELSE 0)

\* When a node fails, and what it has lost then: either all that was promised was tried, or
\* the circuit was open first, at exactly its threshold, and then the rest of the retries,
\* the other model and the dead letter are all lost.  There is nothing between: the counts
\* of retries, of calls and of the circuit do not drift apart.
FailsSpentOrOpen ==
  \A n \in Node :
    /\ made[n] <= Promised(n)
    /\ verdict[n] = "failed" =>
         IF Promised(n) <= Threshold
         THEN made[n] = Promised(n)
         ELSE made[n] = Threshold /\ escalated[n] = 0 /\ letter[n] = "none"

\* False of the code: that a node with another model fails only after it was tried.  The
\* circuit of a node with as many retries as the threshold allows opens before that.
EscalatesAfterRetries == \A n \in Escalating : verdict[n] = "failed" => escalated[n] = 1

\* The other model is tried once and last: after the first call and every retry.
EscalatesLast ==
  \A n \in Node : escalated[n] > 0 =>
    n \in Escalating /\ escalated[n] = 1 /\ made[n] = MaxAttempts[n] + 2

\* Which failures are published: those of nodes without escalation that used their
\* retries up before the circuit opened.  No other node is in the dead letters, so an
\* operator who replays them repeats nothing that has succeeded.
LettersOfTheExhausted ==
  \A n \in Node :
    /\ letter[n] # "none" => verdict[n] = "failed"
    /\ verdict[n] = "failed" =>
         (letter[n] # "none" <=> n \notin Escalating /\ MaxAttempts[n] < Threshold)

\* Backoffs grow until they saturate (exponential_backoff_ms): no wait is shorter than
\* the one before it.
BackoffGrows ==
  [][\A n \in Node : retries'[n] # retries[n] =>
       wait'[n] > wait[n] \/ wait'[n] = MaxWait]_vars

\* Every task ends: what Executor assumes of the nodes it waits for.
TaskEnds == \A n \in Node : <>(verdict[n] # "running")

=============================================================================
