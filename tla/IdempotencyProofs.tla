------------------------- MODULE IdempotencyProofs -------------------------
(***************************************************************************)
(* Proofs about module Idempotency, for any callers and keys, both kinds   *)
(* of store and any bounds.                                                *)
(***************************************************************************)
EXTENDS Idempotency, TLAPS

\* Every effect was preceded by a check, and numbers the result it makes.
Counted(c, k) ==
  /\ checks[c] <= MaxChecks
  /\ did[c][k] <= checks[c]
  /\ pc[c] = "act" => did[c][k] < checks[c]
  /\ pc[c] = "mark" /\ key[c] = k => did[c][k] > 0

\* Effects of c for k are lost, but one at most: that one is in the store, or about to be.
Accounted(c, k) ==
  /\ did[c][k] <= 1 + lost[c][k]
  /\ records[k] = <<>> /\ ~(pc[c] = "mark" /\ key[c] = k) => did[c][k] <= lost[c][k]
  /\ pc[c] = "act" /\ key[c] = k => did[c][k] <= lost[c][k]

\* A caller that acts or is about to store its result has no record of the key.
Unlisted(c, k) ==
  pc[c] \in {"act", "mark"} /\ key[c] = k => ListForExecution(c, k) = {}

Once(c, k) == \A i, j \in ListForExecution(c, k) : i = j

\* What is_consumed found is still there for get_result.
StillThere(c) == pc[c] = "read" => records[key[c]] # <<>>

KeyInv(c, k) == Counted(c, k) /\ Accounted(c, k) /\ Unlisted(c, k) /\ Once(c, k)

IInv ==
  /\ TypeOK
  /\ \A c \in Caller : StillThere(c)
  /\ \A c \in Caller, k \in Key : KeyInv(c, k)

\* The record that a caller stores next.
Own(c) == [by |-> c, n |-> did[c][key[c]]]

----------------------------------------------------------------------------

\* The record a caller stores is a result: its number counts checked effects.
LEMMA OwnIsResult ==
  ASSUME IInv, NEW c \in Caller, pc[c] = "mark"
  PROVE  Own(c) \in Result
<1>1. key[c] \in Key /\ did[c][key[c]] \in Nat /\ checks[c] \in Nat
  BY DEF IInv, TypeOK
<1>2. Counted(c, key[c])
  BY <1>1 DEF IInv, KeyInv
<1>3. did[c][key[c]] \in 1..MaxChecks
  BY <1>1, <1>2, ChecksIsNat DEF Counted
<1> QED
  BY <1>3 DEF Own, Result

\* What mark_consumed leaves of a key: its records, or these and one more.
LEMMA InsertedIs ==
  ASSUME IInv, NEW c \in Caller, pc[c] = "mark"
  PROVE  /\ Inserted(c) \in Seq(Result)
         /\ \/ Inserted(c) = records[key[c]] /\ records[key[c]] # <<>>
            \/ Inserted(c) = Append(records[key[c]], Own(c))
         /\ Inserted(c) # <<>>
<1>1. records[key[c]] \in Seq(Result)
  BY DEF IInv, TypeOK
<1>2. Own(c) \in Result
  BY OwnIsResult
<1>3. Append(records[key[c]], Own(c)) \in Seq(Result) /\ Append(records[key[c]], Own(c)) # <<>>
  BY <1>1, <1>2
<1> QED
  BY <1>1, <1>2, <1>3 DEF Inserted, Own

\* The invariant holds at the start.
LEMMA InitInv == Init => IInv
<1> SUFFICES ASSUME Init PROVE IInv
  OBVIOUS
<1>1. TypeOK
  <2>1. <<>> \in Seq(Result)
    OBVIOUS
  <2> QED
    BY <2>1 DEF Init, TypeOK
<1>2. \A c \in Caller : StillThere(c)
  BY DEF Init, StillThere
<1>3. \A c \in Caller, k \in Key : KeyInv(c, k)
  BY ChecksIsNat DEF Init, KeyInv, Counted, Accounted, Unlisted, Once, ListForExecution
<1> QED
  BY <1>1, <1>2, <1>3 DEF IInv

\* is_consumed keeps the invariant.
LEMMA IsConsumedInv ==
  ASSUME IInv, NEW d \in Caller, NEW x \in Key, IsConsumed(d, x)
  PROVE  IInv'
<1> USE DEF IsConsumed, Goto, IInv
<1>0. /\ pc' = [pc EXCEPT ![d] = "act"] \/ pc' = [pc EXCEPT ![d] = "read"]
      /\ told' = [told EXCEPT ![d] = None] \/ told' = told
      /\ checks' = [checks EXCEPT ![d] = @ + 1] /\ checks[d] < MaxChecks
      /\ key' = [key EXCEPT ![d] = x]
      /\ UNCHANGED <<durable, records, did, lost, ends>>
  OBVIOUS
<1>1. TypeOK'
  <2> HIDE DEF IsConsumed, Goto
  <2>1. checks' \in [Caller -> Nat] /\ key' \in [Caller -> Key]
    BY <1>0 DEF TypeOK
  <2>2. pc' \in [Caller -> {"idle", "read", "act", "mark"}]
    BY <1>0 DEF TypeOK
  <2>3. told' \in [Caller -> Result \cup {None}]
    BY <1>0 DEF TypeOK
  <2> QED
    BY <1>0, <2>1, <2>2, <2>3 DEF TypeOK
<1>2. \A c \in Caller : StillThere(c)'
  BY DEF TypeOK, StillThere
<1>3. ASSUME NEW c \in Caller, NEW k \in Key PROVE KeyInv(c, k)'
  <2>0. KeyInv(c, k)
    OBVIOUS
  <2>1. Counted(c, k)'
    <3> HIDE DEF IsConsumed, Goto
    <3>1. checks'[c] = (IF c = d THEN checks[c] + 1 ELSE checks[c])
      BY <1>0 DEF TypeOK
    <3>2. /\ pc'[c] = "mark" => pc[c] = "mark" /\ key'[c] = key[c]
          /\ pc'[c] = "act" => c = d \/ pc[c] = "act"
      BY <1>0 DEF TypeOK
    <3>3. did[c][k] \in Nat /\ checks[c] \in Nat /\ did' = did /\ checks[d] < MaxChecks
      BY <1>0 DEF TypeOK
    <3> QED
      BY <2>0, <3>1, <3>2, <3>3, ChecksIsNat DEF KeyInv, Counted
  <2>2. Accounted(c, k)'
    BY <2>0 DEF KeyInv, Accounted, TypeOK
  <2>3. ListForExecution(c, k)' = ListForExecution(c, k)
    BY DEF ListForExecution
  <2>4. Unlisted(c, k)'
    <3>1. records[k] = <<>> => ListForExecution(c, k) = {}
      BY DEF ListForExecution
    <3> QED
      BY <2>0, <2>3, <3>1 DEF KeyInv, Unlisted, TypeOK
  <2>5. Once(c, k)'
    BY <2>0, <2>3 DEF KeyInv, Once
  <2> QED
    BY <2>1, <2>2, <2>4, <2>5 DEF KeyInv
<1> QED
  BY <1>1, <1>2, <1>3

\* get_result keeps the invariant.
LEMMA GetResultInv ==
  ASSUME IInv, NEW d \in Caller, GetResult(d)
  PROVE  IInv'
<1> USE DEF GetResult, Goto, IInv
<1>0. records[key[d]] # <<>> /\ pc' = [pc EXCEPT ![d] = "idle"]
  BY DEF StillThere
<1>1. TypeOK'
  <2>1. records[key[d]] \in Seq(Result)
    BY DEF TypeOK
  <2>2. Head(records[key[d]]) \in Result
    BY <1>0, <2>1
  <2> QED
    BY <1>0, <2>2 DEF TypeOK
<1>2. \A c \in Caller : StillThere(c)'
  BY <1>0 DEF TypeOK, StillThere
<1>3. ASSUME NEW c \in Caller, NEW k \in Key PROVE KeyInv(c, k)'
  <2>0. KeyInv(c, k)
    OBVIOUS
  <2>3. ListForExecution(c, k)' = ListForExecution(c, k)
    BY DEF ListForExecution
  <2> QED
    BY <1>0, <2>0, <2>3 DEF KeyInv, Counted, Accounted, Unlisted, Once, TypeOK
<1> QED
  BY <1>1, <1>2, <1>3

\* A failed query keeps the invariant.
LEMMA CheckFailsInv ==
  ASSUME IInv, NEW d \in Caller, CheckFails(d)
  PROVE  IInv'
<1> USE DEF CheckFails, Goto, IInv
<1>1. TypeOK'
  BY DEF TypeOK
<1>2. \A c \in Caller : StillThere(c)'
  BY DEF TypeOK, StillThere
<1>3. ASSUME NEW c \in Caller, NEW k \in Key PROVE KeyInv(c, k)'
  <2>0. KeyInv(c, k)
    OBVIOUS
  <2>1. Counted(c, k)'
    <3>1. checks'[c] = checks[c] \/ (checks'[c] = checks[c] + 1 /\ checks[c] < MaxChecks)
      BY DEF TypeOK
    <3>2. pc'[c] # "idle" => pc'[c] = pc[c]
      BY DEF TypeOK
    <3>3. did[c][k] \in Nat /\ checks[c] \in Nat /\ did' = did /\ key' = key
      BY DEF TypeOK
    <3> HIDE DEF CheckFails, Goto
    <3> QED
      BY <2>0, <3>1, <3>2, <3>3, ChecksIsNat DEF KeyInv, Counted
  <2>3. ListForExecution(c, k)' = ListForExecution(c, k)
    BY DEF ListForExecution
  <2> QED
    BY <2>0, <2>1, <2>3 DEF KeyInv, Accounted, Unlisted, Once, TypeOK
<1> QED
  BY <1>1, <1>2, <1>3

\* The effect keeps the invariant.
LEMMA EffectInv ==
  ASSUME IInv, NEW d \in Caller, Effect(d)
  PROVE  IInv'
<1> USE DEF Effect, Goto, IInv
<1>1. TypeOK'
  BY DEF TypeOK
<1>2. \A c \in Caller : StillThere(c)'
  BY DEF TypeOK, StillThere
<1>3. ASSUME NEW c \in Caller, NEW k \in Key PROVE KeyInv(c, k)'
  <2>0. KeyInv(c, k)
    OBVIOUS
  <2>1. did'[c][k] = IF c = d /\ k = key[d] THEN did[c][k] + 1 ELSE did[c][k]
    BY DEF TypeOK
  <2>2. pc'[c] = IF c = d THEN "mark" ELSE pc[c]
    BY DEF TypeOK
  <2>3. ListForExecution(c, k)' = ListForExecution(c, k)
    BY DEF ListForExecution
  <2>4. did[c][k] \in Nat /\ lost[c][k] \in Nat /\ checks[c] \in Nat
    BY DEF TypeOK
  <2>5. Counted(c, k)'
    BY <2>0, <2>1, <2>2, <2>4, ChecksIsNat DEF KeyInv, Counted
  <2>6. Accounted(c, k)'
    BY <2>0, <2>1, <2>2, <2>4 DEF KeyInv, Accounted
  <2>7. Unlisted(c, k)' /\ Once(c, k)'
    BY <2>0, <2>2, <2>3 DEF KeyInv, Unlisted, Once
  <2> QED
    BY <2>5, <2>6, <2>7 DEF KeyInv
<1> QED
  BY <1>1, <1>2, <1>3

\* mark_consumed keeps the invariant, when another caller has been first too.
LEMMA MarkConsumedInv ==
  ASSUME IInv, NEW d \in Caller, MarkConsumed(d)
  PROVE  IInv'
<1> USE DEF MarkConsumed, Goto
<1>0. /\ Inserted(d) \in Seq(Result)
      /\ \/ Inserted(d) = records[key[d]] /\ records[key[d]] # <<>>
         \/ Inserted(d) = Append(records[key[d]], Own(d))
      /\ Inserted(d) # <<>>
  BY InsertedIs
<1>1. TypeOK'
  BY <1>0 DEF IInv, TypeOK
<1>2. \A k \in Key : records'[k] = IF k = key[d] THEN Inserted(d) ELSE records[k]
  BY DEF IInv, TypeOK
<1>3. \A c \in Caller : pc'[c] = IF c = d THEN "idle" ELSE pc[c]
  BY DEF IInv, TypeOK
<1>4. \A c \in Caller : StillThere(c)'
  BY <1>0, <1>2, <1>3 DEF IInv, TypeOK, StillThere
<1>5. ASSUME NEW c \in Caller, NEW k \in Key PROVE KeyInv(c, k)'
  <2>0. KeyInv(c, k)
    BY DEF IInv
  <2>1. Counted(c, k)'
    BY <2>0, <1>3 DEF KeyInv, Counted
  <2>2. Accounted(c, k)'
    <3>1. did[c][k] \in Nat /\ lost[c][k] \in Nat
      BY DEF IInv, TypeOK
    <3> QED
      BY <2>0, <1>0, <1>2, <1>3, <3>1 DEF KeyInv, Accounted
  <2>3. CASE c = d /\ k = key[d] /\ Inserted(d) = Append(records[k], Own(d))
    <3>1. records[k] \in Seq(Result)
      BY DEF IInv, TypeOK
    <3>2. ListForExecution(c, k) = {}
      BY <2>0, <2>3 DEF KeyInv, Unlisted
    <3>3. \A i \in DOMAIN records[k] : records[k][i].by # c
      BY <3>2 DEF ListForExecution
    <3>4. records'[k] = Append(records[k], Own(d))
      BY <1>2, <2>3
    <3>5. \A i \in DOMAIN records'[k] :
            i = Len(records[k]) + 1
            \/ (i \in DOMAIN records[k] /\ records'[k][i] = records[k][i])
      BY <3>1, <3>4
    <3>6. ListForExecution(c, k)' \subseteq {Len(records[k]) + 1}
      BY <3>3, <3>5 DEF ListForExecution
    <3>7. Once(c, k)'
      BY <3>6 DEF Once
    <3>8. Unlisted(c, k)'
      BY <1>3, <2>3 DEF Unlisted
    <3> QED
      BY <2>1, <2>2, <3>7, <3>8 DEF KeyInv
  <2>4. CASE ~(c = d /\ k = key[d] /\ Inserted(d) = Append(records[k], Own(d)))
    <3>1. ListForExecution(c, k)' = ListForExecution(c, k)
      <4>1. CASE records'[k] = records[k]
        BY <4>1 DEF ListForExecution
      <4>2. CASE records'[k] # records[k]
        <5>1. k = key[d] /\ c # d /\ records'[k] = Append(records[k], Own(d))
          BY <4>2, <1>0, <1>2, <2>4
        <5>2. records[k] \in Seq(Result)
          BY DEF IInv, TypeOK
        <5>3. Own(d).by # c
          BY <5>1 DEF Own
        <5>4. /\ DOMAIN records'[k] = DOMAIN records[k] \cup {Len(records[k]) + 1}
              /\ records'[k][Len(records[k]) + 1] = Own(d)
              /\ \A i \in DOMAIN records[k] : records'[k][i] = records[k][i]
          BY <5>1, <5>2, SMTT(30)
        <5>5. \A i \in DOMAIN records'[k] :
                i \in DOMAIN records[k] \/ records'[k][i].by # c
          BY <5>3, <5>4
        <5>6. Len(records[k]) + 1 \notin DOMAIN records[k]
          BY <5>2
        <5> QED
          BY <5>3, <5>4, <5>5, <5>6 DEF ListForExecution
      <4> QED
        BY <4>1, <4>2
    <3>2. Unlisted(c, k)' /\ Once(c, k)'
      BY <2>0, <1>3, <3>1 DEF KeyInv, Unlisted, Once
    <3> QED
      BY <2>1, <2>2, <3>2 DEF KeyInv
  <2> QED
    BY <2>3, <2>4
<1> QED
  BY <1>1, <1>4, <1>5 DEF IInv

\* A failed insert keeps the invariant: its effect counts as lost.
LEMMA MarkFailsInv ==
  ASSUME IInv, NEW d \in Caller, MarkFails(d)
  PROVE  IInv'
<1> USE DEF MarkFails, Goto, IInv
<1>1. TypeOK'
  BY DEF TypeOK
<1>2. \A c \in Caller : StillThere(c)'
  BY DEF TypeOK, StillThere
<1>3. ASSUME NEW c \in Caller, NEW k \in Key PROVE KeyInv(c, k)'
  <2>0. KeyInv(c, k)
    OBVIOUS
  <2>1. lost'[c][k] = IF c = d /\ k = key[d] THEN lost[c][k] + 1 ELSE lost[c][k]
    BY DEF TypeOK
  <2>2. pc'[c] = IF c = d THEN "idle" ELSE pc[c]
    BY DEF TypeOK
  <2>3. ListForExecution(c, k)' = ListForExecution(c, k)
    BY DEF ListForExecution
  <2>4. did[c][k] \in Nat /\ lost[c][k] \in Nat
    BY DEF TypeOK
  <2>5. Accounted(c, k)'
    BY <2>0, <2>1, <2>2, <2>4 DEF KeyInv, Accounted
  <2> QED
    BY <2>0, <2>2, <2>3, <2>5 DEF KeyInv, Counted, Unlisted, Once
<1> QED
  BY <1>1, <1>2, <1>3

\* The end of the process keeps the invariant: an unstored effect counts as lost, and
\* without a database every effect does.
LEMMA EndOfProcessInv ==
  ASSUME IInv, EndOfProcess
  PROVE  IInv'
<1> USE DEF EndOfProcess, IInv
<1>1. TypeOK'
  <2>1. <<>> \in Seq(Result)
    OBVIOUS
  <2>2. records' \in [Key -> Seq(Result)]
    BY <2>1 DEF TypeOK
  <2>3. ASSUME NEW c \in Caller, NEW k \in Key
        PROVE (IF ~durable THEN did[c][k]
               ELSE IF pc[c] = "mark" /\ key[c] = k THEN lost[c][k] + 1
               ELSE lost[c][k]) \in Nat
    BY DEF TypeOK
  <2>4. lost' \in [Caller -> [Key -> Nat]]
    BY <2>3
  <2> QED
    BY <2>2, <2>4, EndsIsNat DEF TypeOK
<1>2. \A c \in Caller : StillThere(c)'
  BY DEF TypeOK, StillThere
<1>3. ASSUME NEW c \in Caller, NEW k \in Key PROVE KeyInv(c, k)'
  <2>0. KeyInv(c, k)
    OBVIOUS
  <2>1. lost'[c][k] = IF ~durable THEN did[c][k]
                      ELSE IF pc[c] = "mark" /\ key[c] = k THEN lost[c][k] + 1
                      ELSE lost[c][k]
    OBVIOUS
  <2>2. pc'[c] = "idle"
    OBVIOUS
  <2>3. did[c][k] \in Nat /\ lost[c][k] \in Nat
    BY DEF TypeOK
  <2>4. Accounted(c, k)'
    BY <2>0, <2>1, <2>2, <2>3 DEF KeyInv, Accounted
  <2>5. Counted(c, k)' /\ Unlisted(c, k)'
    BY <2>0, <2>2 DEF KeyInv, Counted, Unlisted
  <2>6. Once(c, k)'
    <3>1. records'[k] = records[k] \/ records'[k] = <<>>
      OBVIOUS
    <3>2. CASE records'[k] = records[k]
      BY <2>0, <3>2 DEF KeyInv, Once, ListForExecution
    <3>3. CASE records'[k] = <<>>
      BY <3>3 DEF Once, ListForExecution
    <3> QED
      BY <3>1, <3>2, <3>3
  <2> QED
    BY <2>4, <2>5, <2>6 DEF KeyInv
<1> QED
  BY <1>1, <1>2, <1>3

\* Stuttering keeps the invariant.
LEMMA StutterInv == IInv /\ UNCHANGED vars => IInv'
BY DEF IInv, vars, TypeOK, StillThere, KeyInv, Counted, Accounted, Unlisted, Once,
       ListForExecution

\* The invariant of the stores and their callers.
THEOREM Invariance == Spec => []IInv
<1>1. IInv /\ [Next]_vars => IInv'
  BY IsConsumedInv, GetResultInv, CheckFailsInv, EffectInv, MarkConsumedInv, MarkFailsInv,
     EndOfProcessInv, StutterInv DEF Next
<1> QED
  BY InitInv, <1>1, PTL DEF Spec

\* The variables of the stores keep their types.
THEOREM TypeCorrect == Spec => []TypeOK
<1>1. IInv => TypeOK
  BY DEF IInv
<1> QED
  BY <1>1, Invariance, PTL

\* A caller repeats an effect only for the effects that were lost.
THEOREM NoNeedlessRepeat == Spec => []RepeatsOnlyTheLost
<1>1. IInv => RepeatsOnlyTheLost
  BY DEF IInv, KeyInv, Accounted, RepeatsOnlyTheLost
<1> QED
  BY <1>1, Invariance, PTL

\* An execution lists each key at most once, in memory and in the database.
THEOREM Listed == Spec => []ListedOnce
<1>1. IInv => ListedOnce
  BY DEF IInv, KeyInv, Once, ListedOnce
<1> QED
  BY <1>1, Invariance, PTL

----------------------------------------------------------------------------

\* The first record of a key.
First(k) == IF records[k] = <<>> THEN None ELSE Head(records[k])

\* The stores start as an empty ledger.
LEMMA InitMaps == Init => Ledger!Init
BY DEF Init, Ledger!Init

\* Every step of a caller is one of the ledger or none.
LEMMA StepMaps == IInv /\ IInv' /\ [Next]_vars => [Ledger!Next]_(Ledger!vars)
<1> SUFFICES ASSUME IInv, IInv', [Next]_vars PROVE [Ledger!Next]_(Ledger!vars)
  OBVIOUS
<1> DEFINE led == [k \in Key |-> First(k)]
<1>1. CASE UNCHANGED vars
  BY <1>1 DEF vars, Ledger!vars
<1>2. ASSUME NEW c \in Caller, NEW x \in Key, IsConsumed(c, x)
      PROVE Ledger!Tell(c, x) \/ UNCHANGED Ledger!vars
  BY <1>2 DEF IsConsumed, Ledger!Tell, Ledger!vars, IInv, TypeOK
<1>3. ASSUME NEW c \in Caller, GetResult(c)
      PROVE Ledger!Tell(c, key[c])
  <2>1. key[c] \in Key
    BY DEF IInv, TypeOK
  <2> QED
    BY <1>3, <2>1 DEF GetResult, Ledger!Tell
<1>4. ASSUME NEW c \in Caller, CheckFails(c) \/ Effect(c) \/ MarkFails(c)
      PROVE UNCHANGED Ledger!vars
  BY <1>4 DEF CheckFails, Effect, MarkFails, Ledger!vars
<1>5. ASSUME NEW c \in Caller, NEW x \in Key, NEW r \in Result,
             x = key[c], r = Own(c), MarkConsumed(c)
      PROVE Ledger!Record(x, r) \/ UNCHANGED Ledger!vars
  <2>0. key[c] \in Key /\ records[key[c]] \in Seq(Result) /\ pc[c] = "mark"
    BY <1>5 DEF IInv, TypeOK, MarkConsumed
  <2>1. /\ \/ Inserted(c) = records[key[c]] /\ records[key[c]] # <<>>
           \/ Inserted(c) = Append(records[key[c]], Own(c))
        /\ Inserted(c) # <<>>
    BY <2>0, InsertedIs
  <2>2. \A k \in Key : records'[k] = IF k = key[c] THEN Inserted(c) ELSE records[k]
    BY <1>5 DEF MarkConsumed, IInv, TypeOK
  <2>3. UNCHANGED <<told, durable>>
    BY <1>5 DEF MarkConsumed
  <2>4. CASE records[key[c]] = <<>>
    <3>1. Inserted(c) = <<Own(c)>>
      BY <2>1, <2>4
    <3>2. Head(Inserted(c)) = Own(c)
      BY <3>1
    <3>3. \A k \in Key : First(k)' = IF k = key[c] THEN Own(c) ELSE First(k)
      BY <2>1, <2>2, <3>2 DEF First
    <3>4. led' = [led EXCEPT ![key[c]] = Own(c)]
      BY <3>3
    <3>5. led[key[c]] = None
      BY <2>0, <2>4 DEF First
    <3> QED
      BY <1>5, <2>3, <3>4, <3>5 DEF Ledger!Record, First
  <2>5. CASE records[key[c]] # <<>>
    <3>1. Head(Inserted(c)) = Head(records[key[c]])
      BY <2>0, <2>1, <2>5
    <3>2. \A k \in Key : First(k)' = First(k)
      BY <2>1, <2>2, <2>5, <3>1 DEF First
    <3>3. led' = led
      BY <3>2
    <3> QED
      BY <2>3, <3>3 DEF Ledger!vars, First
  <2> QED
    BY <2>4, <2>5
<1>6. ASSUME EndOfProcess PROVE Ledger!EndOfProcess
  <2>1. CASE durable
    BY <1>6, <2>1 DEF EndOfProcess, Ledger!EndOfProcess
  <2>2. CASE ~durable
    BY <1>6, <2>2 DEF EndOfProcess, Ledger!EndOfProcess
  <2> QED
    BY <2>1, <2>2
<1>7. \A c \in Caller : key[c] \in Key
  BY DEF IInv, TypeOK
<1>8. \A c \in Caller : MarkConsumed(c) => Own(c) \in Result
  BY OwnIsResult DEF MarkConsumed
<1> HIDE DEF led
<1> SUFFICES ASSUME Next PROVE Ledger!Next \/ UNCHANGED Ledger!vars
  BY <1>1
<1>9. ASSUME NEW c \in Caller,
             \/ \E k \in Key : IsConsumed(c, k)
             \/ GetResult(c) \/ CheckFails(c) \/ Effect(c) \/ MarkConsumed(c) \/ MarkFails(c)
      PROVE Ledger!Next \/ UNCHANGED Ledger!vars
  <2>1. ASSUME NEW k \in Key, Ledger!Tell(c, k) PROVE Ledger!Next
    BY <2>1 DEF Ledger!Next
  <2>3. CASE \E k \in Key : IsConsumed(c, k)
    BY <2>3, <1>2, <2>1
  <2>4. CASE GetResult(c)
    BY <2>4, <1>3, <1>7, <2>1
  <2>5. CASE CheckFails(c) \/ Effect(c) \/ MarkFails(c)
    BY <2>5, <1>4
  <2>6. CASE MarkConsumed(c)
    <3>1. key[c] \in Key /\ Own(c) \in Result
      BY <2>6, <1>7, <1>8
    <3>2. \E k \in Key, r \in Result : k = key[c] /\ r = Own(c)
      BY <3>1
    <3>3. PICK k \in Key, r \in Result : k = key[c] /\ r = Own(c)
      BY <3>2
    <3>4. Ledger!Record(k, r) \/ UNCHANGED Ledger!vars
      BY <2>6, <1>5, <3>3
    <3> QED
      BY <3>4 DEF Ledger!Next
  <2> QED
    BY <1>9, <2>3, <2>4, <2>5, <2>6
<1> QED
  BY <1>6, <1>9 DEF Next, Ledger!Next

\* Both stores implement the write-once ledger, check_idempotency's two locks included.
THEOREM Implements == Spec => ImplementsLedger
<1> QED
  BY InitMaps, StepMaps, Invariance, PTL DEF Spec, ImplementsLedger, Ledger!Spec
=============================================================================
