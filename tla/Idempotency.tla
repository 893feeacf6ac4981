---------------------------- MODULE Idempotency ----------------------------
(***************************************************************************)
(* The idempotency stores (idempotency.rs) and their use as the module     *)
(* documents it: a caller asks check_idempotency, performs the external    *)
(* effect if the key has no result yet, and stores the result with         *)
(* mark_consumed.                                                          *)
(*                                                                         *)
(* Every method of a store is one critical section under its mutex, and    *)
(* check_idempotency is two of them.  Between any two steps other callers  *)
(* run and the process may end.  The in-memory store appends whatever it   *)
(* is given and forgets all at the end of the process; the SQLite store    *)
(* has a primary key and ignores a second record of a key.                 *)
(***************************************************************************)
EXTENDS Sequences, Naturals

CONSTANTS
  Caller,      \* executions that use the store, one thread each
  Key,         \* idempotency keys
  MaxChecks,   \* bound: a caller calls check_idempotency at most this often
  MaxEnds,     \* bound on the ends of the process
  None         \* no result

ASSUME ChecksIsNat == MaxChecks \in Nat
ASSUME EndsIsNat == MaxEnds \in Nat

\* The result of an effect: whose it was, and which of that caller's for the key.
Result == [by : Caller, n : 1..MaxChecks]

ASSUME NoneIsNoResult == None \notin Result

VARIABLES
  durable,   \* SqliteIdempotencyStore, not InMemoryIdempotencyStore
  records,   \* records[k]: the records of key k, oldest first
  pc,        \* pc[c]: what caller c does next
  key,       \* key[c]: the key c works on
  told,      \* told[c]: what check_idempotency last returned to c
  did,       \* did[c][k]: how often c performed the effect of key k
  lost,      \* lost[c][k]: how many of these the store knows nothing of, or forgot
  checks,    \* checks[c]: how often c called check_idempotency
  ends       \* ends of the process so far

vars == <<durable, records, pc, key, told, did, lost, checks, ends>>

Goto(c, step) == pc' = [pc EXCEPT ![c] = step]

Init ==
  /\ durable \in BOOLEAN
  /\ records = [k \in Key |-> <<>>]
  /\ pc = [c \in Caller |-> "idle"]
  /\ key \in [Caller -> Key]
  /\ told = [c \in Caller |-> None]
  /\ did = [c \in Caller |-> [k \in Key |-> 0]]
  /\ lost = [c \in Caller |-> [k \in Key |-> 0]]
  /\ checks = [c \in Caller |-> 0]
  /\ ends = 0

\* is_consumed, the first half of check_idempotency.
IsConsumed(c, k) ==
  /\ pc[c] = "idle"
  /\ checks[c] < MaxChecks
  /\ checks' = [checks EXCEPT ![c] = @ + 1]
  /\ key' = [key EXCEPT ![c] = k]
  /\ IF records[k] = <<>>
     THEN Goto(c, "act") /\ told' = [told EXCEPT ![c] = None]
     ELSE Goto(c, "read") /\ UNCHANGED told
  /\ UNCHANGED <<durable, records, did, lost, ends>>

\* get_result, the second half: the first record of the key.
GetResult(c) ==
  /\ pc[c] = "read"
  /\ IF records[key[c]] = <<>>
     THEN Goto(c, "act") /\ told' = [told EXCEPT ![c] = None]
     ELSE Goto(c, "idle") /\ told' = [told EXCEPT ![c] = Head(records[key[c]])]
  /\ UNCHANGED <<durable, records, key, did, lost, checks, ends>>

\* A query of the SQLite store fails, and check_idempotency with it.
CheckFails(c) ==
  /\ durable
  /\ pc[c] = "read" \/ (pc[c] = "idle" /\ checks[c] < MaxChecks)
  /\ checks' = [checks EXCEPT ![c] = IF pc[c] = "idle" THEN @ + 1 ELSE @]
  /\ Goto(c, "idle")
  /\ UNCHANGED <<durable, records, key, told, did, lost, ends>>

Effect(c) ==
  /\ pc[c] = "act"
  /\ did' = [did EXCEPT ![c][key[c]] = @ + 1]
  /\ Goto(c, "mark")
  /\ UNCHANGED <<durable, records, key, told, lost, checks, ends>>

\* Mutant: INSERT OR REPLACE.
InsertOrReplace(c) ==
  IF durable THEN <<[by |-> c, n |-> did[c][key[c]]]>>
             ELSE Append(records[key[c]], [by |-> c, n |-> did[c][key[c]]])

\* The records of c's key after mark_consumed: Vec::push, or INSERT OR IGNORE.
Inserted(c) ==
  IF durable /\ records[key[c]] # <<>>
  THEN records[key[c]]
  ELSE Append(records[key[c]], [by |-> c, n |-> did[c][key[c]]])

\* Mutant: the record is stored under the first key that comes to hand.
MarkWrongKey(c) ==
  /\ pc[c] = "mark"
  /\ \E k \in Key : records' = [records EXCEPT ![k] = Inserted(c)]
  /\ Goto(c, "idle")
  /\ UNCHANGED <<durable, key, told, did, lost, checks, ends>>

MarkConsumed(c) ==
  /\ pc[c] = "mark"
  /\ records' = [records EXCEPT ![key[c]] = Inserted(c)]
  /\ Goto(c, "idle")
  /\ UNCHANGED <<durable, key, told, did, lost, checks, ends>>

\* The insert fails: the effect has happened and is not in the store.
MarkFails(c) ==
  /\ durable
  /\ pc[c] = "mark"
  /\ lost' = [lost EXCEPT ![c][key[c]] = @ + 1]
  /\ Goto(c, "idle")
  /\ UNCHANGED <<durable, records, key, told, did, checks, ends>>

\* The process ends between any two steps and the callers start over.
EndOfProcess ==
  /\ ends < MaxEnds
  /\ ends' = ends + 1
  /\ pc' = [c \in Caller |-> "idle"]
  /\ told' = [c \in Caller |-> None]
  /\ records' = IF durable THEN records ELSE [k \in Key |-> <<>>]
  /\ lost' = [c \in Caller |-> [k \in Key |->
               IF ~durable THEN did[c][k]
               ELSE IF pc[c] = "mark" /\ key[c] = k THEN lost[c][k] + 1
               ELSE lost[c][k]]]
  /\ UNCHANGED <<durable, key, did, checks>>

Next ==
  \/ \E c \in Caller :
       \/ \E k \in Key : IsConsumed(c, k)
       \/ GetResult(c) \/ CheckFails(c) \/ Effect(c) \/ MarkConsumed(c) \/ MarkFails(c)
  \/ EndOfProcess

Spec == Init /\ [][Next]_vars

----------------------------------------------------------------------------

\* list_for_execution: the positions of c's records of key k.
ListForExecution(c, k) == {i \in DOMAIN records[k] : records[k][i].by = c}

TypeOK ==
  /\ durable \in BOOLEAN
  /\ records \in [Key -> Seq(Result)]
  /\ pc \in [Caller -> {"idle", "read", "act", "mark"}]
  /\ key \in [Caller -> Key]
  /\ told \in [Caller -> Result \cup {None}]
  /\ did \in [Caller -> [Key -> Nat]]
  /\ lost \in [Caller -> [Key -> Nat]]
  /\ checks \in [Caller -> Nat]
  /\ ends \in Nat

\* "Must not be duplicated on replay", as far as look-up, effect and record can keep it:
\* the record comes after the effect, so two callers may both perform it, and one caller
\* performs it again, but only for each time that a failed insert or the end of the process
\* lost what it did, also when other callers' records of the key come between.
RepeatsOnlyTheLost == \A c \in Caller, k \in Key : did[c][k] <= 1 + lost[c][k]

\* False of the code: "A new key is recorded before the work runs", so that a repeated
\* key never runs it again.
RecordedBeforeWork == \A c \in Caller : pc[c] = "act" => records[key[c]] # <<>>

\* An execution lists each key at most once, in the store that keeps duplicates too.
ListedOnce ==
  \A c \in Caller, k \in Key : \A i, j \in ListForExecution(c, k) : i = j

\* Both stores are write-once ledgers, however callers race (first wins), and what
\* check_idempotency tells is in the ledger although it takes the lock twice.
Ledger == INSTANCE EffectLedger WITH
  ledger <- [k \in Key |-> IF records[k] = <<>> THEN None ELSE Head(records[k])]

ImplementsLedger == Ledger!Spec
=============================================================================
