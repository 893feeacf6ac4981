---------------------------- MODULE EffectLedger ----------------------------
(***************************************************************************)
(* What an idempotency store promises (IdempotencyStore in idempotency.rs): *)
(* a write-once ledger of external effects.  The first result recorded for *)
(* a key is the one every later caller is told, and only the end of the    *)
(* process takes it out of a ledger that is not durable.                   *)
(***************************************************************************)
CONSTANTS Caller, Key, Result, None

VARIABLES
  ledger,   \* ledger[k]: the result recorded for key k, or None
  told,     \* told[c]: what caller c was last told
  durable   \* the ledger outlives the process

vars == <<ledger, told, durable>>

Init ==
  /\ ledger = [k \in Key |-> None]
  /\ told = [c \in Caller |-> None]
  /\ durable \in BOOLEAN

Record(k, r) ==
  /\ ledger[k] = None
  /\ ledger' = [ledger EXCEPT ![k] = r]
  /\ UNCHANGED <<told, durable>>

Tell(c, k) ==
  /\ told' = [told EXCEPT ![c] = ledger[k]]
  /\ UNCHANGED <<ledger, durable>>

EndOfProcess ==
  /\ ledger' = IF durable THEN ledger ELSE [k \in Key |-> None]
  /\ told' = [c \in Caller |-> None]
  /\ UNCHANGED durable

Next ==
  \/ \E k \in Key, r \in Result : Record(k, r)
  \/ \E c \in Caller, k \in Key : Tell(c, k)
  \/ EndOfProcess

Spec == Init /\ [][Next]_vars
=============================================================================
