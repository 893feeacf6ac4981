---------------------------- MODULE MCNodeRetry ----------------------------
(***************************************************************************)
(* Four policies: retries that end before, with and after the circuit      *)
(* opens, with and without escalation.                                     *)
(***************************************************************************)
EXTENDS NodeRetry, TLC

CONSTANTS short, long, shortEscalating, longEscalating

MCNode == {short, long, shortEscalating, longEscalating}
MCMaxAttempts == short :> 1 @@ long :> 5 @@ shortEscalating :> 1 @@ longEscalating :> 4
MCBaseBackoff == short :> 1 @@ long :> 3 @@ shortEscalating :> 1 @@ longEscalating :> 5
MCEscalating == {shortEscalating, longEscalating}
=============================================================================
