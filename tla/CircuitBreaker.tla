--------------------------- MODULE CircuitBreaker ---------------------------
(***************************************************************************)
(* The circuit breaker of utils/retry.ts, one for each provider.           *)
(*                                                                         *)
(* call() looks at the breaker when it starts and once more when the       *)
(* awaited function has settled.  Many calls are in between, so an answer  *)
(* may arrive in another state than the one that admitted the call.        *)
(*                                                                         *)
(* `rested` says that resetTimeoutMs has passed since the last failure.    *)
(* The code only looks at the clock in the open state; elsewhere `rested`  *)
(* is kept FALSE.  A count of failures is only compared with the           *)
(* threshold, so counting stops there.                                     *)
(***************************************************************************)
EXTENDS Naturals

CONSTANTS Provider,   \* who has a breaker
          Threshold   \* failures in a row that open a closed breaker

ASSUME ThresholdAssumption == Threshold \in Nat \ {0}

VARIABLE breaker

BreakerState == {"closed", "open", "half-open"}

Breaker == [state: BreakerState, failures: 0..Threshold, rested: BOOLEAN]

Fresh == [state |-> "closed", failures |-> 0, rested |-> FALSE]

BreakerInit == breaker = [p \in Provider |-> Fresh]

\* Does call() run its function?
Admits(b) == b.state = "open" => b.rested

\* An open breaker that has rested is half open from the first call on.
Entered(b) ==
    IF b.state = "open"
    THEN [state |-> "half-open", failures |-> b.failures, rested |-> FALSE]
    ELSE b

\* Mutant: a success closes an open breaker too.
AfterSuccessCloses(b) == [state |-> "closed", failures |-> 0, rested |-> b.rested]

\* A success resets the count in every state, and closes a half-open breaker.
AfterSuccess(b) ==
    [state    |-> IF b.state = "half-open" THEN "closed" ELSE b.state,
     failures |-> 0,
     rested   |-> b.rested]

AfterFailure(b) ==
    LET n == IF b.failures < Threshold THEN b.failures + 1 ELSE Threshold
    IN  [state    |-> IF b.state = "half-open" \/ n >= Threshold
                      THEN "open" ELSE b.state,
         failures |-> n,
         rested   |-> FALSE]

\* What getState() reports.
Observed(b) == IF b.state = "open" /\ b.rested THEN "half-open" ELSE b.state

\* resetTimeoutMs passes without a failure.
Rest(p) ==
    /\ breaker[p].state = "open"
    /\ ~ breaker[p].rested
    /\ breaker' = [breaker EXCEPT ![p].rested = TRUE]

=============================================================================
