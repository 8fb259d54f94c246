---------------------------- MODULE CircuitBreaker ----------------------------
(***************************************************************************)
(* src/engine/circuitBreaker.ts: a breaker is a record, and each method a  *)
(* function from the breaker and the clock to the breaker it leaves behind *)
(* (getState, and so canProceed, moves an open breaker to half-open).  The *)
(* clock is Date.now, a wall clock, which may step either way.             *)
(***************************************************************************)
EXTENDS Integers

CONSTANTS
  FailureThreshold,  \* consecutive failures that open the breaker
  ResetTimeout       \* how long it stays open, in units of the clock

ASSUME BreakerAssumption ==
  FailureThreshold \in Nat \ {0} /\ ResetTimeout \in Nat \ {0}

CircuitStates == {"closed", "open", "half-open"}

Breaker == [state : CircuitStates, consecutiveFailures : Nat, openedAt : Nat]

NewBreaker == [state |-> "closed", consecutiveFailures |-> 0, openedAt |-> 0]

\* The breaker after getState; the state returned is its state.
GetState(b, now) ==
  IF b.state = "open" /\ now - b.openedAt >= ResetTimeout
  THEN [b EXCEPT !.state = "half-open"]
  ELSE b

CanProceed(b, now) == GetState(b, now).state # "open"

\* A plausible defect: a success closes the breaker and keeps the count.
SuccessKeepingCount(b) == [b EXCEPT !.state = "closed"]

RecordSuccess(b) == [b EXCEPT !.state = "closed", !.consecutiveFailures = 0]

RecordFailure(b, now) ==
  LET counted == GetState([b EXCEPT !.consecutiveFailures = @ + 1], now) IN
  IF \/ counted.state = "half-open"
     \/ counted.consecutiveFailures >= FailureThreshold
  THEN [counted EXCEPT !.state = "open", !.openedAt = now]
  ELSE counted
=============================================================================
