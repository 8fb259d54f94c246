--------------------------- MODULE ResilientClient ---------------------------
(***************************************************************************)
(* src/engine/resilientEngineClient.ts with the CircuitBreaker and the     *)
(* RetryPolicy it is built from: concurrent completions that share one     *)
(* breaker.  A step is the code of one call between two awaits, which are  *)
(* the connection attempt, the backoff sleep and the token stream.  The    *)
(* engine and its HTTP connection are the environment, EngineManager's     *)
(* readiness an input; an error is an AbortError only after an abort, and  *)
(* a genuine error (a refused connection, a status that is not ok, a       *)
(* TimeoutError) may still come first.                                     *)
(***************************************************************************)
EXTENDS CircuitBreaker

CONSTANTS
  Calls,        \* runs that ask for a completion, each once
  MaxAttempts,  \* connection attempts of one call
  MaxNow        \* bound: the largest clock value

ASSUME ClientAssumption == MaxAttempts \in Nat \ {0} /\ MaxNow \in Nat

VARIABLES
  breaker,    \* the breaker the calls share
  now,        \* Date.now
  pc,         \* where each call is
  attempt,    \* RetryPolicy.execute's attempt counter of each call
  contacts,   \* requests each call has sent to the engine
  aborted,    \* calls whose signal is aborted
  published,  \* the state in the last engine.circuit event
  trials,     \* calls admitted while the breaker was half-open
  failStreak  \* completions that failed since one last ran to its end

vars == <<breaker, now, pc, attempt, contacts, aborted, published, trials, failStreak>>

Over == {"done", "failed", "cancelled", "refused"}
Errors == {"failure", "AbortError"}

GoTo(c, label) == pc' = [pc EXCEPT ![c] = label]

\* The error a rejected await may carry.
MayThrow(c, err) == err = "AbortError" => c \in aborted

IsRetryable(err) == err # "AbortError"

\* A plausible defect: only the opening of the breaker is announced.
AnnounceOpening(before, after) ==
  published' = IF after.state = "open" THEN after.state ELSE published

\* engine.circuit is emitted when the state differs after the outcome.
Announce(before, after) ==
  published' = IF after.state # before.state THEN after.state ELSE published

\* A plausible defect: an AbortError counts as a failure of the engine.
RecordAnyError(outcome) ==
  LET before == GetState(breaker, now)
      after == GetState(IF outcome = "success" THEN RecordSuccess(before)
                        ELSE RecordFailure(before, now), now)
  IN breaker' = after /\ Announce(before, after)

\* recordOutcome: success, or the error that ended the call.
RecordOutcome(outcome) ==
  IF outcome = "AbortError"
  THEN UNCHANGED <<breaker, published>>
  ELSE LET before == GetState(breaker, now)
           after == GetState(IF outcome = "success" THEN RecordSuccess(before)
                             ELSE RecordFailure(before, now), now)
       IN breaker' = after /\ Announce(before, after)

\* The end of a call that threw err.
EndWith(c, err) ==
  /\ RecordOutcome(err)
  /\ GoTo(c, IF err = "AbortError" THEN "cancelled" ELSE "failed")
  /\ failStreak' = IF err = "AbortError" THEN failStreak ELSE failStreak + 1

-----------------------------------------------------------------------------

\* run() asks isReady, whose second half is evaluated only when the process is
\* ready, and calls streamCompletion in the same turn of the event loop: the
\* first connection attempt starts at once.
Begin(c) ==
  /\ pc[c] = "idle"
  /\ \E processReady \in BOOLEAN :
       LET seen == GetState(breaker, now)
           ready == processReady /\ CanProceed(breaker, now)
       IN /\ breaker' = IF processReady THEN seen ELSE breaker
          /\ trials' = IF ready /\ seen.state = "half-open" THEN trials \union {c} ELSE trials
          /\ GoTo(c, IF ready THEN "connecting" ELSE "refused")
          /\ attempt' = [attempt EXCEPT ![c] = IF ready THEN 1 ELSE 0]
          /\ contacts' = [contacts EXCEPT ![c] = IF ready THEN 1 ELSE 0]
  /\ UNCHANGED <<now, aborted, published, failStreak>>

Connected(c) ==
  /\ pc[c] = "connecting"
  /\ RecordOutcome("success")
  /\ GoTo(c, "streaming")
  /\ UNCHANGED <<now, attempt, contacts, aborted, trials, failStreak>>

\* A plausible defect: one attempt too many.
ConnectThrowsOffByOne(c, err) ==
  /\ pc[c] = "connecting"
  /\ MayThrow(c, err)
  /\ IF attempt[c] > MaxAttempts \/ ~IsRetryable(err)
     THEN EndWith(c, err)
     ELSE /\ GoTo(c, "sleeping")
          /\ UNCHANGED <<breaker, published, failStreak>>
  /\ UNCHANGED <<now, attempt, contacts, aborted, trials>>

\* connect rejects: sleep before the next attempt, or give up.
ConnectThrows(c, err) ==
  /\ pc[c] = "connecting"
  /\ MayThrow(c, err)
  /\ IF attempt[c] >= MaxAttempts \/ ~IsRetryable(err)
     THEN EndWith(c, err)
     ELSE /\ GoTo(c, "sleeping")
          /\ UNCHANGED <<breaker, published, failStreak>>
  /\ UNCHANGED <<now, attempt, contacts, aborted, trials>>

\* A plausible defect: the attempts are not counted.
RetryForever(c) ==
  /\ pc[c] = "sleeping"
  /\ IF c \in aborted
     THEN EndWith(c, "AbortError") /\ UNCHANGED contacts
     ELSE /\ GoTo(c, "connecting")
          /\ contacts' = [contacts EXCEPT ![c] = IF @ < MaxAttempts THEN @ + 1 ELSE @]
          /\ UNCHANGED <<breaker, published, failStreak>>
  /\ UNCHANGED <<now, attempt, aborted, trials>>

\* A plausible defect: connect is not given the signal.
RetryWithoutSignal(c) ==
  /\ pc[c] = "sleeping"
  /\ attempt' = [attempt EXCEPT ![c] = @ + 1]
  /\ GoTo(c, "connecting")
  /\ contacts' = [contacts EXCEPT ![c] = @ + 1]
  /\ UNCHANGED <<breaker, published, failStreak, now, aborted, trials>>

\* The sleep is over: the next attempt.  The sleep does not end early on an
\* abort, and the breaker is not asked again.  fetch rejects at once, without a
\* request, when it is given an aborted signal.
Retry(c) ==
  /\ pc[c] = "sleeping"
  /\ attempt' = [attempt EXCEPT ![c] = @ + 1]
  /\ IF c \in aborted
     THEN EndWith(c, "AbortError") /\ UNCHANGED contacts
     ELSE /\ GoTo(c, "connecting")
          /\ contacts' = [contacts EXCEPT ![c] = @ + 1]
          /\ UNCHANGED <<breaker, published, failStreak>>
  /\ UNCHANGED <<now, aborted, trials>>

\* The token stream ends: nothing is recorded.
StreamEnds(c) ==
  /\ pc[c] = "streaming"
  /\ GoTo(c, "done")
  /\ failStreak' = 0
  /\ UNCHANGED <<breaker, now, attempt, contacts, aborted, published, trials>>

\* The token stream throws: it is never retried.
StreamThrows(c, err) ==
  /\ pc[c] = "streaming"
  /\ MayThrow(c, err)
  /\ EndWith(c, err)
  /\ UNCHANGED <<now, attempt, contacts, aborted, trials>>

\* GenerationService.cancel.
Abort(c) ==
  /\ pc[c] \in {"connecting", "sleeping", "streaming"}
  /\ aborted' = aborted \union {c}
  /\ UNCHANGED <<breaker, now, pc, attempt, contacts, published, trials, failStreak>>

\* getCircuitState, called by GET /internal/health: a read that may move the
\* breaker to half-open without an event.
GetCircuitState ==
  /\ breaker' = GetState(breaker, now)
  /\ UNCHANGED <<now, pc, attempt, contacts, aborted, published, trials, failStreak>>

ClockMoves ==
  /\ now' \in 0 .. MaxNow
  /\ UNCHANGED <<breaker, pc, attempt, contacts, aborted, published, trials, failStreak>>

-----------------------------------------------------------------------------

Init ==
  /\ breaker = NewBreaker
  /\ now = 0
  /\ pc = [c \in Calls |-> "idle"]
  /\ attempt = [c \in Calls |-> 0]
  /\ contacts = [c \in Calls |-> 0]
  /\ aborted = {}
  /\ published = "closed"
  /\ trials = {}
  /\ failStreak = 0

Answer(c) ==
  \/ Connected(c) \/ StreamEnds(c)
  \/ \E err \in Errors : ConnectThrows(c, err) \/ StreamThrows(c, err)

Next ==
  \/ \E c \in Calls : Begin(c) \/ Answer(c) \/ Retry(c) \/ Abort(c)
  \/ GetCircuitState
  \/ ClockMoves

Spec == Init /\ [][Next]_vars

\* A sleep ends; a connection attempt or a stream ends one way or another: the
\* engine answers, the socket fails or ENGINE_REQUEST_TIMEOUT_MS passes.
Fairness == \A c \in Calls : WF_vars(Answer(c)) /\ WF_vars(Retry(c))

FairSpec == Spec /\ Fairness

-----------------------------------------------------------------------------
(* Properties.                                                             *)

\* Every variable keeps its type.
TypeOK ==
  /\ breaker \in Breaker
  /\ now \in Nat
  /\ pc \in [Calls -> {"idle", "connecting", "sleeping", "streaming"} \union Over]
  /\ attempt \in [Calls -> Nat]
  /\ contacts \in [Calls -> Nat]
  /\ aborted \subseteq Calls
  /\ published \in {"closed", "open"}
  /\ trials \subseteq Calls
  /\ failStreak \in Nat

\* The breaker is closed exactly while fewer failures than the threshold were
\* recorded in a row, however calls overlap and the clock moves: a straggler
\* cannot close it without a success nor leave it closed above the threshold.
BreakerCountsFailures ==
  breaker.state = "closed" <=> breaker.consecutiveFailures < FailureThreshold

\* The last announced state says closed exactly when the breaker is closed:
\* every trip and every recovery is announced, whoever reads the state between.
PublishedTripsAndRecoveries == published = "closed" <=> breaker.state = "closed"

\* No call sends more requests than it has attempts.
ContactsBounded == \A c \in Calls : contacts[c] <= MaxAttempts

\* Once a call is aborted, has a stream or is over, it sends no request any
\* more: an abort during the backoff sleep is honoured and no output is
\* generated twice.
ContactsStop ==
  [][\A c \in Calls :
       c \in aborted \/ pc[c] \in Over \union {"streaming"} => contacts'[c] = contacts[c]]_vars

\* A cancelled call says nothing about the engine: the breaker and its events
\* stay as they are.
CancelIsNeutral ==
  [][\A c \in Calls :
       pc[c] # "cancelled" /\ pc'[c] = "cancelled" => UNCHANGED <<breaker, published>>]_vars

\* Every call that was admitted ends: GenerationService relies on it to settle
\* its runs.
CallsEnd == \A c \in Calls : pc[c] = "connecting" ~> pc[c] \in Over

-----------------------------------------------------------------------------
(* Claims of the documentation that the code does not keep; see README.md. *)

\* circuitBreaker.ts: after resetTimeoutMs exactly one trial call is allowed.
SingleTrial ==
  \A c, d \in trials :
    {pc[c], pc[d]} \subseteq {"connecting", "sleeping"} => c = d

\* docs/RUNBOOKS/engine-restart.md: repeated failures of streaming requests
\* trip the breaker.
RepeatedFailuresTrip == failStreak >= FailureThreshold => breaker.state # "closed"
=============================================================================
