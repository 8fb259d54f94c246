-------------------------- MODULE ResilientClientProofs --------------------------
(***************************************************************************)
(* Proofs about concurrent completions and the breaker they share, for any *)
(* set of calls, any threshold, timeout and number of attempts, and a      *)
(* clock that moves freely between 0 and its bound.                        *)
(***************************************************************************)
EXTENDS ResilientClient, TLAPS

-----------------------------------------------------------------------------
(* The breaker.                                                            *)

\* Reading the state keeps a breaker a breaker, opens none and closes none.
LEMMA GetStateKeeps ==
  ASSUME NEW b \in Breaker, NEW t \in Nat
  PROVE  /\ GetState(b, t) \in Breaker
         /\ GetState(b, t).state = "closed" <=> b.state = "closed"
         /\ GetState(b, t).consecutiveFailures = b.consecutiveFailures
         /\ GetState(b, t).state = "open" => b.state = "open"
BY DEF GetState, Breaker, CircuitStates

\* A success leaves a closed breaker with no failures.
LEMMA SuccessCloses ==
  ASSUME NEW b \in Breaker
  PROVE  /\ RecordSuccess(b) \in Breaker
         /\ RecordSuccess(b).state = "closed"
         /\ RecordSuccess(b).consecutiveFailures = 0
BY DEF RecordSuccess, Breaker, CircuitStates

\* A failure adds one to the count, never closes the breaker, and leaves it
\* closed only if it was and the count is below the threshold.  A breaker that
\* is not closed afterwards has just been opened, so that it still reads as open,
\* or it was open all along.
LEMMA FailureCounts ==
  ASSUME NEW b \in Breaker, NEW t \in Nat,
         b.state = "closed" <=> b.consecutiveFailures < FailureThreshold
  PROVE  /\ RecordFailure(b, t) \in Breaker
         /\ RecordFailure(b, t).consecutiveFailures = b.consecutiveFailures + 1
         /\ RecordFailure(b, t).state = "closed"
              <=> RecordFailure(b, t).consecutiveFailures < FailureThreshold
         /\ RecordFailure(b, t).state # "closed" =>
              RecordFailure(b, t).state = "open" /\ RecordFailure(b, t).openedAt = t
<1> DEFINE counted == GetState([b EXCEPT !.consecutiveFailures = @ + 1], t)
<1>1. [b EXCEPT !.consecutiveFailures = @ + 1] \in Breaker
  BY DEF Breaker
<1>2. /\ counted \in Breaker
      /\ counted.state = "closed" <=> b.state = "closed"
      /\ counted.consecutiveFailures = b.consecutiveFailures + 1
  BY <1>1, GetStateKeeps DEF Breaker
<1> HIDE DEF counted
<1>3. RecordFailure(b, t) =
        IF counted.state = "half-open" \/ counted.consecutiveFailures >= FailureThreshold
        THEN [counted EXCEPT !.state = "open", !.openedAt = t]
        ELSE counted
  BY DEF RecordFailure, counted
<1>4. CASE counted.state = "half-open" \/ counted.consecutiveFailures >= FailureThreshold
  <2>1. b.consecutiveFailures + 1 >= FailureThreshold
    BY <1>2, <1>4, BreakerAssumption DEF Breaker
  <2>2. RecordFailure(b, t) = [counted EXCEPT !.state = "open", !.openedAt = t]
    BY <1>3, <1>4
  <2>3. RecordFailure(b, t) \in Breaker
    BY <2>2, <1>2 DEF Breaker, CircuitStates
  <2>4. /\ RecordFailure(b, t).state = "open"
        /\ RecordFailure(b, t).openedAt = t
        /\ RecordFailure(b, t).consecutiveFailures = b.consecutiveFailures + 1
    BY <2>2, <1>2 DEF Breaker
  <2>5. ~(b.consecutiveFailures + 1 < FailureThreshold)
    BY <2>1, BreakerAssumption DEF Breaker
  <2> QED BY <2>3, <2>4, <2>5
<1>5. CASE ~(counted.state = "half-open" \/ counted.consecutiveFailures >= FailureThreshold)
  <2>1. RecordFailure(b, t) = counted
    BY <1>3, <1>5
  <2>2. counted.consecutiveFailures < FailureThreshold
    BY <1>2, <1>5, BreakerAssumption DEF Breaker
  <2>3. b.state = "closed"
    BY <2>2, <1>2, BreakerAssumption DEF Breaker
  <2> QED BY <2>1, <2>2, <2>3, <1>2
<1> QED BY <1>4, <1>5
-----------------------------------------------------------------------------
(* Outcomes.                                                               *)

\* An announcement is of a state the breaker is in after an outcome, which is
\* never half-open: a success closes it and a failure leaves it closed or has
\* just opened it.
LEMMA OutcomeStep ==
  ASSUME breaker \in Breaker, now \in Nat, published \in {"closed", "open"},
         BreakerCountsFailures, PublishedTripsAndRecoveries,
         NEW outcome \in Errors \union {"success"}, RecordOutcome(outcome)
  PROVE  /\ breaker' \in Breaker
         /\ published' \in {"closed", "open"}
         /\ BreakerCountsFailures' /\ PublishedTripsAndRecoveries'
<1> DEFINE before == GetState(breaker, now)
           success == RecordSuccess(before)
           failure == RecordFailure(before, now)
<1>1. /\ before \in Breaker
      /\ before.state = "closed" <=> breaker.state = "closed"
      /\ before.consecutiveFailures = breaker.consecutiveFailures
  BY GetStateKeeps
<1>2. before.state = "closed" <=> before.consecutiveFailures < FailureThreshold
  BY <1>1 DEF BreakerCountsFailures
<1>3. CASE outcome = "AbortError"
  BY <1>3 DEF RecordOutcome, BreakerCountsFailures, PublishedTripsAndRecoveries
<1>4. CASE outcome = "success"
  <2>1. /\ success \in Breaker /\ success.state = "closed"
        /\ success.consecutiveFailures = 0
    BY <1>1, SuccessCloses
  <2>2. GetState(success, now) = success
    BY <2>1 DEF GetState
  <2>3. breaker' = success /\ Announce(before, success)
    BY <1>4, <2>2 DEF RecordOutcome
  <2>4. published' = IF before.state = "closed" THEN published ELSE "closed"
    BY <2>1, <2>3 DEF Announce
  <2>5. published' = "closed"
    BY <2>4, <1>1 DEF PublishedTripsAndRecoveries
  <2>6. 0 < FailureThreshold
    BY BreakerAssumption
  <2> QED BY <2>1, <2>3, <2>5, <2>6 DEF BreakerCountsFailures, PublishedTripsAndRecoveries
<1>5. CASE outcome = "failure"
  <2>1. /\ failure \in Breaker
        /\ failure.state = "closed" <=> failure.consecutiveFailures < FailureThreshold
        /\ failure.consecutiveFailures = before.consecutiveFailures + 1
        /\ failure.state # "closed" => failure.state = "open" /\ failure.openedAt = now
    BY <1>1, <1>2, FailureCounts
  <2>2. GetState(failure, now) = failure
    <3>1. ~(failure.state = "open" /\ now - failure.openedAt >= ResetTimeout)
      BY <2>1, BreakerAssumption
    <3> QED BY <3>1 DEF GetState
  <2>3. breaker' = failure /\ Announce(before, failure)
    BY <1>5, <2>2 DEF RecordOutcome
  <2>4. published' = IF failure.state # before.state THEN failure.state ELSE published
    BY <2>3 DEF Announce
  <2>5. before.state # "closed" => failure.state # "closed"
    BY <1>1, <1>2, <2>1, BreakerAssumption DEF Breaker
  <2>6. published' = "closed" <=> failure.state = "closed"
    BY <2>1, <2>4, <2>5, <1>1 DEF PublishedTripsAndRecoveries
  <2>7. published' \in {"closed", "open"}
    BY <2>1, <2>4
  <2> QED BY <2>1, <2>3, <2>6, <2>7 DEF BreakerCountsFailures, PublishedTripsAndRecoveries
<1> QED BY <1>3, <1>4, <1>5 DEF Errors

-----------------------------------------------------------------------------
(* The inductive invariant.                                                *)

\* A call has attempts left while it waits for its next one, it has sent no more
\* requests than it has made attempts, and only calls that began are aborted.
AttemptsCounted ==
  \A c \in Calls :
    /\ pc[c] = "idle" => c \notin aborted
    /\ contacts[c] <= attempt[c]
    /\ attempt[c] <= MaxAttempts
    /\ pc[c] = "sleeping" => attempt[c] < MaxAttempts

ClientInv ==
  TypeOK /\ BreakerCountsFailures /\ PublishedTripsAndRecoveries /\ AttemptsCounted

\* An error that ends a call.
LEMMA EndStep ==
  ASSUME ClientInv, NEW c \in Calls, NEW err \in Errors, EndWith(c, err),
         UNCHANGED <<now, aborted, trials>>
  PROVE  /\ breaker' \in Breaker /\ published' \in {"closed", "open"}
         /\ BreakerCountsFailures' /\ PublishedTripsAndRecoveries'
         /\ pc' \in [Calls -> {"idle", "connecting", "sleeping", "streaming"} \union Over]
         /\ failStreak' \in Nat
         /\ pc'[c] \in Over
         /\ \A d \in Calls \ {c} : pc'[d] = pc[d]
<1>1. RecordOutcome(err)
  BY DEF EndWith
<1>2. /\ breaker' \in Breaker /\ published' \in {"closed", "open"}
      /\ BreakerCountsFailures' /\ PublishedTripsAndRecoveries'
  BY <1>1, OutcomeStep DEF ClientInv, TypeOK
<1>3. pc' = [pc EXCEPT ![c] = IF err = "AbortError" THEN "cancelled" ELSE "failed"]
  BY DEF EndWith, GoTo
<1>4. failStreak' \in Nat
  BY DEF EndWith, ClientInv, TypeOK
<1> QED BY <1>2, <1>3, <1>4 DEF ClientInv, TypeOK, Over

\* The steps that answer a connection attempt or a stream.
LEMMA AnswerStep ==
  ASSUME ClientInv, NEW c \in Calls, Answer(c) PROVE ClientInv'
<1>0. /\ TypeOK /\ AttemptsCounted
      /\ now \in Nat /\ breaker \in Breaker /\ published \in {"closed", "open"}
      /\ BreakerCountsFailures /\ PublishedTripsAndRecoveries
  BY DEF ClientInv, TypeOK
<1>1. CASE Connected(c)
  <2>1. /\ breaker' \in Breaker /\ published' \in {"closed", "open"}
        /\ BreakerCountsFailures' /\ PublishedTripsAndRecoveries'
    BY <1>0, <1>1, OutcomeStep DEF Connected
  <2>2. /\ UNCHANGED <<now, attempt, contacts, aborted, trials, failStreak>>
        /\ pc' = [pc EXCEPT ![c] = "streaming"] /\ pc[c] = "connecting"
    BY <1>1 DEF Connected, GoTo
  <2>3. TypeOK'
    BY <1>0, <2>1, <2>2 DEF TypeOK
  <2>4. AttemptsCounted'
    BY <1>0, <2>2 DEF TypeOK, AttemptsCounted
  <2> QED BY <2>1, <2>3, <2>4 DEF ClientInv
<1>2. CASE StreamEnds(c)
  <2>1. /\ UNCHANGED <<breaker, now, attempt, contacts, aborted, published, trials>>
        /\ pc' = [pc EXCEPT ![c] = "done"] /\ failStreak' = 0
    BY <1>2 DEF StreamEnds, GoTo
  <2>2. TypeOK'
    BY <1>0, <2>1 DEF TypeOK, Over
  <2>3. AttemptsCounted'
    BY <1>0, <2>1 DEF TypeOK, AttemptsCounted
  <2> QED BY <1>0, <2>1, <2>2, <2>3
          DEF ClientInv, BreakerCountsFailures, PublishedTripsAndRecoveries
<1>3. ASSUME NEW err \in Errors, EndWith(c, err),
             UNCHANGED <<now, attempt, contacts, aborted, trials>>
      PROVE  ClientInv'
  <2>1. /\ breaker' \in Breaker /\ published' \in {"closed", "open"}
        /\ BreakerCountsFailures' /\ PublishedTripsAndRecoveries'
        /\ pc' \in [Calls -> {"idle", "connecting", "sleeping", "streaming"} \union Over]
        /\ failStreak' \in Nat
        /\ pc'[c] \in Over
        /\ \A d \in Calls \ {c} : pc'[d] = pc[d]
    BY <1>3, EndStep
  <2>2. TypeOK'
    BY <1>0, <1>3, <2>1 DEF TypeOK
  <2>3. AttemptsCounted'
    BY <1>0, <1>3, <2>1 DEF TypeOK, AttemptsCounted, Over
  <2> QED BY <2>1, <2>2, <2>3 DEF ClientInv
<1>4. ASSUME NEW err \in Errors, ConnectThrows(c, err) PROVE ClientInv'
  <2>1. CASE attempt[c] >= MaxAttempts \/ ~IsRetryable(err)
    BY <1>3, <1>4, <2>1 DEF ConnectThrows
  <2>2. CASE ~(attempt[c] >= MaxAttempts \/ ~IsRetryable(err))
    <3>1. /\ UNCHANGED <<breaker, published, failStreak, now, attempt, contacts, aborted, trials>>
          /\ pc' = [pc EXCEPT ![c] = "sleeping"]
      BY <1>4, <2>2 DEF ConnectThrows, GoTo
    <3>2. TypeOK'
      BY <1>0, <3>1 DEF TypeOK
    <3>3. attempt[c] < MaxAttempts
      BY <1>0, <2>2, ClientAssumption DEF TypeOK
    <3>4. AttemptsCounted'
      BY <1>0, <3>1, <3>3 DEF TypeOK, AttemptsCounted
    <3> QED BY <1>0, <3>1, <3>2, <3>4
            DEF ClientInv, BreakerCountsFailures, PublishedTripsAndRecoveries
  <2> QED BY <2>1, <2>2
<1>5. ASSUME NEW err \in Errors, StreamThrows(c, err) PROVE ClientInv'
  BY <1>3, <1>5 DEF StreamThrows
<1> QED BY <1>1, <1>2, <1>4, <1>5 DEF Answer

\* The next attempt after a sleep.
LEMMA RetryStep ==
  ASSUME ClientInv, NEW c \in Calls, Retry(c) PROVE ClientInv'
<1>0. TypeOK /\ AttemptsCounted /\ BreakerCountsFailures /\ PublishedTripsAndRecoveries
  BY DEF ClientInv
<1>1. /\ pc[c] = "sleeping" /\ attempt[c] < MaxAttempts /\ contacts[c] <= attempt[c]
      /\ attempt[c] \in Nat /\ contacts[c] \in Nat
      /\ attempt' = [attempt EXCEPT ![c] = attempt[c] + 1]
      /\ UNCHANGED <<now, aborted, trials>>
  BY <1>0 DEF Retry, AttemptsCounted, TypeOK
<1>2. CASE c \in aborted
  <2>1. EndWith(c, "AbortError") /\ UNCHANGED contacts /\ "AbortError" \in Errors
    BY <1>2 DEF Retry, Errors
  <2>2. /\ breaker' \in Breaker /\ published' \in {"closed", "open"}
        /\ BreakerCountsFailures' /\ PublishedTripsAndRecoveries'
        /\ pc' \in [Calls -> {"idle", "connecting", "sleeping", "streaming"} \union Over]
        /\ failStreak' \in Nat
        /\ pc'[c] \in Over
        /\ \A d \in Calls \ {c} : pc'[d] = pc[d]
    BY <1>1, <2>1, EndStep
  <2>3. attempt' \in [Calls -> Nat] /\ contacts' \in [Calls -> Nat]
    BY <1>0, <1>1, <2>1 DEF TypeOK
  <2>4. now' \in Nat /\ aborted' \subseteq Calls /\ trials' \subseteq Calls
    BY <1>0, <1>1 DEF TypeOK
  <2>5. TypeOK'
    BY <2>2, <2>3, <2>4 DEF TypeOK
  <2>6. AttemptsCounted'
    BY <1>0, <1>1, <2>1, <2>2, ClientAssumption DEF TypeOK, AttemptsCounted, Over
  <2> QED BY <2>2, <2>5, <2>6 DEF ClientInv
<1>3. CASE c \notin aborted
  <2>1. /\ pc' = [pc EXCEPT ![c] = "connecting"]
        /\ contacts' = [contacts EXCEPT ![c] = contacts[c] + 1]
        /\ UNCHANGED <<breaker, published, failStreak>>
    BY <1>3 DEF Retry, GoTo
  <2>2. TypeOK'
    BY <1>0, <1>1, <2>1 DEF TypeOK
  <2>3. AttemptsCounted'
    BY <1>0, <1>1, <2>1, <1>3, ClientAssumption DEF TypeOK, AttemptsCounted
  <2> QED BY <1>0, <2>1, <2>2, <2>3
          DEF ClientInv, BreakerCountsFailures, PublishedTripsAndRecoveries
<1> QED BY <1>2, <1>3

\* The first attempt of a call, and readers of the breaker.
LEMMA BeginStep ==
  ASSUME ClientInv, NEW c \in Calls, Begin(c) PROVE ClientInv'
<1>0. TypeOK /\ AttemptsCounted /\ BreakerCountsFailures /\ PublishedTripsAndRecoveries
  BY DEF ClientInv
<1> DEFINE seen == GetState(breaker, now)
<1>1. /\ seen \in Breaker
      /\ seen.state = "closed" <=> breaker.state = "closed"
      /\ seen.consecutiveFailures = breaker.consecutiveFailures
  BY <1>0, GetStateKeeps DEF TypeOK
<1>2. PICK ready \in BOOLEAN :
        /\ pc[c] = "idle"
        /\ breaker' \in {seen, breaker}
        /\ trials' \in {trials, trials \union {c}}
        /\ pc' = [pc EXCEPT ![c] = IF ready THEN "connecting" ELSE "refused"]
        /\ attempt' = [attempt EXCEPT ![c] = IF ready THEN 1 ELSE 0]
        /\ contacts' = [contacts EXCEPT ![c] = IF ready THEN 1 ELSE 0]
        /\ UNCHANGED <<now, aborted, published, failStreak>>
  BY DEF Begin, GoTo, CanProceed
<1> HIDE DEF seen
<1>3. TypeOK'
  BY <1>0, <1>1, <1>2 DEF TypeOK, Over
<1>4. BreakerCountsFailures' /\ PublishedTripsAndRecoveries'
  BY <1>0, <1>1, <1>2 DEF BreakerCountsFailures, PublishedTripsAndRecoveries
<1>5. AttemptsCounted'
  BY <1>0, <1>2, ClientAssumption DEF TypeOK, AttemptsCounted
<1> QED BY <1>3, <1>4, <1>5 DEF ClientInv

\* The invariant holds whatever the calls, the engine and the clock do.
THEOREM ClientInvAlways == Spec => []ClientInv
<1>1. Init => ClientInv
  BY BreakerAssumption, ClientAssumption
     DEF Init, ClientInv, TypeOK, Breaker, CircuitStates, NewBreaker, BreakerCountsFailures,
         PublishedTripsAndRecoveries, AttemptsCounted
<1>2. ClientInv /\ [Next]_vars => ClientInv'
  <2> SUFFICES ASSUME ClientInv, [Next]_vars PROVE ClientInv'
    OBVIOUS
  <2>1. ASSUME NEW c \in Calls, Abort(c) PROVE ClientInv'
    BY <2>1 DEF Abort, ClientInv, TypeOK, BreakerCountsFailures, PublishedTripsAndRecoveries,
       AttemptsCounted
  <2>2. CASE GetCircuitState
    <3>1. /\ breaker' \in Breaker
          /\ breaker'.state = "closed" <=> breaker.state = "closed"
          /\ breaker'.consecutiveFailures = breaker.consecutiveFailures
      BY <2>2, GetStateKeeps DEF GetCircuitState, ClientInv, TypeOK
    <3> QED BY <2>2, <3>1 DEF GetCircuitState, ClientInv, TypeOK, BreakerCountsFailures,
               PublishedTripsAndRecoveries, AttemptsCounted
  <2>3. CASE ClockMoves
    BY <2>3, ClientAssumption DEF ClockMoves, ClientInv, TypeOK, BreakerCountsFailures,
       PublishedTripsAndRecoveries, AttemptsCounted
  <2>4. CASE UNCHANGED vars
    BY <2>4 DEF vars, ClientInv, TypeOK, BreakerCountsFailures, PublishedTripsAndRecoveries,
       AttemptsCounted
  <2> QED BY <2>1, <2>2, <2>3, <2>4, BeginStep, AnswerStep, RetryStep DEF Next
<1> QED BY <1>1, <1>2, PTL DEF Spec

-----------------------------------------------------------------------------
(* The properties.                                                         *)

\* TypeOK: every variable keeps its type.
THEOREM TypeCorrect == Spec => []TypeOK
<1>1. ClientInv => TypeOK
  BY DEF ClientInv
<1> QED BY <1>1, ClientInvAlways, PTL

\* BreakerCountsFailures: the breaker is closed exactly while it has counted
\* fewer failures than the threshold.
THEOREM BreakerCountsFailuresAlways == Spec => []BreakerCountsFailures
<1>1. ClientInv => BreakerCountsFailures
  BY DEF ClientInv
<1> QED BY <1>1, ClientInvAlways, PTL

\* PublishedTripsAndRecoveries: every trip and every recovery is announced.
THEOREM PublishedAlways == Spec => []PublishedTripsAndRecoveries
<1>1. ClientInv => PublishedTripsAndRecoveries
  BY DEF ClientInv
<1> QED BY <1>1, ClientInvAlways, PTL

\* ContactsBounded: no call sends more requests than it has attempts.
THEOREM ContactsBoundedAlways == Spec => []ContactsBounded
<1>1. ClientInv => ContactsBounded
  BY ClientAssumption DEF ClientInv, TypeOK, AttemptsCounted, ContactsBounded
<1> QED BY <1>1, ClientInvAlways, PTL

\* ContactsStop: no request is sent for a call that is aborted, streaming or over.
THEOREM ContactsStopAlways == Spec => ContactsStop
<1>1. ClientInv /\ [Next]_vars =>
        [\A c \in Calls :
           c \in aborted \/ pc[c] \in Over \union {"streaming"}
             => contacts'[c] = contacts[c]]_vars
  <2> SUFFICES ASSUME ClientInv, Next, NEW c \in Calls,
                      c \in aborted \/ pc[c] \in Over \union {"streaming"}
               PROVE  contacts'[c] = contacts[c]
    OBVIOUS
  <2>1. pc[c] # "idle" /\ contacts \in [Calls -> Nat]
    BY DEF ClientInv, TypeOK, AttemptsCounted, Over
  <2>2. ASSUME NEW d \in Calls, Begin(d) PROVE contacts'[c] = contacts[c]
    BY <2>1, <2>2 DEF Begin
  <2>3. ASSUME NEW d \in Calls, Retry(d) PROVE contacts'[c] = contacts[c]
    BY <2>1, <2>3 DEF Retry, Over
  <2>4. ASSUME NEW d \in Calls, Answer(d) \/ Abort(d) PROVE contacts'[c] = contacts[c]
    BY <2>4 DEF Answer, Connected, StreamEnds, ConnectThrows, StreamThrows, Abort
  <2>5. CASE GetCircuitState \/ ClockMoves
    BY <2>5 DEF GetCircuitState, ClockMoves
  <2> QED BY <2>2, <2>3, <2>4, <2>5 DEF Next
<1> QED BY <1>1, ClientInvAlways, PTL DEF Spec, ContactsStop

\* CancelIsNeutral: the end of a cancelled call leaves the breaker as it is.
THEOREM CancelIsNeutralAlways == Spec => CancelIsNeutral
<1>1. ClientInv /\ [Next]_vars =>
        [\A c \in Calls :
           pc[c] # "cancelled" /\ pc'[c] = "cancelled" => UNCHANGED <<breaker, published>>]_vars
  <2> SUFFICES ASSUME ClientInv, Next, NEW c \in Calls,
                      pc[c] # "cancelled", pc'[c] = "cancelled"
               PROVE  UNCHANGED <<breaker, published>>
    OBVIOUS
  <2>0. pc \in [Calls -> {"idle", "connecting", "sleeping", "streaming"} \union Over]
    BY DEF ClientInv, TypeOK
  <2>1. ASSUME NEW d \in Calls, NEW err \in Errors, EndWith(d, err)
        PROVE  UNCHANGED <<breaker, published>>
    <3>1. pc' = [pc EXCEPT ![d] = IF err = "AbortError" THEN "cancelled" ELSE "failed"]
      BY <2>1 DEF EndWith, GoTo
    <3>2. err = "AbortError"
      BY <2>0, <3>1
    <3> QED BY <2>1, <3>2 DEF EndWith, RecordOutcome
  <2>2. ASSUME NEW d \in Calls, Begin(d) PROVE FALSE
    BY <2>0, <2>2 DEF Begin, GoTo
  <2>3. ASSUME NEW d \in Calls, Connected(d) \/ StreamEnds(d) PROVE FALSE
    BY <2>0, <2>3 DEF Connected, StreamEnds, GoTo
  <2>4. ASSUME NEW d \in Calls, NEW err \in Errors, ConnectThrows(d, err) \/ StreamThrows(d, err)
        PROVE  UNCHANGED <<breaker, published>>
    BY <2>1, <2>4 DEF ConnectThrows, StreamThrows
  <2>5. ASSUME NEW d \in Calls, Retry(d) PROVE UNCHANGED <<breaker, published>>
    BY <2>1, <2>5 DEF Retry, Errors
  <2>6. ASSUME GetCircuitState \/ ClockMoves \/ \E d \in Calls : Abort(d) PROVE FALSE
    BY <2>6 DEF Abort, GetCircuitState, ClockMoves
  <2> QED BY <2>2, <2>3, <2>4, <2>5, <2>6 DEF Next, Answer
<1> QED BY <1>1, ClientInvAlways, PTL DEF Spec, CancelIsNeutral
=============================================================================
