\* Three overlapping calls, two attempts each, two failures to trip.
SPECIFICATION FairSpec
CONSTANTS
  Calls = {c1, c2, c3}
  MaxAttempts = 2
  FailureThreshold = 2
  ResetTimeout = 2
  MaxNow = 3
INVARIANTS
  BreakerCountsFailures
  PublishedTripsAndRecoveries
  ContactsBounded
PROPERTIES
  ContactsStop
  CancelIsNeutral
  CallsEnd
