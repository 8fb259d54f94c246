\* Three generations, so that one submitted in order may follow two that overlap; two
\* attempts to reconnect; one unread frame.
SPECIFICATION FairSpec
CONSTANTS
  MaxGenerations = 3
  MaxAttempts = 2
  MaxWire = 1
CHECK_DEADLOCK FALSE
INVARIANTS
  RestsTruthfully
  ShownEndIsStored
PROPERTIES
  ConsoleSettles
