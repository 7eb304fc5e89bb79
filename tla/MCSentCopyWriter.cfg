SPECIFICATION FairSpec
CONSTANTS
  MaxAttempts = 3
  Observations = 5
  MaxRefused = 2
CHECK_DEADLOCK FALSE
INVARIANTS TypeOK AppendedOnce ClaimedCopyExists NoClientLeftOpen
PROPERTIES NoAppendBesideASeenCopy SaveReturns
