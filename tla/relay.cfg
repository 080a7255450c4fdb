\* Two rows, the first left by an older release; two replicas; a crash, an error or a stall.
CONSTANTS
  r1 = r1
  r2 = r2
  NumEvents = 2
  Relays <- TwoRelays
  MaxAttempts = 2
  BatchSize = 1
  ReclaimOn = TRUE
  JetStream = TRUE
  Legacy <- FirstRowIsLegacy
  MaxFaults = 1
  SentCap = 3
SPECIFICATION Spec
INVARIANTS TypeOK ProcessedWasSent NoEarlyDeadLetter ClaimExclusive DuplicateHasCause
PROPERTIES ImplementsContract EveryRowSettles
CHECK_DEADLOCK FALSE
