\* Two replicas; an outdated durable is re-created; one subject also has an unguarded Nest handler.
CONSTANTS
  m1 = m1
  m2 = m2
  w1 = w1
  w2 = w2
  Messages <- TwoMessages
  OldFilter <- OneMessage
  FirstConsumers = {"absent", "old", "current"}
  Bypassed <- OneMessage
  Workers <- TwoWorkers
  BatchSize = 2
  NumParts = 2
  Swallowed <- FirstPart
  SlowHandlers = TRUE
  MaxFaults = 3
SPECIFICATION Spec
INVARIANTS AckedWasHandled RepeatHasCause
PROPERTIES AckIsFinal EveryMessageHandled
CHECK_DEADLOCK FALSE
