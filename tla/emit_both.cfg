\* PLM or Quality: overlapping ticks, database errors, outages and crashes.
CONSTANTS
  t1 = t1
  t2 = t2
  NumEvents = 2
  Ticks <- TwoTicks
  MaxAttempts = 2
  BatchSize = 2
  Services = {"plm", "quality"}
  Outages = TRUE
  MaxFaults = 3
SPECIFICATION Spec
INVARIANTS LossHasCause
PROPERTIES EveryEventDelivered
CHECK_DEADLOCK FALSE
