\* One process or two, one tick or two, calm and wild: every kind of fault, jobs that two
\* have in hand at once, ticks that run while the jobs are written, an event for a blocked
\* step.
CONSTANTS
  r1 = r1
  r2 = r2
  t1 = t1
  t2 = t2
  t3 = t3
  NumSteps = 3
  Replicas = {r1, r2}
  Ticks = {t1, t2, t3}
  Home <- TwoAndOne
  MaxAttempts = 2
  DomainEvents <- OnlySecond
  Bounds <- Mixed
SPECIFICATION Spec
INVARIANTS InOrder
PROPERTIES ImplementsPipeline EveryChainEnds
CHECK_DEADLOCK FALSE
