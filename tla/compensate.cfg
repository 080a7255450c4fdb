\* Two steps, two replicas, two calls on any of them.
CONSTANTS
  bom = bom
  wip = wip
  r1 = r1
  r2 = r2
  c1 = c1
  c2 = c2
  SagaSteps = {bom, wip}
  Replicas = {r1, r2}
  Calls = {c1, c2}
  Bounds <- Mixed
SPECIFICATION Spec
INVARIANTS ReversedAsLearned
PROPERTIES NothingForgotten EveryCompensationEnds
CHECK_DEADLOCK FALSE
