\* The deliveries of two picks and of a shortage, with failing database calls.
CONSTANTS
  l1 = l1
  l2 = l2
  r1 = r1
  r2 = r2
  c1 = c1
  c2 = c2
  Calls <- ThreeCalls
  Keys <- TwoKeys
  Key <- ThreeCallKeys
  Origin <- PickedOrShort
  Lists = {l1, l2}
  Reservations = {r1, r2}
  Confirms = {c1, c2}
  MaxConfirms = 2
  MaxFaults = 1
SPECIFICATION PickSpec
INVARIANTS AnsweredIsOrdered RepeatedOrderHasCause ListFollowsLines
CHECK_DEADLOCK FALSE
SYMMETRY Symmetry
