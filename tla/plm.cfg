\* Three versions of two items, one order, two calls; who may do how much: Mixed.
CONSTANTS
  machine = machine
  frame = frame
  m1 = m1
  f1 = f1
  f2 = f2
  e1 = e1
  c1 = c1
  c2 = c2
  Items = {machine, frame}
  Versions = {m1, f1, f2}
  ItemOf <- FrameAndMachine
  Age <- Order
  Ecos = {e1}
  Calls = {c1, c2}
  MaxDepth = 2
  Bounds <- Mixed
SPECIFICATION Spec
INVARIANTS ImplementedWasReleased AnnouncedOnce
PROPERTIES SnapshotsGrow ImplementedIsFinal EveryCallEnds
CHECK_DEADLOCK FALSE
