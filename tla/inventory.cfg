\* Reservations, releases, restores and everyone else who writes a stock level.
CONSTANTS
  req1 = req1
  req2 = req2
  comp1 = comp1
  comp2 = comp2
  prod1 = prod1
  prod2 = prod2
  rest1 = rest1
  rest2 = rest2
  plus = plus
  minus = minus
  pass1 = pass1
  pass2 = pass2
  Requests = {req1, req2}
  Components = {comp1, comp2}
  Produced = {prod1, prod2}
  Restores = {rest1, rest2}
  Adjusts = {plus, minus}
  Passes = {pass1, pass2}
  Quantity <- Sizes
  FirstRows <- Shelves
  Scenarios <- Meetings
  MaxFaults = 2
SPECIFICATION Spec
INVARIANTS LevelsAreAudited AllocatedIsCovered RestoresFollowReleases
CHECK_DEADLOCK FALSE
