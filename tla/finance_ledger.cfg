\* Two handlers, two admins: labour, relief, orders and revenue with their compensations.
CONSTANTS
  h1 = h1
  h2 = h2
  a1 = a1
  a2 = a2
  prod = prod
  hours = hours
  relA = relA
  relB = relB
  po = po
  inv = inv
  revW = revW
  revM = revM
  revC = revC
  revR = revR
  Handlers = {h1, h2}
  Admins = {a1, a2}
  Production = {prod}
  TimeEntries = {hours}
  Releases = {relA, relB}
  Orders = {po}
  Invoices = {inv}
  WipReversals = {revW}
  MaterialReversals = {revM}
  CommitmentReleases = {revC}
  RevenueReversals = {revR}
  Amount <- Costs
  Overhead <- OneOverhead
  RefersTo <- Named
  ByComponent = {relB}
  Scenarios <- WipStory
  MaxRepeats = 2
  MaxOps = 2
  MaxFaults = 2
SPECIFICATION Spec
INVARIANTS WipIsAudited OnceUnlessTogether
PROPERTIES FrozenOnceDrained
CHECK_DEADLOCK FALSE
SYMMETRY Symmetry
