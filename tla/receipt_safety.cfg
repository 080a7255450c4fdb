\* Two partial receipts of one order, overlapping or one by one, with faults; the SKU may come late.  A lot and a restored reservation beside them.
CONSTANTS
  Orders <- OneOrder
  Amount <- ThreeEach
  Receipts <- TwoReceipts
  OrderOf <- ForFirst
  Quantity <- Partial
  Copies = 1
  Decisions = {"APPROVED", "REJECTED"}
  KnownSku = FALSE
  lot = lot
  restore = restore
  Lots <- OneLot
  Restores <- OneRestore
  Restored <- TwoGivenBack
  Overlaps = {TRUE, FALSE}
  MaxFaults = 2
SPECIFICATION Safety
INVARIANTS ItemQuantityIsAudited OrderFollowsReceipts StockLevelIsAudited
PROPERTIES ImplementsGuard
CHECK_DEADLOCK FALSE
