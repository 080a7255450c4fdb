---------------------------- MODULE MCGoodsReceipt ----------------------------
(* Small instances of GoodsReceipt for TLC. *)
EXTENDS GoodsReceipt

CONSTANTS lot, restore

OneLot == {lot}
OneRestore == {restore}
TwoGivenBack == [x \in Restores |-> 2]

OneOrder == {1}
TwoOrders == {1, 2}
TwoReceipts == {1, 2}

ThreeEach == [o \in Orders |-> 3]
ForFirst == [r \in Receipts |-> 1]      \* every request is for order 1
ForOwn == [r \in Receipts |-> r]        \* request r is for order r
Partial == [r \in Receipts |-> r]       \* 1, then 2: together the whole order
Unstated == [r \in Receipts |-> 0]      \* the body has no quantity
=============================================================================
