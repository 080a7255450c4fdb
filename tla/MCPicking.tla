------------------------------- MODULE MCPicking -------------------------------
(* A small instance of Picking for TLC: two reservations of one item and quantity, whose *)
(* picks have one key, and a shortage.                                                 *)
EXTENDS Picking, TLC

CONSTANTS l1, l2, r1, r2, c1, c2

Symmetry == Permutations(Lists) \cup Permutations(Confirms)

ThreeCalls == 1..3
TwoKeys == {"e1", "e2"}
ThreeCallKeys == [c \in 1..3 |-> IF c < 3 THEN "e1" ELSE "e2"]
PickedOrShort == [c \in 1..3 |-> IF c = 1 THEN r1 ELSE IF c = 2 THEN r2 ELSE Shortage]
=============================================================================
