--------------------------- MODULE MCInventoryStock ---------------------------
(* Small instances of InventoryStock for TLC. *)
EXTENDS InventoryStock

CONSTANTS req1, req2, comp1, comp2, prod1, prod2, rest1, rest2, plus, minus, pass1, pass2

Sizes == [c \in Sized |-> CASE c = minus -> -2 [] c \in {comp1, pass1, pass2} -> 1
                           [] OTHER -> 2]

At(location, quantity) == [location |-> location, quantity |-> quantity]
Shelves == {<<>>, <<At("MAIN", 3)>>, <<At("MAIN", 1), At("QUARANTINE", 1)>>}

\* What meets: reservations; what releases and restores them; who else writes a level.
Meetings == {{req1, req2, comp1, minus}, {comp1, comp2, prod1, prod2, rest1, rest2},
             {req1, pass1, pass2, plus}}
=============================================================================
