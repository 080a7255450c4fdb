---------------------------- MODULE MCFinanceLedger ----------------------------
(* Small instances of FinanceLedger for TLC. *)
EXTENDS FinanceLedger, TLC

CONSTANTS h1, h2, a1, a2, prod, hours, relA, relB, po, inv, revW, revM, revC, revR

Costs == [m \in Messages |-> CASE m \in {prod, relA, relB} -> 2 [] m = po -> 3
                               [] m \in {hours, inv} -> 1 [] OTHER -> 0]
OneOverhead == [m \in Production |-> 1]
Named == [c \in CommitmentReleases \cup RevenueReversals |->
            IF c \in CommitmentReleases THEN po ELSE inv]
Symmetry == Permutations(Handlers) \cup Permutations(Admins)

\* Each scenario holds what meets in it: what books, and what takes it back.
WipStory == {{prod, revW}, {relA, revW}, {relA, revM}, {relB}, {hours, po, revC}, {inv, revR}}
=============================================================================
