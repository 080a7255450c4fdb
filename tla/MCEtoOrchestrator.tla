------------------------- MODULE MCEtoOrchestrator -------------------------
(* Small instances of EtoOrchestrator for TLC. *)
EXTENDS EtoOrchestrator

CONSTANTS r1, r2, t1, t2, t3

Bound(c, u, t, f, n) == [calm |-> c, up |-> u, ticking |-> t, faults |-> f, clashes |-> n]

\* Two ticks of one process, one of the other.
TwoAndOne == [t \in Ticks |-> IF t = t3 THEN r2 ELSE r1]
OnlySecond == {2}

Mixed == {Bound(TRUE, {r1}, {t1}, 2, 1), Bound(TRUE, {r1}, {t1, t2}, 0, 1),
          Bound(TRUE, {r1, r2}, {t1}, 0, 1), Bound(TRUE, {r1, r2}, {t1, t3}, 0, 0),
          Bound(FALSE, {r1}, {t1, t2}, 0, 0), Bound(FALSE, {r1}, {t1}, 1, 0),
          Bound(FALSE, {r1, r2}, {t1}, 0, 0)}
=============================================================================
