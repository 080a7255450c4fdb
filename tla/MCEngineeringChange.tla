------------------------- MODULE MCEngineeringChange -------------------------
(* Small instances of EngineeringChange for TLC. *)
EXTENDS EngineeringChange

CONSTANTS machine, frame, m1, f1, f2, e1, c1, c2

\* A machine with one version, a frame with two.
FrameAndMachine == [v \in Versions |-> IF v = m1 THEN machine ELSE frame]
Order == [v \in Versions |-> IF v = m1 THEN 1 ELSE IF v = f1 THEN 2 ELSE 3]

Bound(given, r, w, f, l, d, a) ==
  [given |-> given, rows |-> r, draws |-> w, faults |-> f, links |-> l, directs |-> d,
   orders |-> IF a = 0 THEN 0 ELSE 1, approvals |-> a]

\* Approvals beside a release and beside each other; failures; two releases over three
\* versions; links; the legacy endpoint.
Mixed == {Bound({m1, f1}, 1, 0, 0, 0, 1, 2), Bound({m1, f1, f2}, 2, 0, 0, 0, 0, 2),
          Bound({m1}, 1, 0, 2, 0, 0, 2), Bound({m1, f1, f2}, 3, 0, 0, 0, 2, 0),
          Bound({m1, f1}, 2, 0, 0, 1, 2, 0), Bound({}, 2, 1, 1, 0, 1, 0)}
Alone == {Bound({m1, f1}, 2, 0, 0, 0, 1, 0)}
=============================================================================
