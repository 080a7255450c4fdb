-------------------------- MODULE MCEtoCompensation --------------------------
(* Small instances of EtoCompensation for TLC. *)
EXTENDS EtoCompensation

CONSTANTS bom, wip, r1, r2, c1, c2

Bound(p, t, f, n, u, on) ==
  [repeats |-> p, restarts |-> t, failures |-> f, calls |-> n, upserts |-> u, up |-> on]

\* A message sent twice, a failure; a restart next to another replica, and alone.
Mixed == {Bound(1, 0, 0, 2, 0, {r1}), Bound(0, 0, 1, 2, 0, {r1, r2}),
          Bound(0, 1, 0, 1, 1, {r1, r2}), Bound(0, 1, 0, 2, 2, {r1})}
=============================================================================
