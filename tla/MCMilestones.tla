----------------------------- MODULE MCMilestones -----------------------------
(* Small instances of Milestones for TLC. *)
EXTENDS Milestones

CONSTANTS fat, sat, h1, h2

Bound(r, e, f, c, s) ==
  [reaches |-> [m \in Codes |-> IF m = fat THEN r[1] ELSE r[2]],
   echoes |-> e, faults |-> f, closes |-> c, sandbox |-> s]

\* One milestone with a fault, whichever adapter speaks to KSeF (what the production one does,
\* the sandbox one may do), with an echo, announced twice; two milestones.
Mixed == {Bound(<<1, 0>>, 0, 1, FALSE, TRUE), Bound(<<1, 0>>, 1, 0, TRUE, FALSE),
          Bound(<<2, 0>>, 0, 0, FALSE, FALSE), Bound(<<1, 1>>, 0, 0, FALSE, FALSE)}
OnceWithEchoes == {Bound(<<1, 1>>, 2, 0, FALSE, FALSE)}
=============================================================================
