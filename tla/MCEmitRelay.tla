----------------------------- MODULE MCEmitRelay -----------------------------
(* Small instances of EmitRelay for TLC. *)
EXTENDS EmitRelay

CONSTANTS t1, t2

TwoTicks == {t1, t2}
=============================================================================
