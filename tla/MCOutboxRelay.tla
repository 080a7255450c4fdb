---------------------------- MODULE MCOutboxRelay ----------------------------
(* Small instances of OutboxRelay for TLC. *)
EXTENDS OutboxRelay

CONSTANTS r1, r2

TwoRelays == {r1, r2}
FirstRowIsLegacy == {1}
=============================================================================
