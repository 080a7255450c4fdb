-------------------------- MODULE MCDurableConsumer --------------------------
(* Small instances of DurableConsumer for TLC. *)
EXTENDS DurableConsumer

CONSTANTS m1, m2, w1, w2

OneMessage == {m1}
TwoMessages == {m1, m2}
OneWorker == {w1}
TwoWorkers == {w1, w2}
FirstPart == {1}
=============================================================================
