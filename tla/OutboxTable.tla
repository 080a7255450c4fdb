------------------------------ MODULE OutboxTable ------------------------------
(***************************************************************************)
(* The table OutboxEvent that domain services write and relays work on.    *)
(***************************************************************************)
EXTENDS Naturals

CONSTANTS
  NumEvents,    \* rows the domain services ever write
  MaxAttempts   \* OUTBOX_MAX_ATTEMPTS

VARIABLES
  status,       \* "absent" before the row's transaction commits
  attempts

Events == 1..NumEvents
=============================================================================
