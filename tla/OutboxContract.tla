---------------------------- MODULE OutboxContract ----------------------------
(***************************************************************************)
(* What the transactional outbox promises a producer: a committed event is *)
(* owed to the broker until it was delivered at least once (ADR-002,       *)
(* at-least-once) or is given up to the dead letters, and then the matter  *)
(* is closed: nothing is delivered for it any more.                        *)
(***************************************************************************)
CONSTANTS Event, InitiallyOwed

VARIABLES
  phase,      \* "none", "owed", "relayed" or "dead" for each event
  delivered   \* events the broker holds at least one message of

vars == <<phase, delivered>>

Init ==
  /\ phase = [e \in Event |-> IF e \in InitiallyOwed THEN "owed" ELSE "none"]
  /\ delivered = {}

Commit(e) ==
  /\ phase[e] = "none"
  /\ phase' = [phase EXCEPT ![e] = "owed"]
  /\ UNCHANGED delivered

Deliver(e) ==
  /\ phase[e] = "owed"
  /\ delivered' = delivered \cup {e}
  /\ UNCHANGED phase

Settle(e) ==
  /\ phase[e] = "owed" /\ e \in delivered
  /\ phase' = [phase EXCEPT ![e] = "relayed"]
  /\ UNCHANGED delivered

GiveUp(e) ==
  /\ phase[e] = "owed"
  /\ phase' = [phase EXCEPT ![e] = "dead"]
  /\ UNCHANGED delivered

Next == \E e \in Event : Commit(e) \/ Deliver(e) \/ Settle(e) \/ GiveUp(e)

Safety == Init /\ [][Next]_vars
=============================================================================
