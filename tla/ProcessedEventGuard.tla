------------------------ MODULE ProcessedEventGuard ------------------------
(***************************************************************************)
(* withProcessedEventGuard of shared-kernel/src/processed-event.ts: check  *)
(* the ledger, run the handler's body, write the ledger row.  The three    *)
(* steps are separate database calls, and calls for one event overlap:     *)
(* every replica has a plain core NATS subscription, and relays repeat     *)
(* messages.                                                               *)
(*                                                                         *)
(* The body is abstract here; GoodsReceipt implements this specification.  *)
(* Suffixed variants of a definition are faulty ones that test properties. *)
(***************************************************************************)
EXTENDS Naturals

CONSTANTS
  Calls,  \* invocations of the guard by one consumer
  Keys,   \* event ids
  Key     \* the event id a call carries

ASSUME GuardAssumption == Key \in [Calls -> Keys]

VARIABLES
  ledger,  \* event ids with a ProcessedEvent row of this consumer
  step     \* per call: new, check, run, mark, and how it ended: skipped,
           \* threw (before its body succeeded), unmarked, done

vars == <<ledger, step>>

Steps == {"new", "check", "run", "mark", "skipped", "threw", "unmarked", "done"}

TypeOK ==
  /\ ledger \subseteq Keys
  /\ step \in [Calls -> Steps]

Init ==
  /\ ledger = {}
  /\ step = [c \in Calls |-> "new"]

Goto(c, next) == step' = [step EXCEPT ![c] = next]

\* A message arrives.
Arrive(c) == step[c] = "new" /\ Goto(c, "check") /\ UNCHANGED ledger

\* wasProcessed; a database error surfaces.
WasProcessed(c) == Key[c] \in ledger

Check(c) ==
  /\ step[c] = "check"
  /\ \/ WasProcessed(c) /\ Goto(c, "skipped")
     \/ ~WasProcessed(c) /\ Goto(c, "run")
     \/ Goto(c, "threw")
  /\ UNCHANGED ledger

\* fn, which commits its effect or throws.
Body(c) ==
  /\ step[c] = "run"
  /\ Goto(c, "mark") \/ Goto(c, "threw")
  /\ UNCHANGED ledger

\* markProcessed; a unique violation counts as success, another error surfaces.
Record(c) == ledger' = ledger \cup {Key[c]}

Mark(c) ==
  /\ step[c] = "mark"
  /\ \/ Record(c) /\ Goto(c, "done")
     \/ Goto(c, "unmarked") /\ UNCHANGED ledger

Next == \E c \in Calls : Arrive(c) \/ Check(c) \/ Body(c) \/ Mark(c)

Safety == Init /\ [][Next]_vars

-----------------------------------------------------------------------------
(* Properties *)

Ran(c) == step[c] \in {"mark", "unmarked", "done"}

\* A call that succeeded left its ledger row.
DoneIsRecorded == \A c \in Calls : step[c] = "done" => Key[c] \in ledger

\* processed-event.ts:127, "redelivery after successful mark is no-op": a call
\* that begins once the event is in the ledger never runs the body.
RedeliveryIsNoOp ==
  \A c \in Calls : []((step[c] = "new" /\ Key[c] \in ledger) => []~Ran(c))

\* processed-event.ts:125, "Run fn at most once per (eventId, consumer)".  It does
\* not hold: two overlapping calls both pass the check before either marks.
AtMostOnce ==
  \A c, d \in Calls : c # d /\ Key[c] = Key[d] => ~(Ran(c) /\ Ran(d))
=============================================================================
