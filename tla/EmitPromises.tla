----------------------------- MODULE EmitPromises -----------------------------
(***************************************************************************)
(* What EmitRelay promises, over the table and where its messages are.     *)
(***************************************************************************)
EXTENDS OutboxTable

VARIABLES
  buffer,     \* events with a message in the client's buffer
  delivered,  \* events the broker received
  emits,      \* history: emit calls per event, capped
  lost        \* history: events an outage or a crash took from the buffer

\* Only a broker outage or a crash between emit and the client's flush loses an
\* event: overlapping ticks, failed updates and dead-lettering do not.  A row that
\* Quality dead-lettered, for failed updates only, was handed to the client
\* MaxAttempts times by then.
LossHasCause ==
  \A e \in Events :
    /\ status[e] \in {"PROCESSED", "FAILED"} => e \in delivered \cup buffer \cup lost
    /\ status[e] = "FAILED" => emits[e] >= MaxAttempts
=============================================================================
