------------------------------ MODULE EmitRelay ------------------------------
(***************************************************************************)
(* The two outbox relays that are not GenericOutboxRelay: PLM's and        *)
(* Quality's.  Each tick reads the PENDING rows and, row by row, hands the *)
(* message to the NATS client WITHOUT waiting for it and writes PROCESSED. *)
(* There is no claim and no guard against overlapping ticks; only Quality  *)
(* counts attempts, and only failed database updates raise its counter.    *)
(*                                                                         *)
(* The client's buffer is external: a message in it is flushed while the   *)
(* broker is reachable and dropped when it is not or the process dies.     *)
(* Suffixed variants of a definition are faulty ones that test properties. *)
(***************************************************************************)
EXTENDS EmitPromises, FiniteSets

CONSTANTS     \* next to those of EmitPromises
  Ticks,           \* ticks that may overlap, of one process or of several
  BatchSize,       \* take: 10 (PLM), 50 (Quality)
  Services,        \* which of "plm" and "quality" the table may belong to
  Outages,         \* may the broker become unreachable, or the process die?
  MaxFaults        \* bound: failed database calls, process crashes, broker outages

ASSUME EmitRelayAssumption ==
  /\ NumEvents \in Nat /\ MaxAttempts \in Nat \ {0} /\ BatchSize \in Nat \ {0}
  /\ Services \subseteq {"plm", "quality"} /\ Outages \in BOOLEAN /\ MaxFaults \in Nat

VARIABLES     \* next to those of EmitPromises
  service,           \* whose relay it is
  pc, batch, cur,    \* per tick: position, rows left of the snapshot, row in hand
  seen,              \* per tick: the attempts column of its snapshot
  brokerUp,          \* is the broker reachable?
  faults

rowVars == <<status, attempts>>
tickVars == <<pc, batch, cur, seen>>
clientVars == <<service, buffer, brokerUp, delivered, lost>>
vars == <<rowVars, tickVars, clientVars, emits, faults>>

EmitCap == MaxAttempts + 1

TypeOK ==
  /\ service \in Services
  /\ status \in [Events -> {"absent", "PENDING", "PROCESSED", "FAILED"}]
  /\ attempts \in [Events -> 0..MaxAttempts]
  /\ pc \in [Ticks -> {"idle", "next", "update", "count"}]
  /\ batch \in [Ticks -> SUBSET Events]
  /\ cur \in [Ticks -> Events \cup {0}]
  /\ seen \in [Ticks -> [Events -> 0..MaxAttempts]]
  /\ buffer \subseteq Events /\ delivered \subseteq Events /\ lost \subseteq Events
  /\ brokerUp \in BOOLEAN
  /\ emits \in [Events -> 0..EmitCap]
  /\ faults \in 0..MaxFaults

NoneSeen == [e \in Events |-> 0]

Init ==
  /\ service \in Services
  /\ status = [e \in Events |-> "absent"]
  /\ attempts = [e \in Events |-> 0]
  /\ pc = [t \in Ticks |-> "idle"]
  /\ batch = [t \in Ticks |-> {}]
  /\ cur = [t \in Ticks |-> 0]
  /\ seen = [t \in Ticks |-> NoneSeen]
  /\ buffer = {} /\ delivered = {} /\ lost = {} /\ brokerUp = TRUE
  /\ emits = [e \in Events |-> 0]
  /\ faults = 0

Fault == faults < MaxFaults /\ faults' = faults + 1

Pending == {e \in Events : status[e] = "PENDING"}

\* Quality orders by createdAt; PLM takes any BatchSize rows.
Snapshots ==
  IF service = "quality"
  THEN {{e \in Pending : Cardinality({f \in Pending : f < e}) < BatchSize}}
  ELSE {S \in SUBSET Pending :
          Cardinality(S) = BatchSize \/ (S = Pending /\ Cardinality(S) < BatchSize)}

-----------------------------------------------------------------------------
(* Domain transactions and the client's side of the broker *)

Emit(e) ==
  /\ status[e] = "absent"
  /\ status' = [status EXCEPT ![e] = "PENDING"]
  /\ UNCHANGED <<attempts, tickVars, clientVars, emits, faults>>

Flush(e) ==
  /\ e \in buffer /\ brokerUp
  /\ buffer' = buffer \ {e}
  /\ delivered' = delivered \cup {e}
  /\ UNCHANGED <<service, rowVars, tickVars, brokerUp, lost, emits, faults>>

\* emit's connection error goes to an observable nobody subscribed to.
Drop(e) ==
  /\ e \in buffer /\ ~brokerUp
  /\ buffer' = buffer \ {e}
  /\ lost' = lost \cup {e}
  /\ UNCHANGED <<service, rowVars, tickVars, brokerUp, delivered, emits, faults>>

BrokerFails ==
  /\ Outages /\ brokerUp /\ Fault
  /\ brokerUp' = FALSE
  /\ UNCHANGED <<service, rowVars, tickVars, buffer, delivered, lost, emits>>

BrokerReturns ==
  /\ ~brokerUp
  /\ brokerUp' = TRUE
  /\ UNCHANGED <<service, rowVars, tickVars, buffer, delivered, lost, emits, faults>>

-----------------------------------------------------------------------------
(* One tick *)

NextRow(t, rest) ==
  /\ pc' = [pc EXCEPT ![t] = IF rest = {} THEN "idle" ELSE "next"]
  /\ batch' = [batch EXCEPT ![t] = rest]
  /\ seen' = [seen EXCEPT ![t] = IF rest = {} THEN NoneSeen ELSE @]
  /\ cur' = [cur EXCEPT ![t] = 0]

Fetch(t) ==
  /\ pc[t] = "idle"
  /\ \E S \in Snapshots :
       /\ S # {}
       /\ batch' = [batch EXCEPT ![t] = S]
       /\ seen' = [seen EXCEPT ![t] = attempts]
       /\ pc' = [pc EXCEPT ![t] = "next"]
  /\ UNCHANGED <<rowVars, cur, clientVars, emits, faults>>

\* emit returns at once and the update of the row is issued.
PutInBufferNever(e) == UNCHANGED buffer
PutInBuffer(e) == buffer' = buffer \cup {e}

Relay(t) ==
  /\ pc[t] = "next"
  /\ \E e \in batch[t] :
       /\ service = "quality" => \A f \in batch[t] : e <= f
       /\ PutInBuffer(e)
       /\ emits' = [emits EXCEPT ![e] = IF @ < EmitCap THEN @ + 1 ELSE @]
       /\ cur' = [cur EXCEPT ![t] = e]
       /\ batch' = [batch EXCEPT ![t] = @ \ {e}]
  /\ pc' = [pc EXCEPT ![t] = "update"]
  /\ UNCHANGED <<service, rowVars, seen, brokerUp, delivered, lost, faults>>

\* The update to PROCESSED; PLM logs a failure, Quality goes on to count it.
Update(t) ==
  /\ pc[t] = "update"
  /\ \/ /\ status' = [status EXCEPT ![cur[t]] = "PROCESSED"]
        /\ NextRow(t, batch[t])
        /\ UNCHANGED faults
     \/ /\ Fault
        /\ UNCHANGED status
        /\ IF service = "quality"
           THEN pc' = [pc EXCEPT ![t] = "count"] /\ UNCHANGED <<batch, cur, seen>>
           ELSE NextRow(t, batch[t])
  /\ UNCHANGED <<attempts, clientVars, emits>>

ExhaustedAtOnce(n) == TRUE
Exhausted(n) == n >= MaxAttempts

\* Quality's catch block: attempts from the snapshot; its own failure is swallowed.
CountFailure(t) ==
  LET e == cur[t]
      n == seen[t][e] + 1
  IN /\ pc[t] = "count"
     /\ NextRow(t, batch[t])
     /\ \/ /\ attempts' = [attempts EXCEPT ![e] = n]
           /\ status' = IF Exhausted(n) THEN [status EXCEPT ![e] = "FAILED"] ELSE status
           /\ UNCHANGED faults
        \/ Fault /\ UNCHANGED rowVars
     /\ UNCHANGED <<clientVars, emits>>

\* The process dies: its ticks and the client's buffer are gone.
Crash ==
  /\ Outages /\ Fault
  /\ pc' = [t \in Ticks |-> "idle"]
  /\ batch' = [t \in Ticks |-> {}]
  /\ cur' = [t \in Ticks |-> 0]
  /\ seen' = [t \in Ticks |-> NoneSeen]
  /\ buffer' = {}
  /\ lost' = lost \cup buffer
  /\ UNCHANGED <<service, rowVars, brokerUp, delivered, emits>>

-----------------------------------------------------------------------------

Tick(t) == Fetch(t) \/ Relay(t) \/ Update(t) \/ CountFailure(t)

Next ==
  \/ \E e \in Events : Emit(e) \/ Flush(e) \/ Drop(e)
  \/ BrokerFails \/ BrokerReturns \/ Crash
  \/ \E t \in Ticks : Tick(t)

\* The interval timer keeps firing, the client flushes while it is connected and
\* an outage ends.
Fairness ==
  /\ \A t \in Ticks : WF_vars(Tick(t))
  /\ \A e \in Events : WF_vars(Flush(e))
  /\ WF_vars(BrokerReturns)

Safety == Init /\ [][Next]_vars
Spec   == Safety /\ Fairness

-----------------------------------------------------------------------------
(* Further properties; what is promised about safety is in EmitPromises *)

\* No committed event is forgotten: it is delivered, or an outage or a crash took it.
EveryEventDelivered ==
  \A e \in Events : status[e] = "PENDING" ~> e \in delivered \cup lost

\* ADR-002's at-least-once for a PROCESSED row.  It does not hold: after one outage
\* the event is lost and nothing sends it again.
NothingLost ==
  \A e \in Events : status[e] = "PROCESSED" => e \in delivered \cup buffer
=============================================================================
