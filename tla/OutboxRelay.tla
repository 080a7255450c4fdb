----------------------------- MODULE OutboxRelay -----------------------------
(***************************************************************************)
(* The transactional outbox relay of shared-kernel (GenericOutboxRelay):   *)
(* several replicas of one service share one OutboxEvent table and one     *)
(* broker.  A replica reclaims stuck rows, takes a snapshot of the PENDING *)
(* rows, claims them one at a time with a conditional update, publishes,   *)
(* and writes the outcome back with an update that is NOT conditional.     *)
(*                                                                         *)
(* Abstractions: event k is the k-th row by createdAt; a lock's age and    *)
(* the broker's duplicate window are "has it passed or not"; payload,      *)
(* headers, lastError and the diagnostic lockedBy are left out; deliveries *)
(* and publish failures are counted up to a cap.                           *)
(*                                                                         *)
(* A definition named after another with a suffix (StuckLegacyOnly for     *)
(* Stuck) is a faulty variant of it, used only to test the properties.     *)
(***************************************************************************)
EXTENDS OutboxTable, FiniteSets

CONSTANTS     \* next to those of OutboxTable
  Relays,       \* relay replicas working on the table
  BatchSize,    \* OUTBOX_BATCH_SIZE
  ReclaimOn,    \* OUTBOX_RECLAIM_MINUTES > 0
  JetStream,    \* NATS_JETSTREAM: acknowledged publish with msgID = row id
  Legacy,       \* rows an older release left PROCESSING, without lockedAt
  MaxFaults,    \* bound: crashes, failed database calls and stalls of relays
  SentCap       \* bound: messages of a row that are counted

ASSUME RelayAssumption ==
  /\ NumEvents \in Nat
  /\ MaxAttempts \in Nat \ {0}
  /\ BatchSize \in Nat \ {0}
  /\ ReclaimOn \in BOOLEAN /\ JetStream \in BOOLEAN
  /\ Legacy \subseteq Events
  /\ MaxFaults \in Nat
  /\ SentCap \in Nat \ {0, 1}

VARIABLES     \* next to those of OutboxTable
  lock,      \* OutboxEvent.lockedAt: null, recent, or older than the reclaim age
  pc,        \* where each relay is
  batch,     \* rows of the relay's findMany snapshot it has not handled yet
  seen,      \* the attempts column as the relay's snapshot has it
  cur,       \* the row a relay is working on, 0 when none
  sent,      \* messages the broker accepted per row, capped
  window,    \* rows whose msgID is inside the stream's duplicate_window
  faults,    \* crashes, failed database calls and stalls so far
  failures,  \* history: publish failures a relay saw per row, capped
  unknown,   \* history: publishes per row whose outcome was lost, capped
  stalled    \* history: rows a live relay ever held for longer than the reclaim age

rowVars    == <<status, attempts, lock>>
relayVars  == <<pc, batch, seen, cur>>
brokerVars == <<sent, window>>
history    == <<failures, unknown, stalled>>
vars == <<rowVars, relayVars, brokerVars, faults, history>>

Open     == {"PENDING", "PROCESSING"}
Settled  == {"PROCESSED", "FAILED"}
InFlight == {"publish", "persist", "fail"}
FailCap  == MaxAttempts + 1
UnknownCap == SentCap - 1

TypeOK ==
  /\ status \in [Events -> {"absent"} \cup Open \cup Settled]
  /\ attempts \in [Events -> 0..MaxAttempts]
  /\ lock \in [Events -> {"null", "fresh", "aged"}]
  /\ pc \in [Relays -> {"idle", "fetch", "claim", "down"} \cup InFlight]
  /\ batch \in [Relays -> SUBSET Events]
  /\ seen \in [Relays -> [Events -> 0..MaxAttempts]]
  /\ cur \in [Relays -> Events \cup {0}]
  /\ sent \in [Events -> 0..SentCap]
  /\ window \subseteq Events
  /\ faults \in 0..MaxFaults
  /\ failures \in [Events -> 0..FailCap]
  /\ unknown \in [Events -> 0..UnknownCap] /\ stalled \subseteq Events

Init ==
  /\ status = [e \in Events |-> IF e \in Legacy THEN "PROCESSING" ELSE "absent"]
  /\ attempts = [e \in Events |-> 0]
  /\ lock = [e \in Events |-> "null"]
  /\ pc = [r \in Relays |-> "idle"]
  /\ batch = [r \in Relays |-> {}]
  /\ seen = [r \in Relays |-> [e \in Events |-> 0]]
  /\ cur = [r \in Relays |-> 0]
  /\ sent = [e \in Events |-> 0]
  /\ window = {}
  /\ faults = 0
  /\ failures = [e \in Events |-> 0]
  /\ unknown = [e \in Events |-> 0] /\ stalled = {}

-----------------------------------------------------------------------------
(* Helpers *)

BumpTo(cap, n) == IF n < cap THEN n + 1 ELSE cap

Oldest(S) == {e \in S : Cardinality({f \in S : f < e}) < BatchSize}

Pending == {e \in Events : status[e] = "PENDING"}

\* The where clause of the reclaim: an aged lock, or no lock on an old row.
StuckByCreatedAt == {e \in Events : status[e] = "PROCESSING"}
StuckLegacyOnly  == {e \in Events : status[e] = "PROCESSING" /\ lock[e] = "null"}
Stuck == {e \in Events : status[e] = "PROCESSING" /\ lock[e] \in {"aged", "null"}}

\* The where clause of the claim.
ClaimableUnconditionally(e) == status[e] \in Open
Claimable(e) == status[e] = "PENDING"

ExhaustedLate(n)  == n > MaxAttempts
ExhaustedEarly(n) == n + 1 >= MaxAttempts
Exhausted(n) == n >= MaxAttempts

Fault == faults < MaxFaults /\ faults' = faults + 1

NoneSeen == [e \in Events |-> 0]

\* Nobody remembers how the relay's publish of e ended.
OutcomeLost(e) == unknown' = [unknown EXCEPT ![e] = BumpTo(UnknownCap, @)]

\* The relay goes on with the rows left of its batch; with none it ends the tick.
NextRow(r, rest) ==
  /\ pc' = [pc EXCEPT ![r] = IF rest = {} THEN "idle" ELSE "claim"]
  /\ batch' = [batch EXCEPT ![r] = rest]
  /\ seen' = [seen EXCEPT ![r] = IF rest = {} THEN NoneSeen ELSE @]
  /\ cur' = [cur EXCEPT ![r] = 0]

\* The unconditional update by id that ends a claim.
WriteBack(e, st, att) ==
  /\ status' = [status EXCEPT ![e] = st]
  /\ attempts' = [attempts EXCEPT ![e] = att]
  /\ lock' = [lock EXCEPT ![e] = "null"]

\* The broker stores the message unless its msgID is in the duplicate window.
Store(e) ==
  /\ sent' = IF JetStream /\ e \in window THEN sent
             ELSE [sent EXCEPT ![e] = BumpTo(SentCap, @)]
  /\ window' = IF JetStream THEN window \cup {e} ELSE window

-----------------------------------------------------------------------------
(* Environment: domain transactions, time, the broker's window *)

\* A command handler's transaction commits the domain row and its outbox row.
Emit(e) ==
  /\ status[e] = "absent"
  /\ \A f \in Events : f < e => status[f] # "absent"
  /\ status' = [status EXCEPT ![e] = "PENDING"]
  /\ UNCHANGED <<attempts, lock, relayVars, brokerVars, faults, history>>

Holds(r, e) == pc[r] \in InFlight /\ cur[r] = e

Ages(e) ==
  /\ status[e] = "PROCESSING" /\ lock[e] = "fresh"
  /\ lock' = [lock EXCEPT ![e] = "aged"]
  /\ UNCHANGED <<status, attempts, relayVars, brokerVars, failures, unknown>>

\* OUTBOX_RECLAIM_MINUTES pass over the lock that a dead relay, or one whose write-back
\* failed, has left.
LockAges(e) ==
  /\ \A r \in Relays : ~Holds(r, e)
  /\ Ages(e)
  /\ UNCHANGED <<faults, stalled>>

\* They pass over the lock of a relay that is alive and still between its claim and its
\* write-back.
Stall(e) ==
  /\ \E r \in Relays : Holds(r, e)
  /\ Ages(e)
  /\ Fault
  /\ stalled' = stalled \cup {e}

WindowCloses(e) ==
  /\ e \in window
  /\ window' = window \ {e}
  /\ UNCHANGED <<rowVars, relayVars, sent, faults, history>>

-----------------------------------------------------------------------------
(* One relay *)

\* reclaimStuckProcessing; its database error is swallowed and the tick goes on.
Tick(r) ==
  /\ pc[r] = "idle"
  /\ pc' = [pc EXCEPT ![r] = "fetch"]
  /\ \/ /\ IF ReclaimOn
           THEN /\ status' = [e \in Events |-> IF e \in Stuck THEN "PENDING" ELSE status[e]]
                /\ lock' = [e \in Events |-> IF e \in Stuck THEN "null" ELSE lock[e]]
           ELSE UNCHANGED <<status, lock>>
        /\ UNCHANGED faults
     \/ ReclaimOn /\ Fault /\ UNCHANGED <<status, lock>>
  /\ UNCHANGED <<attempts, batch, seen, cur, brokerVars, history>>

\* findMany of the oldest PENDING rows; an error ends the tick.
Fetch(r) ==
  /\ pc[r] = "fetch"
  /\ \/ /\ Pending # {}
        /\ batch' = [batch EXCEPT ![r] = Oldest(Pending)]
        /\ seen' = [seen EXCEPT ![r] = attempts]
        /\ pc' = [pc EXCEPT ![r] = "claim"]
        /\ UNCHANGED <<cur, faults>>
     \/ /\ (Pending = {} /\ UNCHANGED faults) \/ Fault
        /\ pc' = [pc EXCEPT ![r] = "idle"]
        /\ UNCHANGED <<batch, seen, cur>>
  /\ UNCHANGED <<rowVars, brokerVars, history>>

\* The conditional update PENDING -> PROCESSING of the oldest row of the batch.
ClaimRow(e) ==
  /\ status' = [status EXCEPT ![e] = "PROCESSING"]
  /\ lock' = [lock EXCEPT ![e] = "fresh"]

Claim(r) ==
  /\ pc[r] = "claim"
  /\ \E e \in batch[r] :
       /\ \A f \in batch[r] : e <= f
       /\ \/ /\ Claimable(e)
             /\ ClaimRow(e)
             /\ pc' = [pc EXCEPT ![r] = "publish"]
             /\ batch' = [batch EXCEPT ![r] = @ \ {e}]
             /\ cur' = [cur EXCEPT ![r] = e]
             /\ UNCHANGED <<seen, faults>>
          \/ /\ ~Claimable(e)            \* lost race: skip the row
             /\ NextRow(r, batch[r] \ {e})
             /\ UNCHANGED <<status, lock, faults>>
          \/ /\ Fault                    \* the update failed, or only its answer did
             /\ NextRow(r, batch[r] \ {e})
             /\ \/ UNCHANGED <<status, lock>>
                \/ Claimable(e) /\ ClaimRow(e)
  /\ UNCHANGED <<attempts, brokerVars, history>>

\* Only the core path reports success without the broker's word for it.
MayLoseSilentlyAlways == TRUE
MayLoseSilently == ~JetStream

\* publishEvent returned normally.  The JetStream path has the broker's ack; the
\* core path has handed the message to the client's buffer, which may be lost.
PublishAcked(r) ==
  /\ pc[r] = "publish"
  /\ pc' = [pc EXCEPT ![r] = "persist"]
  /\ \/ Store(cur[r])
     \/ MayLoseSilently /\ UNCHANGED brokerVars
  /\ UNCHANGED <<rowVars, batch, seen, cur, faults, failures, unknown, stalled>>

\* publishEvent threw: refused, or stored with the ack lost (timeout).
PublishFailed(r) ==
  /\ pc[r] = "publish"
  /\ pc' = [pc EXCEPT ![r] = "fail"]
  /\ failures' = [failures EXCEPT ![cur[r]] = BumpTo(FailCap, @)]
  /\ \/ UNCHANGED <<brokerVars, unknown>>
     \/ Store(cur[r]) /\ OutcomeLost(cur[r])
  /\ UNCHANGED <<rowVars, batch, seen, cur, faults, stalled>>

MarkProcessed(r) ==
  /\ pc[r] = "persist"
  /\ NextRow(r, batch[r])
  /\ \/ /\ WriteBack(cur[r], "PROCESSED", attempts[cur[r]])
        /\ UNCHANGED <<faults, unknown>>
     \/ /\ Fault                         \* left PROCESSING for the reclaim
        /\ OutcomeLost(cur[r])
        /\ UNCHANGED rowVars
  /\ UNCHANGED <<brokerVars, failures, stalled>>

\* attempts is computed from the snapshot, not from the row.
MarkPublishFailure(r) ==
  LET e == cur[r]
      n == seen[r][e] + 1
  IN /\ pc[r] = "fail"
     /\ NextRow(r, batch[r])
     /\ \/ /\ WriteBack(e, IF Exhausted(n) THEN "FAILED" ELSE "PENDING", n)
           /\ UNCHANGED faults
        \/ Fault /\ UNCHANGED rowVars
     /\ UNCHANGED <<brokerVars, history>>

\* The process dies with its in-memory snapshot; nothing is undone in the database.
Crash(r) ==
  /\ pc[r] # "down"
  /\ Fault
  /\ IF pc[r] = "persist" THEN OutcomeLost(cur[r]) ELSE UNCHANGED unknown
  /\ pc' = [pc EXCEPT ![r] = "down"]
  /\ batch' = [batch EXCEPT ![r] = {}]
  /\ seen' = [seen EXCEPT ![r] = NoneSeen]
  /\ cur' = [cur EXCEPT ![r] = 0]
  /\ UNCHANGED <<rowVars, brokerVars, failures, stalled>>

Restart(r) ==
  /\ pc[r] = "down"
  /\ pc' = [pc EXCEPT ![r] = "idle"]
  /\ UNCHANGED <<rowVars, batch, seen, cur, brokerVars, faults, history>>

-----------------------------------------------------------------------------

Publish(r) == PublishAcked(r) \/ PublishFailed(r)

RelayStep(r) ==
  \/ Tick(r) \/ Fetch(r) \/ Claim(r) \/ Publish(r)
  \/ MarkProcessed(r) \/ MarkPublishFailure(r) \/ Restart(r)

Next ==
  \/ \E e \in Events : Emit(e) \/ LockAges(e) \/ Stall(e) \/ WindowCloses(e)
  \/ \E r \in Relays : RelayStep(r) \/ Crash(r)

\* The interval timer keeps ticking, a process that died is restarted by its
\* supervisor, and minutes pass.  Nothing is assumed of the broker or of the
\* domain services.
Fairness ==
  /\ \A r \in Relays : WF_vars(RelayStep(r))
  /\ \A e \in Events : WF_vars(LockAges(e))

Safety == Init /\ [][Next]_vars
Spec   == Safety /\ Fairness

-----------------------------------------------------------------------------
(* Properties *)

\* A row is marked PROCESSED only if the broker accepted its message at least
\* once: crashes, lost acks and stolen claims never lose an event (JetStream).
ProcessedWasSent ==
  JetStream => \A e \in Events : status[e] = "PROCESSED" => sent[e] > 0

\* A row is dead-lettered only after MaxAttempts real publish failures, whatever
\* stale snapshots the replicas computed the counter from.
NoEarlyDeadLetter ==
  \A e \in Events : status[e] = "FAILED" => failures[e] >= MaxAttempts

\* A claim is exclusive: two replicas never work on the same row, and the row they work
\* on stays PROCESSING, unless a live relay has outlasted the reclaim age on that row.
ClaimExclusive ==
  \A r \in Relays, e \in Events \ stalled : Holds(r, e) =>
    /\ status[e] = "PROCESSING"
    /\ \A q \in Relays \ {r} : ~Holds(q, e)

\* Every message of a row but one has a cause of its own: a publish whose outcome was lost
\* (an ack that never came, a crash or a database error after the ack).  Rows on which a
\* live relay has outlasted the reclaim age are excepted.
DuplicateHasCause ==
  \A e \in Events \ stalled : sent[e] <= 1 + unknown[e]

\* The retry budget: crashes and database errors aside, a row's publish fails
\* at most MaxAttempts times before the row leaves the queue.
RetryBudget ==
  \A e \in Events : failures[e] <= MaxAttempts + faults

\* PROCESSED and FAILED are final, but for rows with such a relay.
SettledIsFinal ==
  [][\A e \in Events \ stalled : status[e] \in Settled => status'[e] = status[e]]_vars

\* Every committed outbox row is eventually relayed or dead-lettered, and the finitely many
\* rows there are do not take turns at staying open: the queue drains.
EveryRowSettles == []<>(\A e \in Events : status[e] \notin Open)

\* The relay implements the outbox contract: PENDING and PROCESSING rows are owed, and so
\* is, from then on, a row on which a live relay outlasted the reclaim age.
Contract == INSTANCE OutboxContract WITH
  Event         <- Events,
  InitiallyOwed <- Legacy,
  delivered     <- {e \in Events : sent[e] > 0},
  phase         <- [e \in Events |->
                     IF e \in stalled THEN "owed"
                     ELSE IF status[e] = "absent" THEN "none"
                     ELSE IF status[e] = "PROCESSED" THEN "relayed"
                     ELSE IF status[e] = "FAILED" THEN "dead" ELSE "owed"]

\* On JetStream, at-least-once or dead-lettered, and then closed.
ImplementsContract == Contract!Safety

=============================================================================
