-------------------------- MODULE OutboxRelayProofs --------------------------
(***************************************************************************)
(* Safety of the outbox relays, first of shared-kernel's and then of those *)
(* of PLM and Quality, for any number of rows, replicas, attempts and      *)
(* faults.  One inductive invariant carries the first three theorems: the  *)
(* types, the bounds of the retry counter in the row and in every snapshot,*)
(* the counter never running ahead of the failures that really happened,   *)
(* and a broker that holds what a relay believes published.                *)
(* The claim theorems add the lease: what a relay holds is PROCESSING with *)
(* a recent lock, unless a relay has outlasted the reclaim age on the row. *)
(***************************************************************************)
EXTENDS OutboxRelay, EmitPromises, TLAPS

\* A row still in the queue has retries left, in the table and in every snapshot.
CounterBounded ==
  /\ \A e \in Events : status[e] \in {"absent"} \cup Open => attempts[e] < MaxAttempts
  /\ \A r \in Relays : \A e \in batch[r] : seen[r][e] < MaxAttempts
  /\ \A r \in Relays : pc[r] \in InFlight =>
       cur[r] \in Events /\ seen[r][cur[r]] < MaxAttempts

\* No counter, stored or remembered, exceeds the failures of its row.
CounterHonest ==
  /\ \A e \in Events : attempts[e] <= failures[e]
  /\ \A r \in Relays, e \in Events : seen[r][e] <= failures[e]
  /\ \A r \in Relays : pc[r] = "fail" => seen[r][cur[r]] < failures[cur[r]]
  /\ NoEarlyDeadLetter

\* On JetStream the broker holds every message it remembers the msgID of and
\* every message a relay is about to mark PROCESSED.
BrokerHolds ==
  JetStream =>
    /\ \A e \in window : sent[e] > 0
    /\ \A r \in Relays : pc[r] = "persist" => sent[cur[r]] > 0
    /\ \A e \in Events : status[e] = "PROCESSED" => sent[e] > 0

IInv == TypeOK /\ CounterBounded /\ CounterHonest /\ BrokerHolds

\* A claim in progress is a recent lock on a PROCESSING row, and nobody else's.
Lease ==
  \A r \in Relays, e \in Events \ stalled : Holds(r, e) =>
    /\ status[e] = "PROCESSING" /\ lock[e] = "fresh"
    /\ \A q \in Relays \ {r} : ~Holds(q, e)

-----------------------------------------------------------------------------
\* A counter bumped up to a cap stays within the cap, never decreases, and grows
\* unless the cap is reached.
LEMMA BumpToBounds ==
  ASSUME NEW cap \in Nat, NEW n \in 0..cap
  PROVE  /\ BumpTo(cap, n) \in 0..cap
         /\ BumpTo(cap, n) >= n
         /\ n < cap => BumpTo(cap, n) = n + 1
         /\ cap > 0 => BumpTo(cap, n) > 0
  BY DEF BumpTo

\* A lost outcome is counted at its row, up to the cap.
LEMMA OutcomeCounted ==
  ASSUME NEW e \in Events, unknown \in [Events -> 0..UnknownCap], OutcomeLost(e) \/ UNCHANGED unknown
  PROVE  /\ unknown' \in [Events -> 0..UnknownCap]
         /\ \A f \in Events : unknown[f] <= unknown'[f]
         /\ OutcomeLost(e) => unknown'[e] = UnknownCap \/ unknown'[e] = unknown[e] + 1
<1>1. UnknownCap \in Nat
  BY RelayAssumption DEF UnknownCap
<1>2. \A n \in 0..UnknownCap : /\ BumpTo(UnknownCap, n) \in 0..UnknownCap /\ n <= BumpTo(UnknownCap, n)
                             /\ BumpTo(UnknownCap, n) \in {UnknownCap, n + 1}
  BY <1>1 DEF BumpTo
<1>3. CASE UNCHANGED unknown /\ ~OutcomeLost(e)
  BY <1>1, <1>3
<1>4. CASE OutcomeLost(e)
  <2>1. \A f \in Events : unknown'[f] = IF f = e THEN BumpTo(UnknownCap, unknown[e]) ELSE unknown[f]
    BY <1>4 DEF OutcomeLost
  <2>2. unknown' \in [Events -> 0..UnknownCap]
    BY <1>2, <1>4 DEF OutcomeLost
  <2> QED
    BY <1>1, <1>2, <2>1, <2>2
<1> QED
  BY <1>3, <1>4

\* The initial states satisfy the invariant.
LEMMA InitIInv == Init => IInv
  BY RelayAssumption
  DEF Init, IInv, TypeOK, CounterBounded, CounterHonest, NoEarlyDeadLetter,
      BrokerHolds, Open, Settled, InFlight, NoneSeen, FailCap, UnknownCap, Events

\* The broker's step: counts only grow and the stored message is held.
LEMMA StoreHolds ==
  ASSUME IInv, NEW e \in Events, Store(e)
  PROVE  /\ sent' \in [Events -> 0..SentCap]
         /\ window' \subseteq Events
         /\ \A f \in Events : sent[f] > 0 => sent'[f] > 0
         /\ JetStream => sent'[e] > 0 /\ window' \subseteq window \cup {e}
  BY RelayAssumption DEF IInv, TypeOK, BrokerHolds, Store, BumpTo

\* Going on with part of the batch keeps the relay's variables typed and forgets
\* counters, never invents them.
LEMMA NextRowTypes ==
  ASSUME TypeOK, NEW r \in Relays, NEW rest \in SUBSET batch[r], NextRow(r, rest)
  PROVE  /\ pc' \in [Relays -> {"idle", "fetch", "claim", "down"} \cup InFlight]
         /\ batch' \in [Relays -> SUBSET Events]
         /\ seen' \in [Relays -> [Events -> 0..MaxAttempts]]
         /\ cur' \in [Relays -> Events \cup {0}]
         /\ \A q \in Relays : batch'[q] \subseteq batch[q]
         /\ \A q \in Relays : seen'[q] = seen[q] \/ (batch'[q] = {} /\ seen'[q] = NoneSeen)
<1>1. NoneSeen \in [Events -> 0..MaxAttempts]
  BY RelayAssumption DEF NoneSeen
<1>2. rest \in SUBSET Events
  BY DEF TypeOK
<1>3. pc' \in [Relays -> {"idle", "fetch", "claim", "down"} \cup InFlight]
  BY DEF TypeOK, NextRow
<1>4. /\ batch' \in [Relays -> SUBSET Events]
      /\ cur' \in [Relays -> Events \cup {0}]
  BY <1>2 DEF TypeOK, NextRow
<1>5. seen' \in [Relays -> [Events -> 0..MaxAttempts]]
  BY <1>1 DEF TypeOK, NextRow
<1>6. \A q \in Relays : batch'[q] \subseteq batch[q]
  BY <1>2 DEF TypeOK, NextRow
<1>7. \A q \in Relays : seen'[q] = seen[q] \/ (batch'[q] = {} /\ seen'[q] = NoneSeen)
  BY DEF TypeOK, NextRow
<1> QED
  BY <1>3, <1>4, <1>5, <1>6, <1>7

\* A snapshot of existing rows keeps the relay's batch and counters typed.
LEMMA SnapshotTypes ==
  ASSUME TypeOK, NEW r \in Relays, NEW S \in SUBSET Events,
         \/ /\ batch' = [batch EXCEPT ![r] = S]
            /\ seen' = [seen EXCEPT ![r] = attempts]
         \/ UNCHANGED <<batch, seen>>
  PROVE  /\ batch' \in [Relays -> SUBSET Events]
         /\ seen' \in [Relays -> [Events -> 0..MaxAttempts]]
<1>1. /\ batch \in [Relays -> SUBSET Events]
      /\ seen \in [Relays -> [Events -> 0..MaxAttempts]]
      /\ attempts \in [Events -> 0..MaxAttempts]
  BY DEF TypeOK
<1>2. CASE UNCHANGED <<batch, seen>>
  BY <1>1, <1>2
<1>3. CASE batch' = [batch EXCEPT ![r] = S] /\ seen' = [seen EXCEPT ![r] = attempts]
  <2> HIDE DEF TypeOK
  <2> QED
    BY <1>1, <1>3
<1> QED
  BY <1>2, <1>3

\* Every step of the relays and of their environment preserves the invariant.
LEMMA NextIInv == IInv /\ [Next]_vars => IInv'
<1> SUFFICES ASSUME IInv, [Next]_vars PROVE IInv'
  OBVIOUS
<1> USE RelayAssumption DEF IInv, TypeOK, CounterBounded, CounterHonest,
        NoEarlyDeadLetter, BrokerHolds, Open, Settled, InFlight, rowVars,
        relayVars, brokerVars, history
<1>1. ASSUME NEW e \in Events, Emit(e) PROVE IInv'
  BY <1>1 DEF Emit
<1>2. ASSUME NEW e \in Events, LockAges(e) \/ Stall(e) PROVE IInv'
  BY <1>2 DEF LockAges, Stall, Ages, Fault
<1>3. ASSUME NEW e \in Events, WindowCloses(e) PROVE IInv'
  BY <1>3 DEF WindowCloses
<1>4. ASSUME NEW r \in Relays, Tick(r) PROVE IInv'
  BY <1>4 DEF Tick, Stuck, Fault
<1>5. ASSUME NEW r \in Relays, Fetch(r) PROVE IInv'
  <2>1. /\ Oldest(Pending) \in SUBSET Events
        /\ \A e \in Oldest(Pending) : attempts[e] < MaxAttempts
    BY DEF Oldest, Pending
  <2>2. UNCHANGED <<status, attempts, lock, sent, window, failures, unknown, stalled, cur>>
        /\ faults' \in 0..MaxFaults
    BY <1>5 DEF Fetch, Fault
  <2>3. pc' = [pc EXCEPT ![r] = "claim"] \/ pc' = [pc EXCEPT ![r] = "idle"]
    BY <1>5 DEF Fetch
  <2>4. \/ /\ batch' = [batch EXCEPT ![r] = Oldest(Pending)]
           /\ seen' = [seen EXCEPT ![r] = attempts]
        \/ UNCHANGED <<batch, seen>>
    BY <1>5 DEF Fetch
  <2>5. batch' \in [Relays -> SUBSET Events] /\ seen' \in [Relays -> [Events -> 0..MaxAttempts]]
    <3>1. TypeOK
      OBVIOUS
    <3> HIDE DEF IInv, TypeOK, CounterBounded, CounterHonest, BrokerHolds
    <3> QED
      BY <2>1, <2>4, <3>1, SnapshotTypes
  <2>6. pc' \in [Relays -> {"idle", "fetch", "claim", "down"} \cup InFlight]
        /\ \A q \in Relays : pc'[q] \in InFlight => q # r /\ pc'[q] = pc[q]
    BY <2>3
  <2>7. TypeOK'
    BY <2>2, <2>5, <2>6
  <2>8. CounterBounded'
    <3>1. \A q \in Relays : \A e \in batch'[q] : seen'[q][e] < MaxAttempts
      <4>1. CASE UNCHANGED <<batch, seen>>
        BY <4>1
      <4>2. CASE /\ batch' = [batch EXCEPT ![r] = Oldest(Pending)]
                 /\ seen' = [seen EXCEPT ![r] = attempts]
        <5>1. batch'[r] = Oldest(Pending) /\ seen'[r] = attempts
          BY <4>2
        <5>2. \A q \in Relays \ {r} : batch'[q] = batch[q] /\ seen'[q] = seen[q]
          BY <4>2
        <5>3. \A q \in Relays : \A e \in batch[q] : seen[q][e] < MaxAttempts
          OBVIOUS
        <5> HIDE DEF IInv, TypeOK, CounterBounded, CounterHonest, BrokerHolds
        <5> QED
          BY <2>1, <5>1, <5>2, <5>3
      <4> QED
        BY <2>4, <4>1, <4>2
    <3>2. \A q \in Relays : q # r => seen'[q] = seen[q]
      BY <2>4
    <3> QED
      BY <2>2, <2>6, <3>1, <3>2
  <2>9. CounterHonest'
    <3>1. \A q \in Relays, e \in Events : seen'[q][e] <= failures[e]
      BY <2>4
    <3>2. \A q \in Relays : q # r => seen'[q] = seen[q]
      BY <2>4
    <3> QED
      BY <2>2, <2>6, <3>1, <3>2
  <2>10. BrokerHolds'
    BY <2>2, <2>6
  <2> QED
    BY <2>7, <2>8, <2>9, <2>10
<1>6. ASSUME NEW r \in Relays, Claim(r) PROVE IInv'
  <2>1. PICK e \in batch[r] :
          /\ \/ /\ pc' = [pc EXCEPT ![r] = "publish"]
                /\ batch' = [batch EXCEPT ![r] = @ \ {e}]
                /\ cur' = [cur EXCEPT ![r] = e]
                /\ UNCHANGED seen
             \/ NextRow(r, batch[r] \ {e})
          /\ UNCHANGED <<status, lock>> \/ (status[e] = "PENDING" /\ ClaimRow(e))
    BY <1>6 DEF Claim, Claimable
  <2>2. UNCHANGED <<attempts, sent, window, failures, unknown, stalled>>
        /\ faults' \in 0..MaxFaults
    BY <1>6 DEF Claim, Fault
  <2>3. e \in Events /\ seen[r][e] < MaxAttempts
    BY <2>1
  <2>4. /\ status' \in [Events -> {"absent"} \cup Open \cup Settled]
        /\ lock' \in [Events -> {"null", "fresh", "aged"}]
        /\ \A f \in Events : status'[f] \in {"absent"} \cup Open =>
             status[f] \in {"absent"} \cup Open
        /\ \A f \in Events : status'[f] \in Settled => status[f] = status'[f]
    <3>1. CASE UNCHANGED <<status, lock>>
      BY <3>1
    <3>2. CASE status[e] = "PENDING" /\ ClaimRow(e)
      BY <2>3, <3>2 DEF ClaimRow
    <3> QED
      BY <2>1, <3>1, <3>2
  <2>5. /\ pc' \in [Relays -> {"idle", "fetch", "claim", "down"} \cup InFlight]
        /\ batch' \in [Relays -> SUBSET Events]
        /\ seen' \in [Relays -> [Events -> 0..MaxAttempts]]
        /\ cur' \in [Relays -> Events \cup {0}]
        /\ \A q \in Relays : batch'[q] \subseteq batch[q]
        /\ \A q \in Relays : seen'[q] = seen[q] \/ (batch'[q] = {} /\ seen'[q] = NoneSeen)
    <3>1. CASE NextRow(r, batch[r] \ {e})
      BY <3>1, NextRowTypes
    <3>2. CASE ~NextRow(r, batch[r] \ {e})
      <4>1. /\ pc' = [pc EXCEPT ![r] = "publish"]
            /\ batch' = [batch EXCEPT ![r] = @ \ {e}]
            /\ cur' = [cur EXCEPT ![r] = e]
            /\ UNCHANGED seen
        BY <2>1, <3>2
      <4>2. batch[r] \ {e} \in SUBSET Events
        OBVIOUS
      <4> QED
        BY <2>3, <4>1, <4>2
    <3> QED
      BY <3>1, <3>2
  <2>7. \A q \in Relays : pc'[q] \in InFlight =>
          \/ q = r /\ pc'[q] = "publish" /\ cur'[q] = e /\ seen'[q] = seen[q]
          \/ pc'[q] = pc[q] /\ cur'[q] = cur[q] /\ seen'[q] = seen[q]
    BY <2>1 DEF NextRow
  <2>8. TypeOK'
    BY <2>2, <2>4, <2>5
  <2>9. CounterBounded'
    <3>1. \A f \in Events : status'[f] \in {"absent"} \cup Open => attempts'[f] < MaxAttempts
      BY <2>2, <2>4
    <3>2. \A q \in Relays : \A f \in batch'[q] : seen'[q][f] < MaxAttempts
      BY <2>5
    <3>3. \A q \in Relays : pc'[q] \in InFlight =>
            cur'[q] \in Events /\ seen'[q][cur'[q]] < MaxAttempts
      BY <2>3, <2>7
    <3> QED
      BY <3>1, <3>2, <3>3
  <2>10. CounterHonest'
    <3>1. \A q \in Relays, f \in Events : seen'[q][f] <= failures'[f]
      <4>1. \A f \in Events : NoneSeen[f] = 0 /\ 0 <= failures[f] /\ failures'[f] = failures[f]
        BY <2>2 DEF NoneSeen, FailCap
      <4> QED
        BY <2>5, <4>1
    <3> QED
      BY <2>2, <2>4, <2>7, <3>1
  <2>11. BrokerHolds'
    BY <2>2, <2>4, <2>7
  <2> QED
    BY <2>8, <2>9, <2>10, <2>11
<1>7. ASSUME NEW r \in Relays, PublishAcked(r) PROVE IInv'
  <2>1. cur[r] \in Events /\ pc[r] = "publish"
    BY <1>7 DEF PublishAcked
  <2>2. /\ sent' \in [Events -> 0..SentCap] /\ window' \subseteq Events
        /\ \A f \in Events : sent[f] > 0 => sent'[f] > 0
        /\ JetStream => sent'[cur[r]] > 0 /\ window' \subseteq window \cup {cur[r]}
    BY <1>7, <2>1, StoreHolds DEF PublishAcked, MayLoseSilently
  <2>3. TypeOK'
    BY <1>7, <2>1, <2>2 DEF PublishAcked
  <2>4. CounterBounded' /\ CounterHonest'
    BY <1>7, <2>1 DEF PublishAcked
  <2>5. BrokerHolds'
    BY <1>7, <2>1, <2>2 DEF PublishAcked
  <2> QED
    BY <2>3, <2>4, <2>5
<1>8. ASSUME NEW r \in Relays, PublishFailed(r) PROVE IInv'
  <2> DEFINE e == cur[r]
  <2>1. e \in Events /\ pc[r] = "publish" /\ seen[r][e] < MaxAttempts
    BY <1>8 DEF PublishFailed
  <2>2. /\ sent' \in [Events -> 0..SentCap] /\ window' \subseteq Events
        /\ \A f \in Events : sent[f] > 0 => sent'[f] > 0
        /\ JetStream => window' = window \/ (sent'[e] > 0 /\ window' \subseteq window \cup {e})
    BY <1>8, <2>1, StoreHolds DEF PublishFailed
  <2>3. FailCap \in Nat /\ MaxAttempts < FailCap
    BY DEF FailCap
  <2>4. /\ failures' \in [Events -> 0..FailCap]
        /\ \A f \in Events : failures'[f] >= failures[f]
        /\ failures'[e] = failures[e] + 1 \/ failures'[e] = FailCap
    BY <1>8, <2>1, <2>3 DEF PublishFailed, BumpTo
  <2>5. seen[r][e] < failures'[e]
    <3>1. seen[r][e] \in 0..MaxAttempts /\ failures[e] \in 0..FailCap /\ seen[r][e] <= failures[e]
      BY <2>1
    <3> QED
      BY <2>1, <2>3, <2>4, <3>1
  <2>6. TypeOK'
    <3>1. unknown' \in [Events -> 0..UnknownCap]
      BY <1>8, <2>1, OutcomeCounted DEF PublishFailed
    <3> QED
      BY <1>8, <2>1, <2>2, <2>4, <3>1 DEF PublishFailed
  <2>7. CounterBounded'
    BY <1>8, <2>1 DEF PublishFailed
  <2>8. CounterHonest'
    <3>1. \A f \in Events : attempts[f] <= failures'[f]
      BY <2>3, <2>4
    <3>2. \A q \in Relays, f \in Events : seen[q][f] <= failures'[f]
      BY <2>3, <2>4
    <3>3. \A q \in Relays : pc'[q] = "fail" => seen[q][cur[q]] < failures'[cur[q]]
      <4> SUFFICES ASSUME NEW q \in Relays, pc'[q] = "fail"
                   PROVE  seen[q][cur[q]] < failures'[cur[q]]
        OBVIOUS
      <4>1. CASE q = r
        BY <4>1, <2>5
      <4>2. CASE q # r
        <5>1. pc[q] = "fail"
          BY <1>8, <4>2 DEF PublishFailed
        <5>2. cur[q] \in Events /\ seen[q][cur[q]] < failures[cur[q]]
          BY <5>1
        <5> QED
          BY <2>3, <2>4, <5>2
      <4> QED
        BY <4>1, <4>2
    <3>4. \A f \in Events : status[f] = "FAILED" => failures'[f] >= MaxAttempts
      BY <2>3, <2>4
    <3> QED
      BY <1>8, <3>1, <3>2, <3>3, <3>4 DEF PublishFailed
  <2>9. BrokerHolds'
    BY <1>8, <2>1, <2>2 DEF PublishFailed
  <2> QED
    BY <2>6, <2>7, <2>8, <2>9
<1>9. ASSUME NEW r \in Relays, MarkProcessed(r) PROVE IInv'
  <2> DEFINE e == cur[r]
  <2>1. /\ e \in Events /\ pc[r] = "persist"
        /\ JetStream => sent[e] > 0
        /\ status[e] \in {"absent"} \cup Open \cup Settled
        /\ seen[r] \in [Events -> 0..MaxAttempts]
    BY <1>9 DEF MarkProcessed
  <2>2. NextRow(r, batch[r]) /\ UNCHANGED <<brokerVars, failures, stalled>>
        /\ unknown' \in [Events -> 0..UnknownCap]
    BY <1>9, <2>1, OutcomeCounted DEF MarkProcessed
  <2>3. \/ WriteBack(e, "PROCESSED", attempts[e]) /\ UNCHANGED faults
        \/ Fault /\ UNCHANGED rowVars
    BY <1>9 DEF MarkProcessed
  <2>4. /\ pc' \in [Relays -> {"idle", "fetch", "claim", "down"} \cup InFlight]
        /\ batch' \in [Relays -> SUBSET Events]
        /\ seen' \in [Relays -> [Events -> 0..MaxAttempts]]
        /\ cur' \in [Relays -> Events \cup {0}]
        /\ \A q \in Relays : batch'[q] \subseteq batch[q]
        /\ \A q \in Relays : seen'[q] = seen[q] \/ (batch'[q] = {} /\ seen'[q] = NoneSeen)
    BY <2>2, NextRowTypes
  <2>5. \A q \in Relays : pc'[q] \in InFlight =>
          q # r /\ pc'[q] = pc[q] /\ cur'[q] = cur[q] /\ seen'[q] = seen[q]
    BY <2>2 DEF NextRow
  <2>6. /\ attempts' = attempts
        /\ status' \in [Events -> {"absent"} \cup Open \cup Settled]
        /\ lock' \in [Events -> {"null", "fresh", "aged"}]
        /\ faults' \in 0..MaxFaults
        /\ \A f \in Events : status'[f] # status[f] => f = e /\ status'[f] = "PROCESSED"
    <3>1. CASE WriteBack(e, "PROCESSED", attempts[e]) /\ UNCHANGED faults
      BY <2>1, <3>1 DEF WriteBack
    <3>2. CASE Fault /\ UNCHANGED rowVars
      BY <3>2 DEF Fault
    <3> QED
      BY <2>3, <3>1, <3>2
  <2>7. TypeOK'
    BY <2>2, <2>4, <2>6
  <2>8. CounterBounded'
    <3>1. \A f \in Events : status'[f] \in {"absent"} \cup Open => attempts'[f] < MaxAttempts
      BY <2>6
    <3>2. \A q \in Relays : \A f \in batch'[q] : seen'[q][f] < MaxAttempts
      BY <2>4
    <3>3. \A q \in Relays : pc'[q] \in InFlight =>
            cur'[q] \in Events /\ seen'[q][cur'[q]] < MaxAttempts
      BY <2>5
    <3> QED
      BY <3>1, <3>2, <3>3
  <2>9. CounterHonest'
    <3>1. \A q \in Relays, f \in Events : seen'[q][f] <= failures'[f]
      <4>1. \A f \in Events : NoneSeen[f] = 0 /\ 0 <= failures[f] /\ failures'[f] = failures[f]
        BY <2>2 DEF NoneSeen, FailCap
      <4> QED
        BY <2>4, <4>1
    <3> QED
      BY <2>2, <2>5, <2>6, <3>1
  <2>10. BrokerHolds'
    BY <2>1, <2>2, <2>5, <2>6
  <2> QED
    BY <2>7, <2>8, <2>9, <2>10
<1>10. ASSUME NEW r \in Relays, MarkPublishFailure(r) PROVE IInv'
  <2> DEFINE e == cur[r]
             n == seen[r][e] + 1
  <2>1. /\ e \in Events /\ n \in 1..MaxAttempts /\ n <= failures[e]
        /\ status[e] \in {"absent"} \cup Open \cup Settled
    BY <1>10 DEF MarkPublishFailure
  <2>2. NextRow(r, batch[r]) /\ UNCHANGED <<brokerVars, history>>
    BY <1>10 DEF MarkPublishFailure
  <2>3. \/ /\ WriteBack(e, IF n >= MaxAttempts THEN "FAILED" ELSE "PENDING", n)
           /\ UNCHANGED faults
        \/ Fault /\ UNCHANGED rowVars
    BY <1>10 DEF MarkPublishFailure, Exhausted
  <2>4. TypeOK'
    <3>1. /\ pc' \in [Relays -> {"idle", "fetch", "claim", "down"} \cup InFlight]
          /\ batch' \in [Relays -> SUBSET Events]
          /\ seen' \in [Relays -> [Events -> 0..MaxAttempts]]
          /\ cur' \in [Relays -> Events \cup {0}]
      BY <2>2, NextRowTypes
    <3>2. /\ status' \in [Events -> {"absent"} \cup Open \cup Settled]
          /\ attempts' \in [Events -> 0..MaxAttempts]
          /\ lock' \in [Events -> {"null", "fresh", "aged"}]
          /\ faults' \in 0..MaxFaults
      <4>1. CASE UNCHANGED rowVars /\ Fault
        BY <4>1 DEF Fault
      <4>2. CASE UNCHANGED faults /\ WriteBack(e, IF n >= MaxAttempts THEN "FAILED" ELSE "PENDING", n)
        <5>1. (IF n >= MaxAttempts THEN "FAILED" ELSE "PENDING") \in {"FAILED", "PENDING"}
          OBVIOUS
        <5>2. n \in 0..MaxAttempts
          BY <2>1
        <5> HIDE DEF n, e
        <5> QED
          BY <2>1, <4>2, <5>1, <5>2 DEF WriteBack
      <4> QED
        BY <2>3, <4>1, <4>2
    <3> QED
      BY <2>2, <3>1, <3>2
  <2>5. CounterBounded'
    <3>1. \A f \in Events : status'[f] \in {"absent"} \cup Open => attempts'[f] < MaxAttempts
      BY <2>1, <2>3 DEF WriteBack
    <3>2. \A q \in Relays : \A f \in batch'[q] : seen'[q][f] < MaxAttempts
      BY <2>2 DEF NextRow, NoneSeen
    <3>3. \A q \in Relays : pc'[q] \in InFlight =>
            cur'[q] \in Events /\ seen'[q][cur'[q]] < MaxAttempts
      BY <2>2 DEF NextRow, NoneSeen
    <3> QED
      BY <3>1, <3>2, <3>3
  <2>6. CounterHonest'
    <3>1. \A f \in Events : attempts'[f] <= failures'[f]
      BY <2>1, <2>2, <2>3 DEF WriteBack
    <3>2. \A q \in Relays, f \in Events : seen'[q][f] <= failures'[f]
      BY <2>2 DEF NextRow, NoneSeen, FailCap
    <3>3. \A q \in Relays : pc'[q] = "fail" => seen'[q][cur'[q]] < failures'[cur'[q]]
      BY <2>2 DEF NextRow
    <3>4. NoEarlyDeadLetter'
      BY <2>1, <2>2, <2>3 DEF WriteBack, FailCap
    <3> QED
      BY <3>1, <3>2, <3>3, <3>4
  <2>7. BrokerHolds'
    BY <2>1, <2>2, <2>3 DEF WriteBack, NextRow
  <2> QED
    BY <2>4, <2>5, <2>6, <2>7
<1>11. ASSUME NEW r \in Relays, Crash(r) PROVE IInv'
  <2>1. unknown' \in [Events -> 0..UnknownCap]
    <3>1. CASE pc[r] = "persist"
      BY <1>11, <3>1, OutcomeCounted DEF Crash
    <3>2. CASE pc[r] # "persist"
      BY <1>11, <3>2 DEF Crash
    <3> QED
      BY <3>1, <3>2
  <2> QED
    BY <1>11, <2>1 DEF Crash, NoneSeen, Fault
<1>12. ASSUME NEW r \in Relays, Restart(r) PROVE IInv'
  BY <1>12 DEF Restart
<1>13. CASE UNCHANGED vars
  BY <1>13 DEF vars
<1> QED
  BY <1>1, <1>2, <1>3, <1>4, <1>5, <1>6, <1>7, <1>8, <1>9, <1>10, <1>11,
     <1>12, <1>13 DEF Next, RelayStep, Publish

-----------------------------------------------------------------------------
\* The relay's variables keep their types.
THEOREM TypeCorrect == Safety => []TypeOK
<1>1. IInv => TypeOK
  BY DEF IInv
<1> QED
  BY <1>1, InitIInv, NextIInv, PTL DEF Safety

\* No event is lost: on JetStream a PROCESSED row's message reached the broker,
\* for any number of replicas, stalled or not, crashing or not.
THEOREM NoEventLost == Safety => []ProcessedWasSent
<1>1. IInv => ProcessedWasSent
  BY DEF IInv, BrokerHolds, ProcessedWasSent
<1> QED
  BY <1>1, InitIInv, NextIInv, PTL DEF Safety

\* No row is dead-lettered before OUTBOX_MAX_ATTEMPTS publishes really failed.
THEOREM DeadLetterEarned == Safety => []NoEarlyDeadLetter
<1>1. IInv => NoEarlyDeadLetter
  BY DEF IInv, CounterHonest
<1> QED
  BY <1>1, InitIInv, NextIInv, PTL DEF Safety

-----------------------------------------------------------------------------
\* A holder that ends its claim, with or without writing the outcome back,
\* disturbs nobody else's claim.
LEMMA EndOfClaim ==
  ASSUME TypeOK, Lease, NEW r \in Relays, cur[r] \in Events, Holds(r, cur[r]),
         NextRow(r, batch[r]), NEW st, NEW att,
         WriteBack(cur[r], st, att) \/ UNCHANGED rowVars, UNCHANGED stalled
  PROVE  Lease'
<1>1. \A q \in Relays, f \in Events : Holds(q, f)' => q # r /\ Holds(q, f)
  BY DEF TypeOK, Holds, InFlight, NextRow
<1>2. \A q \in Relays \ {r}, f \in Events \ stalled : Holds(q, f) => f # cur[r]
  BY DEF Lease
<1>3. \A f \in Events : f # cur[r] => status'[f] = status[f] /\ lock'[f] = lock[f]
  BY DEF TypeOK, WriteBack, rowVars
<1> QED
  BY <1>1, <1>2, <1>3 DEF Lease

\* Every step preserves the lease; a stall ends it for its row.
LEMMA NextLease ==
  ASSUME IInv, Lease, [Next]_vars
  PROVE  Lease'
<1> USE DEF IInv, TypeOK, Lease, Holds, InFlight, Open, Settled, rowVars,
        relayVars, brokerVars, history
<1>1. ASSUME NEW e \in Events, Emit(e) PROVE Lease'
  BY <1>1 DEF Emit
<1>2. ASSUME NEW e \in Events, LockAges(e) \/ Stall(e) PROVE Lease'
  BY <1>2 DEF LockAges, Stall, Ages
<1>3. ASSUME NEW e \in Events, WindowCloses(e) PROVE Lease'
  BY <1>3 DEF WindowCloses
<1>4. ASSUME NEW r \in Relays, Tick(r) PROVE Lease'
  BY <1>4 DEF Tick, Stuck, Fault
<1>5. ASSUME NEW r \in Relays, Fetch(r) PROVE Lease'
  BY <1>5 DEF Fetch
<1>6. ASSUME NEW r \in Relays, Claim(r) PROVE Lease'
  <2>1. PICK e \in batch[r] :
          \/ /\ status[e] = "PENDING" /\ ClaimRow(e)
             /\ pc' = [pc EXCEPT ![r] = "publish"] /\ cur' = [cur EXCEPT ![r] = e]
          \/ /\ NextRow(r, batch[r] \ {e})
             /\ UNCHANGED <<status, lock>> \/ (status[e] = "PENDING" /\ ClaimRow(e))
    BY <1>6 DEF Claim, Claimable
  <2>2. e \in Events /\ pc[r] = "claim"
    BY <1>6 DEF Claim
  <2>3. CASE /\ status[e] = "PENDING" /\ ClaimRow(e)
             /\ pc' = [pc EXCEPT ![r] = "publish"] /\ cur' = [cur EXCEPT ![r] = e]
    <3>1. UNCHANGED stalled
      BY <1>6 DEF Claim, NextRow
    <3>2. /\ \A f \in Events \ {e} : status'[f] = status[f] /\ lock'[f] = lock[f]
          /\ status'[e] = "PROCESSING" /\ lock'[e] = "fresh"
      BY <2>2, <2>3 DEF ClaimRow
    <3>3. \A q \in Relays, f \in Events : Holds(q, f)' <=> IF q = r THEN f = e ELSE Holds(q, f)
      BY <2>2, <2>3
    <3>4. \A q \in Relays : e \notin stalled => ~Holds(q, e)
      BY <2>2, <2>3
    <3> HIDE DEF Holds, IInv, TypeOK
    <3>5. ASSUME NEW q \in Relays, NEW f \in Events \ stalled, Holds(q, f)'
          PROVE  /\ status'[f] = "PROCESSING" /\ lock'[f] = "fresh"
                 /\ \A p \in Relays \ {q} : ~Holds(p, f)'
      BY <3>2, <3>3, <3>4, <3>5, <2>2
    <3> QED
      BY <3>1, <3>5
  <2>4. CASE /\ NextRow(r, batch[r] \ {e})
             /\ UNCHANGED <<status, lock>> \/ (status[e] = "PENDING" /\ ClaimRow(e))
    <3>1. \A q \in Relays, f \in Events : Holds(q, f)' => Holds(q, f)
      BY <2>2, <2>4 DEF NextRow
    <3>2. \A f \in Events : status[f] = "PROCESSING" /\ lock[f] = "fresh" =>
            status'[f] = "PROCESSING" /\ lock'[f] = "fresh"
      <4>1. CASE UNCHANGED <<status, lock>>
        BY <4>1
      <4>2. CASE status[e] = "PENDING" /\ ClaimRow(e)
        BY <2>2, <4>2 DEF ClaimRow
      <4> QED
        BY <2>4, <4>1, <4>2
    <3>3. UNCHANGED stalled
      BY <1>6 DEF Claim
    <3> HIDE DEF Holds, InFlight
    <3> QED
      BY <3>1, <3>2, <3>3
  <2> QED
    BY <2>1, <2>3, <2>4
<1>7. ASSUME NEW r \in Relays, Publish(r) PROVE Lease'
  BY <1>7 DEF Publish, PublishAcked, PublishFailed
<1>8. ASSUME NEW r \in Relays, MarkProcessed(r) PROVE Lease'
  BY <1>8, EndOfClaim DEF MarkProcessed, CounterBounded
<1>9. ASSUME NEW r \in Relays, MarkPublishFailure(r) PROVE Lease'
  <2> DEFINE e == cur[r]
             n == seen[r][e] + 1
             st == IF Exhausted(n) THEN "FAILED" ELSE "PENDING"
  <2>1. e \in Events /\ Holds(r, e)
    BY <1>9 DEF MarkPublishFailure, CounterBounded
  <2>2. NextRow(r, batch[r]) /\ (WriteBack(e, st, n) \/ UNCHANGED rowVars) /\ UNCHANGED stalled
    BY <1>9 DEF MarkPublishFailure
  <2>3. TypeOK /\ Lease
    OBVIOUS
  <2> HIDE DEF st, n, IInv, TypeOK, Lease, Holds, InFlight, rowVars
  <2> QED
    BY <2>1, <2>2, <2>3, EndOfClaim
<1>10. ASSUME NEW r \in Relays, Crash(r) \/ Restart(r) PROVE Lease'
  <2>1. \A q \in Relays, f \in Events : Holds(q, f)' => Holds(q, f)
    BY <1>10 DEF Crash, Restart
  <2>2. UNCHANGED <<status, lock, stalled>>
    BY <1>10 DEF Crash, Restart
  <2> HIDE DEF Holds, InFlight
  <2> QED
    BY <2>1, <2>2
<1>11. CASE UNCHANGED vars
  BY <1>11 DEF vars
<1> QED
  BY <1>1, <1>2, <1>3, <1>4, <1>5, <1>6, <1>7, <1>8, <1>9, <1>10, <1>11
  DEF Next, RelayStep

\* But for those rows only the holder of a claim settles or reopens a row, so a
\* settled row stays as it is.
LEMMA NextKeepsSettled ==
  ASSUME IInv, Lease, [Next]_vars, NEW e \in Events \ stalled, status[e] \in Settled
  PROVE  status'[e] = status[e]
<1> USE DEF IInv, TypeOK, Open, Settled, rowVars, relayVars, brokerVars, history
<1>1. ASSUME NEW f \in Events, Emit(f) \/ LockAges(f) \/ Stall(f) \/ WindowCloses(f)
      PROVE  status'[e] = status[e]
  BY <1>1 DEF Emit, LockAges, Stall, Ages, WindowCloses
<1>2. ASSUME NEW r \in Relays,
             Tick(r) \/ Fetch(r) \/ Publish(r) \/ Crash(r) \/ Restart(r)
      PROVE  status'[e] = status[e]
  BY <1>2 DEF Tick, Stuck, Fetch, Publish, PublishAcked, PublishFailed, Crash, Restart
<1>3. ASSUME NEW r \in Relays, Claim(r) PROVE status'[e] = status[e]
  <2>1. PICK f \in batch[r] :
          UNCHANGED status \/ (status[f] = "PENDING" /\ ClaimRow(f))
    BY <1>3 DEF Claim, Claimable
  <2> QED
    BY <2>1 DEF ClaimRow
<1>4. ASSUME NEW r \in Relays, MarkProcessed(r) \/ MarkPublishFailure(r)
      PROVE  status'[e] = status[e]
  <2>1. /\ cur[r] # e
        /\ cur[r] \in Events
    BY <1>4 DEF MarkProcessed, MarkPublishFailure, Lease, Holds, InFlight, CounterBounded
  <2>2. UNCHANGED status \/ \E st : status' = [status EXCEPT ![cur[r]] = st]
    BY <1>4 DEF MarkProcessed, MarkPublishFailure, WriteBack
  <2> QED
    BY <2>1, <2>2
<1>5. CASE UNCHANGED vars
  BY <1>5 DEF vars
<1> QED
  BY <1>1, <1>2, <1>3, <1>4, <1>5 DEF Next, RelayStep

\* No two replicas ever work on the same row, unless a live relay has outlasted the
\* reclaim age on that very row.
THEOREM ClaimIsExclusive == Safety => []ClaimExclusive
<1>1. Init => Lease
  BY DEF Init, Lease, Holds, InFlight
<1>2. IInv /\ Lease /\ [Next]_vars => Lease'
  BY NextLease
<1>3. Lease => ClaimExclusive
  BY DEF Lease, ClaimExclusive
<1> QED
  BY <1>1, <1>2, <1>3, InitIInv, NextIInv, PTL DEF Safety

\* But for such rows PROCESSED and FAILED are final.
THEOREM SettledStaysSettled == Safety => SettledIsFinal
<1>1. Init => Lease
  BY DEF Init, Lease, Holds, InFlight
<1>2. IInv /\ Lease /\ [Next]_vars => Lease'
  BY NextLease
<1>3. IInv /\ Lease /\ [Next]_vars =>
        [\A e \in Events \ stalled : status[e] \in Settled => status'[e] = status[e]]_vars
  BY NextKeepsSettled
<1> QED
  BY <1>1, <1>2, <1>3, InitIInv, NextIInv, PTL DEF Safety, SettledIsFinal

-----------------------------------------------------------------------------
(* The refinement: the relay implements OutboxContract *)

\* Steps that leave every row open or settled as it was, and the broker alone, do not
\* show in the contract.
LEMMA SamePhases ==
  ASSUME TypeOK, UNCHANGED <<sent, stalled>>,
         \A e \in Events \ stalled :
           status'[e] = status[e] \/ (status[e] \in Open /\ status'[e] \in Open)
  PROVE  UNCHANGED Contract!vars
<1>1. UNCHANGED {e \in Events : sent[e] > 0}
  OBVIOUS
<1>2. UNCHANGED [e \in Events |-> IF e \in stalled THEN "owed"
                                  ELSE IF status[e] = "absent" THEN "none"
                                  ELSE IF status[e] = "PROCESSED" THEN "relayed"
                                  ELSE IF status[e] = "FAILED" THEN "dead" ELSE "owed"]
  BY DEF Open
<1> QED
  BY <1>1, <1>2 DEF Contract!vars

\* One row that changes its phase takes the contract's step for that event.
LEMMA OnePhase ==
  ASSUME TypeOK, NEW e \in Events \ stalled, UNCHANGED <<sent, stalled>>
  PROVE  /\ status[e] = "absent" /\ status' = [status EXCEPT ![e] = "PENDING"] => Contract!Commit(e)
         /\ status[e] \in Open /\ sent[e] > 0 /\ status' = [status EXCEPT ![e] = "PROCESSED"] =>
              Contract!Settle(e)
         /\ status[e] \in Open /\ status' = [status EXCEPT ![e] = "FAILED"] => Contract!GiveUp(e)
<1> USE DEF TypeOK, Open, Settled
<1>1. UNCHANGED {f \in Events : sent[f] > 0}
  OBVIOUS
<1>2. ASSUME status[e] = "absent", status' = [status EXCEPT ![e] = "PENDING"]
      PROVE  Contract!Commit(e)
  BY <1>1, <1>2 DEF Contract!Commit
<1>3. ASSUME status[e] \in Open, sent[e] > 0, status' = [status EXCEPT ![e] = "PROCESSED"]
      PROVE  Contract!Settle(e)
  BY <1>1, <1>3 DEF Contract!Settle
<1>4. ASSUME status[e] \in Open, status' = [status EXCEPT ![e] = "FAILED"]
      PROVE  Contract!GiveUp(e)
  BY <1>1, <1>4 DEF Contract!GiveUp
<1> QED
  BY <1>2, <1>3, <1>4

\* A message the broker stores for an open row is a delivery.
LEMMA StoreDelivers ==
  ASSUME IInv, JetStream, NEW e \in Events, e \in stalled \/ status[e] \in Open, Store(e),
         UNCHANGED <<status, stalled>>
  PROVE  Contract!Deliver(e)
<1>1. {f \in Events : sent'[f] > 0} = {f \in Events : sent[f] > 0} \cup {e}
  <2>1. sent'[e] > 0 /\ \A f \in Events : sent[f] > 0 => sent'[f] > 0
    BY StoreHolds
  <2>2. \A f \in Events \ {e} : sent'[f] = sent[f]
    BY DEF Store, IInv, TypeOK
  <2>3. QED
    BY <2>1, <2>2
<1>2. ({f \in Events : sent[f] > 0})' = {f \in Events : sent'[f] > 0}
  OBVIOUS
<1> QED
  BY <1>1, <1>2 DEF Contract!Deliver, Open

LEMMA NextRefines ==
  ASSUME JetStream, IInv, Lease, [Next]_vars
  PROVE  [Contract!Next]_(Contract!vars)
<1> USE DEF rowVars, relayVars, brokerVars, history
<1>1. TypeOK /\ TypeOK'
  BY NextIInv DEF IInv
<1>2. ASSUME UNCHANGED <<status, sent, stalled>> PROVE UNCHANGED Contract!vars
  BY <1>1, <1>2, SamePhases
<1>3. ASSUME NEW e \in Events, Emit(e) PROVE Contract!Commit(e) \/ UNCHANGED Contract!vars
  <2>1. CASE e \in stalled
    <3>1. \A f \in Events \ stalled : status'[f] = status[f]
      BY <1>1, <1>3, <2>1 DEF Emit, TypeOK
    <3>2. QED
      BY <1>1, <1>3, <3>1, SamePhases DEF Emit
  <2>2. QED
    BY <1>1, <1>3, <2>1, OnePhase DEF Emit
<1>4. ASSUME NEW e \in Events, LockAges(e) \/ WindowCloses(e) PROVE UNCHANGED Contract!vars
  BY <1>2, <1>4 DEF LockAges, Ages, WindowCloses
<1>5. ASSUME NEW e \in Events, Stall(e) PROVE UNCHANGED Contract!vars
  <2>1. /\ UNCHANGED <<status, sent>> /\ stalled' = stalled \cup {e}
        /\ status[e] = "PROCESSING"
    BY <1>5 DEF Stall, Ages
  <2>2. UNCHANGED {f \in Events : sent[f] > 0}
    BY <2>1
  <2>3. UNCHANGED [f \in Events |-> IF f \in stalled THEN "owed"
                                   ELSE IF status[f] = "absent" THEN "none"
                                   ELSE IF status[f] = "PROCESSED" THEN "relayed"
                                   ELSE IF status[f] = "FAILED" THEN "dead" ELSE "owed"]
    BY <2>1
  <2>4. QED
    BY <2>2, <2>3 DEF Contract!vars
<1>6. ASSUME NEW r \in Relays, Tick(r) PROVE UNCHANGED Contract!vars
  <2>1. \A e \in Events : status'[e] = status[e] \/ (status[e] \in Open /\ status'[e] \in Open)
    BY <1>6 DEF Tick, Stuck, Open
  <2>2. QED
    BY <1>1, <1>6, <2>1, SamePhases DEF Tick
<1>7. ASSUME NEW r \in Relays, Fetch(r) \/ Crash(r) \/ Restart(r) PROVE UNCHANGED Contract!vars
  BY <1>2, <1>7 DEF Fetch, Crash, Restart
<1>8. ASSUME NEW r \in Relays, Claim(r) PROVE UNCHANGED Contract!vars
  <2>1. PICK f \in batch[r] :
          UNCHANGED status \/ (status[f] = "PENDING" /\ ClaimRow(f))
    BY <1>8 DEF Claim, Claimable
  <2>2. \A e \in Events : status'[e] = status[e] \/ (status[e] \in Open /\ status'[e] \in Open)
    BY <1>1, <2>1 DEF TypeOK, ClaimRow, Open
  <2>3. QED
    BY <1>1, <1>8, <2>2, SamePhases DEF Claim
<1>9. ASSUME NEW r \in Relays, pc[r] \in InFlight
      PROVE  cur[r] \in Events /\ (cur[r] \in stalled \/ status[cur[r]] = "PROCESSING")
  BY <1>9 DEF IInv, CounterBounded, Lease, Holds
<1>10. ASSUME NEW r \in Relays, Publish(r)
       PROVE  Contract!Next \/ UNCHANGED Contract!vars
  <2>1. cur[r] \in Events /\ (cur[r] \in stalled \/ status[cur[r]] \in Open)
    BY <1>9, <1>10 DEF Publish, PublishAcked, PublishFailed, InFlight, Open
  <2>2. UNCHANGED <<status, stalled>> /\ (Store(cur[r]) \/ UNCHANGED sent)
    BY <1>10 DEF Publish, PublishAcked, PublishFailed
  <2>3. QED
    BY <1>2, <2>1, <2>2, StoreDelivers DEF Contract!Next
<1>11. ASSUME NEW r \in Relays, MarkProcessed(r) \/ MarkPublishFailure(r), cur[r] \in stalled
       PROVE  UNCHANGED Contract!vars
  <2>1. UNCHANGED <<sent, stalled>> /\ (UNCHANGED status \/ \E st : status' = [status EXCEPT ![cur[r]] = st])
    BY <1>11 DEF MarkProcessed, MarkPublishFailure, WriteBack
  <2>2. \A e \in Events \ stalled : status'[e] = status[e]
    BY <1>1, <1>11, <2>1 DEF TypeOK
  <2>3. QED
    BY <1>1, <2>1, <2>2, SamePhases
<1>12. ASSUME NEW r \in Relays, MarkProcessed(r) \/ MarkPublishFailure(r), cur[r] \notin stalled
       PROVE  Contract!Next \/ UNCHANGED Contract!vars
  <2>1. cur[r] \in Events \ stalled /\ status[cur[r]] \in Open
    BY <1>9, <1>12 DEF MarkProcessed, MarkPublishFailure, InFlight, Open
  <2>2. UNCHANGED <<sent, stalled>>
    BY <1>12 DEF MarkProcessed, MarkPublishFailure
  <2>3. CASE MarkProcessed(r)
    <3>1. UNCHANGED status \/ status' = [status EXCEPT ![cur[r]] = "PROCESSED"]
      BY <2>3 DEF MarkProcessed, WriteBack
    <3>2. sent[cur[r]] > 0
      BY <2>3 DEF MarkProcessed, IInv, BrokerHolds
    <3>3. QED
      BY <1>1, <1>2, <2>1, <2>2, <3>1, <3>2, OnePhase DEF Contract!Next
  <2>4. CASE MarkPublishFailure(r)
    <3>1. \/ UNCHANGED status
          \/ \E st \in {"FAILED", "PENDING"} : status' = [status EXCEPT ![cur[r]] = st]
      BY <2>4 DEF MarkPublishFailure, WriteBack
    <3>2. CASE status' = [status EXCEPT ![cur[r]] = "PENDING"]
      <4>1. \A e \in Events : status'[e] = status[e] \/ (status[e] \in Open /\ status'[e] \in Open)
        BY <1>1, <2>1, <3>2 DEF TypeOK, Open
      <4>2. QED
        BY <1>1, <2>2, <4>1, SamePhases
    <3>3. QED
      BY <1>1, <1>2, <2>1, <2>2, <3>1, <3>2, OnePhase DEF Contract!Next
  <2>5. QED
    BY <1>12, <2>3, <2>4
<1>13. CASE UNCHANGED vars
  BY <1>2, <1>13 DEF vars
<1> QED
  BY <1>3, <1>4, <1>5, <1>6, <1>7, <1>8, <1>10, <1>11, <1>12, <1>13 DEF Next, RelayStep, Contract!Next

\* The relay's promise to the producers: on JetStream every row is owed until it was
\* delivered or given up, and then closed; one on which a live relay outlasted the reclaim
\* age stays owed.
THEOREM RelayKeepsContract == ASSUME JetStream PROVE Safety => ImplementsContract
<1>1. Init => Lease
  BY DEF Init, Lease, Holds, InFlight
<1>2. IInv /\ Lease /\ [Next]_vars => Lease'
  BY NextLease
<1>3. Init => Contract!Init
  BY RelayAssumption DEF Init, Contract!Init
<1>4. IInv /\ Lease /\ [Next]_vars => [Contract!Next]_(Contract!vars)
  BY NextRefines
<1> QED
  BY <1>1, <1>2, <1>3, <1>4, InitIInv, NextIInv, PTL
  DEF Safety, ImplementsContract, Contract!Safety

-----------------------------------------------------------------------------
(* Duplicates *)

\* The last message of a row is accounted for by its relay, which is about to mark it, or by
\* the mark.
Marking(e) == \E r \in Relays : pc[r] = "persist" /\ cur[r] = e
Accounting(e) == IF status[e] = "PROCESSED" \/ Marking(e) THEN 1 ELSE 0

\* Every other message is accounted for by an outcome that was lost.
Accounted ==
  \A e \in Events \ stalled : unknown[e] < UnknownCap => sent[e] <= unknown[e] + Accounting(e)

CountsTyped ==
  /\ sent \in [Events -> 0..SentCap] /\ unknown \in [Events -> 0..UnknownCap]
  /\ pc \in [Relays -> {"idle", "fetch", "claim", "down"} \cup InFlight]
  /\ cur \in [Relays -> Events \cup {0}]
  /\ SentCap \in Nat /\ UnknownCap \in Nat

LEMMA CountsTypes == IInv => CountsTyped
  BY RelayAssumption DEF IInv, TypeOK, CountsTyped, UnknownCap

\* The account of a row balances after a step when it does for what the step adds.
LEMMA AccountsBalance ==
  ASSUME IInv, IInv', Accounted, NEW e \in Events \ stalled,
         \/ unknown'[e] = unknown[e] /\ sent'[e] + Accounting(e) <= sent[e] + Accounting(e)'
         \/ unknown'[e] = UnknownCap
         \/ /\ unknown'[e] = unknown[e] + 1
            /\ sent'[e] + Accounting(e) <= sent[e] + Accounting(e)' + 1
  PROVE  unknown'[e] < UnknownCap => sent'[e] <= unknown'[e] + Accounting(e)'
<1>1. /\ sent[e] \in Nat /\ sent'[e] \in Nat /\ unknown[e] \in Nat /\ unknown'[e] \in Nat
      /\ UnknownCap \in Nat
  <2>1. IInv' => CountsTyped'
    BY CountsTypes, PTL
  <2> QED
    BY <2>1, CountsTypes DEF CountsTyped
<1>2. Accounting(e) \in Nat /\ Accounting(e)' \in Nat
  BY DEF Accounting
<1>3. unknown[e] < UnknownCap => sent[e] <= unknown[e] + Accounting(e)
  BY DEF Accounted
<1> HIDE DEF Accounting
<1> QED
  BY <1>1, <1>2, <1>3

\* A step that sends nothing, loses no outcome and moves no relay away from its mark.
LEMMA NobodyLeaves ==
  ASSUME IInv, IInv', Lease, Accounted, [Next]_vars, UNCHANGED <<sent, unknown>>, stalled \subseteq stalled',
         \A r \in Relays : pc[r] = "persist" => (pc'[r] = "persist" /\ cur'[r] = cur[r])
  PROVE  Accounted'
<1>1. \A e \in Events \ stalled : status[e] = "PROCESSED" => status'[e] = "PROCESSED"
  BY NextKeepsSettled DEF Settled
<1>2. ASSUME NEW e \in Events \ stalled
      PROVE  unknown'[e] < UnknownCap => sent'[e] <= unknown'[e] + Accounting(e)'
  <2>1. Accounting(e) <= Accounting(e)' /\ Accounting(e) \in Nat /\ Accounting(e)' \in Nat
    BY <1>1, <1>2 DEF Accounting, Marking
  <2>2. sent[e] \in Nat
    BY CountsTypes DEF CountsTyped
  <2> HIDE DEF Accounting
  <2>3. unknown'[e] = unknown[e] /\ sent'[e] + Accounting(e) <= sent[e] + Accounting(e)'
    BY <2>1, <2>2
  <2> QED
    BY <1>2, <2>3, AccountsBalance
<1> QED
  BY <1>2 DEF Accounted

\* On its way a relay that has not been acknowledged is the only one at its row.
LEMMA NothingMarked ==
  ASSUME IInv, Lease, NEW r \in Relays, pc[r] \in {"publish", "fail"}
  PROVE  cur[r] \in Events /\ (cur[r] \notin stalled => Accounting(cur[r]) = 0)
<1>1. cur[r] \in Events /\ Holds(r, cur[r])
  BY DEF IInv, CounterBounded, InFlight, Holds
<1>2. cur[r] \notin stalled =>
        status[cur[r]] = "PROCESSING" /\ \A q \in Relays \ {r} : ~Holds(q, cur[r])
  BY <1>1 DEF Lease
<1>3. cur[r] \notin stalled => ~Marking(cur[r])
  BY <1>2 DEF Holds, InFlight, Marking
<1> QED
  BY <1>1, <1>2, <1>3 DEF Accounting

LEMMA StoreAtMostOne ==
  ASSUME IInv, NEW e \in Events, Store(e) \/ UNCHANGED brokerVars
  PROVE  sent'[e] <= sent[e] + 1 /\ \A f \in Events \ {e} : sent'[f] = sent[f]
<1>1. sent \in [Events -> 0..SentCap] /\ SentCap \in Nat
  BY CountsTypes DEF CountsTyped
<1>2. UNCHANGED sent \/ sent' = [sent EXCEPT ![e] = BumpTo(SentCap, @)]
  BY DEF Store, brokerVars
<1>3. \A n \in 0..SentCap : BumpTo(SentCap, n) <= n + 1
  BY <1>1 DEF BumpTo
<1> QED
  BY <1>1, <1>2, <1>3

LEMMA NextAccounted ==
  ASSUME IInv, IInv', Lease, Accounted, [Next]_vars
  PROVE  Accounted'
<1> USE DEF rowVars, relayVars, brokerVars, history
<1>1. CountsTyped /\ CountsTyped'
  <2>1. IInv' => CountsTyped'
    BY CountsTypes, PTL
  <2> QED
    BY <2>1, CountsTypes
<1>2. \A e \in Events \ stalled : status[e] = "PROCESSED" => status'[e] = "PROCESSED"
  BY NextKeepsSettled DEF Settled
<1>3. ASSUME NEW e \in Events, Emit(e) \/ LockAges(e) \/ Stall(e) \/ WindowCloses(e)
      PROVE  Accounted'
  BY <1>3, NobodyLeaves DEF Emit, LockAges, Stall, Ages, WindowCloses
<1>4. ASSUME NEW r \in Relays, Tick(r) \/ Fetch(r) \/ Restart(r) PROVE Accounted'
  BY <1>1, <1>4, NobodyLeaves DEF Tick, Fetch, Restart, CountsTyped
<1>5. ASSUME NEW r \in Relays, Claim(r) PROVE Accounted'
  BY <1>1, <1>5, NobodyLeaves DEF Claim, NextRow, CountsTyped
<1>6. ASSUME NEW r \in Relays, MarkPublishFailure(r) PROVE Accounted'
  BY <1>1, <1>6, NobodyLeaves DEF MarkPublishFailure, NextRow, CountsTyped
<1>7. CASE UNCHANGED vars
  BY <1>7, NobodyLeaves DEF vars

\* A step at the row of one relay: the other rows keep their marks.
<1>8. ASSUME NEW r \in Relays, NEW e \in Events, e = cur[r], UNCHANGED stalled,
             \A q \in Relays \ {r} : pc'[q] = pc[q] /\ cur'[q] = cur[q],
             \A f \in Events \ {e} : sent'[f] = sent[f] /\ unknown'[f] = unknown[f],
             e \notin stalled =>
               (unknown'[e] < UnknownCap => sent'[e] <= unknown'[e] + Accounting(e)')
      PROVE  Accounted'
  <2>1. ASSUME NEW f \in Events \ stalled, f # e
        PROVE  unknown'[f] < UnknownCap => sent'[f] <= unknown'[f] + Accounting(f)'
    <3>1. Marking(f) => Marking(f)'
      BY <1>8, <2>1 DEF Marking
    <3>2. Accounting(f) <= Accounting(f)' /\ Accounting(f) \in Nat /\ Accounting(f)' \in Nat
      BY <1>2, <2>1, <3>1 DEF Accounting
    <3>3. sent[f] \in Nat /\ sent'[f] = sent[f] /\ unknown'[f] = unknown[f]
      BY <1>1, <1>8, <2>1 DEF CountsTyped
    <3> HIDE DEF Accounting
    <3> QED
      BY <2>1, <3>2, <3>3, AccountsBalance
  <2> QED
    BY <1>8, <2>1 DEF Accounted
<1>9. ASSUME NEW r \in Relays, NEW e \in Events, e = cur[r], PublishAcked(r) PROVE Accounted'
  <2>1. e \notin stalled => Accounting(e) = 0
    BY <1>9, NothingMarked DEF PublishAcked
  <2>2. sent'[e] <= sent[e] + 1 /\ \A f \in Events \ {e} : sent'[f] = sent[f]
    BY <1>9, <2>1, StoreAtMostOne DEF PublishAcked
  <2>3. pc' = [pc EXCEPT ![r] = "persist"] /\ UNCHANGED <<cur, unknown, stalled>>
    BY <1>9 DEF PublishAcked
  <2>4. Accounting(e)' = 1
    <3>1. Marking(e)'
      BY <1>1, <1>9, <2>3 DEF Marking, CountsTyped
    <3> QED
      BY <3>1, <2>3 DEF Accounting
  <2>5. sent[e] \in Nat /\ sent'[e] \in Nat
    BY <1>1, <2>1 DEF CountsTyped
  <2>6. e \notin stalled =>
          (unknown'[e] < UnknownCap => sent'[e] <= unknown'[e] + Accounting(e)')
    <3> SUFFICES ASSUME e \notin stalled
                 PROVE  unknown'[e] < UnknownCap => sent'[e] <= unknown'[e] + Accounting(e)'
      OBVIOUS
    <3>1. sent'[e] + Accounting(e) <= sent[e] + Accounting(e)'
      BY <2>1, <2>2, <2>4, <2>5
    <3> QED
      BY <2>1, <2>3, <3>1, AccountsBalance
  <2>7. \A q \in Relays \ {r} : pc'[q] = pc[q] /\ cur'[q] = cur[q]
    BY <1>1, <2>3 DEF CountsTyped
  <2> QED
    BY <1>8, <1>9, <2>1, <2>2, <2>3, <2>6, <2>7
<1>10. ASSUME NEW r \in Relays, NEW e \in Events, e = cur[r], PublishFailed(r) PROVE Accounted'
  <2>1. e \notin stalled => Accounting(e) = 0
    BY <1>10, NothingMarked DEF PublishFailed
  <2>2. /\ pc' = [pc EXCEPT ![r] = "fail"] /\ UNCHANGED <<status, cur, stalled>>
        /\ UNCHANGED <<brokerVars, unknown>> \/ (Store(e) /\ OutcomeLost(e))
    BY <1>10 DEF PublishFailed
  <2>3. CASE UNCHANGED <<brokerVars, unknown>>
    <3>1. pc[r] = "publish"
      BY <1>10 DEF PublishFailed
    <3>2. \A q \in Relays : pc[q] = "persist" => (pc'[q] = "persist" /\ cur'[q] = cur[q])
      BY <1>1, <2>2, <3>1 DEF CountsTyped
    <3> QED
      BY <2>2, <2>3, <3>2, NobodyLeaves
  <2>4. CASE Store(e) /\ OutcomeLost(e)
    <3>1. sent'[e] <= sent[e] + 1 /\ \A f \in Events \ {e} : sent'[f] = sent[f]
      BY <2>1, <2>4, StoreAtMostOne
    <3>2. unknown'[e] \in {UnknownCap, unknown[e] + 1}
      BY <1>1, <2>1, <2>4, OutcomeCounted DEF CountsTyped
    <3>3. \A f \in Events \ {e} : unknown'[f] = unknown[f]
      BY <1>1, <2>4 DEF OutcomeLost, CountsTyped
    <3>4. Accounting(e)' \in Nat /\ sent[e] \in Nat /\ sent'[e] \in Nat
      BY <1>1, <2>1 DEF Accounting, CountsTyped
    <3>5. e \notin stalled =>
            (unknown'[e] < UnknownCap => sent'[e] <= unknown'[e] + Accounting(e)')
      <4> SUFFICES ASSUME e \notin stalled
                   PROVE  unknown'[e] < UnknownCap => sent'[e] <= unknown'[e] + Accounting(e)'
        OBVIOUS
      <4>1. sent'[e] + Accounting(e) <= sent[e] + Accounting(e)' + 1
        <5> HIDE DEF Accounting
        <5> QED
          BY <2>1, <3>1, <3>4
      <4> QED
        BY <2>1, <3>2, <4>1, AccountsBalance
    <3>6. \A q \in Relays \ {r} : pc'[q] = pc[q] /\ cur'[q] = cur[q]
      BY <1>1, <2>2 DEF CountsTyped
    <3> QED
      BY <1>8, <1>10, <2>1, <2>2, <3>1, <3>3, <3>5, <3>6
  <2> QED
    BY <2>2, <2>3, <2>4

\* The relay is done with its row: marked, or with an outcome that nobody remembers.
<1>11. ASSUME NEW r \in Relays, NEW e \in Events, e = cur[r], UNCHANGED <<sent, stalled>>,
              \A q \in Relays \ {r} : pc'[q] = pc[q] /\ cur'[q] = cur[q],
              \/ status'[e] = "PROCESSED" /\ UNCHANGED unknown
              \/ OutcomeLost(e)
       PROVE  Accounted'
  <2>1. /\ Accounting(e) \in {0, 1} /\ Accounting(e)' \in {0, 1}
        /\ status'[e] = "PROCESSED" => Accounting(e)' = 1
    BY DEF Accounting
  <2>2. sent[e] \in Nat /\ sent'[e] = sent[e]
    BY <1>1, <1>11 DEF CountsTyped
  <2>3. \/ unknown'[e] = unknown[e] /\ status'[e] = "PROCESSED"
        \/ unknown'[e] = UnknownCap
        \/ unknown'[e] = unknown[e] + 1
    BY <1>1, <1>11, OutcomeCounted DEF CountsTyped
  <2>4. \A f \in Events \ {e} : unknown'[f] = unknown[f]
    BY <1>1, <1>11 DEF OutcomeLost, CountsTyped
  <2>5. /\ sent'[e] + Accounting(e) <= sent[e] + Accounting(e)' + 1
        /\ status'[e] = "PROCESSED" => sent'[e] + Accounting(e) <= sent[e] + Accounting(e)'
    <3> HIDE DEF Accounting
    <3> QED
      BY <2>1, <2>2
  <2>6. e \notin stalled =>
          (unknown'[e] < UnknownCap => sent'[e] <= unknown'[e] + Accounting(e)')
    BY <1>11, <2>3, <2>5, AccountsBalance
  <2> QED
    BY <1>8, <1>11, <2>4, <2>6
<1>12. ASSUME NEW r \in Relays, NEW e \in Events, e = cur[r], MarkProcessed(r) PROVE Accounted'
  <2>1. status \in [Events -> {"absent"} \cup Open \cup Settled]
    BY <1>12 DEF MarkProcessed, IInv, TypeOK, CounterBounded, InFlight
  <2>2. /\ UNCHANGED <<sent, stalled>>
        /\ \/ status'[e] = "PROCESSED" /\ UNCHANGED unknown
           \/ OutcomeLost(e)
    BY <1>12, <2>1 DEF MarkProcessed, WriteBack
  <2>3. \A q \in Relays \ {r} : pc'[q] = pc[q] /\ cur'[q] = cur[q]
    BY <1>1, <1>12 DEF MarkProcessed, NextRow, CountsTyped
  <2> QED
    BY <1>11, <1>12, <2>1, <2>2, <2>3
<1>13. ASSUME NEW r \in Relays, Crash(r) PROVE Accounted'
  <2>1. UNCHANGED <<sent, status, stalled>> /\ \A q \in Relays \ {r} : pc'[q] = pc[q] /\ cur'[q] = cur[q]
    BY <1>1, <1>13 DEF Crash, CountsTyped
  <2>2. CASE pc[r] = "persist"
    <3>1. PICK e \in Events : e = cur[r]
      BY <2>2 DEF IInv, CounterBounded, InFlight
    <3>2. OutcomeLost(e)
      BY <1>13, <2>2, <3>1 DEF Crash
    <3> QED
      BY <1>11, <2>1, <3>1, <3>2
  <2>3. CASE pc[r] # "persist"
    <3>1. \A q \in Relays : pc[q] = "persist" => (pc'[q] = "persist" /\ cur'[q] = cur[q])
      BY <2>1, <2>3
    <3> QED
      BY <1>13, <2>1, <2>3, <3>1, NobodyLeaves DEF Crash
  <2> QED
    BY <2>2, <2>3
<1>14. \A r \in Relays : pc[r] \in InFlight => cur[r] \in Events
  BY DEF IInv, CounterBounded
<1>15. \A r \in Relays : PublishAcked(r) \/ PublishFailed(r) \/ MarkProcessed(r) => cur[r] \in Events
  BY <1>14 DEF PublishAcked, PublishFailed, MarkProcessed, InFlight
<1> QED
  BY <1>3, <1>4, <1>5, <1>6, <1>7, <1>9, <1>10, <1>12, <1>13, <1>15 DEF Next, RelayStep, Publish

\* Every message of a row but one has a lost outcome of its own, as many as they are (the
\* counters count up to an arbitrary SentCap), unless a live relay outlasted the reclaim age
\* on the row; with or without JetStream.
THEOREM DuplicatesAreExplained == Safety => []DuplicateHasCause
<1>1. Init => Lease /\ Accounted
  <2>1. Init => \A e \in Events : sent[e] = 0 /\ unknown[e] = 0 /\ Accounting(e) \in {0, 1}
    BY DEF Init, Accounting
  <2>2. Init => Accounted
    BY <2>1 DEF Accounted
  <2> QED
    BY <2>2 DEF Init, Lease, Holds, InFlight
<1>2. IInv /\ Lease /\ [Next]_vars => Lease'
  BY NextLease
<1>3. IInv /\ Lease /\ Accounted /\ [Next]_vars => Accounted'
  BY NextAccounted, NextIInv
<1>4. IInv /\ Accounted => DuplicateHasCause
  <2> SUFFICES ASSUME IInv, Accounted, NEW e \in Events \ stalled PROVE sent[e] <= 1 + unknown[e]
    BY DEF DuplicateHasCause
  <2>1. /\ sent[e] \in 0..SentCap /\ unknown[e] \in 0..UnknownCap /\ SentCap \in Nat \ {0, 1}
        /\ UnknownCap = SentCap - 1
    BY CountsTypes, RelayAssumption DEF CountsTyped, UnknownCap
  <2>2. unknown[e] < UnknownCap => sent[e] <= unknown[e] + Accounting(e)
    BY DEF Accounted
  <2>3. Accounting(e) \in {0, 1}
    BY DEF Accounting
  <2> HIDE DEF Accounting
  <2> QED
    BY <2>1, <2>2, <2>3
<1> QED
  BY <1>1, <1>2, <1>3, <1>4, InitIInv, NextIInv, PTL DEF Safety

-----------------------------------------------------------------------------
(* The relays of PLM and Quality: EmitRelay, which claims nothing.  The table, the       *)
(* positions and the bounds that have the same names above are theirs here.             *)

CONSTANTS Ticks, Services, Outages
VARIABLES service, brokerUp

Bare == INSTANCE EmitRelay

\* The counters, stored and remembered, stay below the budget while the row is in
\* the queue or in hand, and never count more than was handed to the client.
CountersBehind ==
  /\ \A e \in Bare!Events : attempts[e] <= emits[e]
  /\ \A e \in Bare!Events : status[e] \in {"absent", "PENDING"} => attempts[e] < MaxAttempts
  /\ \A t \in Ticks, e \in Bare!Events : seen[t][e] <= emits[e]
  /\ \A t \in Ticks, e \in Bare!Events :
       e \in batch[t] \/ e = cur[t] => status[e] # "absent" /\ seen[t][e] < MaxAttempts

\* What a tick is about to mark or to count has been handed to the client.
InHand ==
  \A t \in Ticks :
    IF pc[t] \in {"update", "count"}
    THEN /\ cur[t] \in Bare!Events
         /\ cur[t] \in delivered \cup buffer \cup lost
         /\ seen[t][cur[t]] < emits[cur[t]]
    ELSE cur[t] = 0

EmitIInv == Bare!TypeOK /\ CountersBehind /\ InHand /\ Bare!LossHasCause

LEMMA EmitInit == ASSUME Bare!EmitRelayAssumption PROVE Bare!Init => EmitIInv
  BY DEF Bare!EmitRelayAssumption, Bare!Init, EmitIInv, Bare!TypeOK, CountersBehind,
         InHand, Bare!LossHasCause, Bare!NoneSeen, Bare!EmitCap, Bare!Events

LEMMA EventsAreNumbers ==
  ASSUME Bare!EmitRelayAssumption
  PROVE  Bare!Events \subseteq Nat /\ 0 \notin Bare!Events
  BY DEF Bare!EmitRelayAssumption, Bare!Events

LEMMA BelowBudget ==
  ASSUME Bare!EmitRelayAssumption
  PROVE  \A n \in 0..MaxAttempts : n < MaxAttempts => n + 1 \in 1..MaxAttempts
  BY DEF Bare!EmitRelayAssumption

LEMMA NothingSeen ==
  ASSUME Bare!EmitRelayAssumption
  PROVE  /\ Bare!NoneSeen \in [Bare!Events -> 0..MaxAttempts]
         /\ \A e \in Bare!Events : Bare!NoneSeen[e] = 0
  BY DEF Bare!EmitRelayAssumption, Bare!NoneSeen

LEMMA EmitNext ==
  ASSUME Bare!EmitRelayAssumption
  PROVE  EmitIInv /\ [Bare!Next]_(Bare!vars) => EmitIInv'
<1> SUFFICES ASSUME EmitIInv, [Bare!Next]_(Bare!vars) PROVE EmitIInv'
  OBVIOUS
<1>a. Bare!Events \subseteq Nat /\ 0 \notin Bare!Events
  BY EventsAreNumbers
<1>b. /\ Bare!NoneSeen \in [Bare!Events -> 0..MaxAttempts]
      /\ \A e \in Bare!Events : Bare!NoneSeen[e] = 0
  BY NothingSeen
<1> USE <1>a DEF Bare!EmitRelayAssumption
<1> USE DEF EmitIInv, Bare!TypeOK, CountersBehind, InHand, Bare!LossHasCause, Bare!EmitCap,
            Bare!rowVars, Bare!tickVars,
            Bare!clientVars
<1>1. ASSUME NEW e \in Bare!Events, Bare!Emit(e) PROVE EmitIInv'
  <2>1. Bare!TypeOK'
    BY <1>1 DEF Bare!Emit
  <2>2. CountersBehind'
    BY <1>1 DEF Bare!Emit
  <2>3. InHand'
    BY <1>1 DEF Bare!Emit
  <2>4. Bare!LossHasCause'
    BY <1>1 DEF Bare!Emit
  <2>5. QED
    BY <2>1, <2>2, <2>3, <2>4
<1>2. ASSUME NEW e \in Bare!Events, Bare!Flush(e) PROVE EmitIInv'
  <2>1. Bare!TypeOK'
    BY <1>2 DEF Bare!Flush
  <2>2. CountersBehind'
    BY <1>2 DEF Bare!Flush
  <2>3. InHand'
    BY <1>2 DEF Bare!Flush
  <2>4. Bare!LossHasCause'
    BY <1>2 DEF Bare!Flush
  <2>5. QED
    BY <2>1, <2>2, <2>3, <2>4
<1>3. ASSUME NEW e \in Bare!Events, Bare!Drop(e) PROVE EmitIInv'
  <2>1. Bare!TypeOK'
    BY <1>3 DEF Bare!Drop
  <2>2. CountersBehind'
    BY <1>3 DEF Bare!Drop
  <2>3. InHand'
    BY <1>3 DEF Bare!Drop
  <2>4. Bare!LossHasCause'
    BY <1>3 DEF Bare!Drop
  <2>5. QED
    BY <2>1, <2>2, <2>3, <2>4
<1>4. CASE Bare!BrokerFails
  <2>1. Bare!TypeOK'
    <3>1. faults' \in 0..MaxFaults
      BY <1>4 DEF Bare!BrokerFails, Bare!Fault
    <3>2. UNCHANGED <<service, status, attempts, pc, batch, cur, seen, buffer, delivered,
                      lost, emits>> /\ brokerUp' = FALSE
      BY <1>4 DEF Bare!BrokerFails
    <3>3. QED
      BY <3>1, <3>2
  <2>2. CountersBehind'
    BY <1>4 DEF Bare!BrokerFails, Bare!Fault
  <2>3. InHand'
    BY <1>4 DEF Bare!BrokerFails, Bare!Fault
  <2>4. Bare!LossHasCause'
    BY <1>4 DEF Bare!BrokerFails, Bare!Fault
  <2>5. QED
    BY <2>1, <2>2, <2>3, <2>4
<1>5. CASE Bare!BrokerReturns
  <2>1. Bare!TypeOK'
    BY <1>5 DEF Bare!BrokerReturns
  <2>2. CountersBehind'
    BY <1>5 DEF Bare!BrokerReturns
  <2>3. InHand'
    BY <1>5 DEF Bare!BrokerReturns
  <2>4. Bare!LossHasCause'
    BY <1>5 DEF Bare!BrokerReturns
  <2>5. QED
    BY <2>1, <2>2, <2>3, <2>4
<1>6. CASE Bare!Crash
  <2>1. Bare!TypeOK'
    BY <1>6 DEF Bare!Crash, Bare!Fault, Bare!NoneSeen
  <2>2. CountersBehind'
    BY <1>6 DEF Bare!Crash, Bare!Fault, Bare!NoneSeen
  <2>3. InHand'
    BY <1>6 DEF Bare!Crash, Bare!Fault, Bare!NoneSeen
  <2>4. Bare!LossHasCause'
    BY <1>6 DEF Bare!Crash, Bare!Fault, Bare!NoneSeen
  <2>5. QED
    BY <2>1, <2>2, <2>3, <2>4
<1>7. ASSUME NEW t \in Ticks, Bare!Fetch(t) PROVE EmitIInv'
  <2>1. PICK S \in Bare!Snapshots :
          /\ batch' = [batch EXCEPT ![t] = S]
          /\ seen' = [seen EXCEPT ![t] = attempts]
          /\ pc' = [pc EXCEPT ![t] = "next"]
    BY <1>7 DEF Bare!Fetch
  <2>2. S \subseteq Bare!Pending
    BY DEF Bare!Snapshots, Bare!Pending
  <2>3. Bare!TypeOK'
    BY <1>7, <2>1, <2>2 DEF Bare!Fetch, Bare!Pending
  <2>4. CountersBehind'
    <3>1. UNCHANGED <<status, attempts, cur, emits>>
      BY <1>7 DEF Bare!Fetch
    <3>2. \A e \in S : e \in Bare!Events /\ status[e] = "PENDING" /\ attempts[e] < MaxAttempts
      BY <2>2 DEF Bare!Pending
    <3>3. cur[t] \notin Bare!Events
      BY <1>7 DEF Bare!Fetch
    <3>4. \A e \in Bare!Events : seen'[t][e] = attempts[e]
      BY <2>1
    <3>5. \A r \in Ticks \ {t} : seen'[r] = seen[r] /\ batch'[r] = batch[r]
      BY <2>1
    <3>6. batch'[t] = S
      BY <2>1
    <3>7. \A r \in Ticks, e \in Bare!Events : seen'[r][e] <= emits'[e]
      BY <3>1, <3>4, <3>5
    <3>8. \A e \in Bare!Events : e \in batch'[t] \/ e = cur'[t] =>
            status'[e] # "absent" /\ seen'[t][e] < MaxAttempts
      <4>1. \A e \in Bare!Events : e \in batch'[t] \/ e = cur'[t] => e \in S
        BY <3>1, <3>3, <3>6
      <4>2. QED
        BY <4>1, <3>1, <3>2, <3>4
    <3>9. \A r \in Ticks \ {t}, e \in Bare!Events : e \in batch'[r] \/ e = cur'[r] =>
            status'[e] # "absent" /\ seen'[r][e] < MaxAttempts
      BY <3>1, <3>5
    <3>10. \A r \in Ticks, e \in Bare!Events : e \in batch'[r] \/ e = cur'[r] =>
             status'[e] # "absent" /\ seen'[r][e] < MaxAttempts
      BY <3>8, <3>9, Zenon
    <3>11. /\ \A e \in Bare!Events : attempts'[e] <= emits'[e]
           /\ \A e \in Bare!Events :
                status'[e] \in {"absent", "PENDING"} => attempts'[e] < MaxAttempts
      BY <3>1
    <3>12. QED
      <4> HIDE DEF EmitIInv, Bare!TypeOK, InHand, Bare!LossHasCause
      <4> QED
        BY <3>7, <3>10, <3>11, Zenon
  <2>5. InHand'
    BY <1>7, <2>1 DEF Bare!Fetch
  <2>6. Bare!LossHasCause'
    BY <1>7 DEF Bare!Fetch
  <2>7. QED
    BY <2>3, <2>4, <2>5, <2>6
<1>8. ASSUME NEW t \in Ticks, Bare!Relay(t) PROVE EmitIInv'
  <2>1. PICK e \in batch[t] :
          /\ buffer' = buffer \cup {e}
          /\ emits' = [emits EXCEPT ![e] = IF @ < MaxAttempts + 1 THEN @ + 1 ELSE @]
          /\ cur' = [cur EXCEPT ![t] = e]
          /\ batch' = [batch EXCEPT ![t] = @ \ {e}]
    BY <1>8 DEF Bare!Relay, Bare!PutInBuffer
  <2>2. e \in Bare!Events /\ \A f \in Bare!Events : emits[f] <= emits'[f]
    BY <2>1
  <2>3. Bare!TypeOK'
    BY <1>8, <2>1, <2>2 DEF Bare!Relay
  <2>4. CountersBehind'
    BY <1>8, <2>1, <2>2 DEF Bare!Relay
  <2>5. seen[t][e] < emits'[e]
    BY <2>1, <2>2
  <2>6. InHand'
    BY <1>8, <2>1, <2>2, <2>5 DEF Bare!Relay
  <2>7. Bare!LossHasCause'
    <3>1. UNCHANGED <<status, delivered, lost>> /\ buffer \subseteq buffer'
      BY <1>8, <2>1 DEF Bare!Relay
    <3>2. \A f \in Bare!Events : emits[f] \in Nat /\ emits'[f] \in Nat
      BY <2>1
    <3>3. QED
      BY <2>2, <3>1, <3>2
  <2>8. QED
    BY <2>3, <2>4, <2>6, <2>7
<1>9. ASSUME NEW t \in Ticks, Bare!Update(t) PROVE EmitIInv'
  <2>1. Bare!TypeOK'
    <3>1. faults' \in 0..MaxFaults
      BY <1>9 DEF Bare!Update, Bare!Fault
    <3>2. /\ status' \in [Bare!Events -> {"absent", "PENDING", "PROCESSED", "FAILED"}]
          /\ pc' \in [Ticks -> {"idle", "next", "update", "count"}]
      BY <1>9 DEF Bare!Update, Bare!NextRow
    <3>5. batch' \in [Ticks -> SUBSET Bare!Events] /\ cur' \in [Ticks -> Bare!Events \cup {0}]
      BY <1>9 DEF Bare!Update, Bare!NextRow
    <3>3. seen' \in [Ticks -> [Bare!Events -> 0..MaxAttempts]]
      BY <1>9, <1>b DEF Bare!Update, Bare!NextRow
    <3>4. QED
      BY <1>9, <3>1, <3>2, <3>3, <3>5 DEF Bare!Update
  <2>2. CountersBehind'
    <3>1. UNCHANGED <<attempts, emits, batch>>
      BY <1>9 DEF Bare!Update, Bare!NextRow
    <3>2. \A e \in Bare!Events :
            /\ status'[e] \in {"absent", "PENDING"} => status[e] = status'[e]
            /\ status'[e] = "absent" <=> status[e] = "absent"
      BY <1>9 DEF Bare!Update
    <3>3. cur'[t] \in {0, cur[t]} /\ \A r \in Ticks \ {t} : cur'[r] = cur[r]
      BY <1>9 DEF Bare!Update, Bare!NextRow
    <3>4. seen'[t] \in {seen[t], Bare!NoneSeen} /\ \A r \in Ticks \ {t} : seen'[r] = seen[r]
      BY <1>9 DEF Bare!Update, Bare!NextRow
    <3>5. \A r \in Ticks, e \in Bare!Events : seen'[r][e] \in {0, seen[r][e]}
      BY <3>4, <1>b, Zenon
    <3>6. \A e \in Bare!Events : emits[e] \in Nat
      OBVIOUS
    <3>7. QED
      BY <3>1, <3>2, <3>3, <3>5, <3>6
  <2>3. InHand'
    BY <1>9 DEF Bare!Update, Bare!NextRow, Bare!NoneSeen, Bare!Fault
  <2>4. Bare!LossHasCause'
    BY <1>9 DEF Bare!Update, Bare!NextRow, Bare!NoneSeen, Bare!Fault
  <2>5. QED
    BY <2>1, <2>2, <2>3, <2>4
<1>10. ASSUME NEW t \in Ticks, Bare!CountFailure(t) PROVE EmitIInv'
  <2>1. cur[t] \in Bare!Events /\ seen[t][cur[t]] + 1 \in 1..MaxAttempts
    <3>1. cur[t] \in Bare!Events
      BY <1>10 DEF Bare!CountFailure
    <3>2. \A e \in Bare!Events : seen[t][e] \in 0..MaxAttempts
      OBVIOUS
    <3>3. \A e \in Bare!Events : e = cur[t] => seen[t][e] < MaxAttempts
      OBVIOUS
    <3>4. seen[t][cur[t]] \in 0..MaxAttempts /\ seen[t][cur[t]] < MaxAttempts
      BY <3>1, <3>2, <3>3, Zenon
    <3>5. QED
      BY <3>1, <3>4, BelowBudget, Zenon
  <2>2. Bare!TypeOK'
    BY <1>10, <2>1 DEF Bare!CountFailure, Bare!NextRow, Bare!NoneSeen, Bare!Exhausted,
                       Bare!Fault
  <2>3. CountersBehind'
    <3>1. UNCHANGED <<emits, batch>>
      BY <1>10 DEF Bare!CountFailure, Bare!NextRow
    <3>2. \A e \in Bare!Events :
            /\ status'[e] \in {"absent", "PENDING"} => status[e] = status'[e]
            /\ status'[e] = "absent" <=> status[e] = "absent"
      BY <1>10 DEF Bare!CountFailure
    <3>3. cur'[t] = 0 /\ \A r \in Ticks \ {t} : cur'[r] = cur[r]
      BY <1>10 DEF Bare!CountFailure, Bare!NextRow
    <3>4. seen'[t] \in {seen[t], Bare!NoneSeen} /\ \A r \in Ticks \ {t} : seen'[r] = seen[r]
      BY <1>10 DEF Bare!CountFailure, Bare!NextRow
    <3>5. \A r \in Ticks, e \in Bare!Events : seen'[r][e] \in {0, seen[r][e]}
      BY <3>4, <1>b, Zenon
    <3>6. \A e \in Bare!Events : emits[e] \in Nat
      OBVIOUS
    <3>7. \A e \in Bare!Events :
            attempts'[e] = attempts[e] \/ (e = cur[t] /\ attempts'[e] = seen[t][e] + 1)
      <4>1. CASE attempts' = [attempts EXCEPT ![cur[t]] = seen[t][cur[t]] + 1]
        BY <4>1
      <4>2. CASE attempts' = attempts
        BY <4>2, Zenon
      <4>3. QED
        BY <1>10, <4>1, <4>2 DEF Bare!CountFailure
    <3>8. \A e \in Bare!Events : attempts'[e] <= emits[e]
      BY <1>10, <3>6, <3>7 DEF Bare!CountFailure
    <3>9. \A e \in Bare!Events : status'[e] \in {"absent", "PENDING"} => attempts'[e] < MaxAttempts
      <4>1. \A e \in Bare!Events :
              \/ attempts'[e] = attempts[e]
              \/ seen[t][e] + 1 < MaxAttempts /\ attempts'[e] = seen[t][e] + 1
              \/ status'[e] = "FAILED"
        BY <1>10, <2>1 DEF Bare!CountFailure, Bare!Exhausted
      <4>2. QED
        BY <3>2, <4>1
    <3>10. \A r \in Ticks, e \in Bare!Events : seen'[r][e] <= emits'[e]
      BY <3>1, <3>5, <3>6
    <3>11. \A r \in Ticks, e \in Bare!Events :
             e \in batch'[r] \/ e = cur'[r] => status'[e] # "absent" /\ seen'[r][e] < MaxAttempts
      <4>1. \A r \in Ticks, e \in Bare!Events :
              e \in batch'[r] \/ e = cur'[r] => e \in batch[r] \/ e = cur[r]
        BY <3>1, <3>3
      <4>2. QED
        BY <4>1, <3>2, <3>5
    <3>12. QED
      BY <3>1, <3>8, <3>9, <3>10, <3>11
  <2>4. InHand'
    BY <1>10, <2>1 DEF Bare!CountFailure, Bare!NextRow, Bare!NoneSeen, Bare!Exhausted,
                       Bare!Fault
  <2>5. Bare!LossHasCause'
    BY <1>10, <2>1 DEF Bare!CountFailure, Bare!NextRow, Bare!NoneSeen, Bare!Exhausted,
                       Bare!Fault
  <2>6. QED
    BY <2>2, <2>3, <2>4, <2>5
<1>11. CASE UNCHANGED Bare!vars
  <2>1. Bare!TypeOK'
    BY <1>11 DEF Bare!vars
  <2>2. CountersBehind'
    BY <1>11 DEF Bare!vars
  <2>3. InHand'
    BY <1>11 DEF Bare!vars
  <2>4. Bare!LossHasCause'
    BY <1>11 DEF Bare!vars
  <2>5. QED
    BY <2>1, <2>2, <2>3, <2>4
<1> QED
  BY <1>1, <1>2, <1>3, <1>4, <1>5, <1>6, <1>7, <1>8, <1>9, <1>10, <1>11
  DEF Bare!Next, Bare!Tick

\* The inductive invariant holds in every reachable state.
THEOREM EmitInvariance ==
  ASSUME Bare!EmitRelayAssumption PROVE Bare!Safety => []EmitIInv
  BY EmitInit, EmitNext, PTL DEF Bare!Safety

\* Types: in particular Quality's counter never passes OUTBOX_MAX_ATTEMPTS.
THEOREM EmitTypeCorrect ==
  ASSUME Bare!EmitRelayAssumption PROVE Bare!Safety => []Bare!TypeOK
  BY EmitInvariance, PTL DEF EmitIInv

\* Only an outage or a crash loses an event of PLM or Quality, and a dead letter was
\* handed to the client OUTBOX_MAX_ATTEMPTS times.
THEOREM LossIsExplained ==
  ASSUME Bare!EmitRelayAssumption PROVE Bare!Safety => []LossHasCause
<1>1. EmitIInv => LossHasCause
  BY DEF EmitIInv, Bare!LossHasCause, LossHasCause, Bare!Events, Events
<1> QED
  BY <1>1, EmitInvariance, PTL
=============================================================================
