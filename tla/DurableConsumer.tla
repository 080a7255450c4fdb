--------------------------- MODULE DurableConsumer ---------------------------
(***************************************************************************)
(* A JetStream durable consumer and the pull loops that share it: the      *)
(* fin-wip-worker of finance and the inv-eto-worker of inventory, one loop *)
(* per replica (shared-kernel/src/jetstream/consumer.ts).                  *)
(*                                                                         *)
(* The broker's side (delivery states, ack wait) is external.  A handler   *)
(* is a sequence of parts that commit one by one: labor booking, then the  *)
(* journal record (finance); one reservation per BOM component (inventory).*)
(* None of these parts recognises its own earlier effect.                  *)
(*                                                                         *)
(* Suffixed variants of a definition are faulty ones that test properties. *)
(***************************************************************************)
EXTENDS Naturals, FiniteSets

CONSTANTS
  Messages,      \* messages of the subjects the durable is meant to deliver
  OldFilter,     \* those the durable of an earlier deployment already matched
  FirstConsumers,\* the durable at start: "absent", "old" or "current"
  Bypassed,      \* messages of subjects with a Nest handler that ignores the flag
  Workers,       \* replicas
  BatchSize,     \* max_messages of a fetch
  NumParts,      \* parts of the handler
  Swallowed,     \* parts whose error the handler logs and drops
  SlowHandlers,  \* may the ack wait run out on a worker that is still busy?
  MaxFaults      \* bound: failed calls, crashes, shutdowns, expired ack waits

Parts == 1..NumParts
NoMessage == "none"

ASSUME DurableConsumerAssumption ==
  /\ NoMessage \notin Messages
  /\ OldFilter \subseteq Messages /\ Bypassed \subseteq Messages
  /\ FirstConsumers \subseteq {"absent", "old", "current"}
  /\ BatchSize \in Nat \ {0} /\ NumParts \in Nat \ {0}
  /\ Swallowed \subseteq Parts
  /\ SlowHandlers \in BOOLEAN /\ MaxFaults \in Nat

VARIABLES
  stored,     \* messages in the stream
  consumer,   \* the durable: absent, with the old filter, or current
  delivery,   \* its state per message: none, new, out (awaits an ack), again, acked
  bootstrap,  \* ensurePilotStreams: idle, or between delete and re-add
  core,       \* copies on their way to a Nest handler that ignores the flag
  pc, aborted,      \* per worker: off, dead (the loop ended), loop, handling, ack
  hand, cur, part,  \* per worker: rest of the batch, message and part in hand
  effects,    \* commits per message and part: 0, 1, 2 = more than one
  disturbed,  \* history: messages whose handling was interrupted
  faults

brokerVars == <<stored, consumer, delivery, bootstrap>>
workerVars == <<pc, aborted, hand, cur, part>>
vars == <<brokerVars, core, workerVars, effects, disturbed, faults>>

TypeOK ==
  /\ stored \subseteq Messages /\ core \subseteq Bypassed /\ disturbed \subseteq Messages
  /\ consumer \in {"absent", "old", "current"}
  /\ delivery \in [Messages -> {"none", "new", "out", "again", "acked"}]
  /\ bootstrap \in {"idle", "add"}
  /\ pc \in [Workers -> {"off", "dead", "loop", "handling", "ack"}]
  /\ aborted \in [Workers -> BOOLEAN]
  /\ hand \in [Workers -> SUBSET Messages]
  /\ cur \in [Workers -> Messages \cup {NoMessage}]
  /\ part \in [Workers -> Parts]
  /\ effects \in [Messages -> [Parts -> 0..2]]
  /\ faults \in 0..MaxFaults

Init ==
  /\ stored = {} /\ core = {} /\ disturbed = {}
  /\ consumer \in FirstConsumers
  /\ delivery = [m \in Messages |-> "none"]
  /\ bootstrap = "idle"
  /\ pc = [w \in Workers |-> "off"]
  /\ aborted = [w \in Workers |-> FALSE]
  /\ hand = [w \in Workers |-> {}]
  /\ cur = [w \in Workers |-> NoMessage]
  /\ part = [w \in Workers |-> 1]
  /\ effects = [m \in Messages |-> [k \in Parts |-> 0]]
  /\ faults = 0

Fault == faults < MaxFaults /\ faults' = faults + 1

\* A second commit of a part is counted, a third no more.
Commit(m, ks) ==
  effects' = [effects EXCEPT ![m] =
                [k \in Parts |-> IF k \in ks /\ @[k] < 2 THEN @[k] + 1 ELSE @[k]]]

Held(m) == \E w \in Workers : m \in hand[w] \/ cur[w] = m

\* What the server makes of an ack or a nak: only a pending delivery heeds it.
Acknowledge(m) ==
  delivery' = IF delivery[m] \in {"out", "again"}
              THEN [delivery EXCEPT ![m] = "acked"] ELSE delivery
Nak(m) ==
  delivery' = IF delivery[m] = "out" THEN [delivery EXCEPT ![m] = "again"] ELSE delivery

-----------------------------------------------------------------------------
(* The stream and its durable *)

Matches(m) == consumer = "current" \/ (consumer = "old" /\ m \in OldFilter)

\* A relay publishes; core NATS subscribers of the subject get a copy, too.
Publish(m) ==
  /\ m \notin stored
  /\ stored' = stored \cup {m}
  /\ delivery' = IF Matches(m) THEN [delivery EXCEPT ![m] = "new"] ELSE delivery
  /\ core' = IF m \in Bypassed THEN core \cup {m} ELSE core
  /\ UNCHANGED <<consumer, bootstrap, workerVars, effects, disturbed, faults>>

\* The Nest handler of the same subject, outside the durable; nothing is acked.
CoreHandle(m) ==
  /\ m \in core
  /\ core' = core \ {m}
  /\ \/ Commit(m, Parts) /\ UNCHANGED faults
     \/ Fault /\ UNCHANGED effects
  /\ UNCHANGED <<brokerVars, workerVars, disturbed>>

\* ensurePilotStreams finds a durable whose filter list lacks a subject.
MustRecreateAlways == consumer # "absent"
MustRecreate == consumer = "old"

BootstrapDelete ==
  /\ bootstrap = "idle" /\ MustRecreate
  /\ consumer' = "absent"
  /\ delivery' = [m \in Messages |-> "none"]
  /\ disturbed' = disturbed \cup stored
  /\ bootstrap' = "add"
  /\ UNCHANGED <<stored, core, workerVars, effects, faults>>

\* DeliverPolicy.All: a durable that is added delivers the stream from its start.
FirstDeliveryOnlyNew(m) == "none"
FirstDelivery(m) == IF m \in stored THEN "new" ELSE "none"

BootstrapAdd ==
  /\ consumer = "absent"
  /\ bootstrap' = "idle"
  /\ \/ /\ consumer' = "current"
        /\ delivery' = [m \in Messages |-> FirstDelivery(m)]
        /\ UNCHANGED faults
     \/ Fault /\ UNCHANGED <<consumer, delivery>>
  /\ UNCHANGED <<stored, core, workerVars, effects, disturbed>>

\* The ack wait ends for a message no one holds any more, or whose holder is slow.
AckWaitEnds(m) ==
  /\ delivery[m] = "out"
  /\ \/ ~Held(m) /\ UNCHANGED <<disturbed, faults>>
     \/ Held(m) /\ SlowHandlers /\ Fault /\ disturbed' = disturbed \cup {m}
  /\ delivery' = [delivery EXCEPT ![m] = "again"]
  /\ UNCHANGED <<stored, consumer, bootstrap, core, workerVars, effects>>

-----------------------------------------------------------------------------
(* The pull loop of one worker *)

LetGo(w, next) ==
  /\ pc' = [pc EXCEPT ![w] = next]
  /\ aborted' = [aborted EXCEPT ![w] = FALSE]
  /\ hand' = [hand EXCEPT ![w] = {}]
  /\ cur' = [cur EXCEPT ![w] = NoMessage]
  /\ part' = [part EXCEPT ![w] = 1]

\* consumers.get rejects when the durable is absent, and nothing tries again.  (When
\* the connection fails here, the outcome is that of LoopBreaks.)
Start(w) ==
  /\ pc[w] = "off"
  /\ pc' = [pc EXCEPT ![w] = IF consumer = "absent" THEN "dead" ELSE "loop"]
  /\ UNCHANGED <<brokerVars, core, aborted, hand, cur, part, effects, disturbed, faults>>

Fetch(w) ==
  /\ pc[w] = "loop" /\ ~aborted[w] /\ hand[w] = {} /\ consumer # "absent"
  /\ \E S \in SUBSET {m \in Messages : delivery[m] \in {"new", "again"}} :
       /\ S # {} /\ Cardinality(S) <= BatchSize
       /\ delivery' = [m \in Messages |-> IF m \in S THEN "out" ELSE delivery[m]]
       /\ hand' = [hand EXCEPT ![w] = S]
  /\ UNCHANGED <<stored, consumer, bootstrap, core, pc, aborted, cur, part,
                 effects, disturbed, faults>>

\* A fetch() that throws is logged and tried again after a pause.
FetchFails(w) ==
  /\ pc[w] = "loop" /\ ~aborted[w] /\ hand[w] = {} /\ Fault
  /\ UNCHANGED <<brokerVars, core, pc, aborted, hand, cur, part, effects, disturbed>>

\* The try block is around fetch() only.  An error while the batch is iterated, from a
\* lost connection or a pull on a durable that was deleted, ends the loop for good: the
\* caller logs it.  What was left of the batch is neither acked nor naked.
LoopBreaks(w) ==
  /\ pc[w] = "loop"
  /\ \/ consumer = "absent" /\ UNCHANGED faults
     \/ Fault
  /\ LetGo(w, IF aborted[w] THEN "off" ELSE "dead")
  /\ UNCHANGED <<brokerVars, core, effects, disturbed>>

Take(w) ==
  /\ pc[w] = "loop" /\ ~aborted[w]
  /\ \E m \in hand[w] :
       /\ cur' = [cur EXCEPT ![w] = m]
       /\ hand' = [hand EXCEPT ![w] = @ \ {m}]
  /\ part' = [part EXCEPT ![w] = 1]
  /\ pc' = [pc EXCEPT ![w] = "handling"]
  /\ UNCHANGED <<brokerVars, core, aborted, effects, disturbed, faults>>

Finished(w) ==
  /\ pc' = [pc EXCEPT ![w] = "loop"]
  /\ cur' = [cur EXCEPT ![w] = NoMessage]
  /\ part' = [part EXCEPT ![w] = 1]
  /\ UNCHANGED <<aborted, hand>>

MoreParts(k) == k < NumParts

NextPart(w) ==
  /\ IF MoreParts(part[w])
     THEN part' = [part EXCEPT ![w] = @ + 1] /\ UNCHANGED pc
     ELSE pc' = [pc EXCEPT ![w] = "ack"] /\ UNCHANGED part
  /\ UNCHANGED <<aborted, hand, cur>>

PartSucceeds(w) ==
  /\ pc[w] = "handling"
  /\ Commit(cur[w], {part[w]})
  /\ NextPart(w)
  /\ UNCHANGED <<brokerVars, core, disturbed, faults>>

\* The handler's own catch block drops the error and the handler goes on.
PartSwallowed(w) ==
  /\ pc[w] = "handling" /\ part[w] \in Swallowed /\ Fault
  /\ NextPart(w)
  /\ UNCHANGED <<brokerVars, core, effects, disturbed>>

\* What the loop answers when the handler threw.
AnswerToErrorAck(m) == Acknowledge(m)
AnswerToError(m) == Nak(m)

HandlerThrows(w) ==
  /\ pc[w] = "handling" /\ part[w] \notin Swallowed /\ Fault
  /\ AnswerToError(cur[w])
  /\ disturbed' = disturbed \cup {cur[w]}
  /\ Finished(w)
  /\ UNCHANGED <<stored, consumer, bootstrap, core, effects>>

\* ack is sent without waiting for the server: it may be lost.
AnswerToSuccessNak(m) == Nak(m)
AnswerToSuccess(m) == Acknowledge(m)

Ack(w) ==
  /\ pc[w] = "ack"
  /\ \/ AnswerToSuccess(cur[w]) /\ UNCHANGED <<disturbed, faults>>
     \/ /\ Fault
        /\ disturbed' = disturbed \cup {cur[w]}
        /\ UNCHANGED delivery
  /\ Finished(w)
  /\ UNCHANGED <<stored, consumer, bootstrap, core, effects>>

\* onModuleDestroy raises the signal; the loop sees it between two messages.
Shutdown(w) ==
  /\ pc[w] \in {"loop", "handling", "ack"} /\ ~aborted[w] /\ Fault
  /\ aborted' = [aborted EXCEPT ![w] = TRUE]
  /\ UNCHANGED <<brokerVars, core, pc, hand, cur, part, effects, disturbed>>

\* The aborted loop naks the next message of its batch and returns.
Return(w) ==
  /\ pc[w] = "loop" /\ aborted[w]
  /\ \/ hand[w] = {} /\ UNCHANGED delivery
     \/ \E m \in hand[w] : Nak(m)
  /\ LetGo(w, "off")
  /\ UNCHANGED <<stored, consumer, bootstrap, core, effects, disturbed, faults>>

\* The process dies, or closes its connection on a handler that still runs.
Crash(w) ==
  /\ pc[w] # "off" /\ Fault
  /\ disturbed' = IF cur[w] = NoMessage THEN disturbed ELSE disturbed \cup {cur[w]}
  /\ LetGo(w, "off")
  /\ UNCHANGED <<brokerVars, core, effects>>

-----------------------------------------------------------------------------

Step(w) ==
  \/ Start(w) \/ Fetch(w) \/ FetchFails(w) \/ Take(w) \/ PartSucceeds(w)
  \/ PartSwallowed(w) \/ HandlerThrows(w) \/ Ack(w) \/ Return(w)

Next ==
  \/ \E m \in Messages : Publish(m) \/ CoreHandle(m) \/ AckWaitEnds(m)
  \/ BootstrapDelete \/ BootstrapAdd
  \/ \E w \in Workers : Step(w) \/ LoopBreaks(w) \/ Shutdown(w) \/ Crash(w)

\* Workers run and are restarted, and the server's ack timers fire.
Fairness ==
  /\ \A w \in Workers : WF_vars(Step(w))
  /\ \A m \in Messages : WF_vars(AckWaitEnds(m))

Safety == Init /\ [][Next]_vars
Spec   == Safety /\ Fairness

-----------------------------------------------------------------------------
(* Properties *)

\* consumer.ts:47, "Acks on success": an acked message had every part of its
\* handler committed, but for parts whose errors the handler swallows.
AckedWasHandled ==
  \A m \in Messages : delivery[m] = "acked" =>
    \A k \in Parts \ Swallowed : effects[m][k] >= 1

\* A part is committed twice only when its message was disturbed: the handler
\* threw, the ack was lost or came late, a worker died over it, or the durable was
\* re-created.  Batches, competing replicas, orderly shutdowns and loops that break off
\* between two messages repeat nothing.
RepeatHasCause ==
  \A m \in Messages \ Bypassed, k \in Parts : effects[m][k] > 1 => m \in disturbed

\* An acked message is handed out again only because the bootstrap deleted a durable
\* whose filter was outdated.  bootstrap.ts:36, "existing durables are left in place",
\* leaves that case out.
AckIsFinal ==
  [][\A m \in Messages : delivery[m] = "acked" =>
       delivery'[m] = "acked" \/ (consumer = "old" /\ consumer' = "absent")]_vars

\* Every stored message is acked in the end, whatever finitely many faults do, while
\* the durable is there with the current filter and a worker is alive.  A worker that
\* started before the bootstrap had added the durable, or whose loop broke under a
\* deleted durable or a lost connection, is dead until its restart.
EveryMessageHandled ==
  \A m \in Messages : m \in stored ~>
    delivery[m] = "acked" \/ consumer # "current" \/ \A w \in Workers : pc[w] = "dead"

\* consumer-path.ts:7, "handlers for migrated subjects MUST no-op": no undisturbed
\* message takes effect twice.  It does not hold for the subjects in Bypassed.
OnePath ==
  \A m \in Messages, k \in Parts : effects[m][k] > 1 => m \in disturbed
=============================================================================
