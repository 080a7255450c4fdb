---------------------------- MODULE EtoOrchestrator ----------------------------
(***************************************************************************)
(* One ETO chain in analytics-service.  POST /eto-chain/orchestrate writes *)
(* one EtoOrchestrationJob per workflow step, a tick every five seconds    *)
(* publishes the runnable ones and fails the overdue ones                  *)
(* (eto-orchestrator.service.ts), and every replica hears every message    *)
(* and advances the chain (EtoChainService.ingestEvent).                   *)
(*                                                                         *)
(* The timer does not wait for the tick before, ingestEvent's promise      *)
(* chain is not awaited, and no update of a job looks at the status it     *)
(* replaces: each database call is a step of its own here.                 *)
(*                                                                         *)
(* Left out: other chains (they only share the take limits), the JSON copy *)
(* of the saga; compensate is EtoCompensation's.  Back-off and step        *)
(* timeouts are events.  Suffixed variants of a definition are faulty ones.*)
(***************************************************************************)
EXTENDS ChainPromises, FiniteSets, FiniteSetsExt

CONSTANTS     \* next to those of ChainPromises
  Replicas,      \* analytics processes
  Ticks,         \* ticks that may overlap
  Home,          \* the process a tick runs in
  MaxAttempts,   \* MAX_ATTEMPTS
  DomainEvents,  \* steps whose service publishes the subject with this
                 \* correlationId by itself, asked or not
  Bounds         \* the chains to look at: calm or wild (see Ended), the processes that
                 \* are up, the ticks that run, how many faults may happen, and how many
                 \* rows two may have in hand at once

ASSUME EtoOrchestratorAssumption ==
  /\ NumSteps \in Nat \ {0} /\ MaxAttempts \in Nat \ {0}
  /\ Home \in [Ticks -> Replicas]
  /\ DomainEvents \subseteq Steps
  /\ Bounds \subseteq [calm : BOOLEAN, up : SUBSET Replicas, ticking : SUBSET Ticks,
                       faults : Nat, clashes : Nat]

VARIABLES     \* next to those of ChainPromises
  bound,         \* fixed
  enqueued,      \* jobs written so far
  enqueuing,     \* is enqueueChain still writing?
  attempts,      \* column of EtoOrchestrationJob, as job is
  due,           \* jobs whose nextRunAt has come
  overdue,       \* IN_PROGRESS jobs not updated for MAX_ATTEMPTS step timeouts
  pc, batch, cur,\* per tick: position, rows left of its snapshot, row in hand
  seen,          \* per tick: the attempts columns of its snapshot
  inbox,         \* per replica: subjects on their way to it
  completed,     \* per replica: completedSteps of the saga in memory
  saved,         \* EtoSaga.completedSteps
  ingest,        \* per replica and subject: where its promise chain is
  next,          \* per replica and subject: the BLOCKED job it found
  happened,      \* domain events published
  cut,           \* history: was a promise chain of ingestEvent ever cut short?
  faults

queueVars == <<bound, enqueued, enqueuing>>
jobVars == <<job, attempts, due, overdue>>
tickVars == <<pc, batch, cur, seen>>
sagaVars == <<completed, saved>>
ingestVars == <<ingest, next>>
histories == <<everDone, redone, compensated, cut>>
chainVars == <<queueVars, jobVars, tickVars, inbox, sagaVars, ingestVars, happened,
               histories, faults>>
vars == <<chainVars, met>>

NoneSeen == [s \in Steps |-> 0]

TypeOK ==
  /\ bound \in Bounds
  /\ enqueued \in 0..NumSteps /\ enqueuing \in BOOLEAN
  /\ job \in [Steps -> {"absent", "BLOCKED", "PENDING", "IN_PROGRESS", "DONE", "FAILED"}]
  /\ \A s \in Steps : job[s] = "absent" <=> s > enqueued
  /\ attempts \in [Steps -> Nat]
  /\ due \subseteq Steps
  /\ overdue \subseteq {s \in Steps : job[s] = "IN_PROGRESS"}
  /\ pc \in [Ticks -> {"idle", "recover", "compensateLate", "fetch", "run", "publish",
                       "retry", "compensateFailed"}]
  /\ batch \in [Ticks -> SUBSET Steps]
  /\ cur \in [Ticks -> Steps \cup {0}]
  /\ seen \in [Ticks -> [Steps -> Nat]]
  /\ inbox \in [Replicas -> SUBSET Steps]
  /\ completed \in [Replicas -> SUBSET Steps] /\ saved \subseteq Steps
  /\ ingest \in [Replicas -> [Steps -> {"none", "find", "complete", "findNext", "unblock"}]]
  /\ next \in [Replicas -> [Steps -> Steps \cup {0}]]
  /\ happened \subseteq Steps /\ compensated \subseteq Steps
  /\ everDone \subseteq Steps /\ redone \subseteq everDone /\ met \subseteq Steps
  /\ cut \in BOOLEAN /\ faults \in 0..bound.faults

Init ==
  /\ bound \in Bounds
  /\ enqueued = 0 /\ enqueuing = TRUE
  /\ job = [s \in Steps |-> "absent"]
  /\ attempts = NoneSeen
  /\ due = {} /\ overdue = {}
  /\ pc = [t \in Ticks |-> "idle"]
  /\ batch = [t \in Ticks |-> {}]
  /\ cur = [t \in Ticks |-> 0]
  /\ seen = [t \in Ticks |-> NoneSeen]
  /\ inbox = [r \in Replicas |-> {}]
  /\ completed = [r \in Replicas |-> {}]
  /\ saved = {}
  /\ ingest = [r \in Replicas |-> [s \in Steps |-> "none"]]
  /\ next = [r \in Replicas |-> NoneSeen]
  /\ happened = {} /\ everDone = {} /\ redone = {} /\ compensated = {} /\ cut = FALSE
  /\ met = {}
  /\ faults = 0

MayFail == faults < bound.faults
Fault == MayFail /\ faults' = faults + 1

\* An update of job s, which refreshes updatedAt.
SetJob(s, status) ==
  /\ job' = [job EXCEPT ![s] = status]
  /\ overdue' = overdue \ {s}

\* Who has row s in hand: a tick, between the query that returned it and its last update
\* of it; a promise chain, from finding the row to updating it.
TickHas(t, s) == s \in batch[t] \/ cur[t] = s
ChainHas(r, u, s) ==
  \/ ingest[r][u] = "complete" /\ u = s
  \/ ingest[r][u] = "unblock" /\ next[r][u] = s

\* The rows that two have in hand at once.
Shared ==
  {s \in Steps :
     \/ \E t \in Ticks :
          /\ TickHas(t, s)
          /\ \/ \E v \in Ticks \ {t} : TickHas(v, s)
             \/ \E r \in Replicas, u \in Steps : ChainHas(r, u, s)
     \/ \E r \in Replicas, u \in Steps :
          /\ ChainHas(r, u, s)
          /\ \E q \in Replicas, v \in Steps : <<q, v>> # <<r, u>> /\ ChainHas(q, v, s)}
Meet == met' = met \cup Shared' /\ Cardinality(met') <= bound.clashes

-----------------------------------------------------------------------------
(* enqueueChain, time, and the services *)

Enqueue ==
  /\ enqueuing
  /\ \/ LET s == enqueued + 1
        IN /\ job' = [job EXCEPT ![s] = IF s = 1 THEN "PENDING" ELSE "BLOCKED"]
           /\ due' = due \cup {s}
           /\ enqueued' = s
           /\ enqueuing' = (s < NumSteps)
           /\ UNCHANGED faults
     \/ /\ Fault
        /\ enqueuing' = FALSE
        /\ UNCHANGED <<job, due, enqueued>>
  /\ UNCHANGED <<bound, attempts, overdue, tickVars, inbox, sagaVars, ingestVars, happened,
                 histories>>

BecomeDue(s) ==
  /\ s \notin due /\ job[s] = "PENDING"
  /\ due' = due \cup {s}
  /\ UNCHANGED <<queueVars, job, attempts, overdue, tickVars, inbox, sagaVars, ingestVars,
                 happened, histories, faults>>

BecomeOverdue(s) ==
  /\ job[s] = "IN_PROGRESS" /\ s \notin overdue
  /\ overdue' = overdue \cup {s}
  /\ UNCHANGED <<queueVars, job, attempts, due, tickVars, inbox, sagaVars, ingestVars,
                 happened, histories, faults>>

Broadcast(s) ==
  inbox' = [r \in Replicas |-> IF r \in bound.up THEN inbox[r] \cup {s} ELSE inbox[r]]

DomainEvent(s) ==
  /\ ~bound.calm /\ s \in DomainEvents \ happened
  /\ happened' = happened \cup {s}
  /\ Broadcast(s)
  /\ UNCHANGED <<queueVars, jobVars, tickVars, sagaVars, ingestVars, histories, faults>>

-----------------------------------------------------------------------------
(* tick *)

Goto(t, place) == pc' = [pc EXCEPT ![t] = place]
Hold(t, rows) == batch' = [batch EXCEPT ![t] = rows]
Take(t, s) == cur' = [cur EXCEPT ![t] = s]

\* recoverStaleJobs: the IN_PROGRESS rows that are too old when they are read.
RecoverFetch(t) ==
  /\ pc[t] = "idle" /\ t \in bound.ticking
  /\ bound.calm => ~enqueuing
  /\ Hold(t, overdue)
  /\ Goto(t, "recover")
  /\ UNCHANGED <<queueVars, jobVars, cur, seen, inbox, sagaVars, ingestVars, happened,
                 histories, faults>>

RecoverFail(t) ==
  /\ pc[t] = "recover"
  /\ \/ \E s \in batch[t] :
          /\ SetJob(s, "FAILED")
          /\ Take(t, s) /\ Hold(t, batch[t] \ {s})
          /\ Goto(t, "compensateLate")
     \/ batch[t] = {} /\ Goto(t, "fetch") /\ UNCHANGED <<job, overdue, cur, batch>>
  /\ UNCHANGED <<queueVars, attempts, due, seen, inbox, sagaVars, ingestVars, happened,
                 histories, faults>>

\* publishWipCompensation; a failure to publish is only logged.
Compensate(t) ==
  /\ pc[t] \in {"compensateLate", "compensateFailed"}
  /\ \/ compensated' = compensated \cup {cur[t]} /\ UNCHANGED faults
     \/ Fault /\ UNCHANGED compensated
  /\ Goto(t, IF pc[t] = "compensateLate" THEN "recover" ELSE "run")
  /\ Take(t, 0)
  /\ UNCHANGED <<queueVars, jobVars, batch, seen, inbox, sagaVars, ingestVars, happened,
                 everDone, redone, cut>>

RunnableByDate == {s \in Steps : job[s] # "absent"} \cap due
RunnableAny == {s \in Steps : job[s] \in {"PENDING", "BLOCKED"}} \cap due
Runnable == {s \in Steps : job[s] = "PENDING"} \cap due

Fetch(t) ==
  /\ pc[t] = "fetch"
  /\ Hold(t, Runnable)
  /\ seen' = [seen EXCEPT ![t] = attempts]
  /\ Goto(t, "run")
  /\ UNCHANGED <<queueVars, jobVars, cur, inbox, sagaVars, ingestVars, happened, histories,
                 faults>>

\* The row becomes IN_PROGRESS whatever it has become since the snapshot.
Start(t) ==
  /\ pc[t] = "run"
  /\ \/ \E s \in batch[t] :
          /\ SetJob(s, "IN_PROGRESS")
          /\ attempts' = [attempts EXCEPT ![s] = @ + 1]
          /\ Take(t, s) /\ Hold(t, batch[t] \ {s})
          /\ Goto(t, "publish")
          /\ UNCHANGED seen
     \/ /\ batch[t] = {}
        /\ Goto(t, "idle")
        /\ seen' = [seen EXCEPT ![t] = NoneSeen]
        /\ UNCHANGED <<job, overdue, attempts, cur, batch>>
  /\ UNCHANGED <<queueVars, due, inbox, sagaVars, ingestVars, happened, histories, faults>>

Publish(t) ==
  /\ pc[t] = "publish"
  /\ \/ Broadcast(cur[t]) /\ Goto(t, "run") /\ Take(t, 0) /\ UNCHANGED faults
     \/ Fault /\ Goto(t, "retry") /\ UNCHANGED <<inbox, cur>>
  /\ UNCHANGED <<queueVars, jobVars, batch, seen, sagaVars, ingestVars, happened, histories>>

Exhausted(n) == n >= MaxAttempts

\* The publish failed: back to PENDING with a back-off, or FAILED.
Retry(t) ==
  LET s == cur[t]
      n == seen[t][s] + 1
  IN /\ pc[t] = "retry"
     /\ attempts' = [attempts EXCEPT ![s] = n]
     /\ due' = due \ {s}
     /\ IF Exhausted(n)
        THEN SetJob(s, "FAILED") /\ Goto(t, "compensateFailed") /\ UNCHANGED cur
        ELSE SetJob(s, "PENDING") /\ Goto(t, "run") /\ Take(t, 0)
     /\ UNCHANGED <<queueVars, batch, seen, inbox, sagaVars, ingestVars, happened, histories,
                    faults>>

\* A database error ends the tick.
TickFails(t) ==
  /\ pc[t] \in {"recover", "fetch", "run", "retry"}
  /\ Fault
  /\ Goto(t, "idle") /\ Take(t, 0) /\ Hold(t, {})
  /\ seen' = [seen EXCEPT ![t] = NoneSeen]
  /\ UNCHANGED <<queueVars, jobVars, inbox, sagaVars, ingestVars, happened, histories>>

-----------------------------------------------------------------------------
(* ingestEvent *)

At(r, s, place) == ingest' = [ingest EXCEPT ![r][s] = place]

\* The synchronous part: completedSteps, then the promise chain starts.
Receive(r, s) ==
  /\ s \in inbox[r]
  /\ inbox' = [inbox EXCEPT ![r] = @ \ {s}]
  /\ completed' = [completed EXCEPT ![r] = @ \cup {s}]
  /\ IF s \in completed[r] THEN UNCHANGED ingest ELSE At(r, s, "find")
  /\ UNCHANGED <<queueVars, jobVars, tickVars, saved, next, happened, histories, faults>>

Lose(r, s) ==
  /\ s \in inbox[r] /\ Fault
  /\ inbox' = [inbox EXCEPT ![r] = @ \ {s}]
  /\ UNCHANGED <<queueVars, jobVars, tickVars, sagaVars, ingestVars, happened, histories>>

OpenAny == {"BLOCKED", "PENDING", "IN_PROGRESS"}
Open == {"PENDING", "IN_PROGRESS"}

FindJob(r, s) ==
  /\ ingest[r][s] = "find"
  /\ At(r, s, IF job[s] \in Open THEN "complete" ELSE "none")
  /\ UNCHANGED <<queueVars, jobVars, tickVars, inbox, sagaVars, next, happened, histories,
                 faults>>

Complete(r, s) ==
  /\ ingest[r][s] = "complete"
  /\ SetJob(s, "DONE")
  /\ everDone' = everDone \cup {s}
  /\ redone' = redone \cup ({s} \cap everDone)
  /\ At(r, s, "findNext")
  /\ UNCHANGED <<queueVars, attempts, due, tickVars, inbox, sagaVars, next, happened,
                 compensated, cut, faults>>

\* The jobs were written one after the other: the oldest nextRunAt is the first step.
Blocked == {s \in Steps : job[s] = "BLOCKED"}

FindNext(r, s) ==
  /\ ingest[r][s] = "findNext"
  /\ \/ /\ Blocked # {}
        /\ next' = [next EXCEPT ![r][s] = Min(Blocked)]
        /\ At(r, s, "unblock")
     \/ Blocked = {} /\ At(r, s, "none") /\ UNCHANGED next
  /\ UNCHANGED <<queueVars, jobVars, tickVars, inbox, sagaVars, happened, histories, faults>>

UnblockNothing(n) == UNCHANGED <<job, overdue>>
UnblockJob(n) == SetJob(n, "PENDING")

Unblock(r, s) ==
  LET n == next[r][s]
  IN /\ ingest[r][s] = "unblock"
     /\ UnblockJob(n)
     /\ due' = due \cup {n}
     /\ At(r, s, "none") /\ next' = [next EXCEPT ![r][s] = 0]
     /\ UNCHANGED <<queueVars, attempts, tickVars, inbox, sagaVars, happened, histories, faults>>

\* A database error ends the promise chain with console.error.
IngestFails(r, s) ==
  /\ ingest[r][s] # "none" /\ Fault
  /\ At(r, s, "none") /\ next' = [next EXCEPT ![r][s] = 0]
  /\ cut' = TRUE
  /\ UNCHANGED <<queueVars, jobVars, tickVars, inbox, sagaVars, happened, everDone, redone,
                 compensated>>

\* persist is not awaited and writes every saga: any event of any chain triggers it.
\* Only a restart reads the copy: where none can follow, nothing is copied.
Persist(r) ==
  /\ MayFail
  /\ saved # completed[r]
  /\ saved' = completed[r]
  /\ UNCHANGED <<queueVars, jobVars, tickVars, inbox, completed, ingestVars, happened,
                 histories, faults>>

\* A replica dies and starts again.
Restart(r) ==
  /\ r \in bound.up /\ Fault
  /\ pc' = [t \in Ticks |-> IF Home[t] = r THEN "idle" ELSE pc[t]]
  /\ batch' = [t \in Ticks |-> IF Home[t] = r THEN {} ELSE batch[t]]
  /\ cur' = [t \in Ticks |-> IF Home[t] = r THEN 0 ELSE cur[t]]
  /\ seen' = [t \in Ticks |-> IF Home[t] = r THEN NoneSeen ELSE seen[t]]
  /\ inbox' = [inbox EXCEPT ![r] = {}]
  /\ ingest' = [ingest EXCEPT ![r] = [s \in Steps |-> "none"]]
  /\ next' = [next EXCEPT ![r] = NoneSeen]
  /\ completed' = [completed EXCEPT ![r] = saved]
  /\ cut' = (cut \/ \E s \in Steps : ingest[r][s] # "none")
  /\ UNCHANGED <<queueVars, jobVars, saved, happened, everDone, redone, compensated>>

-----------------------------------------------------------------------------

Tick(t) ==
  \/ RecoverFetch(t) \/ RecoverFail(t) \/ Compensate(t)
  \/ Fetch(t) \/ Start(t) \/ Publish(t) \/ Retry(t)

Ingest(r, s) ==
  Receive(r, s) \/ FindJob(r, s) \/ Complete(r, s) \/ FindNext(r, s) \/ Unblock(r, s)

Next ==
  /\ \/ Enqueue
     \/ \E s \in Steps : BecomeDue(s) \/ BecomeOverdue(s) \/ DomainEvent(s)
     \/ \E t \in Ticks : Tick(t) \/ TickFails(t)
     \/ \E r \in Replicas, s \in Steps : Ingest(r, s) \/ Lose(r, s) \/ IngestFails(r, s)
     \/ \E r \in Replicas : Persist(r) \/ Restart(r)
  /\ Meet

\* The timer keeps firing, time passes, and what was started or sent goes on.
Fairness ==
  /\ WF_chainVars(Enqueue)
  /\ \A s \in Steps : WF_chainVars(BecomeDue(s)) /\ WF_chainVars(BecomeOverdue(s))
  /\ \A t \in Ticks : WF_chainVars(Tick(t))
  /\ \A r \in Replicas, s \in Steps : WF_chainVars(Ingest(r, s))

Safety == Init /\ [][Next]_vars
Spec   == Safety /\ Fairness

-----------------------------------------------------------------------------
(* Liveness; the promises about safety are in ChainPromises *)

\* eto-chain.service.ts:108, "mark it as DONE and advance the chain": every calm chain
\* runs to its end or to a failed step, unless a database error or a restart cut
\* ingestEvent short.  Calm is a chain whose jobs are written before the first tick, and
\* whose subjects come only from the orchestrator.
Ended ==
  \/ \A s \in Steps : job[s] \in {"absent", "DONE"}
  \/ \E s \in Steps : job[s] = "FAILED"
  \/ cut
EveryChainEnds == bound.calm /\ ~enqueuing ~> Ended
=============================================================================
