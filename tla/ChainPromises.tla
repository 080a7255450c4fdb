----------------------------- MODULE ChainPromises -----------------------------
(***************************************************************************)
(* What EtoOrchestrator promises, over the part of its state that the      *)
(* promises are about: the status column of the jobs, what was done and    *)
(* compensated so far, and the jobs that two had in hand at once.          *)
(***************************************************************************)
EXTENDS Naturals

CONSTANT NumSteps    \* steps of the workflow

VARIABLES
  job,           \* EtoOrchestrationJob.status, "absent" before the row is written
  everDone,      \* history: jobs that were DONE
  redone,        \* history: jobs that became DONE once more
  compensated,   \* history: steps a compensation was published for
  met            \* history: jobs that two ticks or promise chains had in hand at once

Steps == 1..NumSteps

\* eto-chain.service.ts:118, "Unblock the next step in the workflow": a step leaves
\* BLOCKED only after the step before it was DONE, or an earlier one twice.
InOrder ==
  \A s \in Steps :
    s > 1 /\ job[s] \notin {"absent", "BLOCKED"} =>
      s - 1 \in everDone \/ \E u \in 1..(s - 1) : u \in redone

Phase(s) ==
  CASE s \in met -> "clashed"
    [] s \notin met /\ job[s] \in {"PENDING", "IN_PROGRESS"} -> "running"
    [] s \notin met /\ job[s] = "DONE" -> "done"
    [] s \notin met /\ job[s] = "FAILED" -> "failed"
    [] OTHER -> "waiting"

Pipeline == INSTANCE EtoPipeline WITH
  phase <- [s \in Steps |-> Phase(s)], reversed <- compensated \ met

\* eto-orchestrator.service.ts:212, "they just stop progressing", and
\* finance.wip.cost.reversed.md, "on step FAIL / timeout": a chain is a pipeline, whatever
\* overlapping ticks, replicas, retries, losses, late completions and restarts do, but for
\* the jobs that two of them had in hand at once.  Any other job is done or failed once,
\* never comes back from it, is compensated only when it failed, and begins only when all
\* before it are done or one of them clashed.
ImplementsPipeline == Pipeline!Safety
=============================================================================
