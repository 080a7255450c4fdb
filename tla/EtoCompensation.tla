---------------------------- MODULE EtoCompensation ----------------------------
(***************************************************************************)
(* POST /eto-chain/compensate of analytics-service, for one saga.  Every   *)
(* replica keeps the saga in memory, hears every message (ingestEvent) and *)
(* writes its whole map to EtoSaga after each one, whichever saga the      *)
(* message belonged to.  A compensation runs on one replica: it publishes  *)
(* the reversal of each completed step, the last one first, and then       *)
(* clears the list.  A restart reads EtoSaga back.                         *)
(*                                                                         *)
(* Left out: the JSON copy, read only when the table is empty; the demo    *)
(* saga that every event also goes to; what EtoOrchestrator does with the  *)
(* steps, and what the services do with the reversals (FinanceLedger,      *)
(* InventoryStock).  Suffixed variants of a definition are faulty.         *)
(***************************************************************************)
EXTENDS SagaPromises, FiniteSets

CONSTANTS     \* next to those of SagaPromises
  Calls,       \* calls of compensate
  Bounds       \* repeats (messages sent twice), restarts, failures (publish or log),
               \* calls, upserts (of the many, those that matter), and the replicas
               \* that run (up); one of them is chosen at the start

ASSUME EtoCompensationAssumption ==
  Bounds \subseteq [repeats : Nat, restarts : Nat, failures : Nat, calls : Nat,
                 upserts : Nat, up : SUBSET Replicas]

VARIABLES     \* next to those of SagaPromises
  bound,
  happened,    \* steps whose event was published
  inbox,       \* per replica: messages on their way, steps and reversals ("undo")
  status,      \* per replica: EtoSagaState.status, "none" while the map has no saga
  row,         \* EtoSaga: status and steps
  copies,      \* upserts on their way to the table
  at, home,    \* per call: its position, its replica
  todo,        \* per call: the steps it has yet to reverse
  log          \* EtoSagaCompensation: steps with a row

memory == <<status, list>>
store == <<row, copies>>
callVars == <<at, home, todo>>
history == <<learned, published, covered, late, overlapped>>
vars == <<bound, happened, inbox, memory, store, callVars, log, history, used>>

Sagas == [status : {"none", "ACTIVE", "COMPENSATING", "COMPENSATED"}, steps : Seq(SagaSteps)]
NoSaga == [status |-> "none", steps |-> <<>>]
Budgets == {"repeats", "restarts", "failures", "calls", "upserts"}

TypeOK ==
  /\ bound \in Bounds
  /\ happened \subseteq SagaSteps
  /\ inbox \in [Replicas -> SUBSET (SagaSteps \cup {"undo"})]
  /\ \A r \in Replicas : [status |-> status[r], steps |-> list[r]] \in Sagas
  /\ \A r \in Replicas : IsInjective(list[r])
  /\ row \in Sagas /\ copies \subseteq Sagas
  /\ at \in [Calls -> {"idle", "publish", "record"}]
  /\ home \in [Calls -> Replicas]
  /\ \A c \in Calls : todo[c] \in Seq(SagaSteps) /\ (at[c] = "record" => todo[c] # <<>>)
  /\ log \subseteq SagaSteps
  /\ learned \in [Replicas -> [SagaSteps -> Nat]] /\ published \in [Replicas -> [SagaSteps -> Nat]]
  /\ covered \in [Replicas -> SUBSET SagaSteps] /\ late \in [Replicas -> SUBSET SagaSteps]
  /\ overlapped \subseteq Replicas
  /\ \A b \in Budgets : used[b] \in 0..bound[b]

Init ==
  /\ bound \in Bounds
  /\ happened = {} /\ inbox = [r \in Replicas |-> {}]
  /\ status = [r \in Replicas |-> "none"] /\ list = [r \in Replicas |-> <<>>]
  /\ row = NoSaga /\ copies = {}
  /\ at = [c \in Calls |-> "idle"] /\ home \in [Calls -> bound.up]
  /\ todo = [c \in Calls |-> <<>>]
  /\ log = {}
  /\ learned = [r \in Replicas |-> [s \in SagaSteps |-> 0]] /\ published = learned
  /\ covered = [r \in Replicas |-> {}] /\ late = covered /\ overlapped = {}
  /\ used = [b \in Budgets |-> 0]

Spend(b) == used[b] < bound[b] /\ used' = [used EXCEPT ![b] = @ + 1]

Running(r) == \E c \in Calls : at[c] # "idle" /\ home[c] = r
Counted(f, r, S) == [f EXCEPT ![r] = [s \in SagaSteps |-> IF s \in S THEN @[s] + 1 ELSE @[s]]]

-----------------------------------------------------------------------------
(* Messages, memory and the table *)

Happen(s) ==
  /\ s \notin happened \/ Spend("repeats")
  /\ s \notin happened => UNCHANGED used
  /\ happened' = happened \cup {s}
  /\ inbox' = [r \in Replicas |-> IF r \in bound.up THEN inbox[r] \cup {s} ELSE {}]
  /\ UNCHANGED <<bound, memory, store, callVars, log, history>>

\* ingestEvent: a reversal (compensate: true) is no step, but it makes the saga known.
Ingest(r, m) ==
  /\ m \in inbox[r]
  /\ inbox' = [inbox EXCEPT ![r] = @ \ {m}]
  /\ status' = [status EXCEPT ![r] = IF @ = "none" THEN "ACTIVE" ELSE @]
  /\ IF m = "undo" \/ m \in ToSet(list[r])
     THEN UNCHANGED <<list, history>>
     ELSE /\ list' = [list EXCEPT ![r] = Append(@, m)]
          /\ learned' = [learned EXCEPT ![r][m] = @ + 1]
          /\ covered' = [covered EXCEPT ![r] = @ \ {m}]
          /\ late' = IF Running(r) THEN [late EXCEPT ![r] = @ \cup {m}] ELSE late
          /\ UNCHANGED <<published, overlapped>>
  /\ UNCHANGED <<bound, happened, store, callVars, log, used>>

\* Any message makes a replica upsert every saga it knows; upserts do not wait for each other.
Copy(r) ==
  LET saga == [status |-> status[r], steps |-> list[r]]
  IN /\ status[r] # "none" /\ Spend("upserts")
     /\ copies' = copies \cup {saga}
     /\ UNCHANGED <<bound, happened, inbox, memory, row, callVars, log, history>>

Upsert ==
  /\ \E saga \in copies : row' = saga /\ copies' = copies \ {saga}
  /\ UNCHANGED <<bound, happened, inbox, memory, callVars, log, history, used>>

\* The process dies with its calls and comes back with what the table says.
Restart(r) ==
  /\ Spend("restarts")
  /\ inbox' = [inbox EXCEPT ![r] = {}]
  /\ status' = [status EXCEPT ![r] = row.status] /\ list' = [list EXCEPT ![r] = row.steps]
  /\ at' = [c \in Calls |-> IF home[c] = r THEN "idle" ELSE at[c]]
  /\ todo' = [c \in Calls |-> IF home[c] = r THEN <<>> ELSE todo[c]]
  /\ learned' = Counted(learned, r, ToSet(row.steps))
  /\ covered' = [covered EXCEPT ![r] = {}] /\ late' = [late EXCEPT ![r] = {}]
  /\ UNCHANGED <<bound, happened, store, home, log, published, overlapped>>

-----------------------------------------------------------------------------
(* compensate *)

\* A second call is let in, and takes up the same list.
ToReverseTail(r) == IF list[r] = <<>> THEN <<>> ELSE Tail(Reverse(list[r]))
ToReverse(r) == Reverse(list[r])

Begin(c) ==
  LET r == home[c]
  IN /\ at[c] = "idle" /\ Spend("calls")
     /\ status[r] # "none"
     /\ status' = [status EXCEPT ![r] = "COMPENSATING"]
     /\ at' = [at EXCEPT ![c] = "publish"]
     /\ todo' = [todo EXCEPT ![c] = ToReverse(r)]
     /\ overlapped' = IF Running(r) THEN overlapped \cup {r} ELSE overlapped
     /\ UNCHANGED <<bound, happened, inbox, list, store, home, log, learned, published,
                    covered, late>>

\* What is published is not waited for; a failure to publish is only left out of the answer.
Publish(c) ==
  LET r == home[c]
      s == Head(todo[c])
  IN /\ at[c] = "publish" /\ todo[c] # <<>>
     /\ \/ inbox' = [q \in Replicas |-> IF q \in bound.up THEN inbox[q] \cup {"undo"} ELSE {}] /\ UNCHANGED used
        \/ Spend("failures") /\ UNCHANGED inbox
     /\ at' = [at EXCEPT ![c] = "record"]
     /\ published' = [published EXCEPT ![r][s] = @ + 1]
     /\ covered' = [covered EXCEPT ![r] = @ \cup {s}]
     /\ UNCHANGED <<bound, happened, memory, store, home, todo, log, learned, late, overlapped>>

\* The log row; a failure is swallowed.
Record(c) ==
  /\ at[c] = "record"
  /\ \/ log' = log \cup {Head(todo[c])} /\ UNCHANGED used
     \/ Spend("failures") /\ UNCHANGED log
  /\ at' = [at EXCEPT ![c] = "publish"]
  /\ todo' = [todo EXCEPT ![c] = Tail(@)]
  /\ UNCHANGED <<bound, happened, inbox, memory, store, home, history>>

\* Everything that is in the list by now goes.
ClearedNever(r) == list[r]
Cleared(r) == <<>>

EndStatusKept(r) == status[r]
EndStatus(r) == "COMPENSATED"

End(c) ==
  LET r == home[c]
  IN /\ at[c] = "publish" /\ todo[c] = <<>>
     /\ list' = [list EXCEPT ![r] = Cleared(r)]
     /\ status' = [status EXCEPT ![r] = EndStatus(r)]
     /\ at' = [at EXCEPT ![c] = "idle"]
     /\ UNCHANGED <<bound, happened, inbox, store, home, todo, log, history, used>>

-----------------------------------------------------------------------------

Goes(c) == Publish(c) \/ Record(c) \/ End(c)

Next ==
  \/ \E s \in SagaSteps : Happen(s)
  \/ \E r \in Replicas : Copy(r) \/ Restart(r) \/ \E m \in inbox[r] : Ingest(r, m)
  \/ Upsert
  \/ \E c \in Calls : Begin(c) \/ Goes(c)

Safety == Init /\ [][Next]_vars

\* Each await of a running call is answered.
Spec == Safety /\ \A c \in Calls : WF_vars(Goes(c))

-----------------------------------------------------------------------------
(* Liveness; the promises about safety are in SagaPromises *)

\* A compensation that begins ends as COMPENSATED, whatever fails to be published or
\* logged; only a restart leaves the saga COMPENSATING, for the next call to take up.
EveryCompensationEnds ==
  \A r \in Replicas :
    status[r] = "COMPENSATING" ~> status[r] = "COMPENSATED" \/ used["restarts"] > 0
=============================================================================
