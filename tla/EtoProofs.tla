------------------------------- MODULE EtoProofs -------------------------------
(***************************************************************************)
(* Proofs about the components an engineer-to-order project runs through:  *)
(* its bills of materials and change orders (EngineeringChange), and, each *)
(* an instance, the compensation of its saga (EtoCompensation), its        *)
(* payment milestones (Milestones), the job queue of its chain             *)
(* (EtoOrchestrator).                                                      *)
(* The components do not share state: where two of them declare the same   *)
(* name, it stands for that of the one a theorem is about.                 *)
(***************************************************************************)
EXTENDS EngineeringChange, SagaPromises, MilestonePromises, ChainPromises, FiniteSetTheorems,
        TLAPS

CONSTANT SagaBounds
VARIABLES happened, inbox, status, row, copies, home, log

Undo == INSTANCE EtoCompensation WITH Bounds <- SagaBounds

CONSTANTS Handlers, MilestoneBounds
VARIABLES mail, echoes, draft, open, of, news, copy, broken, faults

Pay == INSTANCE Milestones WITH Bounds <- MilestoneBounds

CONSTANTS Ticks, Home, MaxAttempts, DomainEvents, ChainBounds
VARIABLES enqueued, enqueuing, attempts, due, overdue, pc, batch, cur, seen, completed, saved, ingest,
          next, cut

Chain == INSTANCE EtoOrchestrator WITH Bounds <- ChainBounds

-----------------------------------------------------------------------------
(* Lists of steps *)

LEMMA ReversedList ==
  ASSUME NEW S, NEW s \in Seq(S), Undo!IsInjective(s)
  PROVE  /\ Undo!Reverse(s) \in Seq(S)
         /\ Undo!ToSet(Undo!Reverse(s)) = Undo!ToSet(s)
         /\ Undo!IsInjective(Undo!Reverse(s))
<1> DEFINE n == Len(s)
<1>1. n \in Nat /\ DOMAIN s = 1..n /\ \A i \in 1..n : s[i] \in S
  OBVIOUS
<1>2. \A i \in 1..n : (n - i) + 1 \in 1..n /\ (n - ((n - i) + 1)) + 1 = i
  BY <1>1
<1>3. Undo!Reverse(s) = [i \in 1..n |-> s[(n - i) + 1]]
  BY DEF Undo!Reverse
<1>4. Undo!Reverse(s) \in Seq(S)
  BY <1>1, <1>2, <1>3
<1>5. Undo!ToSet(Undo!Reverse(s)) = Undo!ToSet(s)
  <2>1. DOMAIN Undo!Reverse(s) = 1..n
    BY <1>3
  <2>2. \A i \in 1..n : Undo!Reverse(s)[i] = s[(n - i) + 1]
    BY <1>3
  <2>3. \A i \in 1..n : s[i] = Undo!Reverse(s)[(n - i) + 1]
    BY <1>2, <2>2
  <2>4. QED
    BY <1>1, <1>2, <2>1, <2>2, <2>3 DEF Undo!ToSet
<1>6. Undo!IsInjective(Undo!Reverse(s))
  <2>1. SUFFICES ASSUME NEW i \in 1..n, NEW j \in 1..n, s[(n - i) + 1] = s[(n - j) + 1]
                 PROVE  i = j
    BY <1>3 DEF Undo!IsInjective
  <2>2. (n - i) + 1 = (n - j) + 1
    BY <1>1, <1>2, <2>1 DEF Undo!IsInjective
  <2>3. QED
    BY <1>1, <2>2
<1> QED
  BY <1>4, <1>5, <1>6

LEMMA HeadAndTail ==
  ASSUME NEW S, NEW s \in Seq(S), s # <<>>
  PROVE  /\ Head(s) \in S /\ Tail(s) \in Seq(S)
         /\ Undo!ToSet(s) = {Head(s)} \cup Undo!ToSet(Tail(s))
         /\ Undo!IsInjective(s) => /\ Undo!IsInjective(Tail(s))
                                   /\ Head(s) \notin Undo!ToSet(Tail(s))
<1>1. /\ Len(s) \in Nat \ {0} /\ DOMAIN s = 1..Len(s) /\ Head(s) = s[1]
      /\ Tail(s) \in Seq(S) /\ Len(Tail(s)) = Len(s) - 1
      /\ DOMAIN Tail(s) = 1..(Len(s) - 1)
      /\ \A i \in 1..(Len(s) - 1) : Tail(s)[i] = s[i + 1]
  OBVIOUS
<1>2. Undo!ToSet(s) = {Head(s)} \cup Undo!ToSet(Tail(s))
  <2>1. \A i \in DOMAIN s : i = 1 \/ (i - 1 \in DOMAIN Tail(s) /\ Tail(s)[i - 1] = s[i])
    BY <1>1
  <2>2. \A i \in DOMAIN Tail(s) : i + 1 \in DOMAIN s /\ Tail(s)[i] = s[i + 1]
    BY <1>1
  <2>3. 1 \in DOMAIN s
    BY <1>1
  <2>4. \A i \in DOMAIN s : s[i] \in {s[1]} \cup {Tail(s)[j] : j \in DOMAIN Tail(s)}
    BY <2>1
  <2>5. \A j \in DOMAIN Tail(s) : Tail(s)[j] \in {s[i] : i \in DOMAIN s}
    BY <2>2
  <2>6. QED
    BY <1>1, <2>3, <2>4, <2>5 DEF Undo!ToSet
<1>3. ASSUME Undo!IsInjective(s)
      PROVE  Undo!IsInjective(Tail(s)) /\ Head(s) \notin Undo!ToSet(Tail(s))
  <2>1. \A i, j \in 1..Len(s) : s[i] = s[j] => i = j
    BY <1>1, <1>3 DEF Undo!IsInjective
  <2>2. \A i \in 1..(Len(s) - 1) : i + 1 \in 1..Len(s) /\ i + 1 # 1
    BY <1>1
  <2>3. \A i, j \in 1..(Len(s) - 1) : i + 1 = j + 1 => i = j
    BY <1>1
  <2>4. Undo!IsInjective(Tail(s))
    BY <1>1, <2>1, <2>2, <2>3 DEF Undo!IsInjective
  <2>5. 1 \in 1..Len(s)
    BY <1>1
  <2>6. Head(s) \notin Undo!ToSet(Tail(s))
    BY <1>1, <2>1, <2>2, <2>5 DEF Undo!ToSet
  <2>7. QED
    BY <2>4, <2>6
<1> QED
  BY <1>1, <1>2, <1>3

LEMMA LongerList ==
  ASSUME NEW S, NEW s \in Seq(S), NEW m \in S
  PROVE  /\ Append(s, m) \in Seq(S)
         /\ Undo!ToSet(Append(s, m)) = Undo!ToSet(s) \cup {m}
         /\ Undo!IsInjective(s) /\ m \notin Undo!ToSet(s) => Undo!IsInjective(Append(s, m))
<1>1. /\ Len(s) \in Nat /\ DOMAIN s = 1..Len(s) /\ Append(s, m) \in Seq(S)
      /\ DOMAIN Append(s, m) = 1..(Len(s) + 1)
      /\ Append(s, m)[Len(s) + 1] = m
      /\ \A i \in 1..Len(s) : Append(s, m)[i] = s[i]
  OBVIOUS
<1>2. \A i \in 1..(Len(s) + 1) : i \in 1..Len(s) \/ i = Len(s) + 1
  BY <1>1
<1>3. 1..Len(s) \subseteq 1..(Len(s) + 1) /\ Len(s) + 1 \in 1..(Len(s) + 1)
  BY <1>1
<1>4. Undo!ToSet(Append(s, m)) = Undo!ToSet(s) \cup {m}
  BY <1>1, <1>2, <1>3 DEF Undo!ToSet
<1>5. ASSUME Undo!IsInjective(s), m \notin Undo!ToSet(s) PROVE Undo!IsInjective(Append(s, m))
  BY <1>1, <1>2, <1>5 DEF Undo!ToSet, Undo!IsInjective
<1> QED
  BY <1>1, <1>4, <1>5

LEMMA EmptyList == Undo!ToSet(<<>>) = {} /\ Undo!IsInjective(<<>>) /\ \A S : <<>> \in Seq(S)
  BY DEF Undo!ToSet, Undo!IsInjective

-----------------------------------------------------------------------------
(* EtoCompensation *)

\* The steps a call has yet to publish.
Left(c) == Undo!ToSet(IF at[c] = "record" THEN Tail(todo[c]) ELSE todo[c])

Busy(c, r) == at[c] # "idle" /\ home[c] = r

\* Is the step in the replica's list without a call having taken it up?
Owed(r, s) == IF s \in Undo!ToSet(list[r]) \ covered[r] THEN 1 ELSE 0

WorldTyped ==
  /\ bound \in SagaBounds /\ happened \subseteq SagaSteps
  /\ inbox \in [Replicas -> SUBSET (SagaSteps \cup {"undo"})]
  /\ used \in [Undo!Budgets -> Nat] /\ \A b \in Undo!Budgets : used[b] <= bound[b]

MemoryTyped ==
  /\ status \in [Replicas -> {"none", "ACTIVE", "COMPENSATING", "COMPENSATED"}]
  /\ list \in [Replicas -> Seq(SagaSteps)] /\ \A r \in Replicas : Undo!IsInjective(list[r])
  /\ row \in Undo!Sagas /\ Undo!IsInjective(row.steps)
  /\ copies \subseteq Undo!Sagas /\ \A saga \in copies : Undo!IsInjective(saga.steps)

CallsTyped ==
  /\ at \in [Calls -> {"idle", "publish", "record"}] /\ home \in [Calls -> Replicas]
  /\ todo \in [Calls -> Seq(SagaSteps)] /\ \A c \in Calls : at[c] = "record" => todo[c] # <<>>
  /\ log \subseteq SagaSteps

HistoryTyped ==
  /\ learned \in [Replicas -> [SagaSteps -> Nat]] /\ published \in [Replicas -> [SagaSteps -> Nat]]
  /\ covered \in [Replicas -> SUBSET SagaSteps] /\ late \in [Replicas -> SUBSET SagaSteps]
  /\ overlapped \subseteq Replicas

UndoTyped == WorldTyped /\ MemoryTyped /\ CallsTyped /\ HistoryTyped

\* One call runs, its steps are in the list and not taken up, and with the owed ones
\* nothing is reversed more often than it entered.
Sound(r) ==
  /\ \A c, d \in Calls : Busy(c, r) /\ Busy(d, r) => c = d
  /\ \A c \in Calls : Busy(c, r) =>
       Left(c) \subseteq Undo!ToSet(list[r]) \ covered[r] /\ Undo!IsInjective(todo[c])
  /\ (\A c \in Calls : ~Busy(c, r)) => Undo!ToSet(list[r]) \cap covered[r] = {}
  /\ \A s \in SagaSteps : published[r][s] + Owed(r, s) <= learned[r][s]

Alone == \A r \in Replicas \ overlapped : Sound(r)

\* What a running call will clear was taken up, came late, or is still on its way.
Kept ==
  \A r \in Replicas, c \in Calls : Busy(c, r) =>
    Undo!ToSet(list[r]) \subseteq covered[r] \cup late[r] \cup Left(c)

UndoInv == UndoTyped /\ Alone /\ Kept

LEMMA UndoInit == ASSUME Undo!EtoCompensationAssumption PROVE Undo!Init => UndoInv
<1> SUFFICES ASSUME Undo!Init PROVE UndoInv
  OBVIOUS
<1>1. bound \in [repeats : Nat, restarts : Nat, failures : Nat, calls : Nat, upserts : Nat,
                 up : SUBSET Replicas]
  BY DEF Undo!EtoCompensationAssumption, Undo!Init
<1>2. WorldTyped /\ CallsTyped
  BY <1>1, EmptyList DEF Undo!Init, WorldTyped, CallsTyped, Undo!Budgets
<1>3. UndoTyped
  BY <1>2, EmptyList DEF Undo!Init, UndoTyped, MemoryTyped, HistoryTyped, Undo!NoSaga, Undo!Sagas
<1>4. Alone
  BY EmptyList DEF Undo!Init, Alone, Sound, Busy, Owed
<1>5. Kept
  BY DEF Undo!Init, Kept, Busy
<1> QED
  BY <1>3, <1>4, <1>5 DEF UndoInv

LEMMA UndoIsTyped ==
  ASSUME Undo!EtoCompensationAssumption, UndoTyped PROVE Undo!TypeOK
<1>1. bound \in [repeats : Nat, restarts : Nat, failures : Nat, calls : Nat, upserts : Nat,
                 up : SUBSET Replicas]
  BY DEF Undo!EtoCompensationAssumption, UndoTyped, WorldTyped
<1>2. \A b \in Undo!Budgets : used[b] \in 0..bound[b]
  BY <1>1 DEF UndoTyped, WorldTyped, Undo!Budgets
<1>3. \A r \in Replicas : [status |-> status[r], steps |-> list[r]] \in Undo!Sagas
  BY DEF UndoTyped, MemoryTyped, Undo!Sagas
<1> QED
  BY <1>2, <1>3 DEF UndoTyped, WorldTyped, MemoryTyped, CallsTyped, HistoryTyped, Undo!TypeOK

LEMMA SpendKeeps ==
  ASSUME Undo!EtoCompensationAssumption, WorldTyped, NEW b \in Undo!Budgets, Undo!Spend(b)
  PROVE  /\ used' \in [Undo!Budgets -> Nat]
         /\ \A k \in Undo!Budgets : used'[k] <= bound[k]
<1>1. bound \in [repeats : Nat, restarts : Nat, failures : Nat, calls : Nat, upserts : Nat,
                 up : SUBSET Replicas]
  BY DEF Undo!EtoCompensationAssumption, WorldTyped
<1>2. bound[b] \in Nat
  BY <1>1 DEF Undo!Budgets
<1> QED
  BY <1>2 DEF WorldTyped, Undo!Spend

LEMMA UndoTypedStep ==
  ASSUME Undo!EtoCompensationAssumption, UndoTyped, [Undo!Next]_(Undo!vars) PROVE UndoTyped'
<1> USE DEF Undo!memory, Undo!store, Undo!callVars, Undo!history, UndoTyped
<1>1. ASSUME NEW s \in SagaSteps, Undo!Happen(s) PROVE UndoTyped'
  <2>1. (UNCHANGED used \/ Undo!Spend("repeats")) /\ "repeats" \in Undo!Budgets
    BY <1>1 DEF Undo!Happen, Undo!Budgets
  <2>2. WorldTyped'
    BY <1>1, <2>1, SpendKeeps DEF Undo!Happen, WorldTyped
  <2>3. QED
    BY <1>1, <2>2 DEF Undo!Happen, MemoryTyped, CallsTyped, HistoryTyped
<1>2. ASSUME NEW r \in Replicas, Undo!Copy(r) PROVE UndoTyped'
  <2>1. WorldTyped'
    <3>1. "upserts" \in Undo!Budgets
      BY DEF Undo!Budgets
    <3>2. QED
      BY <1>2, <3>1, SpendKeeps DEF Undo!Copy, WorldTyped
  <2>2. MemoryTyped'
    BY <1>2 DEF Undo!Copy, MemoryTyped, Undo!Sagas
  <2>3. QED
    BY <1>2, <2>1, <2>2 DEF Undo!Copy, CallsTyped, HistoryTyped
<1>3. ASSUME NEW r \in Replicas, Undo!Restart(r) PROVE UndoTyped'
  <2>1. WorldTyped'
    <3>1. "restarts" \in Undo!Budgets
      BY DEF Undo!Budgets
    <3>2. QED
      BY <1>3, <3>1, SpendKeeps DEF Undo!Restart, WorldTyped
  <2>2. MemoryTyped'
    BY <1>3 DEF Undo!Restart, MemoryTyped, Undo!Sagas
  <2>3. CallsTyped'
    BY <1>3, EmptyList DEF Undo!Restart, CallsTyped
  <2>4. HistoryTyped'
    BY <1>3 DEF Undo!Restart, HistoryTyped, Undo!Counted
  <2>5. QED
    BY <2>1, <2>2, <2>3, <2>4
<1>4. ASSUME NEW r \in Replicas, NEW m \in inbox[r], Undo!Ingest(r, m) PROVE UndoTyped'
  <2>1. WorldTyped' /\ CallsTyped'
    BY <1>4 DEF Undo!Ingest, WorldTyped, CallsTyped
  <2>2. CASE UNCHANGED <<list, learned, published, covered, late, overlapped>>
    BY <1>4, <2>1, <2>2 DEF Undo!Ingest, MemoryTyped, HistoryTyped
  <2>3. CASE m # "undo" /\ m \notin Undo!ToSet(list[r])
    <3>1. m \in SagaSteps
      BY <2>3 DEF WorldTyped
    <3>2. list' = [list EXCEPT ![r] = Append(@, m)]
      BY <1>4, <2>3 DEF Undo!Ingest
    <3>3. Append(list[r], m) \in Seq(SagaSteps) /\ Undo!IsInjective(Append(list[r], m))
      BY <2>3, <3>1, LongerList DEF MemoryTyped
    <3>4. MemoryTyped'
      BY <1>4, <3>2, <3>3 DEF Undo!Ingest, MemoryTyped
    <3>5. HistoryTyped'
      <4>1. /\ learned' = [learned EXCEPT ![r][m] = @ + 1]
            /\ covered' = [covered EXCEPT ![r] = @ \ {m}]
            /\ UNCHANGED <<published, overlapped>>
        BY <1>4, <2>3 DEF Undo!Ingest
      <4>2. late' = [late EXCEPT ![r] = @ \cup {m}] \/ UNCHANGED late
        BY <1>4, <2>3 DEF Undo!Ingest
      <4>3. late' \in [Replicas -> SUBSET SagaSteps]
        BY <3>1, <4>2 DEF HistoryTyped
      <4>4. learned' \in [Replicas -> [SagaSteps -> Nat]] /\ covered' \in [Replicas -> SUBSET SagaSteps]
        BY <3>1, <4>1 DEF HistoryTyped
      <4>5. QED
        BY <4>1, <4>3, <4>4 DEF HistoryTyped
    <3>6. QED
      BY <2>1, <3>4, <3>5
  <2>4. QED
    BY <1>4, <2>2, <2>3 DEF Undo!Ingest
<1>5. CASE Undo!Upsert
  BY <1>5 DEF Undo!Upsert, WorldTyped, MemoryTyped, CallsTyped, HistoryTyped
<1>6. ASSUME NEW c \in Calls, Undo!Begin(c) PROVE UndoTyped'
  <2>1. home[c] \in Replicas /\ "calls" \in Undo!Budgets
    BY DEF CallsTyped, Undo!Budgets
  <2>2. WorldTyped'
    BY <1>6, <2>1, SpendKeeps DEF Undo!Begin, WorldTyped
  <2>3. Undo!ToReverse(home[c]) \in Seq(SagaSteps)
    BY <2>1, ReversedList DEF MemoryTyped, Undo!ToReverse
  <2>4. MemoryTyped' /\ CallsTyped'
    BY <1>6, <2>1, <2>3 DEF Undo!Begin, MemoryTyped, CallsTyped
  <2>5. HistoryTyped'
    BY <1>6, <2>1 DEF Undo!Begin, HistoryTyped
  <2>6. QED
    BY <2>2, <2>4, <2>5
<1>7. ASSUME NEW c \in Calls, Undo!Publish(c) PROVE UndoTyped'
  <2>1. home[c] \in Replicas /\ "failures" \in Undo!Budgets
    BY DEF CallsTyped, Undo!Budgets
  <2>2. WorldTyped'
    <3>1. /\ used' \in [Undo!Budgets -> Nat]
          /\ \A b \in Undo!Budgets : used'[b] <= bound[b]
      BY <1>7, <2>1, SpendKeeps DEF Undo!Publish, WorldTyped
    <3>2. inbox' \in [Replicas -> SUBSET (SagaSteps \cup {"undo"})]
      BY <1>7 DEF Undo!Publish, WorldTyped
    <3>3. QED
      BY <1>7, <3>1, <3>2 DEF Undo!Publish, WorldTyped
  <2>3. Head(todo[c]) \in SagaSteps
    BY <1>7, HeadAndTail DEF CallsTyped, Undo!Publish
  <2>4. MemoryTyped' /\ CallsTyped'
    BY <1>7 DEF Undo!Publish, MemoryTyped, CallsTyped
  <2>5. HistoryTyped'
    BY <1>7, <2>1, <2>3 DEF Undo!Publish, HistoryTyped
  <2>6. QED
    BY <2>2, <2>4, <2>5
<1>8. ASSUME NEW c \in Calls, Undo!Record(c) PROVE UndoTyped'
  <2>1. "failures" \in Undo!Budgets
    BY DEF Undo!Budgets
  <2>2. WorldTyped'
    BY <1>8, <2>1, SpendKeeps DEF Undo!Record, WorldTyped
  <2>3. Head(todo[c]) \in SagaSteps /\ Tail(todo[c]) \in Seq(SagaSteps)
    BY <1>8, HeadAndTail DEF CallsTyped, Undo!Record
  <2>4. CallsTyped'
    BY <1>8, <2>3 DEF Undo!Record, CallsTyped
  <2>5. QED
    BY <1>8, <2>2, <2>4 DEF Undo!Record, MemoryTyped, HistoryTyped
<1>9. ASSUME NEW c \in Calls, Undo!End(c) PROVE UndoTyped'
  <2>1. home[c] \in Replicas
    BY DEF CallsTyped
  <2>2. MemoryTyped'
    BY <1>9, <2>1, EmptyList DEF Undo!End, Undo!Cleared, Undo!EndStatus, MemoryTyped
  <2>3. QED
    BY <1>9, <2>2 DEF Undo!End, WorldTyped, CallsTyped, HistoryTyped
<1>10. CASE UNCHANGED Undo!vars
  BY <1>10 DEF Undo!vars, WorldTyped, MemoryTyped, CallsTyped, HistoryTyped
<1> QED
  BY <1>1, <1>2, <1>3, <1>4, <1>5, <1>6, <1>7, <1>8, <1>9, <1>10 DEF Undo!Next, Undo!Goes

\* What does not touch a replica leaves it sound.
LEMMA OtherReplica ==
  ASSUME NEW q \in Replicas, Sound(q), UNCHANGED home,
         UNCHANGED <<list[q], covered[q], published[q], learned[q]>>,
         \A c \in Calls : home[c] = q => UNCHANGED <<at[c], todo[c]>>
  PROVE  Sound(q)'
<1>1. \A c \in Calls : Busy(c, q)' <=> Busy(c, q)
  BY DEF Busy
<1>2. \A c \in Calls : Busy(c, q) => Left(c)' = Left(c) /\ todo'[c] = todo[c]
  BY DEF Busy, Left
<1>3. \A s \in SagaSteps : Owed(q, s)' = Owed(q, s)
  BY DEF Owed
<1> QED
  BY <1>1, <1>2, <1>3 DEF Sound

\* A step enters the list.
LEMMA IngestIsSound ==
  ASSUME UndoTyped, NEW r \in Replicas, Sound(r), NEW m \in inbox[r], Undo!Ingest(r, m)
  PROVE  Sound(r)'
<1> USE DEF Undo!memory, Undo!store, Undo!callVars, Undo!history
<1>1. UNCHANGED <<at, home, todo>>
  BY DEF Undo!Ingest
<1>2. CASE UNCHANGED <<list, learned, published, covered>>
  BY <1>1, <1>2, OtherReplica
<1>3. CASE m # "undo" /\ m \notin Undo!ToSet(list[r])
  <2>1. m \in SagaSteps
    BY <1>3 DEF UndoTyped, WorldTyped
  <2>2. /\ list' = [list EXCEPT ![r] = Append(@, m)]
        /\ learned' = [learned EXCEPT ![r][m] = @ + 1]
        /\ covered' = [covered EXCEPT ![r] = @ \ {m}]
        /\ UNCHANGED published
    BY <1>3 DEF Undo!Ingest
  <2>3. Undo!ToSet(list'[r]) = Undo!ToSet(list[r]) \cup {m} /\ covered'[r] = covered[r] \ {m}
    BY <2>1, <2>2, LongerList DEF UndoTyped, MemoryTyped, HistoryTyped
  <2>4. \A c \in Calls : /\ Busy(c, r)' <=> Busy(c, r)
                         /\ Left(c)' = Left(c) /\ todo'[c] = todo[c]
    BY <1>1 DEF Busy, Left
  <2>5. \A s \in SagaSteps : published[r][s] \in Nat /\ learned[r][s] \in Nat
    BY DEF UndoTyped, HistoryTyped
  <2>6. \A s \in SagaSteps \ {m} : Owed(r, s)' = Owed(r, s) /\ learned'[r][s] = learned[r][s]
    BY <2>2, <2>3 DEF Owed, UndoTyped, HistoryTyped
  <2>7. Owed(r, m) = 0 /\ Owed(r, m)' = 1 /\ learned'[r][m] = learned[r][m] + 1
    BY <1>3, <2>1, <2>2, <2>3 DEF Owed, UndoTyped, HistoryTyped
  <2>8. \A s \in SagaSteps : published'[r][s] + Owed(r, s)' <= learned'[r][s]
    <3>1. \A s \in SagaSteps : published[r][s] + Owed(r, s) <= learned[r][s]
      BY DEF Sound
    <3>2. published[r][m] + 1 <= learned[r][m] + 1
      BY <2>1, <2>5, <2>7, <3>1
    <3>3. QED
      BY <2>2, <2>6, <2>7, <3>1, <3>2
  <2>9. QED
    BY <1>3, <2>3, <2>4, <2>8 DEF Sound
<1> QED
  BY <1>2, <1>3 DEF Undo!Ingest

\* After a restart nothing runs and nothing was taken up.
LEMMA RestartIsSound ==
  ASSUME UndoTyped, NEW r \in Replicas, Sound(r), Undo!Restart(r)
  PROVE  Sound(r)'
<1>1. /\ list' = [list EXCEPT ![r] = row.steps]
      /\ learned' = [learned EXCEPT ![r] = [s \in SagaSteps |->
                       IF s \in Undo!ToSet(row.steps) THEN @[s] + 1 ELSE @[s]]]
      /\ covered' = [covered EXCEPT ![r] = {}]
      /\ at' = [c \in Calls |-> IF home[c] = r THEN "idle" ELSE at[c]]
      /\ UNCHANGED <<home, published>>
  BY DEF Undo!Restart, Undo!Counted
<1>2. \A c \in Calls : ~Busy(c, r)'
  BY <1>1 DEF Busy
<1>3. list'[r] = row.steps /\ covered'[r] = {}
  BY <1>1 DEF UndoTyped, MemoryTyped, HistoryTyped
<1>4. \A s \in SagaSteps : published'[r][s] + Owed(r, s)' <= learned'[r][s]
  <2>1. \A s \in SagaSteps : learned'[r][s] = learned[r][s] + Owed(r, s)'
    BY <1>1, <1>3 DEF Owed, UndoTyped, HistoryTyped
  <2>2. \A s \in SagaSteps : /\ published[r][s] \in Nat /\ learned[r][s] \in Nat
                         /\ Owed(r, s) \in {0, 1} /\ Owed(r, s)' \in {0, 1}
                         /\ published[r][s] + Owed(r, s) <= learned[r][s]
    BY DEF UndoTyped, HistoryTyped, Owed, Sound
  <2>3. QED
    BY <1>1, <2>1, <2>2
<1> QED
  BY <1>2, <1>3, <1>4 DEF Sound

\* The call that begins alone takes up the whole list, none of which is covered.
LEMMA BeginIsSound ==
  ASSUME UndoTyped, NEW c \in Calls, NEW r \in Replicas \ overlapped', home[c] = r, Sound(r),
         Undo!Begin(c)
  PROVE  Sound(r)'
<1>1. r \in Replicas
  BY DEF UndoTyped, CallsTyped
<1>2. /\ at[c] = "idle" /\ at' = [at EXCEPT ![c] = "publish"]
      /\ todo' = [todo EXCEPT ![c] = Undo!Reverse(list[r])]
      /\ UNCHANGED <<home, list, covered, published, learned>>
  BY DEF Undo!Begin, Undo!ToReverse
<1>3. \A d \in Calls : ~Busy(d, r)
  BY DEF Undo!Begin, Undo!Running, Busy
<1>4. \A d \in Calls : Busy(d, r)' => d = c
  BY <1>2, <1>3 DEF Busy, UndoTyped, CallsTyped
<1>5. Left(c)' = Undo!ToSet(list[r]) /\ Undo!IsInjective(todo'[c])
  <2>1. at'[c] = "publish" /\ todo'[c] = Undo!Reverse(list[r])
    BY <1>2 DEF UndoTyped, CallsTyped
  <2>2. QED
    BY <1>1, <2>1, ReversedList DEF Left, UndoTyped, MemoryTyped
<1>6. Undo!ToSet(list[r]) \cap covered[r] = {}
  BY <1>3 DEF Sound
<1>7. \A s \in SagaSteps : Owed(r, s)' = Owed(r, s)
  BY <1>2 DEF Owed
<1> QED
  BY <1>2, <1>4, <1>5, <1>6, <1>7 DEF Sound, UndoTyped, CallsTyped

\* A step that is published was owed.
LEMMA PublishIsSound ==
  ASSUME UndoTyped, NEW c \in Calls, NEW r \in Replicas, home[c] = r, Sound(r), Undo!Publish(c)
  PROVE  Sound(r)'
<1> DEFINE s == Head(todo[c])
<1>1. r \in Replicas /\ at[c] = "publish" /\ todo[c] # <<>> /\ Busy(c, r)
  BY DEF UndoTyped, CallsTyped, Undo!Publish, Busy
<1>2. /\ at' = [at EXCEPT ![c] = "record"]
      /\ published' = [published EXCEPT ![r][s] = @ + 1]
      /\ covered' = [covered EXCEPT ![r] = @ \cup {s}]
      /\ UNCHANGED <<home, list, todo, learned>>
  BY DEF Undo!Publish, Undo!memory
<1>3. /\ s \in SagaSteps /\ Undo!ToSet(todo[c]) = {s} \cup Undo!ToSet(Tail(todo[c]))
      /\ Undo!IsInjective(todo[c]) => s \notin Undo!ToSet(Tail(todo[c]))
  BY <1>1, HeadAndTail DEF UndoTyped, CallsTyped
<1>4. /\ Undo!IsInjective(todo[c]) /\ Left(c) = Undo!ToSet(todo[c])
      /\ Left(c) \subseteq Undo!ToSet(list[r]) \ covered[r]
  BY <1>1 DEF Sound, Left
<1>5. Left(c)' = Undo!ToSet(Tail(todo[c]))
  BY <1>2 DEF Left, UndoTyped, CallsTyped
<1>6. \A d \in Calls : Busy(d, r)' => d = c
  <2>1. \A d \in Calls \ {c} : Busy(d, r)' <=> Busy(d, r)
    BY <1>2 DEF Busy, UndoTyped, CallsTyped
  <2>2. QED
    BY <1>1, <2>1 DEF Sound
<1>7. Busy(c, r)'
  BY <1>2 DEF Busy, UndoTyped, CallsTyped
<1>8. covered'[r] = covered[r] \cup {s}
  BY <1>1, <1>2 DEF UndoTyped, HistoryTyped
<1>9. Left(c)' \subseteq Undo!ToSet(list'[r]) \ covered'[r]
  BY <1>2, <1>3, <1>4, <1>5, <1>8
<1>10. \A u \in SagaSteps : published'[r][u] + Owed(r, u)' <= learned'[r][u]
  <2>1. \A u \in SagaSteps \ {s} : published'[r][u] = published[r][u] /\ Owed(r, u)' = Owed(r, u)
    BY <1>1, <1>2, <1>8 DEF Owed, UndoTyped, HistoryTyped
  <2>2. Owed(r, s) = 1 /\ Owed(r, s)' = 0 /\ published'[r][s] = published[r][s] + 1
    BY <1>1, <1>2, <1>3, <1>4, <1>8 DEF Owed, UndoTyped, HistoryTyped
  <2>3. \A u \in SagaSteps : published[r][u] \in Nat /\ learned[r][u] \in Nat
    BY <1>1 DEF UndoTyped, HistoryTyped
  <2>4. \A u \in SagaSteps : published[r][u] + Owed(r, u) <= learned[r][u]
    BY DEF Sound
  <2>5. published'[r][s] + Owed(r, s)' <= learned[r][s]
    BY <1>3, <2>2, <2>3, <2>4
  <2>6. QED
    BY <1>2, <2>1, <2>4, <2>5
<1> QED
  BY <1>2, <1>4, <1>6, <1>7, <1>9, <1>10 DEF Sound

\* What is left to publish stays the same when the step in hand was logged.
LEMMA RecordIsSound ==
  ASSUME UndoTyped, NEW c \in Calls, Undo!Record(c)
  PROVE  /\ \A d \in Calls, r \in Replicas : Busy(d, r)' <=> Busy(d, r)
         /\ \A d \in Calls : Left(d)' = Left(d)
         /\ \A r \in Replicas : Sound(r) => Sound(r)'
<1>1. /\ at[c] = "record" /\ at' = [at EXCEPT ![c] = "publish"]
      /\ todo' = [todo EXCEPT ![c] = Tail(@)]
      /\ UNCHANGED <<home, list, covered, published, learned>>
  BY DEF Undo!Record, Undo!memory, Undo!history
<1>2. \A d \in Calls, r \in Replicas : Busy(d, r)' <=> Busy(d, r)
  BY <1>1 DEF Busy, UndoTyped, CallsTyped
<1>3. \A d \in Calls \ {c} : Left(d)' = Left(d) /\ todo'[d] = todo[d]
  BY <1>1 DEF Left, UndoTyped, CallsTyped
<1>4. Left(c)' = Left(c)
  BY <1>1 DEF Left, UndoTyped, CallsTyped
<1>5. Undo!IsInjective(todo[c]) => Undo!IsInjective(todo'[c])
  <2>1. todo[c] \in Seq(SagaSteps) /\ todo[c] # <<>> /\ todo'[c] = Tail(todo[c])
    BY <1>1 DEF UndoTyped, CallsTyped
  <2>2. QED
    BY <2>1, HeadAndTail
<1>6. ASSUME NEW r \in Replicas, Sound(r) PROVE Sound(r)'
  <2>1. \A s \in SagaSteps : Owed(r, s)' = Owed(r, s)
    BY <1>1 DEF Owed
  <2>2. QED
    BY <1>1, <1>2, <1>3, <1>4, <1>5, <1>6, <2>1 DEF Sound
<1> QED
  BY <1>2, <1>3, <1>4, <1>6

\* With the list goes what was owed.
LEMMA EndIsSound ==
  ASSUME UndoTyped, NEW c \in Calls, NEW r \in Replicas, home[c] = r, Sound(r), Undo!End(c)
  PROVE  Sound(r)'
<1>1. r \in Replicas /\ Busy(c, r)
  BY DEF UndoTyped, CallsTyped, Undo!End, Busy
<1>2. /\ at' = [at EXCEPT ![c] = "idle"] /\ list' = [list EXCEPT ![r] = <<>>]
      /\ UNCHANGED <<home, todo, covered, published, learned>>
  BY DEF Undo!End, Undo!Cleared, Undo!history
<1>3. \A d \in Calls : ~Busy(d, r)'
  <2>1. ~Busy(c, r)'
    BY <1>2 DEF Busy, UndoTyped, CallsTyped
  <2>2. \A d \in Calls \ {c} : Busy(d, r)' => Busy(d, r)
    BY <1>2 DEF Busy, UndoTyped, CallsTyped
  <2>3. QED
    BY <1>1, <2>1, <2>2 DEF Sound
<1>4. Undo!ToSet(list'[r]) = {}
  BY <1>1, <1>2, EmptyList DEF UndoTyped, MemoryTyped
<1>5. \A s \in SagaSteps : published'[r][s] + Owed(r, s)' <= learned'[r][s]
  <2>1. \A s \in SagaSteps : Owed(r, s)' = 0 /\ Owed(r, s) \in {0, 1}
    BY <1>4 DEF Owed
  <2>2. \A s \in SagaSteps : /\ published[r][s] \in Nat /\ learned[r][s] \in Nat
                         /\ published[r][s] + Owed(r, s) <= learned[r][s]
    BY <1>1 DEF UndoTyped, HistoryTyped, Sound
  <2>3. QED
    BY <1>2, <2>1, <2>2
<1> QED
  BY <1>2, <1>3, <1>4, <1>5 DEF Sound

LEMMA AloneStep ==
  ASSUME UndoTyped, Alone, [Undo!Next]_(Undo!vars) PROVE Alone'
<1> USE DEF Undo!memory, Undo!store, Undo!callVars, Undo!history
<1>1. overlapped \subseteq overlapped'
  BY DEF Undo!Next, Undo!Goes, Undo!vars, Undo!Happen, Undo!Copy, Undo!Restart, Undo!Ingest,
     Undo!Upsert, Undo!Begin, Undo!Publish, Undo!Record, Undo!End
<1> SUFFICES ASSUME NEW q \in Replicas \ overlapped' PROVE Sound(q)'
  BY DEF Alone
<1>2. Sound(q)
  BY <1>1 DEF Alone
<1>3. CASE UNCHANGED <<at, home, todo, list, covered, published, learned>>
  BY <1>2, <1>3, OtherReplica
<1>4. ASSUME NEW s \in SagaSteps, Undo!Happen(s) PROVE Sound(q)'
  BY <1>3, <1>4 DEF Undo!Happen
<1>5. ASSUME NEW r \in Replicas, Undo!Copy(r) PROVE Sound(q)'
  BY <1>3, <1>5 DEF Undo!Copy
<1>6. CASE Undo!Upsert
  BY <1>3, <1>6 DEF Undo!Upsert
<1>7. ASSUME NEW r \in Replicas, Undo!Restart(r) PROVE Sound(q)'
  <2>1. CASE r = q
    BY <1>2, <1>7, <2>1, RestartIsSound
  <2>2. CASE r # q
    <3>1. UNCHANGED <<home, list[q], covered[q], published[q], learned[q]>>
      BY <1>7, <2>2 DEF Undo!Restart, Undo!Counted, UndoTyped, MemoryTyped, HistoryTyped
    <3>2. \A c \in Calls : home[c] = q => UNCHANGED <<at[c], todo[c]>>
      BY <1>7, <2>2 DEF Undo!Restart
    <3>3. QED
      BY <1>2, <3>1, <3>2, OtherReplica
  <2>3. QED
    BY <2>1, <2>2
<1>8. ASSUME NEW r \in Replicas, NEW m \in inbox[r], Undo!Ingest(r, m) PROVE Sound(q)'
  <2>1. CASE r = q
    BY <1>2, <1>8, <2>1, IngestIsSound
  <2>2. CASE r # q
    <3>1. UNCHANGED <<home, at, todo, list[q], covered[q], published[q], learned[q]>>
      BY <1>8, <2>2 DEF Undo!Ingest, UndoTyped, MemoryTyped, HistoryTyped
    <3>2. QED
      BY <1>2, <3>1, OtherReplica
  <2>3. QED
    BY <2>1, <2>2
<1>9. ASSUME NEW c \in Calls, home[c] # q,
             Undo!Begin(c) \/ Undo!Publish(c) \/ Undo!Record(c) \/ Undo!End(c)
      PROVE  Sound(q)'
  <2>1. UNCHANGED <<home, list[q], covered[q], published[q], learned[q]>>
    BY <1>9 DEF Undo!Begin, Undo!Publish, Undo!Record, Undo!End, UndoTyped, MemoryTyped,
       HistoryTyped
  <2>2. \A d \in Calls : home[d] = q => UNCHANGED <<at[d], todo[d]>>
    BY <1>9 DEF Undo!Begin, Undo!Publish, Undo!Record, Undo!End, UndoTyped, CallsTyped
  <2>3. QED
    BY <1>2, <2>1, <2>2, OtherReplica
<1>10. ASSUME NEW c \in Calls, home[c] = q,
              Undo!Begin(c) \/ Undo!Publish(c) \/ Undo!Record(c) \/ Undo!End(c)
       PROVE  Sound(q)'
  <2>1. CASE Undo!Begin(c)
    BY <1>2, <1>10, <2>1, BeginIsSound
  <2>2. CASE Undo!Publish(c)
    BY <1>2, <1>10, <2>2, PublishIsSound
  <2>3. CASE Undo!Record(c)
    BY <1>2, <2>3, RecordIsSound
  <2>4. CASE Undo!End(c)
    BY <1>2, <1>10, <2>4, EndIsSound
  <2>5. QED
    BY <1>10, <2>1, <2>2, <2>3, <2>4
<1>11. CASE UNCHANGED Undo!vars
  BY <1>3, <1>11 DEF Undo!vars
<1> QED
  BY <1>4, <1>5, <1>6, <1>7, <1>8, <1>9, <1>10, <1>11 DEF Undo!Next, Undo!Goes

LEMMA KeptStep ==
  ASSUME UndoTyped, Kept, [Undo!Next]_(Undo!vars) PROVE Kept'
<1> USE DEF Undo!memory, Undo!store, Undo!callVars, Undo!history
<1> SUFFICES ASSUME NEW q \in Replicas, NEW d \in Calls, Busy(d, q)'
             PROVE  Undo!ToSet(list'[q]) \subseteq covered'[q] \cup late'[q] \cup Left(d)'
  BY DEF Kept
<1>1. Busy(d, q) =>
        Undo!ToSet(list[q]) \subseteq covered[q] \cup late[q] \cup Left(d)
  BY DEF Kept
<1>2. ASSUME UNCHANGED <<at[d], home, todo[d]>>
      PROVE  Busy(d, q) /\ Left(d)' = Left(d)
  BY <1>2 DEF Busy, Left
<1>3. CASE UNCHANGED <<at, home, todo, list, covered, late>>
  BY <1>1, <1>2, <1>3
<1>4. ASSUME NEW s \in SagaSteps, Undo!Happen(s) PROVE UNCHANGED <<at, home, todo, list, covered, late>>
  BY <1>4 DEF Undo!Happen
<1>5. ASSUME NEW r \in Replicas, Undo!Copy(r) PROVE UNCHANGED <<at, home, todo, list, covered, late>>
  BY <1>5 DEF Undo!Copy
<1>6. CASE Undo!Upsert
  BY <1>3, <1>6 DEF Undo!Upsert
<1>7. ASSUME NEW r \in Replicas, Undo!Restart(r)
      PROVE  Undo!ToSet(list'[q]) \subseteq covered'[q] \cup late'[q] \cup Left(d)'
  <2>1. at'[d] = (IF home[d] = r THEN "idle" ELSE at[d]) /\ UNCHANGED home
    BY <1>7 DEF Undo!Restart
  <2>2. home[d] = q /\ q # r
    BY <2>1 DEF Busy
  <2>3. UNCHANGED <<at[d], home, todo[d], list[q], covered[q], late[q]>>
    BY <1>7, <2>2 DEF Undo!Restart, UndoTyped, MemoryTyped, HistoryTyped
  <2>4. QED
    BY <1>1, <1>2, <2>3
<1>8. ASSUME NEW r \in Replicas, NEW m \in inbox[r], Undo!Ingest(r, m)
      PROVE  Undo!ToSet(list'[q]) \subseteq covered'[q] \cup late'[q] \cup Left(d)'
  <2>1. Busy(d, q) /\ Left(d)' = Left(d)
    BY <1>2, <1>8 DEF Undo!Ingest
  <2>2. CASE UNCHANGED <<list[q], covered[q], late[q]>>
    BY <1>1, <2>1, <2>2
  <2>3. CASE r = q /\ m # "undo" /\ m \notin Undo!ToSet(list[q])
    <3>1. m \in SagaSteps
      BY <2>3 DEF UndoTyped, WorldTyped
    <3>2. Undo!Running(q)
      BY <2>1 DEF Busy, Undo!Running
    <3>3. /\ list'[q] = Append(list[q], m) /\ covered'[q] = covered[q] \ {m}
          /\ late'[q] = late[q] \cup {m}
      BY <1>8, <2>3, <3>2 DEF Undo!Ingest, UndoTyped, MemoryTyped, HistoryTyped
    <3>4. Undo!ToSet(list'[q]) = Undo!ToSet(list[q]) \cup {m}
      BY <3>1, <3>3, LongerList DEF UndoTyped, MemoryTyped
    <3>5. QED
      BY <1>1, <2>1, <3>3, <3>4
  <2>4. QED
    BY <1>8, <2>2, <2>3 DEF Undo!Ingest, UndoTyped, MemoryTyped, HistoryTyped
<1>9. ASSUME NEW c \in Calls, Undo!Begin(c)
      PROVE  Undo!ToSet(list'[q]) \subseteq covered'[q] \cup late'[q] \cup Left(d)'
  <2>1. CASE c # d
    <3>1. UNCHANGED <<at[d], home, todo[d], list, covered, late>>
      BY <1>9, <2>1 DEF Undo!Begin, UndoTyped, CallsTyped
    <3>2. QED
      BY <1>1, <1>2, <3>1
  <2>2. CASE c = d
    <3>1. at'[d] = "publish" /\ todo'[d] = Undo!Reverse(list[home[d]]) /\ UNCHANGED <<list, home>>
      BY <1>9, <2>2 DEF Undo!Begin, Undo!ToReverse, UndoTyped, CallsTyped
    <3>2. home[d] = q
      BY <3>1 DEF Busy
    <3>3. Left(d)' = Undo!ToSet(list[q])
      BY <3>1, <3>2, ReversedList DEF Left, UndoTyped, MemoryTyped
    <3>4. QED
      BY <3>1, <3>3
  <2>3. QED
    BY <2>1, <2>2
<1>10. ASSUME NEW c \in Calls, Undo!Publish(c)
       PROVE  Undo!ToSet(list'[q]) \subseteq covered'[q] \cup late'[q] \cup Left(d)'
  <2>1. covered[q] \subseteq covered'[q] /\ UNCHANGED <<list, late>>
    BY <1>10 DEF Undo!Publish, UndoTyped, HistoryTyped
  <2>2. CASE c # d
    <3>1. UNCHANGED <<at[d], home, todo[d]>>
      BY <1>10, <2>2 DEF Undo!Publish, UndoTyped, CallsTyped
    <3>2. QED
      BY <1>1, <1>2, <2>1, <3>1
  <2>3. CASE c = d
    <3>1. /\ at[d] = "publish" /\ at'[d] = "record" /\ todo[d] # <<>> /\ UNCHANGED <<todo, home>>
          /\ covered' = [covered EXCEPT ![home[d]] = @ \cup {Head(todo[d])}]
      BY <1>10, <2>3 DEF Undo!Publish, UndoTyped, CallsTyped
    <3>2. Busy(d, q) /\ home[d] = q
      BY <3>1 DEF Busy
    <3>3. Head(todo[d]) \in covered'[q]
      BY <3>1, <3>2 DEF UndoTyped, HistoryTyped
    <3>4. Left(d) = Undo!ToSet(todo[d]) /\ Left(d)' = Undo!ToSet(Tail(todo[d]))
      BY <3>1 DEF Left
    <3>5. Undo!ToSet(todo[d]) = {Head(todo[d])} \cup Undo!ToSet(Tail(todo[d]))
      BY <3>1, HeadAndTail DEF UndoTyped, CallsTyped
    <3>6. QED
      BY <1>1, <2>1, <3>2, <3>3, <3>4, <3>5
  <2>4. QED
    BY <2>2, <2>3
<1>11. ASSUME NEW c \in Calls, Undo!Record(c)
       PROVE  Undo!ToSet(list'[q]) \subseteq covered'[q] \cup late'[q] \cup Left(d)'
  <2>1. Busy(d, q) /\ Left(d)' = Left(d)
    BY <1>11, RecordIsSound
  <2>2. QED
    BY <1>1, <1>11, <2>1 DEF Undo!Record
<1>12. ASSUME NEW c \in Calls, Undo!End(c)
       PROVE  Undo!ToSet(list'[q]) \subseteq covered'[q] \cup late'[q] \cup Left(d)'
  <2>1. CASE home[c] = q
    <3>1. list'[q] = <<>>
      BY <1>12, <2>1 DEF Undo!End, Undo!Cleared, UndoTyped, MemoryTyped
    <3>2. QED
      BY <3>1, EmptyList
  <2>2. CASE home[c] # q
    <3>1. d # c /\ UNCHANGED <<home, todo, list[q], covered, late>>
      BY <1>12, <2>2 DEF Undo!End, UndoTyped, MemoryTyped, Busy
    <3>2. UNCHANGED at[d]
      BY <1>12, <3>1 DEF Undo!End, UndoTyped, CallsTyped
    <3>3. QED
      BY <1>1, <1>2, <3>1, <3>2
  <2>3. QED
    BY <2>1, <2>2
<1>13. CASE UNCHANGED Undo!vars
  BY <1>3, <1>13 DEF Undo!vars
<1> QED
  BY <1>3, <1>4, <1>5, <1>6, <1>7, <1>8, <1>9, <1>10, <1>11, <1>12, <1>13
  DEF Undo!Next, Undo!Goes

LEMMA UndoStep ==
  ASSUME Undo!EtoCompensationAssumption, UndoInv, [Undo!Next]_(Undo!vars) PROVE UndoInv'
  BY UndoTypedStep, AloneStep, KeptStep DEF UndoInv

\* For any steps, replicas and calls: the lists of completed steps, the table, the log and
\* the histories have their types; no list holds a step twice.
THEOREM CompensationTypeCorrect ==
  ASSUME Undo!EtoCompensationAssumption PROVE Undo!Safety => []Undo!TypeOK
<1>1. UndoInv => Undo!TypeOK
  BY UndoIsTyped DEF UndoInv
<1>2. UndoInv /\ [Undo!Next]_(Undo!vars) => UndoInv'
  BY UndoStep
<1> QED
  BY <1>1, <1>2, UndoInit, PTL DEF Undo!Safety

\* A replica reverses a step as often as it learned of it; only calls of compensate that
\* overlap there reverse it more often.
THEOREM ReversalsAreEarned ==
  ASSUME Undo!EtoCompensationAssumption PROVE Undo!Safety => []ReversedAsLearned
<1>1. UndoInv => ReversedAsLearned
  <2> SUFFICES ASSUME UndoInv, NEW r \in Replicas \ overlapped, NEW s \in SagaSteps
               PROVE  published[r][s] <= learned[r][s]
    BY DEF ReversedAsLearned
  <2>1. published[r][s] + Owed(r, s) <= learned[r][s]
    BY DEF UndoInv, Alone, Sound
  <2>2. published[r][s] \in Nat /\ learned[r][s] \in Nat /\ Owed(r, s) \in {0, 1}
    BY DEF UndoInv, UndoTyped, HistoryTyped, Owed
  <2>3. QED
    BY <2>1, <2>2
<1>2. UndoInv /\ [Undo!Next]_(Undo!vars) => UndoInv'
  BY UndoStep
<1> QED
  BY <1>1, <1>2, UndoInit, PTL DEF Undo!Safety

\* A restart aside, the list of completed steps loses only what a compensation took up, or
\* what came while one ran.
THEOREM StepsAreKept ==
  ASSUME Undo!EtoCompensationAssumption PROVE Undo!Safety => NothingForgotten
<1>1. ASSUME UndoInv, [Undo!Next]_(Undo!vars), NEW r \in Replicas,
             used'["restarts"] = used["restarts"]
      PROVE  Undo!ToSet(list[r]) \ Undo!ToSet(list'[r]) \subseteq covered[r] \cup late[r]
  <2> USE DEF UndoInv, Undo!memory, Undo!store, Undo!callVars, Undo!history
  <2>1. list[r] \in Seq(SagaSteps)
    BY <1>1 DEF UndoTyped, MemoryTyped
  <2>2. CASE UNCHANGED list
    BY <2>2
  <2>3. ASSUME NEW q \in Replicas, Undo!Restart(q) PROVE FALSE
    BY <1>1, <2>3 DEF Undo!Restart, Undo!Spend, UndoTyped, WorldTyped, Undo!Budgets
  <2>4. ASSUME NEW q \in Replicas, NEW m \in inbox[q], Undo!Ingest(q, m)
        PROVE  Undo!ToSet(list[r]) \subseteq Undo!ToSet(list'[r])
    <3>1. m \in SagaSteps \cup {"undo"} /\ list \in [Replicas -> Seq(SagaSteps)]
      BY <1>1, <2>4 DEF UndoTyped, WorldTyped, MemoryTyped
    <3>2. UNCHANGED list \/ (m # "undo" /\ list' = [list EXCEPT ![q] = Append(@, m)])
      BY <2>4 DEF Undo!Ingest
    <3>3. list'[r] = list[r] \/ (m \in SagaSteps /\ list'[r] = Append(list[r], m))
      BY <3>1, <3>2
    <3>4. ASSUME m \in SagaSteps PROVE Undo!ToSet(Append(list[r], m)) = Undo!ToSet(list[r]) \cup {m}
      BY <2>1, <3>4, LongerList
    <3>5. QED
      BY <3>3, <3>4
  <2>5. ASSUME NEW c \in Calls, Undo!End(c)
        PROVE  Undo!ToSet(list[r]) \ Undo!ToSet(list'[r]) \subseteq covered[r] \cup late[r]
    <3>1. CASE home[c] = r
      <4>1. Busy(c, r) /\ Left(c) = {}
        BY <2>5, <3>1, EmptyList DEF Undo!End, Busy, Left
      <4>2. QED
        BY <1>1, <4>1 DEF Kept
    <3>2. CASE home[c] # r
      BY <1>1, <2>5, <3>2 DEF Undo!End, UndoTyped, MemoryTyped
    <3>3. QED
      BY <3>1, <3>2
  <2>6. QED
    BY <1>1, <2>2, <2>3, <2>4, <2>5 DEF Undo!Next, Undo!Goes, Undo!vars, Undo!Happen, Undo!Copy,
       Undo!Upsert, Undo!Begin, Undo!Publish, Undo!Record
<1>2. UndoInv /\ [Undo!Next]_(Undo!vars) =>
        [\A r \in Replicas : used'["restarts"] = used["restarts"] =>
           ToSet(list[r]) \ ToSet(list'[r]) \subseteq covered[r] \cup late[r]]_<<list, used>>
  BY <1>1 DEF ToSet, Undo!ToSet
<1>3. UndoInv /\ [Undo!Next]_(Undo!vars) => UndoInv'
  BY UndoStep
<1> QED
  BY <1>2, <1>3, UndoInit, PTL DEF Undo!Safety, NothingForgotten

-----------------------------------------------------------------------------
(* EngineeringChange *)

Reading(c, v) == at[c] = "walk" /\ target[c] = <<v>>

\* The rows a release has read so far.
Seen(c) == lines[c] \cup {p[1] : p \in todo[c]}

\* The version of the order is released, with what it had when it was first approved.
Delivered(e) ==
  /\ affects[e] \in released
  /\ since[e] \subseteq last[affects[e]] \/ affects[e] \in crossed

ChangeTyped ==
  /\ made \subseteq Versions /\ released \subseteq Versions
  /\ eco \in [Ecos -> Statuses] /\ affects \in [Ecos -> Versions \cup {NoVersion}]
  /\ at \in [Calls -> {"idle", "approve", "release", "walk", "finish", "failed", "add", "draw"}]
  /\ doing \in [Calls -> Ecos \cup {NoEco}]
  /\ DOMAIN target = Calls
  /\ \A c \in Calls : at[c] = "walk" => \E v \in Versions : target[c] = <<v>>
  /\ DOMAIN todo = Calls /\ \A c \in Calls : \A p \in todo[c] : p[1] \in rows
  /\ lines \in [Calls -> SUBSET rows] /\ last \in [Versions -> SUBSET rows]
  /\ since \in [Ecos -> SUBSET rows]
  /\ announced \in [Ecos -> Nat] /\ unfinished \in [Ecos -> Nat]

\* What a call that approves an order has done by its position.
Roles ==
  \A c \in Calls :
    /\ at[c] \in {"idle", "add", "draw"} => doing[c] = NoEco
    /\ at[c] \in {"approve", "release", "finish", "failed"} => doing[c] \in Ecos
    /\ \A e \in Ecos : doing[c] = e =>
         /\ eco[e] # "none"
         /\ at[c] # "approve" => announced[e] > 0
         /\ at[c] \in {"walk", "finish"} => target[c] = <<affects[e]>>

\* The release of a version that nobody else releases has read whatever the newest
\* snapshot has of it.
UpToDate ==
  \A v \in Versions \ crossed, c \in Calls : Reading(c, v) =>
    /\ last[v] \cap RowsOf(v) \subseteq Seen(c)
    /\ \A d \in Calls : Reading(d, v) => c = d

SinceKept ==
  \A e \in Ecos :
    /\ since[e] \subseteq RowsOf(affects[e])
    /\ eco[e] = "none" => since[e] = {}
    /\ eco[e] = "IMPLEMENTED" => Delivered(e)
    /\ \A c \in Calls : doing[c] = e => /\ at[c] = "walk" => since[e] \subseteq Seen(c)
                                        /\ at[c] = "finish" => Delivered(e)

\* Of an order approved one call at a time, every announcement but one ended without a
\* release; that one is going on, or has implemented the order.
Approvals ==
  \A e \in Ecos \ together :
    /\ \A c, d \in Calls : doing[c] = e /\ doing[d] = e => c = d
    /\ eco[e] = "IMPLEMENTED" => \A c \in Calls : doing[c] # e
    /\ announced[e] <= 1 + unfinished[e]
    /\ eco[e] # "IMPLEMENTED" /\ (\A c \in Calls : doing[c] = e => at[c] = "approve") =>
         announced[e] <= unfinished[e]

ChangeInv == ChangeTyped /\ Roles /\ UpToDate /\ SinceKept /\ Approvals

LEMMA ChangeInit == ASSUME EngineeringChangeAssumption PROVE Init => ChangeInv
<1> SUFFICES ASSUME Init PROVE ChangeInv
  OBVIOUS
<1>1. bound.given \subseteq Versions /\ NoEco \notin Ecos
  BY DEF Init, EngineeringChangeAssumption
<1>2. ChangeTyped
  BY <1>1 DEF Init, ChangeTyped, Statuses
<1>3. Roles
  BY <1>1 DEF Init, Roles
<1>4. UpToDate
  BY DEF Init, UpToDate, Reading
<1>5. SinceKept
  BY <1>1 DEF Init, SinceKept
<1>6. Approvals
  BY <1>1 DEF Init, Approvals
<1> QED
  BY <1>2, <1>3, <1>4, <1>5, <1>6 DEF ChangeInv

\* Rows and releases are never taken back.
LEMMA ChangeGrows ==
  ASSUME [Next]_vars
  PROVE  /\ rows \subseteq rows' /\ released \subseteq released'
         /\ crossed \subseteq crossed' /\ together \subseteq together'
  BY DEF Next, vars, tree, orders, callVars, history,
     CreateVersion, DrawBegin, DrawRow, Written, AddBegin,
     Add, Ends, LinkSub, Reads, ReleaseDirectly, Walk,
     Publish, CreateEco, ApproveBegin, Approve, ReleaseAgain,
     ReleaseFails, Finish, Dies, DrawEnd, Step

\* What is left of a call that ends, and that the others go on as they were.
LEMMA CallEnds ==
  ASSUME ChangeTyped, NEW c \in Calls, Ends(c)
  PROVE  /\ at' \in [Calls -> {"idle", "approve", "release", "walk", "finish", "failed", "add", "draw"}]
         /\ doing' \in [Calls -> Ecos \cup {NoEco}]
         /\ DOMAIN target' = Calls /\ DOMAIN todo' = Calls /\ lines' \in [Calls -> SUBSET rows]
         /\ at'[c] = "idle" /\ doing'[c] = NoEco /\ todo'[c] = {}
         /\ \A d \in Calls : d # c =>
              UNCHANGED <<at[d], doing[d], target[d], todo[d], lines[d]>>
  BY DEF Ends, ChangeTyped

LEMMA ChangeTypedStep ==
  ASSUME EngineeringChangeAssumption, ChangeTyped, Roles, [Next]_vars
  PROVE  ChangeTyped'
<1> USE DEF tree, orders, callVars, history, ChangeTyped
<1>1. ASSUME NEW v \in Versions, CreateVersion(v) PROVE ChangeTyped'
  BY <1>1 DEF CreateVersion
<1>2. ASSUME NEW c \in Calls, NEW v \in Versions, DrawBegin(c, v) PROVE ChangeTyped'
  BY <1>2 DEF DrawBegin
<1>3. ASSUME NEW c \in Calls, NEW i \in Items, DrawRow(c, i) PROVE ChangeTyped'
  BY <1>3 DEF DrawRow, Written
<1>4. ASSUME NEW c \in Calls, NEW v \in Versions, NEW i \in Items, AddBegin(c, v, i)
      PROVE  ChangeTyped'
  BY <1>4 DEF AddBegin
<1>5. ASSUME NEW c \in Calls, Add(c) PROVE ChangeTyped'
  BY <1>5 DEF Add, Ends, Written
<1>6. ASSUME NEW x \in rows, NEW w \in Versions, LinkSub(x, w) PROVE ChangeTyped'
  BY <1>6 DEF LinkSub
<1>7. ASSUME NEW c \in Calls, NEW v \in Versions, ReleaseDirectly(c, v) PROVE ChangeTyped'
  BY <1>7 DEF ReleaseDirectly, Reads, Read, RowsOf
<1>8. ASSUME NEW c \in Calls, Walk(c) PROVE ChangeTyped'
  BY <1>8 DEF Walk, LinesWith, Below, Read, RowsOf
<1>9. ASSUME NEW c \in Calls, Publish(c) PROVE ChangeTyped'
  <2>1. target[c][1] \in Versions
    BY <1>9 DEF Publish
  <2>2. /\ released' = released \cup {target[c][1]} /\ lines[c] \in SUBSET rows
        /\ last' = [last EXCEPT ![target[c][1]] = lines[c]]
        /\ UNCHANGED <<made, rows, eco, affects, announced, since, unfinished>>
    BY <1>9 DEF Publish
  <2>3. released' \subseteq Versions /\ last' \in [Versions -> SUBSET rows']
    BY <2>1, <2>2
  <2>4. CASE doing[c] = NoEco
    <3>1. Ends(c)
      BY <1>9, <2>4 DEF Publish
    <3>2. QED
      BY <2>2, <2>3, <3>1, CallEnds
  <2>5. CASE doing[c] # NoEco
    <3>1. /\ at' = [at EXCEPT ![c] = "finish"] /\ lines' = [lines EXCEPT ![c] = {}]
          /\ at[c] = "walk" /\ UNCHANGED <<doing, target, todo>>
      BY <1>9, <2>5 DEF Publish
    <3>2. \A d \in Calls : at'[d] = "walk" => at[d] = "walk"
      BY <3>1
    <3>3. lines' \in [Calls -> SUBSET rows']
      BY <2>2, <3>1
    <3>4. QED
      BY <2>2, <2>3, <3>1, <3>2, <3>3
  <2>6. QED
    BY <2>4, <2>5
<1>10. ASSUME NEW e \in Ecos, NEW v \in Versions \cup {NoVersion}, CreateEco(e, v)
       PROVE  ChangeTyped'
  BY <1>10 DEF CreateEco, Statuses
<1>11. ASSUME NEW c \in Calls, NEW e \in Ecos, ApproveBegin(c, e) PROVE ChangeTyped'
  BY <1>11 DEF ApproveBegin
<1>12. ASSUME NEW c \in Calls, NEW rerelease \in BOOLEAN, Approve(c, rerelease) PROVE ChangeTyped'
  <2>1. doing[c] \in Ecos
    BY <1>12 DEF Approve, Roles
  <2>2. /\ eco' = [eco EXCEPT ![doing[c]] = "APPROVED"]
        /\ announced' = [announced EXCEPT ![doing[c]] = @ + 1]
        /\ UNCHANGED <<made, released, rows, affects, last>>
    BY <1>12 DEF Approve
  <2>3. since' \in [Ecos -> SUBSET rows']
    BY <1>12, <2>1, <2>2 DEF Approve, RowsOf
  <2>4. unfinished' \in [Ecos -> Nat]
    BY <1>12, <2>1 DEF Approve
  <2>5. eco' \in [Ecos -> Statuses] /\ announced' \in [Ecos -> Nat]
    BY <2>1, <2>2 DEF Statuses
  <2>6. CASE rerelease
    <3>1. /\ \E place \in {"failed", "release"} : at' = [at EXCEPT ![c] = place]
          /\ UNCHANGED <<doing, target, todo, lines>>
      BY <1>12, <2>6 DEF Approve
    <3>2. QED
      BY <2>2, <2>3, <2>4, <2>5, <3>1
  <2>7. CASE ~rerelease
    <3>1. Ends(c)
      BY <1>12, <2>7 DEF Approve
    <3>2. QED
      BY <2>2, <2>3, <2>4, <2>5, <3>1, CallEnds
  <2>8. QED
    BY <2>6, <2>7
<1>13. ASSUME NEW c \in Calls, ReleaseAgain(c) PROVE ChangeTyped'
  BY <1>13 DEF ReleaseAgain, Reads, Read, RowsOf
<1>14. ASSUME NEW c \in Calls, ReleaseFails(c) PROVE ChangeTyped'
  BY <1>14 DEF ReleaseFails, Ends
<1>15. ASSUME NEW c \in Calls, Finish(c) PROVE ChangeTyped'
  BY <1>15 DEF Finish, Ends, Outcome, Statuses, Roles
<1>16. ASSUME NEW c \in Calls, Dies(c) PROVE ChangeTyped'
  BY <1>16 DEF Dies, Ends
<1>17. ASSUME NEW c \in Calls, DrawEnd(c) PROVE ChangeTyped'
  BY <1>17 DEF DrawEnd, Ends
<1>18. CASE UNCHANGED vars
  BY <1>18 DEF vars
<1> QED
  BY <1>1, <1>2, <1>3, <1>4, <1>5, <1>6, <1>7, <1>8, <1>9, <1>10, <1>11, <1>12, <1>13, <1>14,
     <1>15, <1>16, <1>17, <1>18 DEF Next, Step

LEMMA RolesStep ==
  ASSUME EngineeringChangeAssumption, ChangeTyped, Roles, [Next]_vars
  PROVE  Roles'
<1> USE DEF tree, orders, callVars, history, ChangeTyped, Roles
<1> NoEco \notin Ecos
  BY DEF EngineeringChangeAssumption
<1>1. ASSUME NEW v \in Versions, CreateVersion(v) PROVE Roles'
  BY <1>1 DEF CreateVersion
<1>2. ASSUME NEW c \in Calls, NEW v \in Versions, DrawBegin(c, v) PROVE Roles'
  BY <1>2 DEF DrawBegin
<1>3. ASSUME NEW c \in Calls, NEW i \in Items, DrawRow(c, i) PROVE Roles'
  BY <1>3 DEF DrawRow, Written
<1>4. ASSUME NEW c \in Calls, NEW v \in Versions, NEW i \in Items, AddBegin(c, v, i)
      PROVE  Roles'
  BY <1>4 DEF AddBegin
<1>5. ASSUME NEW c \in Calls, Add(c) PROVE Roles'
  BY <1>5 DEF Add, Ends, Written
<1>6. ASSUME NEW x \in rows, NEW w \in Versions, LinkSub(x, w) PROVE Roles'
  BY <1>6 DEF LinkSub
<1>7. ASSUME NEW c \in Calls, NEW v \in Versions, ReleaseDirectly(c, v) PROVE Roles'
  BY <1>7 DEF ReleaseDirectly, Reads
<1>8. ASSUME NEW c \in Calls, Walk(c) PROVE Roles'
  BY <1>8 DEF Walk
<1>9. ASSUME NEW c \in Calls, Publish(c) PROVE Roles'
  <2>1. CASE doing[c] = NoEco
    <3>1. Ends(c) /\ UNCHANGED <<eco, affects, announced>>
      BY <1>9, <2>1 DEF Publish
    <3>2. QED
      BY <3>1, CallEnds
  <2>2. CASE doing[c] # NoEco
    <3>1. /\ at' = [at EXCEPT ![c] = "finish"] /\ at[c] = "walk"
          /\ UNCHANGED <<doing, target, eco, affects, announced>>
      BY <1>9, <2>2 DEF Publish
    <3>2. QED
      BY <2>2, <3>1
  <2>3. QED
    BY <2>1, <2>2
<1>10. ASSUME NEW e \in Ecos, NEW v \in Versions \cup {NoVersion}, CreateEco(e, v)
       PROVE  Roles'
  BY <1>10 DEF CreateEco
<1>11. ASSUME NEW c \in Calls, NEW e \in Ecos, ApproveBegin(c, e) PROVE Roles'
  BY <1>11 DEF ApproveBegin, Approvable
<1>12. ASSUME NEW c \in Calls, NEW rerelease \in BOOLEAN, Approve(c, rerelease) PROVE Roles'
  BY <1>12 DEF Approve, Ends
<1>13. ASSUME NEW c \in Calls, ReleaseAgain(c) PROVE Roles'
  BY <1>13 DEF ReleaseAgain, Reads
<1>14. ASSUME NEW c \in Calls, ReleaseFails(c) PROVE Roles'
  <2>1. CASE doing[c] = NoEco
    <3>1. Ends(c) /\ UNCHANGED <<eco, affects, announced>>
      BY <1>14, <2>1 DEF ReleaseFails
    <3>2. QED
      BY <3>1, CallEnds
  <2>2. CASE doing[c] # NoEco
    <3>1. /\ at' = [at EXCEPT ![c] = "failed"] /\ at[c] \in {"release", "walk"}
          /\ UNCHANGED <<doing, target, eco, affects, announced>>
      BY <1>14, <2>2 DEF ReleaseFails
    <3>2. QED
      BY <2>2, <3>1
  <2>3. QED
    BY <2>1, <2>2
<1>15. ASSUME NEW c \in Calls, Finish(c) PROVE Roles'
  BY <1>15 DEF Finish, Ends, Outcome
<1>16. ASSUME NEW c \in Calls, Dies(c) PROVE Roles'
  BY <1>16 DEF Dies, Ends
<1>17. ASSUME NEW c \in Calls, DrawEnd(c) PROVE Roles'
  BY <1>17 DEF DrawEnd, Ends
<1>18. CASE UNCHANGED vars
  BY <1>18 DEF vars
<1> QED
  BY <1>1, <1>2, <1>3, <1>4, <1>5, <1>6, <1>7, <1>8, <1>9, <1>10, <1>11, <1>12, <1>13, <1>14,
     <1>15, <1>16, <1>17, <1>18 DEF Next, Step

\* A step that publishes nothing and starts no reading leaves the readings up to date.
LEMMA ReadingsGoOn ==
  ASSUME ChangeTyped, UpToDate, rows \subseteq rows', crossed \subseteq crossed', UNCHANGED last,
         \A d \in Calls, v \in Versions : Reading(d, v)' => Reading(d, v) /\ Seen(d) \subseteq Seen(d)'
  PROVE  UpToDate'
<1> SUFFICES ASSUME NEW v \in Versions, v \notin crossed', NEW c \in Calls, Reading(c, v)'
             PROVE  /\ last'[v] \cap RowsOf(v)' \subseteq Seen(c)'
                    /\ \A d \in Calls : Reading(d, v)' => c = d
  BY DEF UpToDate
<1>1. Reading(c, v) /\ Seen(c) \subseteq Seen(c)' /\ v \notin crossed
  OBVIOUS
<1>2. last[v] \cap RowsOf(v)' = last[v] \cap RowsOf(v)
  BY DEF ChangeTyped, RowsOf
<1>3. last[v] \cap RowsOf(v) \subseteq Seen(c) /\ \A d \in Calls : Reading(d, v) => c = d
  BY <1>1 DEF UpToDate
<1> QED
  BY <1>1, <1>2, <1>3

\* A release that starts reads every row its version has.
LEMMA FirstReading ==
  ASSUME ChangeTyped, NEW c \in Calls, NEW v \in Versions, Reads(c, v),
         UNCHANGED <<rows, sub, last, lines>>
  PROVE  /\ RowsOf(v) \subseteq Seen(c)'
         /\ \A d \in Calls : d # c => UNCHANGED <<at[d], target[d], Seen(d)>>
         /\ at'[c] = "walk" /\ target'[c] = <<v>>
<1>1. /\ at' = [at EXCEPT ![c] = "walk"] /\ target' = [target EXCEPT ![c] = <<v>>]
      /\ todo' = [todo EXCEPT ![c] = Read(v, 0)]
  BY DEF Reads
<1>2. \A x \in RowsOf(v) : <<x, 0, sub[x]>> \in todo'[c]
  BY <1>1 DEF ChangeTyped, Read
<1>3. RowsOf(v) \subseteq Seen(c)'
  <2> SUFFICES ASSUME NEW x \in RowsOf(v) PROVE x \in {p[1] : p \in todo'[c]}
    BY DEF Seen
  <2>1. <<x, 0, sub[x]>> \in todo'[c] /\ <<x, 0, sub[x]>>[1] = x
    BY <1>2
  <2>2. QED
    BY <2>1
<1>4. \A d \in Calls : d # c => UNCHANGED <<at[d], target[d], todo[d], lines[d]>>
  BY <1>1 DEF ChangeTyped
<1> QED
  BY <1>1, <1>3, <1>4 DEF ChangeTyped, Seen

LEMMA ReadingIsSound ==
  ASSUME ChangeTyped, UpToDate, NEW c \in Calls, NEW v \in Versions, Reads(c, v),
         UNCHANGED <<rows, sub, last, lines>>
  PROVE  UpToDate'
<1> SUFFICES ASSUME NEW w \in Versions, w \notin crossed', NEW d \in Calls, Reading(d, w)'
             PROVE  /\ last'[w] \cap RowsOf(w)' \subseteq Seen(d)'
                    /\ \A f \in Calls : Reading(f, w)' => d = f
  BY DEF UpToDate
<1>1. w \notin crossed /\ (w = v => ~ \E f \in Calls : Reading(f, v))
  BY DEF Reads, Reading
<1>2. RowsOf(w)' = RowsOf(w) /\ last'[w] = last[w]
  BY DEF RowsOf
<1>3. /\ RowsOf(v) \subseteq Seen(c)' /\ at'[c] = "walk" /\ target'[c] = <<v>>
      /\ \A f \in Calls : f # c => UNCHANGED <<at[f], target[f], Seen(f)>>
  BY FirstReading
<1>4. /\ w # v => ~ Reading(c, w)'
      /\ \A f \in Calls : f # c => (Reading(f, w)' <=> Reading(f, w))
  BY <1>3 DEF Reading
<1>5. CASE w = v
  BY <1>1, <1>2, <1>3, <1>4, <1>5
<1>6. CASE w # v
  <2>1. d # c /\ Reading(d, w) /\ Seen(d)' = Seen(d)
    BY <1>3, <1>4, <1>6
  <2>2. last[w] \cap RowsOf(w) \subseteq Seen(d) /\ \A f \in Calls : Reading(f, w) => d = f
    BY <1>1, <2>1 DEF UpToDate
  <2>3. QED
    BY <1>2, <1>4, <1>6, <2>1, <2>2
<1> QED
  BY <1>5, <1>6

\* Looking into a row makes a line of it, so that nothing read is lost.
LEMMA WalkReads ==
  ASSUME ChangeTyped, NEW c \in Calls, Walk(c)
  PROVE  \A d \in Calls : Seen(d) \subseteq Seen(d)'
<1>1. PICK p \in todo[c] : /\ lines' = [lines EXCEPT ![c] = lines[c] \cup {p[1]}]
                           /\ todo' = [todo EXCEPT ![c] = (@ \ {p}) \cup Below(p)]
  BY DEF Walk, LinesWith
<1>2. ASSUME NEW d \in Calls, d # c PROVE Seen(d)' = Seen(d)
  BY <1>1, <1>2 DEF ChangeTyped, Seen
<1>3. Seen(c) \subseteq Seen(c)'
  <2>1. lines'[c] = lines[c] \cup {p[1]} /\ todo[c] \ {p} \subseteq todo'[c]
    BY <1>1 DEF ChangeTyped
  <2>2. QED
    BY <2>1 DEF Seen
<1> QED
  BY <1>2, <1>3

\* What a release that has nothing left to read publishes is what it has seen.
LEMMA PublishedIsSeen ==
  ASSUME ChangeTyped, NEW c \in Calls, Publish(c)
  PROVE  \E v \in Versions :
           /\ Reading(c, v) /\ released' = released \cup {v}
           /\ last' = [last EXCEPT ![v] = Seen(c)]
           /\ \A d \in Calls : d # c => UNCHANGED <<at[d], doing[d], target[d], Seen(d)>>
           /\ \/ doing[c] = NoEco /\ at'[c] = "idle" /\ doing'[c] = NoEco
              \/ doing[c] # NoEco /\ at'[c] = "finish" /\ doing'[c] = doing[c]
<1>1. PICK v \in Versions : target[c] = <<v>>
  BY DEF Publish, ChangeTyped
<1>2. Reading(c, v) /\ released' = released \cup {v} /\ last' = [last EXCEPT ![v] = lines[c]]
  BY <1>1 DEF Publish, Reading
<1>3. Seen(c) = lines[c]
  BY DEF Publish, Seen
<1>4. CASE doing[c] = NoEco
  <2>1. Ends(c)
    BY <1>4 DEF Publish
  <2>2. \A d \in Calls : d # c => UNCHANGED <<at[d], doing[d], target[d], Seen(d)>>
    BY <2>1, CallEnds DEF Seen
  <2>3. QED
    BY <1>2, <1>3, <1>4, <2>1, <2>2, CallEnds
<1>5. CASE doing[c] # NoEco
  <2>1. /\ at' = [at EXCEPT ![c] = "finish"] /\ lines' = [lines EXCEPT ![c] = {}]
        /\ UNCHANGED <<doing, target, todo>>
    BY <1>5 DEF Publish
  <2>2. at'[c] = "finish" /\ \A d \in Calls : d # c => UNCHANGED <<at[d], doing[d], target[d], Seen(d)>>
    BY <2>1 DEF ChangeTyped, Seen
  <2>3. QED
    BY <1>2, <1>3, <1>5, <2>1, <2>2
<1> QED
  BY <1>4, <1>5

LEMMA UpToDateStep ==
  ASSUME EngineeringChangeAssumption, ChangeTyped, Roles, UpToDate, [Next]_vars
  PROVE  UpToDate'
<1> USE DEF tree, orders, callVars, history
<1>1. rows \subseteq rows' /\ crossed \subseteq crossed'
  BY ChangeGrows
<1>2. CASE UNCHANGED <<last, at, target, todo, lines>>
  BY <1>1, <1>2, ReadingsGoOn DEF Reading, Seen
<1>3. ASSUME NEW c \in Calls, UNCHANGED last, Ends(c) PROVE UpToDate'
  <2>1. \A d \in Calls, v \in Versions : Reading(d, v)' => Reading(d, v) /\ Seen(d) \subseteq Seen(d)'
    BY <1>3, CallEnds DEF Reading, Seen
  <2>2. QED
    BY <1>1, <1>3, <2>1, ReadingsGoOn
<1>4. ASSUME NEW c \in Calls, NEW p \in {"add", "draw", "approve", "release", "failed"},
             at' = [at EXCEPT ![c] = p], UNCHANGED last,
             \A d \in Calls : d # c => UNCHANGED <<target[d], todo[d], lines[d]>>
      PROVE  UpToDate'
  <2>1. \A d \in Calls, v \in Versions : Reading(d, v)' => Reading(d, v) /\ Seen(d) \subseteq Seen(d)'
    BY <1>4 DEF Reading, Seen, ChangeTyped
  <2>2. QED
    BY <1>1, <1>4, <2>1, ReadingsGoOn
<1>5. ASSUME NEW c \in Calls, NEW v \in Versions, DrawBegin(c, v) PROVE UpToDate'
  BY <1>4, <1>5 DEF DrawBegin, ChangeTyped
<1>6. ASSUME NEW c \in Calls, NEW v \in Versions, NEW i \in Items, AddBegin(c, v, i)
      PROVE  UpToDate'
  BY <1>4, <1>6 DEF AddBegin, ChangeTyped
<1>7. ASSUME NEW c \in Calls, NEW e \in Ecos, ApproveBegin(c, e) PROVE UpToDate'
  BY <1>4, <1>7 DEF ApproveBegin
<1>8. ASSUME NEW c \in Calls, NEW rerelease \in BOOLEAN, Approve(c, rerelease) PROVE UpToDate'
  <2>1. UNCHANGED last /\ (~rerelease => Ends(c))
    BY <1>8 DEF Approve
  <2>2. CASE rerelease
    <3>1. /\ \E p \in {"release", "failed"} : at' = [at EXCEPT ![c] = p]
          /\ UNCHANGED <<target, todo, lines>>
      BY <1>8, <2>2 DEF Approve
    <3>2. QED
      BY <1>4, <2>1, <3>1
  <2>3. QED
    BY <1>3, <2>1, <2>2
<1>9. ASSUME NEW c \in Calls, ReleaseFails(c) PROVE UpToDate'
  <2>1. UNCHANGED last /\ (doing[c] = NoEco => Ends(c))
    BY <1>9 DEF ReleaseFails
  <2>2. CASE doing[c] # NoEco
    <3>1. /\ at' = [at EXCEPT ![c] = "failed"] /\ UNCHANGED target
          /\ todo' = [todo EXCEPT ![c] = {}] /\ lines' = [lines EXCEPT ![c] = {}]
      BY <1>9, <2>2 DEF ReleaseFails
    <3>2. QED
      BY <1>4, <2>1, <3>1 DEF ChangeTyped
  <2>3. QED
    BY <1>3, <2>1, <2>2
<1>10. ASSUME NEW c \in Calls, NEW v \in Versions, ReleaseDirectly(c, v) PROVE UpToDate'
  BY <1>10, ReadingIsSound DEF ReleaseDirectly
<1>11. ASSUME NEW c \in Calls, ReleaseAgain(c) PROVE UpToDate'
  <2>1. affects[doing[c]] \in Versions
    BY <1>11 DEF ReleaseAgain, Reads, ChangeTyped
  <2>2. QED
    BY <1>11, <2>1, ReadingIsSound DEF ReleaseAgain
<1>12. ASSUME NEW c \in Calls, Walk(c) PROVE UpToDate'
  <2>1. UNCHANGED <<last, at, target>>
    BY <1>12 DEF Walk
  <2>2. QED
    BY <1>1, <1>12, <2>1, WalkReads, ReadingsGoOn DEF Reading
<1>13. ASSUME NEW c \in Calls, Publish(c) PROVE UpToDate'
  <2>1. PICK v \in Versions :
           /\ Reading(c, v) /\ last' = [last EXCEPT ![v] = Seen(c)]
           /\ \A d \in Calls : d # c => UNCHANGED <<at[d], doing[d], target[d], Seen(d)>>
           /\ at'[c] # "walk"
    BY <1>13, PublishedIsSeen
  <2>2. UNCHANGED <<rows, crossed>>
    BY <1>13 DEF Publish
  <2> SUFFICES ASSUME NEW w \in Versions, w \notin crossed, NEW d \in Calls, Reading(d, w)'
               PROVE  /\ last'[w] \cap RowsOf(w) \subseteq Seen(d)'
                      /\ \A f \in Calls : Reading(f, w)' => d = f
    BY <2>2 DEF UpToDate, RowsOf
  <2>3. \A f \in Calls : Reading(f, w)' => f # c /\ Reading(f, w) /\ Seen(f)' = Seen(f)
    BY <2>1 DEF Reading
  <2>4. last[w] \cap RowsOf(w) \subseteq Seen(d) /\ \A f \in Calls : Reading(f, w) => d = f
    BY <2>3 DEF UpToDate
  <2>5. w # v
    BY <2>1, <2>3, <2>4
  <2>6. last'[w] = last[w]
    BY <2>1, <2>5 DEF ChangeTyped
  <2>7. QED
    BY <2>3, <2>4, <2>6
<1>14. QED
  BY <1>2, <1>3, <1>5, <1>6, <1>7, <1>8, <1>9, <1>10, <1>11, <1>12, <1>13
  DEF Next, Step, vars, CreateVersion, DrawRow, Add,
     LinkSub, CreateEco, Finish, Dies, DrawEnd

\* A step that neither publishes nor approves leaves what is owed to the orders.
LEMMA OrdersGoOn ==
  ASSUME ChangeTyped, SinceKept, rows \subseteq rows', released \subseteq released',
         crossed \subseteq crossed', UNCHANGED <<eco, affects, since, last>>,
         \A c \in Calls, e \in Ecos : doing'[c] = e =>
           /\ at'[c] = "walk" => at[c] = "walk" /\ doing[c] = e /\ Seen(c) \subseteq Seen(c)'
           /\ at'[c] = "finish" => at[c] = "finish" /\ doing[c] = e
  PROVE  SinceKept'
<1>1. \A e \in Ecos : Delivered(e) => Delivered(e)'
  BY DEF Delivered
<1> SUFFICES ASSUME NEW e \in Ecos
             PROVE  /\ since'[e] \subseteq RowsOf(affects[e])'
                    /\ eco'[e] = "none" => since'[e] = {}
                    /\ eco'[e] = "IMPLEMENTED" => Delivered(e)'
                    /\ \A c \in Calls : doing'[c] = e =>
                         /\ at'[c] = "walk" => since'[e] \subseteq Seen(c)'
                         /\ at'[c] = "finish" => Delivered(e)'
  BY DEF SinceKept, RowsOf
<1>2. /\ since[e] \subseteq RowsOf(affects[e])
      /\ eco[e] = "none" => since[e] = {}
      /\ eco[e] = "IMPLEMENTED" => Delivered(e)
      /\ \A c \in Calls : doing[c] = e => /\ at[c] = "walk" => since[e] \subseteq Seen(c)
                                          /\ at[c] = "finish" => Delivered(e)
  BY DEF SinceKept
<1>3. since'[e] \subseteq RowsOf(affects[e])'
  BY <1>2 DEF RowsOf
<1> QED
  BY <1>1, <1>2, <1>3

\* A snapshot delivers the order that waits for it, and takes no component back that an
\* earlier one of the same version had, unless two releases of it crossed.
LEMMA PublishKeepsOrders ==
  ASSUME ChangeTyped, Roles, UpToDate, SinceKept, EngineeringChangeAssumption,
         NEW c \in Calls, Publish(c)
  PROVE  SinceKept'
<1>1. PICK v \in Versions :
           /\ Reading(c, v) /\ released' = released \cup {v}
           /\ last' = [last EXCEPT ![v] = Seen(c)]
           /\ \A d \in Calls : d # c => UNCHANGED <<at[d], doing[d], target[d], Seen(d)>>
           /\ \/ doing[c] = NoEco /\ at'[c] = "idle" /\ doing'[c] = NoEco
              \/ doing[c] # NoEco /\ at'[c] = "finish" /\ doing'[c] = doing[c]
  BY PublishedIsSeen
<1>2. UNCHANGED <<rows, crossed, eco, affects, since>> /\ NoEco \notin Ecos
  BY DEF Publish, orders, history, EngineeringChangeAssumption
<1>3. last'[v] = Seen(c) /\ \A w \in Versions : w # v => last'[w] = last[w]
  BY <1>1 DEF ChangeTyped
<1>4. ASSUME NEW e \in Ecos, Delivered(e) PROVE Delivered(e)'
  <2>1. affects[e] \in Versions /\ affects[e] \in released
    BY <1>4 DEF Delivered, ChangeTyped
  <2>2. CASE affects[e] # v
    BY <1>1, <1>2, <1>3, <1>4, <2>1, <2>2 DEF Delivered
  <2>3. CASE affects[e] = v /\ v \notin crossed
    <3>1. since[e] \subseteq last[v] /\ since[e] \subseteq RowsOf(v)
      BY <1>4, <2>3 DEF Delivered, SinceKept
    <3>2. last[v] \cap RowsOf(v) \subseteq Seen(c)
      BY <1>1, <2>3 DEF UpToDate
    <3>3. QED
      BY <1>1, <1>2, <1>3, <2>1, <2>3, <3>1, <3>2 DEF Delivered
  <2>4. QED
    BY <1>1, <1>2, <2>1, <2>2, <2>3 DEF Delivered
<1>5. ASSUME NEW e \in Ecos, doing[c] = e PROVE Delivered(e)'
  <2>1. affects[e] = v
    BY <1>1, <1>5 DEF Roles, Reading
  <2>2. since[e] \subseteq Seen(c)
    BY <1>1, <1>5 DEF SinceKept, Reading
  <2>3. QED
    BY <1>1, <1>2, <1>3, <2>1, <2>2 DEF Delivered
<1> SUFFICES ASSUME NEW e \in Ecos
             PROVE  /\ since[e] \subseteq RowsOf(affects[e])
                    /\ eco[e] = "none" => since[e] = {}
                    /\ eco[e] = "IMPLEMENTED" => Delivered(e)'
                    /\ \A d \in Calls : doing'[d] = e =>
                         /\ at'[d] = "walk" => since[e] \subseteq Seen(d)'
                         /\ at'[d] = "finish" => Delivered(e)'
  BY <1>2 DEF SinceKept, RowsOf
<1>6. /\ since[e] \subseteq RowsOf(affects[e])
      /\ eco[e] = "none" => since[e] = {}
      /\ eco[e] = "IMPLEMENTED" => Delivered(e)
      /\ \A d \in Calls : doing[d] = e => /\ at[d] = "walk" => since[e] \subseteq Seen(d)
                                          /\ at[d] = "finish" => Delivered(e)
  BY DEF SinceKept
<1>7. ASSUME NEW d \in Calls, doing'[d] = e
      PROVE  /\ at'[d] = "walk" => since[e] \subseteq Seen(d)'
             /\ at'[d] = "finish" => Delivered(e)'
  <2>1. CASE d = c
    BY <1>1, <1>2, <1>5, <1>7, <2>1
  <2>2. CASE d # c
    BY <1>1, <1>4, <1>6, <1>7, <2>2
  <2>3. QED
    BY <2>1, <2>2
<1> QED
  BY <1>4, <1>6, <1>7

LEMMA SinceKeptStep ==
  ASSUME EngineeringChangeAssumption, ChangeTyped, Roles, UpToDate, SinceKept,
         [Next]_vars
  PROVE  SinceKept'
<1> USE DEF tree, orders, callVars, history
<1> NoEco \notin Ecos
  BY DEF EngineeringChangeAssumption
<1>1. rows \subseteq rows' /\ released \subseteq released' /\ crossed \subseteq crossed'
  BY ChangeGrows
<1>2. CASE UNCHANGED <<eco, affects, since, last, at, doing, todo, lines>>
  BY <1>1, <1>2, OrdersGoOn DEF Seen
<1>3. ASSUME NEW c \in Calls, UNCHANGED <<eco, affects, since, last>>, Ends(c)
      PROVE  SinceKept'
  <2>1. \A d \in Calls, e \in Ecos : doing'[d] = e =>
           /\ at'[d] = at[d] /\ doing[d] = e /\ Seen(d)' = Seen(d)
    BY <1>3, CallEnds DEF Seen
  <2>2. QED
    BY <1>1, <1>3, <2>1, OrdersGoOn
<1>4. ASSUME NEW c \in Calls, NEW p \in {"add", "draw", "approve", "failed"},
             at' = [at EXCEPT ![c] = p], UNCHANGED <<eco, affects, since, last>>,
             \A d \in Calls : d # c => UNCHANGED <<doing[d], todo[d], lines[d]>>
      PROVE  SinceKept'
  <2>1. \A d \in Calls : at'[d] \in {"walk", "finish"} =>
           /\ at'[d] = at[d] /\ doing'[d] = doing[d] /\ Seen(d)' = Seen(d)
    BY <1>4 DEF Seen, ChangeTyped
  <2>2. QED
    BY <1>1, <1>4, <2>1, OrdersGoOn
<1>5. ASSUME NEW c \in Calls, NEW v \in Versions, DrawBegin(c, v) PROVE SinceKept'
  BY <1>4, <1>5 DEF DrawBegin, ChangeTyped
<1>6. ASSUME NEW c \in Calls, NEW v \in Versions, NEW i \in Items, AddBegin(c, v, i)
      PROVE  SinceKept'
  BY <1>4, <1>6 DEF AddBegin, ChangeTyped
<1>7. ASSUME NEW c \in Calls, NEW e \in Ecos, ApproveBegin(c, e) PROVE SinceKept'
  BY <1>4, <1>7 DEF ApproveBegin, ChangeTyped
<1>8. ASSUME NEW c \in Calls, ReleaseFails(c) PROVE SinceKept'
  <2>1. UNCHANGED <<eco, affects, since, last>> /\ (doing[c] = NoEco => Ends(c))
    BY <1>8 DEF ReleaseFails
  <2>2. CASE doing[c] # NoEco
    <3>1. /\ at' = [at EXCEPT ![c] = "failed"] /\ UNCHANGED doing
          /\ todo' = [todo EXCEPT ![c] = {}] /\ lines' = [lines EXCEPT ![c] = {}]
      BY <1>8, <2>2 DEF ReleaseFails
    <3>2. QED
      BY <1>4, <2>1, <3>1 DEF ChangeTyped
  <2>3. QED
    BY <1>3, <2>1, <2>2
<1>9. ASSUME NEW c \in Calls, Walk(c) PROVE SinceKept'
  <2>1. UNCHANGED <<eco, affects, since, last, at, doing>>
    BY <1>9 DEF Walk
  <2>2. QED
    BY <1>1, <1>9, <2>1, WalkReads, OrdersGoOn
<1>10. ASSUME NEW c \in Calls, NEW v \in Versions, ReleaseDirectly(c, v) PROVE SinceKept'
  <2>1. /\ Reads(c, v) /\ at[c] = "idle"
        /\ UNCHANGED <<rows, sub, eco, affects, since, last, doing, lines>>
    BY <1>10 DEF ReleaseDirectly
  <2>2. \A d \in Calls : d # c => UNCHANGED <<at[d], Seen(d)>>
    BY <2>1, FirstReading
  <2>3. doing[c] \notin Ecos
    BY <2>1 DEF Roles
  <2>4. QED
    BY <1>1, <2>1, <2>2, <2>3, OrdersGoOn
<1>11. ASSUME NEW c \in Calls, ReleaseAgain(c) PROVE SinceKept'
  <2> DEFINE v == affects[doing[c]]
  <2>1. /\ Reads(c, v) /\ v \in Versions
        /\ UNCHANGED <<rows, sub, eco, affects, since, last, doing, lines, released>>
    BY <1>11 DEF ReleaseAgain, Reads, ChangeTyped
  <2>2. /\ \A d \in Calls : d # c => UNCHANGED <<at[d], Seen(d)>>
        /\ RowsOf(v) \subseteq Seen(c)' /\ at'[c] = "walk"
    BY <2>1, FirstReading
  <2>3. \A e \in Ecos : Delivered(e) => Delivered(e)'
    BY <1>1, <2>1 DEF Delivered
  <2> HIDE DEF v
  <2> SUFFICES ASSUME NEW e \in Ecos
               PROVE  /\ since[e] \subseteq RowsOf(affects[e])
                      /\ eco[e] = "none" => since[e] = {}
                      /\ eco[e] = "IMPLEMENTED" => Delivered(e)'
                      /\ \A d \in Calls : doing[d] = e =>
                           /\ at'[d] = "walk" => since[e] \subseteq Seen(d)'
                           /\ at'[d] = "finish" => Delivered(e)'
    BY <2>1 DEF SinceKept, RowsOf
  <2>4. /\ since[e] \subseteq RowsOf(affects[e])
        /\ eco[e] = "none" => since[e] = {}
        /\ eco[e] = "IMPLEMENTED" => Delivered(e)
        /\ \A d \in Calls : doing[d] = e => /\ at[d] = "walk" => since[e] \subseteq Seen(d)
                                            /\ at[d] = "finish" => Delivered(e)
    BY DEF SinceKept
  <2>5. doing[c] = e => since[e] \subseteq Seen(c)'
    BY <2>2, <2>4 DEF v
  <2>6. QED
    BY <2>2, <2>3, <2>4, <2>5
<1>12. ASSUME NEW c \in Calls, Publish(c) PROVE SinceKept'
  BY <1>12, PublishKeepsOrders
<1>13. ASSUME NEW e \in Ecos, NEW w \in Versions \cup {NoVersion}, CreateEco(e, w)
       PROVE  SinceKept'
  <2>1. /\ eco[e] = "none" /\ eco' = [eco EXCEPT ![e] = "PENDING"]
        /\ affects' = [affects EXCEPT ![e] = w]
        /\ UNCHANGED <<released, rows, since, last, crossed, at, doing, todo, lines>>
    BY <1>13 DEF CreateEco
  <2>2. since[e] = {} /\ \A c \in Calls : doing[c] # e
    BY <2>1 DEF SinceKept, Roles
  <2>3. eco'[e] = "PENDING" /\ \A f \in Ecos : f # e => UNCHANGED <<eco[f], affects[f]>>
    BY <2>1 DEF ChangeTyped
  <2>4. \A f \in Ecos : f # e => (Delivered(f)' <=> Delivered(f))
    BY <2>1, <2>3 DEF Delivered
  <2>5. QED
    BY <2>1, <2>2, <2>3, <2>4 DEF SinceKept, Seen, RowsOf
<1>14. ASSUME NEW c \in Calls, NEW rerelease \in BOOLEAN, Approve(c, rerelease) PROVE SinceKept'
  <2> DEFINE e == doing[c]
  <2>1. /\ e \in Ecos /\ eco[e] # "none" /\ at[c] = "approve"
        /\ announced[e] = 0 => \A d \in Calls : doing[d] = e => at[d] = "approve"
    BY <1>14 DEF Approve, Roles, ChangeTyped
  <2>2. /\ eco' = [eco EXCEPT ![e] = "APPROVED"]
        /\ since' = IF announced[e] = 0
                    THEN [since EXCEPT ![e] = RowsOf(affects[e])] ELSE since
        /\ UNCHANGED <<released, rows, affects, last, crossed>>
    BY <1>14 DEF Approve
  <2>3. /\ at'[c] \in {"idle", "release", "failed"}
        /\ \A d \in Calls : d # c => UNCHANGED <<at[d], doing[d], Seen(d)>>
    <3>1. CASE rerelease
      <4>1. /\ \E p \in {"release", "failed"} : at' = [at EXCEPT ![c] = p]
            /\ UNCHANGED <<doing, todo, lines>>
        BY <1>14, <3>1 DEF Approve
      <4>2. QED
        BY <4>1 DEF ChangeTyped, Seen
    <3>2. CASE ~rerelease
      <4>1. Ends(c)
        BY <1>14, <3>2 DEF Approve
      <4>2. QED
        BY <4>1, CallEnds DEF Seen
    <3>3. QED
      BY <3>1, <3>2
  <2> HIDE DEF e
  <2>4. \A f \in Ecos : f # e => UNCHANGED <<eco[f], since[f]>> /\ (Delivered(f)' <=> Delivered(f))
    BY <2>2 DEF ChangeTyped, Delivered
  <2>5. ASSUME NEW f \in Ecos
        PROVE  /\ since'[f] \subseteq RowsOf(affects[f])
               /\ eco'[f] = "none" => since'[f] = {}
               /\ eco'[f] = "IMPLEMENTED" => Delivered(f)'
    BY <2>1, <2>2, <2>4 DEF SinceKept, ChangeTyped
  <2>6. ASSUME NEW f \in Ecos, NEW d \in Calls, doing'[d] = f
        PROVE  /\ at'[d] = "walk" => since'[f] \subseteq Seen(d)'
               /\ at'[d] = "finish" => Delivered(f)'
    <3> SUFFICES ASSUME at'[d] \in {"walk", "finish"}
                 PROVE  /\ at'[d] = "walk" => since'[f] \subseteq Seen(d)'
                        /\ at'[d] = "finish" => Delivered(f)'
      OBVIOUS
    <3>1. d # c /\ at[d] = at'[d] /\ doing[d] = f /\ Seen(d)' = Seen(d)
      BY <2>3, <2>6
    <3>2. /\ at[d] = "walk" => since[f] \subseteq Seen(d)
          /\ at[d] = "finish" => Delivered(f)
      BY <3>1 DEF SinceKept
    <3>3. since'[f] = since[f] /\ (Delivered(f) => Delivered(f)')
      BY <2>1, <2>2, <2>4, <3>1 DEF Delivered
    <3>4. QED
      BY <3>1, <3>2, <3>3
  <2>7. QED
    BY <2>2, <2>5, <2>6 DEF SinceKept, RowsOf
<1>15. ASSUME NEW c \in Calls, Finish(c) PROVE SinceKept'
  <2> DEFINE e == doing[c]
  <2>1. e \in Ecos /\ eco[e] # "none" /\ Ends(c)
    BY <1>15 DEF Finish, Roles
  <2>2. /\ \E outcome \in {"IMPLEMENTED", "APPROVED"} :
             /\ eco' = [eco EXCEPT ![e] = outcome]
             /\ outcome = "IMPLEMENTED" => at[c] = "finish"
        /\ UNCHANGED <<released, rows, affects, since, last, crossed>>
    BY <1>15 DEF Finish, Outcome
  <2>3. at[c] = "finish" => Delivered(e)
    BY <2>1 DEF SinceKept
  <2>4. \A d \in Calls, f \in Ecos : doing'[d] = f => UNCHANGED <<at[d], doing[d], Seen(d)>>
    BY <2>1, CallEnds DEF Seen
  <2> HIDE DEF e
  <2>5. \A f \in Ecos : Delivered(f)' <=> Delivered(f)
    BY <2>2 DEF Delivered
  <2>6. ASSUME NEW f \in Ecos
        PROVE  /\ eco'[f] = "none" => eco[f] = "none"
               /\ eco'[f] = "IMPLEMENTED" => Delivered(f)
    BY <2>1, <2>2, <2>3 DEF SinceKept, ChangeTyped
  <2>7. QED
    BY <2>2, <2>4, <2>5, <2>6 DEF SinceKept, RowsOf
<1>16. QED
  BY <1>2, <1>3, <1>5, <1>6, <1>7, <1>8, <1>9, <1>10, <1>11, <1>12, <1>13, <1>14, <1>15
  DEF Next, Step, vars, CreateVersion, DrawRow, Add,
     LinkSub, Dies, DrawEnd

\* A step of calls that go on with what they do, or do nothing for an order.
LEMMA ApprovalsGoOn ==
  ASSUME ChangeTyped, EngineeringChangeAssumption, Approvals, together \subseteq together',
         \A e \in Ecos : /\ eco'[e] = "IMPLEMENTED" <=> eco[e] = "IMPLEMENTED"
                         /\ UNCHANGED <<announced[e], unfinished[e]>>,
         \A c \in Calls : /\ doing'[c] = doing[c]
                          /\ doing[c] \in Ecos /\ at'[c] = "approve" => at[c] = "approve"
  PROVE  Approvals'
<1> SUFFICES ASSUME NEW e \in Ecos, e \notin together'
             PROVE  /\ \A c, d \in Calls : doing'[c] = e /\ doing'[d] = e => c = d
                    /\ eco'[e] = "IMPLEMENTED" => \A c \in Calls : doing'[c] # e
                    /\ announced'[e] <= 1 + unfinished'[e]
                    /\ eco'[e] # "IMPLEMENTED" /\ (\A c \in Calls : doing'[c] = e => at'[c] = "approve")
                         => announced'[e] <= unfinished'[e]
  BY DEF Approvals
<1>1. /\ \A c, d \in Calls : doing[c] = e /\ doing[d] = e => c = d
      /\ eco[e] = "IMPLEMENTED" => \A c \in Calls : doing[c] # e
      /\ announced[e] <= 1 + unfinished[e]
      /\ eco[e] # "IMPLEMENTED" /\ (\A c \in Calls : doing[c] = e => at[c] = "approve")
           => announced[e] <= unfinished[e]
  BY DEF Approvals
<1> QED
  BY <1>1

\* A call that ends takes along the one announcement of its order that is not accounted
\* for: it implemented the order, or is counted as unfinished.
LEMMA ApprovalEnds ==
  ASSUME ChangeTyped, EngineeringChangeAssumption, Approvals, together \subseteq together',
         NEW c \in Calls, Ends(c),
         \A e \in Ecos \ together, d \in Calls : d # c /\ doing[d] = e => doing[c] # e,
         \A e \in Ecos : e # doing[c] => UNCHANGED <<eco[e], announced[e], unfinished[e]>>,
         doing[c] \in Ecos \ together =>
           /\ announced'[doing[c]] <= 1 + unfinished'[doing[c]]
           /\ eco'[doing[c]] # "IMPLEMENTED" => announced'[doing[c]] <= unfinished'[doing[c]]
  PROVE  Approvals'
<1>1. /\ doing'[c] = NoEco /\ NoEco \notin Ecos
      /\ \A d \in Calls : d # c => UNCHANGED <<at[d], doing[d]>>
  BY CallEnds DEF EngineeringChangeAssumption
<1> SUFFICES ASSUME NEW e \in Ecos, e \notin together'
             PROVE  /\ \A b, d \in Calls : doing'[b] = e /\ doing'[d] = e => b = d
                    /\ eco'[e] = "IMPLEMENTED" => \A d \in Calls : doing'[d] # e
                    /\ announced'[e] <= 1 + unfinished'[e]
                    /\ eco'[e] # "IMPLEMENTED" /\ (\A d \in Calls : doing'[d] = e => at'[d] = "approve")
                         => announced'[e] <= unfinished'[e]
  BY DEF Approvals
<1>2. /\ \A b, d \in Calls : doing[b] = e /\ doing[d] = e => b = d
      /\ eco[e] = "IMPLEMENTED" => \A d \in Calls : doing[d] # e
      /\ announced[e] <= 1 + unfinished[e]
      /\ eco[e] # "IMPLEMENTED" /\ (\A d \in Calls : doing[d] = e => at[d] = "approve")
           => announced[e] <= unfinished[e]
  BY DEF Approvals
<1>3. CASE doing[c] = e
  <2>1. \A d \in Calls : doing'[d] # e
    BY <1>1, <1>2, <1>3
  <2>2. QED
    BY <1>3, <2>1
<1>4. CASE doing[c] # e
  <2>1. \A d \in Calls : doing'[d] = e <=> doing[d] = e
    BY <1>1, <1>4
  <2>2. \A d \in Calls : doing[d] = e => at'[d] = at[d]
    BY <1>1, <1>4
  <2>3. UNCHANGED <<eco[e], announced[e], unfinished[e]>>
    BY <1>4
  <2>4. QED
    BY <1>2, <2>1, <2>2, <2>3
<1> QED
  BY <1>3, <1>4

\* What the bookkeeping of an order says where one call is at it alone.
LEMMA OneApproval ==
  ASSUME ChangeTyped, Approvals, NEW c \in Calls, NEW e \in Ecos \ together, doing[c] = e
  PROVE  /\ eco[e] # "IMPLEMENTED" /\ announced[e] <= 1 + unfinished[e]
         /\ at[c] = "approve" => announced[e] <= unfinished[e]
         /\ \A d \in Calls : doing[d] = e => d = c
         /\ announced[e] \in Nat /\ unfinished[e] \in Nat
<1>1. /\ \A b, d \in Calls : doing[b] = e /\ doing[d] = e => b = d
      /\ eco[e] = "IMPLEMENTED" => \A d \in Calls : doing[d] # e
      /\ announced[e] <= 1 + unfinished[e]
      /\ eco[e] # "IMPLEMENTED" /\ (\A d \in Calls : doing[d] = e => at[d] = "approve")
           => announced[e] <= unfinished[e]
  BY DEF Approvals
<1>2. announced[e] \in Nat /\ unfinished[e] \in Nat
  BY DEF ChangeTyped
<1>3. eco[e] # "IMPLEMENTED" /\ \A d \in Calls : doing[d] = e => d = c
  BY <1>1
<1> QED
  BY <1>1, <1>2, <1>3

LEMMA ApprovalsStep ==
  ASSUME EngineeringChangeAssumption, ChangeTyped, Roles, Approvals, [Next]_vars
  PROVE  Approvals'
<1> USE DEF tree, orders, callVars, history
<1> NoEco \notin Ecos
  BY DEF EngineeringChangeAssumption
<1>1. together \subseteq together'
  BY ChangeGrows
<1>2. CASE UNCHANGED <<eco, announced, unfinished, at, doing>>
  BY <1>1, <1>2, ApprovalsGoOn
<1>3. ASSUME NEW c \in Calls, doing[c] = NoEco, Ends(c),
             UNCHANGED <<eco, announced, unfinished>>
      PROVE  Approvals'
  BY <1>1, <1>3, ApprovalEnds
<1>4. ASSUME NEW c \in Calls, NEW p \in {"add", "draw", "walk", "finish", "failed"},
             at' = [at EXCEPT ![c] = p], UNCHANGED <<eco, announced, unfinished, doing>>
      PROVE  Approvals'
  BY <1>1, <1>4, ApprovalsGoOn DEF ChangeTyped
<1>5. ASSUME NEW c \in Calls, NEW v \in Versions, DrawBegin(c, v) PROVE Approvals'
  BY <1>4, <1>5 DEF DrawBegin
<1>6. ASSUME NEW c \in Calls, NEW v \in Versions, NEW i \in Items, AddBegin(c, v, i)
      PROVE  Approvals'
  BY <1>4, <1>6 DEF AddBegin
<1>7. ASSUME NEW c \in Calls, Add(c) \/ DrawEnd(c) PROVE Approvals'
  BY <1>3, <1>7 DEF Add, DrawEnd, Roles
<1>8. ASSUME NEW c \in Calls, NEW v \in Versions, ReleaseDirectly(c, v) PROVE Approvals'
  BY <1>4, <1>8 DEF ReleaseDirectly, Reads
<1>9. ASSUME NEW c \in Calls, ReleaseAgain(c) PROVE Approvals'
  BY <1>4, <1>9 DEF ReleaseAgain, Reads
<1>10. ASSUME NEW c \in Calls, Publish(c) PROVE Approvals'
  <2>1. UNCHANGED <<eco, announced, unfinished>> /\ (doing[c] = NoEco => Ends(c))
    BY <1>10 DEF Publish
  <2>2. CASE doing[c] # NoEco
    <3>1. at' = [at EXCEPT ![c] = "finish"] /\ UNCHANGED doing
      BY <1>10, <2>2 DEF Publish
    <3>2. QED
      BY <1>4, <2>1, <3>1
  <2>3. QED
    BY <1>3, <2>1, <2>2
<1>11. ASSUME NEW c \in Calls, ReleaseFails(c) PROVE Approvals'
  <2>1. UNCHANGED <<eco, announced, unfinished>> /\ (doing[c] = NoEco => Ends(c))
    BY <1>11 DEF ReleaseFails
  <2>2. CASE doing[c] # NoEco
    <3>1. at' = [at EXCEPT ![c] = "failed"] /\ UNCHANGED doing
      BY <1>11, <2>2 DEF ReleaseFails
    <3>2. QED
      BY <1>4, <2>1, <3>1
  <2>3. QED
    BY <1>3, <2>1, <2>2
<1>12. ASSUME NEW e \in Ecos, NEW v \in Versions \cup {NoVersion}, CreateEco(e, v)
       PROVE  Approvals'
  <2>1. /\ eco[e] = "none" /\ eco' = [eco EXCEPT ![e] = "PENDING"]
        /\ UNCHANGED <<announced, unfinished, at, doing>>
    BY <1>12 DEF CreateEco
  <2>2. \A f \in Ecos : eco'[f] = "IMPLEMENTED" <=> eco[f] = "IMPLEMENTED"
    BY <2>1 DEF ChangeTyped
  <2>3. QED
    BY <1>1, <2>1, <2>2, ApprovalsGoOn
<1>13. ASSUME NEW c \in Calls, NEW e \in Ecos, ApproveBegin(c, e) PROVE Approvals'
  <2>1. /\ at[c] = "idle" /\ eco[e] # "IMPLEMENTED"
        /\ \A d \in Calls : doing[d] = e => e \in together'
        /\ at' = [at EXCEPT ![c] = "approve"] /\ doing' = [doing EXCEPT ![c] = e]
        /\ UNCHANGED <<eco, announced, unfinished>>
    BY <1>13 DEF ApproveBegin, Approvable
  <2>2. doing[c] = NoEco
    BY <2>1 DEF Roles
  <2> SUFFICES ASSUME NEW f \in Ecos, f \notin together'
               PROVE  /\ \A b, d \in Calls : doing'[b] = f /\ doing'[d] = f => b = d
                      /\ eco[f] = "IMPLEMENTED" => \A d \in Calls : doing'[d] # f
                      /\ announced[f] <= 1 + unfinished[f]
                      /\ eco[f] # "IMPLEMENTED" /\ (\A d \in Calls : doing'[d] = f => at'[d] = "approve")
                           => announced[f] <= unfinished[f]
    BY <2>1 DEF Approvals
  <2>3. /\ \A b, d \in Calls : doing[b] = f /\ doing[d] = f => b = d
        /\ eco[f] = "IMPLEMENTED" => \A d \in Calls : doing[d] # f
        /\ announced[f] <= 1 + unfinished[f]
        /\ eco[f] # "IMPLEMENTED" /\ (\A d \in Calls : doing[d] = f => at[d] = "approve")
             => announced[f] <= unfinished[f]
    BY <1>1 DEF Approvals
  <2>4. CASE f = e
    <3>1. \A d \in Calls : doing'[d] = f => d = c
      BY <2>1, <2>4 DEF ChangeTyped
    <3>2. announced[f] <= unfinished[f]
      BY <2>1, <2>3, <2>4
    <3>3. QED
      BY <2>1, <2>3, <2>4, <3>1, <3>2
  <2>5. CASE f # e
    <3>1. \A d \in Calls : doing'[d] = f <=> doing[d] = f
      BY <2>1, <2>2, <2>5 DEF ChangeTyped
    <3>2. \A d \in Calls : doing[d] = f => at'[d] = at[d]
      BY <2>1, <2>2 DEF ChangeTyped
    <3>3. QED
      BY <2>3, <3>1, <3>2
  <2>6. QED
    BY <2>4, <2>5
<1>14. ASSUME NEW c \in Calls, NEW rerelease \in BOOLEAN, Approve(c, rerelease) PROVE Approvals'
  <2> DEFINE e == doing[c]
  <2>1. /\ e \in Ecos /\ at[c] = "approve"
        /\ eco' = [eco EXCEPT ![e] = "APPROVED"] /\ announced' = [announced EXCEPT ![e] = @ + 1]
        /\ together' = together
    BY <1>14 DEF Approve, Roles
  <2>2. /\ eco'[e] = "APPROVED" /\ announced'[e] = announced[e] + 1
        /\ \A f \in Ecos : f # e => UNCHANGED <<eco[f], announced[f]>>
    BY <2>1 DEF ChangeTyped
  <2>3. e \notin together => /\ announced[e] <= unfinished[e]
                             /\ \A d \in Calls : doing[d] = e => d = c
                             /\ announced[e] \in Nat /\ unfinished[e] \in Nat
    BY <2>1, OneApproval
  <2>4. CASE rerelease
    <3>1. /\ \E p \in {"release", "failed"} : at' = [at EXCEPT ![c] = p]
          /\ UNCHANGED <<doing, unfinished>>
      BY <1>14, <2>4 DEF Approve
    <3>2. at'[c] # "approve" /\ \A d \in Calls : d # c => at'[d] = at[d]
      BY <3>1 DEF ChangeTyped
    <3> SUFFICES ASSUME NEW f \in Ecos, f \notin together
                 PROVE  /\ \A b, d \in Calls : doing[b] = f /\ doing[d] = f => b = d
                        /\ eco'[f] = "IMPLEMENTED" => \A d \in Calls : doing[d] # f
                        /\ announced'[f] <= 1 + unfinished[f]
                        /\ eco'[f] # "IMPLEMENTED" /\ (\A d \in Calls : doing[d] = f => at'[d] = "approve")
                             => announced'[f] <= unfinished[f]
      BY <2>1, <3>1 DEF Approvals
    <3>3. CASE f = e
      BY <2>2, <2>3, <3>2, <3>3
    <3>4. CASE f # e
      <4>1. /\ \A b, d \in Calls : doing[b] = f /\ doing[d] = f => b = d
            /\ eco[f] = "IMPLEMENTED" => \A d \in Calls : doing[d] # f
            /\ announced[f] <= 1 + unfinished[f]
            /\ eco[f] # "IMPLEMENTED" /\ (\A d \in Calls : doing[d] = f => at[d] = "approve")
                 => announced[f] <= unfinished[f]
        BY DEF Approvals
      <4>2. \A d \in Calls : doing[d] = f => at'[d] = at[d]
        BY <3>2, <3>4
      <4>3. QED
        BY <2>2, <3>4, <4>1, <4>2
    <3>5. QED
      BY <3>3, <3>4
  <2>5. CASE ~rerelease
    <3>1. Ends(c) /\ unfinished' = [unfinished EXCEPT ![e] = @ + 1]
      BY <1>14, <2>5 DEF Approve
    <3>2. unfinished'[e] = unfinished[e] + 1 /\ \A f \in Ecos : f # e => unfinished'[f] = unfinished[f]
      BY <2>1, <3>1 DEF ChangeTyped
    <3>3. e \notin together => /\ announced'[e] <= 1 + unfinished'[e]
                               /\ announced'[e] <= unfinished'[e]
      BY <2>2, <2>3, <3>2
    <3>4. QED
      BY <1>1, <2>1, <2>2, <2>3, <3>1, <3>2, <3>3, ApprovalEnds
  <2>6. QED
    BY <2>4, <2>5
<1>15. ASSUME NEW c \in Calls, Finish(c) PROVE Approvals'
  <2> DEFINE e == doing[c]
  <2>1. /\ e \in Ecos /\ Ends(c) /\ at[c] \in {"finish", "failed"}
        /\ eco' = [eco EXCEPT ![e] = IF at[c] = "finish" THEN "IMPLEMENTED" ELSE "APPROVED"]
        /\ unfinished' = IF at[c] = "failed" THEN [unfinished EXCEPT ![e] = @ + 1] ELSE unfinished
        /\ UNCHANGED <<announced, together>>
    BY <1>15 DEF Finish, Outcome, Roles
  <2>2. /\ at[c] = "finish" => eco'[e] = "IMPLEMENTED" /\ unfinished'[e] = unfinished[e]
        /\ at[c] = "failed" => unfinished'[e] = unfinished[e] + 1
        /\ \A f \in Ecos : f # e => UNCHANGED <<eco[f], unfinished[f]>>
    BY <2>1 DEF ChangeTyped
  <2>3. e \notin together => /\ announced[e] <= 1 + unfinished[e]
                             /\ \A d \in Calls : doing[d] = e => d = c
                             /\ announced[e] \in Nat /\ unfinished[e] \in Nat
    BY <2>1, OneApproval
  <2>4. e \notin together => /\ announced'[e] <= 1 + unfinished'[e]
                             /\ eco'[e] # "IMPLEMENTED" => announced'[e] <= unfinished'[e]
    BY <2>1, <2>2, <2>3
  <2>5. QED
    BY <1>1, <2>1, <2>2, <2>3, <2>4, ApprovalEnds
<1>16. ASSUME NEW c \in Calls, Dies(c) PROVE Approvals'
  <2>1. /\ Ends(c) /\ at[c] # "idle" /\ UNCHANGED <<eco, announced, together>>
        /\ unfinished' = IF at[c] # "approve" /\ doing[c] # NoEco
                         THEN [unfinished EXCEPT ![doing[c]] = @ + 1] ELSE unfinished
    BY <1>16 DEF Dies
  <2>2. CASE doing[c] = NoEco
    BY <1>3, <2>1, <2>2
  <2>3. CASE doing[c] # NoEco
    <3> DEFINE e == doing[c]
    <3>1. e \in Ecos
      BY <2>3 DEF ChangeTyped
    <3>2. /\ unfinished'[e] = IF at[c] # "approve" THEN unfinished[e] + 1 ELSE unfinished[e]
          /\ \A f \in Ecos : f # e => unfinished'[f] = unfinished[f]
      BY <2>1, <2>3, <3>1 DEF ChangeTyped
    <3>3. e \notin together => /\ announced[e] <= 1 + unfinished[e]
                               /\ at[c] = "approve" => announced[e] <= unfinished[e]
                               /\ \A d \in Calls : doing[d] = e => d = c
                               /\ announced[e] \in Nat /\ unfinished[e] \in Nat
      BY <3>1, OneApproval
    <3>4. e \notin together => announced[e] <= unfinished'[e] /\ announced[e] <= 1 + unfinished'[e]
      BY <3>2, <3>3
    <3>5. QED
      BY <1>1, <2>1, <3>1, <3>2, <3>3, <3>4, ApprovalEnds
  <2>4. QED
    BY <2>2, <2>3
<1>17. QED
  BY <1>2, <1>5, <1>6, <1>7, <1>8, <1>9, <1>10, <1>11, <1>12, <1>13, <1>14, <1>15, <1>16
  DEF Next, Step, vars, CreateVersion, DrawRow,
     LinkSub, Walk

LEMMA ChangeStep ==
  ASSUME EngineeringChangeAssumption, ChangeInv, [Next]_vars PROVE ChangeInv'
  BY ChangeTypedStep, RolesStep, UpToDateStep, SinceKeptStep, ApprovalsStep DEF ChangeInv

\* An order is IMPLEMENTED only when its version is released and the newest snapshot has
\* every component the order was first approved with, or two releases of it crossed.
THEOREM ImplementedDelivers == Safety => []ImplementedWasReleased
<1>1. ChangeInv => ImplementedWasReleased
  BY DEF ChangeInv, SinceKept, Delivered, ImplementedWasReleased
<1>2. ChangeInv /\ [Next]_vars => ChangeInv'
  BY ChangeStep, EngineeringChangeAssumption
<1> QED
  BY <1>1, <1>2, ChangeInit, EngineeringChangeAssumption, PTL DEF Safety

\* The approval of an order is announced again only after one that came to nothing, or
\* next to another.
THEOREM AnnouncementsAreEarned == Safety => []AnnouncedOnce
<1>1. ChangeInv => AnnouncedOnce
  BY DEF ChangeInv, Approvals, AnnouncedOnce
<1>2. ChangeInv /\ [Next]_vars => ChangeInv'
  BY ChangeStep, EngineeringChangeAssumption
<1> QED
  BY <1>1, <1>2, ChangeInit, EngineeringChangeAssumption, PTL DEF Safety

\* What a snapshot of a version had of the version's own components, every later one has.
THEOREM SnapshotsKeepRows == Safety => SnapshotsGrow
<1>1. ASSUME ChangeInv, [Next]_vars, NEW v \in Versions, v \notin crossed
      PROVE  last[v] \cap RowsOf(v) \subseteq last'[v]
  <2>1. CASE UNCHANGED last
    BY <2>1
  <2>2. ASSUME NEW c \in Calls, Publish(c) PROVE last[v] \cap RowsOf(v) \subseteq last'[v]
    <3>1. PICK w \in Versions : Reading(c, w) /\ last' = [last EXCEPT ![w] = Seen(c)]
      BY <1>1, <2>2, PublishedIsSeen DEF ChangeInv
    <3>2. CASE w = v
      BY <1>1, <3>1, <3>2 DEF ChangeInv, UpToDate, ChangeTyped
    <3>3. CASE w # v
      BY <1>1, <3>1, <3>3 DEF ChangeInv, ChangeTyped
    <3>4. QED
      BY <3>2, <3>3
  <2>3. QED
    BY <1>1, <2>1, <2>2 DEF Next, Step, vars, CreateVersion,
       DrawBegin, DrawRow, AddBegin, Add, LinkSub,
       ReleaseDirectly, Walk, CreateEco, ApproveBegin, Approve,
       ReleaseAgain, ReleaseFails, Finish, Dies, DrawEnd
<1>2. ChangeInv /\ [Next]_vars =>
        [\A v \in Versions : last[v] \cap RowsOf(v) \subseteq last'[v] \/ v \in crossed]_vars
  BY <1>1
<1>3. ChangeInv /\ [Next]_vars => ChangeInv'
  BY ChangeStep, EngineeringChangeAssumption
<1> QED
  BY <1>2, <1>3, ChangeInit, EngineeringChangeAssumption, PTL DEF Safety, SnapshotsGrow

\* An order that is IMPLEMENTED stays so, unless two approvals were at it at once.
THEOREM ImplementedStays == Safety => ImplementedIsFinal
<1>1. ASSUME ChangeInv, [Next]_vars, NEW e \in Ecos, eco[e] = "IMPLEMENTED",
             e \notin together
      PROVE  eco'[e] = "IMPLEMENTED"
  <2>1. \A c \in Calls : doing[c] # e
    BY <1>1 DEF ChangeInv, Approvals
  <2>2. ASSUME NEW f \in Ecos, f # e, \E s : eco' = [eco EXCEPT ![f] = s] PROVE eco'[e] = eco[e]
    BY <2>2 DEF ChangeInv, ChangeTyped
  <2>3. ASSUME NEW c \in Calls, Finish(c) \/ \E rerelease \in BOOLEAN : Approve(c, rerelease)
        PROVE  eco'[e] = eco[e]
    <3>1. doing[c] \in Ecos /\ doing[c] # e
      BY <1>1, <2>1, <2>3 DEF ChangeInv, Roles, Finish, Approve
    <3>2. \E s : eco' = [eco EXCEPT ![doing[c]] = s]
      BY <2>3 DEF Finish, Approve
    <3>3. QED
      BY <2>2, <3>1, <3>2
  <2>4. ASSUME NEW f \in Ecos, NEW v \in Versions \cup {NoVersion}, CreateEco(f, v)
        PROVE  eco'[e] = eco[e]
    BY <1>1, <2>2, <2>4 DEF CreateEco
  <2>5. CASE UNCHANGED eco
    BY <1>1, <2>5
  <2>6. QED
    BY <1>1, <2>3, <2>4, <2>5 DEF Next, Step, vars, CreateVersion,
       DrawBegin, DrawRow, AddBegin, Add, LinkSub,
       ReleaseDirectly, Walk, Publish, ApproveBegin,
       ReleaseAgain, ReleaseFails, Dies, DrawEnd, orders
<1>2. ChangeInv /\ [Next]_vars =>
        [\A e \in Ecos : eco[e] = "IMPLEMENTED" =>
           eco'[e] = "IMPLEMENTED" \/ e \in together]_vars
  BY <1>1
<1>3. ChangeInv /\ [Next]_vars => ChangeInv'
  BY ChangeStep, EngineeringChangeAssumption
<1> QED
  BY <1>2, <1>3, ChangeInit, EngineeringChangeAssumption, PTL DEF Safety, ImplementedIsFinal

-----------------------------------------------------------------------------
(* EngineeringChange: types *)

\* Rows are numbered per version, from 1 and without gaps: a new one never meets an old one.
Numbered ==
  /\ IsFiniteSet(rows) /\ rows \subseteq made \X Items \X Nat
  /\ \A x \in rows : 1 <= x[3] /\ x[3] <= Cardinality(RowsOf(x[1]))

Linked ==
  /\ DOMAIN sub = rows
  /\ \A x \in rows : sub[x] # NoVersion => sub[x] \in made /\ ItemOf[sub[x]] = x[2]

\* What a call works on exists, and so does what a release has yet to look into.
WorksOn(c) ==
  /\ at[c] \in {"draw", "walk"} => target[c][1] \in made
  /\ at[c] = "add" => target[c][1] \in made /\ target[c][2] \in Items
  /\ todo[c] \subseteq rows \X (0..MaxDepth) \X (made \cup {NoVersion})
OnWhatIs == \A c \in Calls : WorksOn(c)

\* A row is paid for when its call begins.
Adders == {c \in Calls : at[c] = "add"}
Paid ==
  /\ bound \in Bounds /\ spent \in [Budgets -> Nat] /\ \A b \in Budgets : spent[b] <= bound[b]
  /\ IsFiniteSet(Adders) /\ Cardinality(rows) + Cardinality(Adders) <= spent["rows"]

Marked == released \subseteq made /\ together \subseteq Ecos /\ crossed \subseteq Versions

TreeInv == Numbered /\ Linked /\ OnWhatIs /\ Paid /\ Marked

LEMMA TreeInit == ASSUME EngineeringChangeAssumption PROVE Init => TreeInv
<1> SUFFICES ASSUME Init PROVE TreeInv
  OBVIOUS
<1>1. rows = {} /\ IsFiniteSet(rows) /\ Cardinality(rows) = 0
  BY FS_EmptySet DEF Init
<1>2. Numbered /\ Linked
  BY <1>1 DEF Init, Numbered, Linked
<1>3. OnWhatIs
  BY DEF Init, OnWhatIs, WorksOn
<1>4. Adders = {} /\ IsFiniteSet(Adders) /\ Cardinality(Adders) = 0
  BY FS_EmptySet DEF Init, Adders
<1>5. bound \in Bounds /\ \A b \in Budgets : spent[b] = 0 /\ bound[b] \in Nat
  BY DEF Init, Budgets, EngineeringChangeAssumption
<1>6. spent \in [Budgets -> Nat] /\ "rows" \in Budgets
  BY DEF Init, Budgets
<1>7. Paid
  BY <1>1, <1>4, <1>5, <1>6 DEF Paid
<1>8. Marked
  BY DEF Init, Marked
<1> QED
  BY <1>2, <1>3, <1>7, <1>8 DEF TreeInv

\* Versions are never taken back, and no bound changes.
LEMMA MadeGrows ==
  ASSUME [Next]_vars
  PROVE  made \subseteq made' /\ UNCHANGED bound
  BY DEF Next, vars, tree, orders, callVars, history,
     CreateVersion, DrawBegin, DrawRow, Written, AddBegin, Add, LinkSub, ReleaseDirectly, Walk,
     Publish, CreateEco, ApproveBegin, Approve, ReleaseAgain, ReleaseFails, Finish, Dies, DrawEnd,
     Step

\* The versions a release of a row goes down to are there.
LEMMA SubsAreMade ==
  ASSUME Linked, Marked, NEW p \in rows \X (0..MaxDepth) \X (made \cup {NoVersion})
  PROVE  SubOf(p) \subseteq made
  BY DEF SubOf, Newest, Marked

LEMMA ReadsLines ==
  ASSUME Linked, NEW v, NEW n \in 0..MaxDepth
  PROVE  Read(v, n) \subseteq rows \X (0..MaxDepth) \X (made \cup {NoVersion})
<1>1. \A x \in rows : sub[x] \in made \cup {NoVersion}
  BY DEF Linked
<1> QED
  BY <1>1 DEF Read, RowsOf

\* A row that is written is a new one, and the next of its version.
LEMMA RowIsNew ==
  ASSUME Numbered, Linked, NEW v \in made, NEW i \in Items, Written(v, i), made' = made
  PROVE  /\ Numbered' /\ Linked'
         /\ Cardinality(rows) \in Nat /\ Cardinality(rows') = Cardinality(rows) + 1
<1> DEFINE new == NewRow(v, i)
<1>1. IsFiniteSet(RowsOf(v)) /\ Cardinality(RowsOf(v)) \in Nat /\ Cardinality(rows) \in Nat
  BY FS_Subset, FS_CardinalityType DEF Numbered, RowsOf
<1>2. new = <<v, i, 1 + Cardinality(RowsOf(v))>> /\ new \in made \X Items \X Nat
  BY <1>1 DEF NewRow
<1>3. new \notin rows /\ new \notin RowsOf(v)
  BY <1>1, <1>2 DEF Numbered, RowsOf
<1>4. rows' = rows \cup {new} /\ IsFiniteSet(rows') /\ Cardinality(rows') = Cardinality(rows) + 1
  BY <1>3, FS_AddElement DEF Numbered, Written
<1>5. RowsOf(v)' = RowsOf(v) \cup {new}
  BY <1>2, <1>4 DEF RowsOf
<1>6. Cardinality(RowsOf(v)') = Cardinality(RowsOf(v)) + 1
  BY <1>1, <1>3, <1>5, FS_AddElement
<1>7. \A w : w # v => RowsOf(w)' = RowsOf(w)
  BY <1>2, <1>4 DEF RowsOf
<1>8. ASSUME NEW x \in rows' PROVE 1 <= x[3] /\ x[3] <= Cardinality(RowsOf(x[1])')
  <2>1. CASE x = new
    BY <1>1, <1>2, <1>6, <2>1
  <2>2. CASE x \in rows /\ x[1] = v
    BY <1>1, <1>6, <2>2 DEF Numbered
  <2>3. CASE x \in rows /\ x[1] # v
    BY <1>7, <2>3 DEF Numbered
  <2> QED
    BY <1>4, <1>8, <2>1, <2>2, <2>3
<1>9. Numbered'
  <2>1. \A x \in rows' : 1 <= x[3] /\ x[3] <= Cardinality(RowsOf(x[1]))'
    BY <1>8
  <2> QED
    BY <1>2, <1>4, <2>1 DEF Numbered
<1>10. Linked'
  BY <1>4 DEF Linked, Written
<1> QED
  BY <1>1, <1>4, <1>9, <1>10

LEMMA RowsStep ==
  ASSUME EngineeringChangeAssumption, ChangeTyped, TreeInv, [Next]_vars
  PROVE  Numbered' /\ Linked'
<1>1. made \subseteq made'
  BY MadeGrows
<1>2. CASE UNCHANGED <<rows, sub>>
  <2>1. \A v : RowsOf(v)' = RowsOf(v)
    BY <1>2 DEF RowsOf
  <2>2. Numbered'
    BY <1>1, <1>2, <2>1 DEF TreeInv, Numbered
  <2>3. Linked'
    BY <1>1, <1>2 DEF TreeInv, Linked
  <2> QED
    BY <2>2, <2>3
<1>3. ASSUME NEW x \in rows, NEW w \in Versions, LinkSub(x, w) PROVE Numbered' /\ Linked'
  <2>1. /\ UNCHANGED <<rows, made>> /\ sub' = [sub EXCEPT ![x] = w]
        /\ w \in made /\ ItemOf[w] = x[2]
    BY <1>3 DEF LinkSub, Fits
  <2>2. Numbered'
    BY <2>1 DEF TreeInv, Numbered, RowsOf
  <2>3. Linked'
    BY <2>1 DEF TreeInv, Linked
  <2> QED
    BY <2>2, <2>3
<1>4. ASSUME NEW c \in Calls, NEW i \in Items, DrawRow(c, i) PROVE Numbered' /\ Linked'
  <2>1. target[c][1] \in made /\ Written(target[c][1], i) /\ made' = made
    BY <1>4 DEF DrawRow, TreeInv, OnWhatIs, WorksOn
  <2> QED
    BY <2>1, RowIsNew DEF TreeInv
<1>5. ASSUME NEW c \in Calls, Add(c) PROVE Numbered' /\ Linked'
  <2>1. /\ target[c][1] \in made /\ target[c][2] \in Items
        /\ Written(target[c][1], target[c][2]) /\ made' = made
    BY <1>5 DEF Add, TreeInv, OnWhatIs, WorksOn
  <2> QED
    BY <2>1, RowIsNew DEF TreeInv
<1> QED
  BY <1>2, <1>3, <1>4, <1>5 DEF Next, Step, vars, tree, orders, CreateVersion, DrawBegin,
     AddBegin, ReleaseDirectly, Walk, Publish, CreateEco, ApproveBegin, Approve, ReleaseAgain,
     ReleaseFails, Finish, Dies, DrawEnd

LEMMA OnWhatIsStep ==
  ASSUME EngineeringChangeAssumption, ChangeTyped, TreeInv, [Next]_vars
  PROVE  OnWhatIs'
<1> SUFFICES ASSUME NEW c \in Calls PROVE WorksOn(c)'
  BY DEF OnWhatIs
<1>1. rows \subseteq rows' /\ made \subseteq made'
  BY ChangeGrows, MadeGrows
<1>2. WorksOn(c) /\ DOMAIN at = Calls /\ DOMAIN target = Calls /\ DOMAIN todo = Calls
  BY DEF TreeInv, OnWhatIs, ChangeTyped
<1>3. CASE UNCHANGED <<at[c], target[c], todo[c]>>
  BY <1>1, <1>2, <1>3 DEF WorksOn
<1>4. ASSUME NEW d \in Calls, Ends(d) PROVE WorksOn(c)'
  <2>1. CASE c = d
    BY <1>2, <1>4, <2>1 DEF Ends, WorksOn
  <2>2. CASE c # d
    BY <1>3, <1>4, <2>2, CallEnds
  <2> QED
    BY <2>1, <2>2
<1>5. ASSUME NEW d \in Calls, NEW v \in made, Reads(d, v), UNCHANGED rows PROVE WorksOn(c)'
  <2>1. CASE c = d
    <3>1. at'[c] = "walk" /\ target'[c] = <<v>> /\ todo'[c] = Read(v, 0)
      BY <1>2, <1>5, <2>1 DEF Reads
    <3>2. 0 \in 0..MaxDepth
      BY DEF EngineeringChangeAssumption
    <3>3. Read(v, 0) \subseteq rows \X (0..MaxDepth) \X (made \cup {NoVersion})
      BY <3>2, ReadsLines DEF TreeInv
    <3> QED
      BY <1>1, <3>1, <3>3 DEF WorksOn
  <2>2. CASE c # d
    BY <1>2, <1>3, <1>5, <2>2 DEF Reads
  <2> QED
    BY <2>1, <2>2
<1>6. ASSUME NEW d \in Calls, NEW p, at' = [at EXCEPT ![d] = p], p \in {"approve", "release", "finish", "failed"},
             UNCHANGED target, UNCHANGED todo \/ todo' = [todo EXCEPT ![d] = {}]
      PROVE  WorksOn(c)'
  <2>1. CASE c = d
    BY <1>1, <1>2, <1>6, <2>1 DEF WorksOn
  <2>2. CASE c # d
    BY <1>2, <1>3, <1>6, <2>2
  <2> QED
    BY <2>1, <2>2
<1>7. ASSUME NEW d \in Calls, NEW v \in Versions, DrawBegin(d, v) PROVE WorksOn(c)'
  <2>1. CASE c = d
    BY <1>1, <1>2, <1>7, <2>1 DEF DrawBegin, WorksOn
  <2>2. CASE c # d
    BY <1>2, <1>3, <1>7, <2>2 DEF DrawBegin
  <2> QED
    BY <2>1, <2>2
<1>8. ASSUME NEW d \in Calls, NEW v \in Versions, NEW i \in Items, AddBegin(d, v, i) PROVE WorksOn(c)'
  <2>1. CASE c = d
    BY <1>1, <1>2, <1>8, <2>1 DEF AddBegin, WorksOn, tree
  <2>2. CASE c # d
    BY <1>2, <1>3, <1>8, <2>2 DEF AddBegin
  <2> QED
    BY <2>1, <2>2
<1>9. ASSUME NEW d \in Calls, Walk(d) PROVE WorksOn(c)'
  <2>1. CASE c = d
    <3>1. PICK p \in todo[c] : todo' = [todo EXCEPT ![c] = (@ \ {p}) \cup Below(p)]
      BY <1>9, <2>1 DEF Walk
    <3>2. p \in rows \X (0..MaxDepth) \X (made \cup {NoVersion})
      BY <1>2 DEF WorksOn
    <3>3. SubOf(p) \subseteq made
      BY <3>2, SubsAreMade DEF TreeInv
    <3>4. p[2] # MaxDepth => p[2] + 1 \in 0..MaxDepth
      BY <3>2 DEF EngineeringChangeAssumption
    <3>5. Below(p) \subseteq rows \X (0..MaxDepth) \X (made \cup {NoVersion})
      <4>1. CASE p[2] = MaxDepth
        BY <4>1 DEF Below
      <4>2. CASE p[2] # MaxDepth
        BY <3>4, <4>2, ReadsLines DEF Below, TreeInv
      <4> QED
        BY <4>1, <4>2
    <3>6. todo'[c] = (todo[c] \ {p}) \cup Below(p) /\ UNCHANGED <<at, target, rows, made>>
      BY <1>2, <1>9, <3>1 DEF Walk, tree
    <3> QED
      BY <1>2, <3>5, <3>6 DEF WorksOn
  <2>2. CASE c # d
    BY <1>2, <1>3, <1>9, <2>2 DEF Walk
  <2> QED
    BY <2>1, <2>2
<1>10. ASSUME NEW d \in Calls, NEW v \in Versions, ReleaseDirectly(d, v) PROVE WorksOn(c)'
  BY <1>5, <1>10 DEF ReleaseDirectly, Reads, tree
<1>11. ASSUME NEW d \in Calls, ReleaseAgain(d) PROVE WorksOn(c)'
  BY <1>5, <1>11 DEF ReleaseAgain, Reads, tree
<1>12. ASSUME NEW d \in Calls, Publish(d) PROVE WorksOn(c)'
  BY <1>4, <1>6, <1>12 DEF Publish
<1>13. ASSUME NEW d \in Calls, NEW e \in Ecos, ApproveBegin(d, e) PROVE WorksOn(c)'
  BY <1>6, <1>13 DEF ApproveBegin
<1>14. ASSUME NEW d \in Calls, NEW rerelease \in BOOLEAN, Approve(d, rerelease) PROVE WorksOn(c)'
  BY <1>4, <1>6, <1>14 DEF Approve
<1>15. ASSUME NEW d \in Calls, ReleaseFails(d) PROVE WorksOn(c)'
  BY <1>4, <1>6, <1>15 DEF ReleaseFails
<1> QED
  BY <1>3, <1>4, <1>7, <1>8, <1>9, <1>10, <1>11, <1>12, <1>13, <1>14, <1>15
  DEF Next, Step, vars, callVars, CreateVersion, DrawRow, LinkSub, CreateEco, Add, Finish, Dies,
      DrawEnd

\* What is spent stays within the bounds.
LEMMA SpendPays ==
  ASSUME EngineeringChangeAssumption, Paid, NEW b \in Budgets, Spend(b), UNCHANGED bound
  PROVE  /\ spent' \in [Budgets -> Nat] /\ \A x \in Budgets : spent'[x] <= bound'[x]
         /\ spent'["rows"] = IF b = "rows" THEN spent["rows"] + 1 ELSE spent["rows"]
<1>1. \A x \in Budgets : bound[x] \in Nat
  BY DEF Paid, EngineeringChangeAssumption, Budgets
<1>2. "rows" \in Budgets
  BY DEF Budgets
<1> QED
  BY <1>1, <1>2 DEF Paid, Spend

LEMMA PaidStep ==
  ASSUME EngineeringChangeAssumption, ChangeTyped, TreeInv, [Next]_vars
  PROVE  Paid'
<1> DEFINE SpentTyped == spent \in [Budgets -> Nat] /\ \A b \in Budgets : spent[b] <= bound[b]
<1>1. UNCHANGED bound /\ Paid /\ "rows" \in Budgets /\ SpentTyped
  BY MadeGrows DEF TreeInv, Paid, Budgets
<1>2. /\ IsFiniteSet(Adders) /\ Cardinality(Adders) \in Nat /\ Cardinality(rows) \in Nat
      /\ spent["rows"] \in Nat
  BY <1>1, FS_CardinalityType DEF TreeInv, Numbered, Paid
<1>3. ASSUME SpentTyped', spent'["rows"] >= spent["rows"], UNCHANGED rows, Adders' \subseteq Adders
      PROVE  Paid'
  <2>1. IsFiniteSet(Adders') /\ Cardinality(Adders') <= Cardinality(Adders)
    BY <1>2, <1>3, FS_Subset
  <2>2. Cardinality(Adders') \in Nat /\ spent'["rows"] \in Nat
    BY <1>1, <1>3, <2>1, FS_CardinalityType
  <2> QED
    BY <1>1, <1>2, <1>3, <2>1, <2>2 DEF Paid
<1>4. ASSUME NEW b \in Budgets, Spend(b)
      PROVE  SpentTyped' /\ spent'["rows"] >= spent["rows"]
  BY <1>1, <1>2, <1>4, SpendPays
<1>5. ASSUME UNCHANGED spent PROVE SpentTyped' /\ spent'["rows"] >= spent["rows"]
  BY <1>1, <1>2, <1>5
<1>6. ASSUME NEW c \in Calls, NEW p, at' = [at EXCEPT ![c] = p], p # "add"
      PROVE  Adders' \subseteq Adders
  BY <1>6 DEF Adders, ChangeTyped
<1>7. ASSUME NEW c \in Calls, Ends(c) PROVE Adders' \subseteq Adders
  BY <1>6, <1>7 DEF Ends
<1>8. ASSUME UNCHANGED at PROVE Adders' \subseteq Adders
  BY <1>8 DEF Adders
<1>9. ASSUME NEW c \in Calls, NEW v \in Versions, NEW i \in Items, AddBegin(c, v, i) PROVE Paid'
  <2>1. /\ at[c] = "idle" /\ at' = [at EXCEPT ![c] = "add"] /\ UNCHANGED rows
        /\ Spend("rows")
    BY <1>9 DEF AddBegin, tree
  <2>2. Adders' = Adders \cup {c} /\ c \notin Adders
    BY <2>1 DEF Adders, ChangeTyped
  <2>3. IsFiniteSet(Adders') /\ Cardinality(Adders') = Cardinality(Adders) + 1
    BY <1>2, <2>2, FS_AddElement
  <2>4. SpentTyped' /\ spent'["rows"] = spent["rows"] + 1
    BY <1>1, <2>1, SpendPays
  <2> QED
    BY <1>1, <1>2, <2>1, <2>3, <2>4 DEF Paid
<1>10. ASSUME NEW c \in Calls, NEW i \in Items, DrawRow(c, i) PROVE Paid'
  <2>1. /\ target[c][1] \in made /\ Written(target[c][1], i) /\ made' = made
        /\ UNCHANGED at /\ Spend("rows")
    BY <1>10 DEF DrawRow, callVars, TreeInv, OnWhatIs, WorksOn
  <2>2. Cardinality(rows') = Cardinality(rows) + 1
    BY <2>1, RowIsNew DEF TreeInv
  <2>3. SpentTyped' /\ spent'["rows"] = spent["rows"] + 1
    BY <1>1, <2>1, SpendPays
  <2>4. Adders' = Adders
    BY <2>1 DEF Adders
  <2> QED
    BY <1>1, <1>2, <2>2, <2>3, <2>4 DEF Paid
<1>11. ASSUME NEW c \in Calls, Add(c) PROVE Paid'
  <2>1. /\ target[c][1] \in made /\ target[c][2] \in Items /\ at[c] = "add"
        /\ Written(target[c][1], target[c][2]) /\ made' = made
        /\ at' = [at EXCEPT ![c] = "idle"] /\ UNCHANGED spent
    BY <1>11 DEF Add, Ends, TreeInv, OnWhatIs, WorksOn
  <2>2. Cardinality(rows') = Cardinality(rows) + 1
    BY <2>1, RowIsNew DEF TreeInv
  <2>3. Adders' = Adders \ {c} /\ c \in Adders
    BY <2>1 DEF Adders, ChangeTyped
  <2>4. IsFiniteSet(Adders') /\ Cardinality(Adders') = Cardinality(Adders) - 1
    BY <1>2, <2>3, FS_RemoveElement
  <2> QED
    BY <1>1, <1>2, <2>1, <2>2, <2>4 DEF Paid
<1>12. ASSUME NEW v \in Versions, CreateVersion(v) PROVE Paid'
  BY <1>3, <1>5, <1>8, <1>12 DEF CreateVersion, callVars
<1>13. ASSUME NEW x \in rows, NEW w \in Versions, LinkSub(x, w) PROVE Paid'
  BY <1>3, <1>4, <1>8, <1>13 DEF LinkSub, callVars, Budgets
<1>14. ASSUME NEW e \in Ecos, NEW v \in Versions \cup {NoVersion}, CreateEco(e, v) PROVE Paid'
  BY <1>3, <1>4, <1>8, <1>14 DEF CreateEco, callVars, tree, Budgets
<1>15. ASSUME NEW c \in Calls, NEW v \in Versions, DrawBegin(c, v) \/ ReleaseDirectly(c, v)
       PROVE  Paid'
  BY <1>3, <1>4, <1>6, <1>15 DEF DrawBegin, ReleaseDirectly, Reads, tree, Budgets
<1>16. ASSUME NEW c \in Calls, NEW e \in Ecos, ApproveBegin(c, e) PROVE Paid'
  BY <1>3, <1>4, <1>6, <1>16 DEF ApproveBegin, tree, Budgets
<1>17. ASSUME NEW c \in Calls, NEW rerelease \in BOOLEAN, Approve(c, rerelease) PROVE Paid'
  <2>1. UNCHANGED <<rows, spent>>
    BY <1>17 DEF Approve, tree
  <2>2. Adders' \subseteq Adders
    BY <1>6, <1>7, <1>17 DEF Approve
  <2> QED
    BY <1>3, <1>5, <2>1, <2>2
<1>18. ASSUME NEW c \in Calls, ReleaseAgain(c) PROVE Paid'
  BY <1>3, <1>5, <1>6, <1>18 DEF ReleaseAgain, Reads, tree
<1>19. ASSUME NEW c \in Calls, Walk(c) PROVE Paid'
  BY <1>3, <1>5, <1>8, <1>19 DEF Walk, tree
<1>20. ASSUME NEW c \in Calls, Publish(c) PROVE Paid'
  <2>1. UNCHANGED <<rows, spent>>
    BY <1>20 DEF Publish
  <2>2. Adders' \subseteq Adders
    BY <1>6, <1>7, <1>20 DEF Publish
  <2> QED
    BY <1>3, <1>5, <2>1, <2>2
<1>21. ASSUME NEW c \in Calls, ReleaseFails(c) PROVE Paid'
  <2>1. UNCHANGED rows /\ Adders' \subseteq Adders
    BY <1>6, <1>7, <1>21 DEF ReleaseFails, tree
  <2>2. UNCHANGED spent \/ Spend("faults")
    BY <1>21 DEF ReleaseFails
  <2> QED
    BY <1>3, <1>4, <1>5, <2>1, <2>2 DEF Budgets
<1>22. ASSUME NEW c \in Calls, Finish(c) \/ DrawEnd(c) PROVE Paid'
  BY <1>3, <1>5, <1>7, <1>22 DEF Finish, DrawEnd, tree
<1>23. ASSUME NEW c \in Calls, Dies(c) PROVE Paid'
  BY <1>3, <1>4, <1>7, <1>23 DEF Dies, tree, Budgets
<1>24. CASE UNCHANGED vars
  BY <1>3, <1>5, <1>8, <1>24 DEF vars, callVars, tree
<1> QED
  BY <1>9, <1>10, <1>11, <1>12, <1>13, <1>14, <1>15, <1>16, <1>17, <1>18, <1>19, <1>20, <1>21,
     <1>22, <1>23, <1>24 DEF Next, Step

LEMMA MarkedStep ==
  ASSUME ChangeTyped, TreeInv, [Next]_vars
  PROVE  Marked'
<1>1. made \subseteq made' /\ Marked
  BY MadeGrows DEF TreeInv
<1>2. CASE UNCHANGED <<released, together, crossed>>
  BY <1>1, <1>2 DEF Marked
<1>3. ASSUME NEW c \in Calls, NEW v, Reads(c, v), UNCHANGED <<released, together>> PROVE Marked'
  BY <1>1, <1>3 DEF Marked, Reads, ChangeTyped
<1>4. ASSUME NEW c \in Calls, Publish(c) PROVE Marked'
  <2>1. target[c][1] \in made /\ released' = released \cup {target[c][1]} /\ UNCHANGED history
    BY <1>4 DEF Publish, TreeInv, OnWhatIs, WorksOn
  <2> QED
    BY <1>1, <2>1 DEF Marked, history
<1>5. ASSUME NEW c \in Calls, NEW e \in Ecos, ApproveBegin(c, e) PROVE Marked'
  BY <1>1, <1>5 DEF ApproveBegin, Marked, tree
<1> QED
  BY <1>2, <1>3, <1>4, <1>5 DEF Next, Step, vars, tree, orders, history, CreateVersion, DrawBegin,
     DrawRow, AddBegin, Add, LinkSub, ReleaseDirectly, Walk, CreateEco, Approve, ReleaseAgain,
     ReleaseFails, Finish, Dies, DrawEnd

\* The types: of rows, links, orders, calls and snapshots; releases read rows and versions that
\* exist, down to MaxDepth, and no more rows are written than were let in.
THEOREM ChangeTypeCorrect == Safety => []TypeOK
<1> DEFINE Inv == ChangeInv /\ TreeInv
<1>1. Inv => TypeOK
  <2> SUFFICES ASSUME Inv PROVE TypeOK
    OBVIOUS
  <2>1. bound \in Bounds /\ \A b \in Budgets : spent[b] \in 0..bound[b]
    BY EngineeringChangeAssumption DEF TreeInv, Paid, Budgets
  <2>2. ASSUME NEW x \in rows PROVE x \in made \X Items \X (1..bound.rows)
    <3>1. IsFiniteSet(RowsOf(x[1])) /\ Cardinality(RowsOf(x[1])) <= Cardinality(rows)
      BY FS_Subset DEF TreeInv, Numbered, RowsOf
    <3>2. /\ Cardinality(RowsOf(x[1])) \in Nat /\ Cardinality(rows) \in Nat
          /\ Cardinality(Adders) \in Nat
      BY <3>1, FS_CardinalityType DEF TreeInv, Numbered, Paid
    <3>3. bound["rows"] \in Nat /\ spent["rows"] \in Nat /\ spent["rows"] <= bound["rows"]
      BY EngineeringChangeAssumption DEF TreeInv, Paid, Budgets
    <3>4. x \in made \X Items \X Nat /\ 1 <= x[3] /\ x[3] <= Cardinality(RowsOf(x[1]))
      BY DEF TreeInv, Numbered
    <3>5. x[3] <= bound["rows"]
      BY <3>1, <3>2, <3>3, <3>4 DEF TreeInv, Paid
    <3> QED
      BY <3>3, <3>4, <3>5
  <2>3. \A c \in Calls : at[c] \in {"approve", "finish", "failed"} => doing[c] \in Ecos
    BY DEF ChangeInv, Roles
  <2> QED
    BY <2>1, <2>2, <2>3 DEF TypeOK, ChangeInv, ChangeTyped, TreeInv, Linked, OnWhatIs, WorksOn, Marked
<1>2. Init => Inv
  BY ChangeInit, TreeInit, EngineeringChangeAssumption
<1>3. Inv /\ [Next]_vars => Inv'
  BY ChangeStep, RowsStep, OnWhatIsStep, PaidStep, MarkedStep, EngineeringChangeAssumption
  DEF ChangeInv, TreeInv
<1> QED
  BY <1>1, <1>2, <1>3, PTL DEF Safety

-----------------------------------------------------------------------------
(* Milestones *)

Places == {"idle", "draft", "send", "mark", "announce", "invoice", "recognise", "write"}
Sent(m) == <<"finance", "sent", m>>

PayTyped ==
  /\ mail \in [Pay!Letters -> Nat]
  /\ commands \in [Codes -> Nat] /\ again \in [Pay!Kinds -> [Codes -> Nat]]
  /\ issued \in [Codes -> Nat] /\ invented \in [Codes -> Nat] /\ invoiced \in [Codes -> Nat]
  /\ announced \in [Codes -> Nat] /\ recognised \in [Codes -> Nat]
  /\ billing \in [Codes -> Pay!Statuses] /\ shown \in [Codes -> Pay!Statuses]
  /\ at \in [Handlers -> Places] /\ of \in [Handlers -> Codes \cup {Pay!NoCode}]
  /\ \A h \in Handlers : at[h] # "idle" => of[h] \in Codes
  /\ news \in [Handlers -> Pay!Statuses] /\ copy \in [Handlers -> [Codes -> Pay!Statuses]]

\* Only so many handlers run.
FewRun == IsFiniteSet({h \in Handlers : at[h] # "idle"})

\* What has happened to a milestone that is said to have this status.
Cause(m, state) ==
  /\ state = "READY" => commands[m] > 0
  /\ state = "INVOICED" => invoiced[m] > 0
  /\ state = "RECOGNIZED" => recognised[m] > 0

\* Whoever says so, or is about to: the books, the copy in crm, a letter, a handler.
ToldOf ==
  /\ \A m \in Codes : Cause(m, billing[m]) /\ Cause(m, shown[m])
  /\ \A l \in Pay!Letters : mail[l] > 0 => Cause(l[3], Pay!StatusOf(l[2]))
  /\ \A h \in Handlers :
       /\ \A m \in Codes : Cause(m, copy[h][m])
       /\ at[h] = "write" => Cause(of[h], news[h])
       /\ at[h] \in {"mark", "announce", "invoice", "recognise"} => invoiced[of[h]] > 0

\* Handlers between the invoice and its announcement, and between the announcement and
\* the revenue.
Announcing(m) == {h \in Handlers : of[h] = m /\ at[h] \in {"mark", "announce"}}
Booking(m) == {h \in Handlers : of[h] = m /\ at[h] \in {"invoice", "recognise"}}

\* Every announcement has an invoice of its own, and every revenue an announcement, or
\* the repetition of one.
Accounts ==
  \A m \in Codes :
    /\ announced[m] + Cardinality(Announcing(m)) <= invoiced[m]
    /\ recognised[m] + Cardinality(Booking(m)) + mail[Sent(m)] <= announced[m] + again["sent"][m]

PayInv == PayTyped /\ FewRun /\ ToldOf /\ Accounts

LEMMA PayLetters ==
  /\ \A kind \in Pay!Kinds, m \in Codes : \A to \in Pay!Audience[kind] : <<to, kind, m>> \in Pay!Letters
  /\ \A l \in Pay!Letters : l[2] \in Pay!Kinds /\ l[3] \in Codes
  /\ \A m \in Codes : Sent(m) \in Pay!Letters
<1>1. /\ "finance" \in Pay!Audience["sent"] /\ "sent" \in Pay!Kinds
  BY DEF Pay!Audience, Pay!Kinds
<1>2. \A kind \in Pay!Kinds, m \in Codes : \A to \in Pay!Audience[kind] : <<to, kind, m>> \in Pay!Letters
  BY DEF Pay!Letters
<1>3. \A l \in Pay!Letters : l[2] \in Pay!Kinds /\ l[3] \in Codes
  BY DEF Pay!Letters
<1> QED
  BY <1>1, <1>2, <1>3 DEF Sent

LEMMA PayInit == ASSUME Pay!MilestonesAssumption PROVE Pay!Init => PayInv
<1> SUFFICES ASSUME Pay!Init PROVE PayInv
  OBVIOUS
<1>1. PayTyped
  BY DEF Pay!Init, PayTyped, invoiced, Pay!Zero, Pay!Nothing, Pay!Statuses, Places
<1>2. {h \in Handlers : at[h] # "idle"} = {}
  BY DEF Pay!Init
<1>3. FewRun
  BY <1>2, FS_EmptySet DEF FewRun
<1>4. ToldOf
  BY PayLetters DEF Pay!Init, ToldOf, Cause, Pay!Nothing
<1>5. \A m \in Codes : Announcing(m) = {} /\ Booking(m) = {}
  BY DEF Pay!Init, Announcing, Booking
<1>6. \A m \in Codes : /\ announced[m] = 0 /\ invoiced[m] = 0 /\ recognised[m] = 0
                       /\ mail[Sent(m)] = 0 /\ again["sent"][m] = 0
  BY PayLetters DEF Pay!Init, Pay!Zero, Pay!Kinds, invoiced
<1>7. \A m \in Codes : Cardinality(Announcing(m)) = 0 /\ Cardinality(Booking(m)) = 0
  BY <1>5, FS_EmptySet, Zenon
<1>8. Accounts
  BY <1>6, <1>7 DEF Accounts
<1> QED
  BY <1>1, <1>3, <1>4, <1>8 DEF PayInv

\* A row that is committed is one more letter to everyone who listens.
LEMMA MorePosted ==
  ASSUME PayTyped, NEW kind \in Pay!Kinds, NEW m \in Codes
  PROVE  /\ Pay!Posted(kind, m) \in [Pay!Letters -> Nat]
         /\ \A l \in Pay!Letters : /\ mail[l] <= Pay!Posted(kind, m)[l]
                                   /\ Pay!Posted(kind, m)[l] > mail[l] => l[2] = kind /\ l[3] = m
         /\ \A n \in Codes : Pay!Posted(kind, m)[Sent(n)] =
              IF kind = "sent" /\ n = m THEN mail[Sent(n)] + 1 ELSE mail[Sent(n)]
<1>1. \A l \in Pay!Letters :
        Pay!Posted(kind, m)[l] = IF l \in Pay!Copies(kind, m) THEN mail[l] + 1 ELSE mail[l]
  BY DEF Pay!Posted
<1>2. \A l \in Pay!Copies(kind, m) : l[2] = kind /\ l[3] = m
  BY DEF Pay!Copies
<1>3. \A n \in Codes : Sent(n) \in Pay!Copies(kind, m) <=> kind = "sent" /\ n = m
  BY DEF Pay!Copies, Pay!Audience, Pay!Kinds, Sent
<1>4. \A l \in Pay!Letters : mail[l] \in Nat
  BY DEF PayTyped
<1>5. Pay!Posted(kind, m) \in [Pay!Letters -> Nat]
  BY <1>4 DEF Pay!Posted
<1>6. \A n \in Codes : Sent(n) \in Pay!Letters
  BY PayLetters
<1> QED
  BY <1>1, <1>2, <1>3, <1>4, <1>5, <1>6

LEMMA LessMail ==
  ASSUME PayTyped, NEW l \in Pay!Letters, mail[l] > 0
  PROVE  /\ Pay!Less(l) \in [Pay!Letters -> Nat] /\ Pay!Less(l)[l] = mail[l] - 1
         /\ \A k \in Pay!Letters : k # l => Pay!Less(l)[k] = mail[k]
  BY DEF Pay!Less, PayTyped

\* What is left of a handler that ends, and that the others go on as they were.
LEMMA HandlerEnds ==
  ASSUME PayTyped, NEW h \in Handlers, Pay!Ends(h)
  PROVE  /\ at' \in [Handlers -> Places] /\ of' \in [Handlers -> Codes \cup {Pay!NoCode}]
         /\ news' \in [Handlers -> Pay!Statuses] /\ copy' \in [Handlers -> [Codes -> Pay!Statuses]]
         /\ at'[h] = "idle" /\ copy'[h] = Pay!Nothing
         /\ \A g \in Handlers : g # h => UNCHANGED <<at[g], of[g], news[g], copy[g]>>
  BY DEF Pay!Ends, PayTyped, Places, Pay!Statuses, Pay!Nothing

\* A handler that begins, or moves on.
LEMMA HandlerMoves ==
  ASSUME PayTyped, NEW h \in Handlers, NEW p \in Places, at' = [at EXCEPT ![h] = p],
         NEW m \in Codes, of' = [of EXCEPT ![h] = m] \/ (of' = of /\ of[h] = m)
  PROVE  /\ at' \in [Handlers -> Places] /\ of' \in [Handlers -> Codes \cup {Pay!NoCode}]
         /\ at'[h] = p /\ of'[h] = m
         /\ \A g \in Handlers : g # h => UNCHANGED <<at[g], of[g]>>
  BY DEF PayTyped

LEMMA MailTyped ==
  ASSUME PayTyped, [Pay!Next]_(Pay!vars) PROVE mail' \in [Pay!Letters -> Nat]
<1>1. CASE UNCHANGED mail
  BY <1>1 DEF PayTyped
<1>2. ASSUME NEW l \in Pay!Letters, mail[l] > 0, mail' = Pay!Less(l)
      PROVE  mail' \in [Pay!Letters -> Nat]
  BY <1>2, LessMail
<1>3. ASSUME NEW kind \in Pay!Kinds, NEW m \in Codes, mail' = Pay!Posted(kind, m)
      PROVE  mail' \in [Pay!Letters -> Nat]
  BY <1>3, MorePosted
<1>4. ASSUME NEW m \in Codes, Pay!MilestoneReached(m) PROVE mail' \in [Pay!Letters -> Nat]
  <2> DEFINE l == <<"finance", "reached", m>>
  <2>1. l \in Pay!Letters /\ mail[l] > 0
    BY <1>4, PayLetters DEF Pay!MilestoneReached, Pay!Audience, Pay!Kinds
  <2>2. mail' = Pay!Less(l) \/ mail' = Pay!PostedAfter(l, "reached", m)
    BY <1>4 DEF Pay!MilestoneReached
  <2>3. /\ Pay!Posted("reached", m) \in [Pay!Letters -> Nat]
        /\ Pay!Posted("reached", m)[l] >= mail[l] /\ mail[l] \in Nat
    BY <2>1, MorePosted DEF Pay!Kinds, PayTyped
  <2>4. Pay!PostedAfter(l, "reached", m) \in [Pay!Letters -> Nat]
    BY <2>1, <2>3 DEF Pay!PostedAfter
  <2>5. QED
    BY <1>2, <2>1, <2>2, <2>4
<1>5. ASSUME NEW h \in Handlers, NEW m \in Codes, Pay!InvoiceSent(h, m) PROVE mail' \in [Pay!Letters -> Nat]
  <2>1. <<"finance", "sent", m>> \in Pay!Letters
    BY PayLetters DEF Sent
  <2>2. QED
    BY <1>2, <1>5, <2>1 DEF Pay!InvoiceSent, Pay!Begins
<1>6. ASSUME NEW h \in Handlers, NEW m \in Codes, Pay!BeginInvoice(h, m) PROVE mail' \in [Pay!Letters -> Nat]
  <2>1. <<"tax", "reached", m>> \in Pay!Letters
    BY PayLetters DEF Pay!Audience, Pay!Kinds
  <2>2. QED
    BY <1>2, <1>6, <2>1 DEF Pay!BeginInvoice, Pay!Begins
<1>7. ASSUME NEW h \in Handlers, NEW kind \in Pay!Kinds, NEW m \in Codes, Pay!CrmReceives(h, kind, m)
      PROVE  mail' \in [Pay!Letters -> Nat]
  <2>1. <<"crm", kind, m>> \in Pay!Letters
    BY PayLetters DEF Pay!Audience, Pay!Kinds
  <2>2. QED
    BY <1>2, <1>7, <2>1 DEF Pay!CrmReceives, Pay!Begins
<1>8. ASSUME NEW h \in Handlers, Pay!Recognise(h) \/ Pay!Announce(h) PROVE mail' \in [Pay!Letters -> Nat]
  <2>1. of[h] \in Codes
    BY <1>8 DEF Pay!Recognise, Pay!Announce, PayTyped
  <2>2. QED
    BY <1>1, <1>3, <1>8, <2>1 DEF Pay!Recognise, Pay!Announce, Pay!Kinds
<1>9. ASSUME NEW m \in Codes, Pay!Reach(m) PROVE mail' \in [Pay!Letters -> Nat]
  BY <1>3, <1>9 DEF Pay!Reach, Pay!Kinds
<1>10. QED
  BY <1>1, <1>2, <1>3, <1>4, <1>5, <1>6, <1>7, <1>8, <1>9
  DEF Pay!Next, Pay!Step, Pay!vars, Pay!Lose, Pay!Repeat, Pay!Throws, Pay!MarkInvoiced,
     Pay!CreateDraft, Pay!SendInvoice, Pay!MarkSent, Pay!CrmWrites, Pay!ClosePeriod

LEMMA PayTypedStep ==
  ASSUME PayTyped, [Pay!Next]_(Pay!vars) PROVE PayTyped'
<1> USE DEF Pay!counts, Pay!books, Pay!invoices, Pay!handlerVars
<1>1. mail' \in [Pay!Letters -> Nat]
  BY MailTyped
<1> DEFINE Running == /\ at' \in [Handlers -> Places] /\ of' \in [Handlers -> Codes \cup {Pay!NoCode}]
                      /\ \A h \in Handlers : at'[h] # "idle" => of'[h] \in Codes
           Writing == /\ news' \in [Handlers -> Pay!Statuses]
                      /\ copy' \in [Handlers -> [Codes -> Pay!Statuses]]
           Counted == /\ commands' \in [Codes -> Nat] /\ again' \in [Pay!Kinds -> [Codes -> Nat]]
                      /\ issued' \in [Codes -> Nat] /\ invented' \in [Codes -> Nat]
                      /\ announced' \in [Codes -> Nat]
                      /\ recognised' \in [Codes -> Nat]
                      /\ billing' \in [Codes -> Pay!Statuses] /\ shown' \in [Codes -> Pay!Statuses]
<1>2. Running /\ Writing /\ Counted => PayTyped'
  BY <1>1 DEF PayTyped, invoiced
<1>3. ASSUME UNCHANGED <<at, of>> PROVE Running
  BY <1>3 DEF PayTyped
<1>4. ASSUME UNCHANGED <<news, copy>> PROVE Writing
  BY <1>4 DEF PayTyped
<1>5. ASSUME UNCHANGED <<commands, again, issued, invented, announced, recognised, billing, shown>> PROVE Counted
  BY <1>5 DEF PayTyped
<1>6. ASSUME NEW h \in Handlers, Pay!Ends(h) PROVE Running /\ Writing
  BY <1>6, HandlerEnds DEF PayTyped
<1>7. ASSUME NEW h \in Handlers, NEW p \in Places, at' = [at EXCEPT ![h] = p],
             NEW m \in Codes, of' = [of EXCEPT ![h] = m] \/ (of' = of /\ of[h] = m)
      PROVE  Running
  BY <1>7, HandlerMoves DEF PayTyped
<1>8. \A h \in Handlers : at[h] # "idle" => of[h] \in Codes
  BY DEF PayTyped
<1> HIDE DEF Running, Writing, Counted
<1>9. ASSUME NEW l \in Pay!Letters, Pay!Lose(l) PROVE PayTyped'
  BY <1>2, <1>3, <1>4, <1>5, <1>9 DEF Pay!Lose
<1>10. ASSUME NEW kind \in Pay!Kinds, NEW m \in Codes, Pay!Repeat(kind, m) PROVE PayTyped'
  <2>1. UNCHANGED <<at, of, news, copy>>
    BY <1>10 DEF Pay!Repeat
  <2>2. Counted
    BY <1>10 DEF Pay!Repeat, PayTyped, Counted
  <2>3. QED
    BY <1>2, <1>3, <1>4, <2>1, <2>2
<1>11. ASSUME NEW m \in Codes, Pay!Reach(m) \/ Pay!MilestoneReached(m) PROVE PayTyped'
  <2>1. UNCHANGED <<at, of, news, copy>>
    BY <1>11 DEF Pay!Reach, Pay!MilestoneReached
  <2>2. /\ commands' = [commands EXCEPT ![m] = @ + 1] \/ UNCHANGED commands
        /\ billing' = [billing EXCEPT ![m] = "READY"] \/ UNCHANGED billing
        /\ UNCHANGED <<again, issued, invented, announced, recognised, shown>>
    BY <1>11 DEF Pay!Reach, Pay!MilestoneReached
  <2>3. Counted
    <3>1. commands' \in [Codes -> Nat]
      BY <2>2 DEF PayTyped
    <3>2. billing' \in [Codes -> Pay!Statuses]
      BY <2>2 DEF PayTyped, Pay!Statuses
    <3>3. QED
      BY <2>2, <3>1, <3>2 DEF PayTyped, Counted
  <2>4. QED
    BY <1>2, <1>3, <1>4, <2>1, <2>3
<1>12. ASSUME NEW h \in Handlers, NEW m \in Codes, Pay!InvoiceSent(h, m) PROVE PayTyped'
  <2>1. \/ UNCHANGED <<at, of>>
        \/ at' = [at EXCEPT ![h] = "invoice"] /\ of' = [of EXCEPT ![h] = m]
    BY <1>12 DEF Pay!InvoiceSent, Pay!Begins
  <2>2. Running
    BY <1>3, <1>7, <2>1 DEF Places
  <2>3. QED
    BY <1>2, <1>4, <1>5, <1>12, <2>2 DEF Pay!InvoiceSent
<1>13. ASSUME NEW h \in Handlers, NEW m \in Codes, Pay!BeginInvoice(h, m) PROVE PayTyped'
  <2>1. Running
    BY <1>7, <1>13 DEF Pay!BeginInvoice, Pay!Begins, Places
  <2>2. QED
    BY <1>2, <1>4, <1>5, <1>13, <2>1 DEF Pay!BeginInvoice
<1>14. ASSUME NEW h \in Handlers, NEW kind \in Pay!Kinds, NEW m \in Codes, Pay!CrmReceives(h, kind, m)
       PROVE  PayTyped'
  <2>1. Running
    BY <1>7, <1>14 DEF Pay!CrmReceives, Pay!Begins, Places
  <2>2. Writing
    BY <1>14 DEF Pay!CrmReceives, Pay!StatusOf, Pay!Kinds, Pay!Statuses, PayTyped, Writing
  <2>3. QED
    BY <1>2, <1>5, <1>14, <2>1, <2>2 DEF Pay!CrmReceives
<1>15. ASSUME NEW h \in Handlers, Pay!MarkInvoiced(h) PROVE PayTyped'
  <2>1. Running
    BY <1>7, <1>8, <1>15 DEF Pay!MarkInvoiced, Pay!Goto, Places
  <2>2. Counted
    BY <1>15 DEF Pay!MarkInvoiced, Pay!Mark, Pay!Statuses, PayTyped, Counted
  <2>3. QED
    BY <1>2, <1>4, <1>15, <2>1, <2>2 DEF Pay!MarkInvoiced, Pay!Goto
<1>16. ASSUME NEW h \in Handlers, Pay!Recognise(h) PROVE PayTyped'
  <2>1. Counted
    BY <1>16 DEF Pay!Recognise, Pay!RevenueBooked, Pay!Mark, Pay!Statuses, PayTyped, Counted
  <2>2. QED
    BY <1>2, <1>6, <1>16, <2>1 DEF Pay!Recognise
<1>17. ASSUME NEW h \in Handlers, Pay!CreateDraft(h) PROVE PayTyped'
  <2>1. Running
    BY <1>7, <1>8, <1>17 DEF Pay!CreateDraft, Places
  <2>2. QED
    BY <1>2, <1>4, <1>5, <1>17, <2>1 DEF Pay!CreateDraft
<1>18. ASSUME NEW h \in Handlers, Pay!SendInvoice(h) PROVE PayTyped'
  <2>1. Running /\ Writing
    BY <1>4, <1>6, <1>7, <1>8, <1>18
    DEF Pay!SendInvoice, Pay!KsefIssues, Pay!ReferenceMadeUp, Pay!Goto, Pay!AfterSend, Places
  <2>2. Counted
    <3>1. /\ UNCHANGED issued \/ issued' = [issued EXCEPT ![of[h]] = @ + 1]
          /\ UNCHANGED invented \/ invented' = [invented EXCEPT ![of[h]] = @ + 1]
          /\ UNCHANGED <<commands, again, announced, recognised, billing, shown>>
      BY <1>18 DEF Pay!SendInvoice, Pay!KsefIssues, Pay!ReferenceMadeUp
    <3>2. issued \in [Codes -> Nat] /\ invented \in [Codes -> Nat]
      BY DEF PayTyped
    <3>3. issued' \in [Codes -> Nat]
      BY <3>1, <3>2
    <3>4. invented' \in [Codes -> Nat]
      BY <3>1, <3>2
    <3> QED
      BY <3>1, <3>3, <3>4 DEF PayTyped, Counted
  <2>3. QED
    BY <1>2, <2>1, <2>2
<1>19. ASSUME NEW h \in Handlers, Pay!MarkSent(h) PROVE PayTyped'
  <2>1. Running
    BY <1>7, <1>8, <1>19 DEF Pay!MarkSent, Pay!Goto, Places
  <2>2. QED
    BY <1>2, <1>4, <1>5, <1>19, <2>1 DEF Pay!MarkSent, Pay!Goto
<1>20. ASSUME NEW h \in Handlers, Pay!Announce(h) PROVE PayTyped'
  <2>1. Counted
    BY <1>20 DEF Pay!Announce, PayTyped, Counted
  <2>2. QED
    BY <1>2, <1>6, <1>20, <2>1 DEF Pay!Announce
<1>21. ASSUME NEW h \in Handlers, Pay!CrmWrites(h) PROVE PayTyped'
  <2>1. Counted
    BY <1>21 DEF Pay!CrmWrites, Pay!ListAfter, PayTyped, Counted
  <2>2. QED
    BY <1>2, <1>6, <1>21, <2>1 DEF Pay!CrmWrites
<1>22. ASSUME NEW h \in Handlers, Pay!Throws(h) PROVE PayTyped'
  BY <1>2, <1>5, <1>6, <1>22 DEF Pay!Throws
<1>23. CASE Pay!ClosePeriod \/ UNCHANGED Pay!vars
  BY <1>2, <1>3, <1>4, <1>5, <1>23 DEF Pay!ClosePeriod, Pay!vars
<1> QED
  BY <1>9, <1>10, <1>11, <1>12, <1>13, <1>14, <1>15, <1>16, <1>17, <1>18, <1>19, <1>20, <1>21,
     <1>22, <1>23 DEF Pay!Next, Pay!Step

\* What tax-legal takes for an invoice is one more, whoever made its reference.
LEMMA InvoiceCounted ==
  ASSUME PayTyped, NEW h \in Handlers, Pay!SendInvoice(h)
  PROVE  /\ of[h] \in Codes /\ invoiced' = [invoiced EXCEPT ![of[h]] = @ + 1]
         /\ \/ Pay!Ends(h)
            \/ at' = [at EXCEPT ![h] = "mark"] /\ UNCHANGED <<of, row, news, copy>>
<1>1. of[h] \in Codes
  BY DEF Pay!SendInvoice, PayTyped
<1>2. /\ \/ issued' = [issued EXCEPT ![of[h]] = @ + 1] /\ UNCHANGED invented
         \/ invented' = [invented EXCEPT ![of[h]] = @ + 1] /\ UNCHANGED issued
      /\ Pay!Ends(h) \/ Pay!Goto(h, "mark")
  BY DEF Pay!SendInvoice, Pay!KsefIssues, Pay!ReferenceMadeUp, Pay!AfterSend
<1>3. \A m \in Codes : issued[m] \in Nat /\ invented[m] \in Nat
  BY DEF PayTyped
<1>4. \A m \in Codes : invoiced'[m] = IF m = of[h] THEN invoiced[m] + 1 ELSE invoiced[m]
  BY <1>1, <1>2, <1>3 DEF PayTyped, invoiced
<1>5. invoiced' = [invoiced EXCEPT ![of[h]] = @ + 1]
  BY <1>1, <1>4 DEF invoiced
<1> QED
  BY <1>1, <1>2, <1>5 DEF Pay!Goto

LEMMA OneMoves ==
  ASSUME PayTyped, [Pay!Next]_(Pay!vars)
  PROVE  \/ UNCHANGED <<at, of>>
         \/ \E h \in Handlers : \A g \in Handlers : g # h => UNCHANGED <<at[g], of[g]>>
<1> DEFINE Moves(h) == \A g \in Handlers : g # h => UNCHANGED <<at[g], of[g]>>
<1>1. ASSUME NEW h \in Handlers, Pay!Ends(h) PROVE Moves(h)
  BY <1>1, HandlerEnds
<1>2. ASSUME NEW h \in Handlers, \E p \in Places : at' = [at EXCEPT ![h] = p],
             UNCHANGED of \/ \E m \in Codes : of' = [of EXCEPT ![h] = m]
      PROVE  Moves(h)
  BY <1>2 DEF PayTyped
<1> HIDE DEF Moves
<1>3. ASSUME NEW h \in Handlers, Pay!Step(h) PROVE UNCHANGED <<at, of>> \/ Moves(h)
  <2>1. ASSUME NEW m \in Codes, Pay!InvoiceSent(h, m) PROVE UNCHANGED <<at, of>> \/ Moves(h)
    <3>1. \/ UNCHANGED <<at, of>>
          \/ at' = [at EXCEPT ![h] = "invoice"] /\ of' = [of EXCEPT ![h] = m]
      BY <2>1 DEF Pay!InvoiceSent, Pay!Begins
    <3>2. QED
      BY <1>2, <3>1 DEF Places
  <2>2. ASSUME NEW m \in Codes, Pay!BeginInvoice(h, m) PROVE Moves(h)
    BY <1>2, <2>2 DEF Pay!BeginInvoice, Pay!Begins, Places
  <2>3. ASSUME NEW kind \in Pay!Kinds, NEW m \in Codes, Pay!CrmReceives(h, kind, m) PROVE Moves(h)
    BY <1>2, <2>3 DEF Pay!CrmReceives, Pay!Begins, Places
  <2>4. CASE Pay!SendInvoice(h)
    <3>1. (at' = [at EXCEPT ![h] = "mark"] /\ UNCHANGED of) \/ Pay!Ends(h)
      BY <2>4 DEF Pay!SendInvoice, Pay!KsefIssues, Pay!ReferenceMadeUp, Pay!Goto, Pay!AfterSend
    <3>2. QED
      BY <1>1, <1>2, <3>1 DEF Places
  <2>5. CASE Pay!MarkInvoiced(h) \/ Pay!CreateDraft(h) \/ Pay!MarkSent(h)
    <3>1. \E p \in Places : at' = [at EXCEPT ![h] = p] /\ UNCHANGED of
      BY <2>5 DEF Pay!MarkInvoiced, Pay!CreateDraft, Pay!MarkSent, Pay!Goto, Places
    <3>2. QED
      BY <1>2, <3>1
  <2>6. CASE Pay!Recognise(h) \/ Pay!Announce(h) \/ Pay!CrmWrites(h)
    BY <1>1, <2>6 DEF Pay!Recognise, Pay!Announce, Pay!CrmWrites
  <2>7. QED
    BY <1>3, <2>1, <2>2, <2>3, <2>4, <2>5, <2>6 DEF Pay!Step
<1>4. ASSUME NEW h \in Handlers, Pay!Throws(h) PROVE Moves(h)
  BY <1>1, <1>4 DEF Pay!Throws
<1>5. UNCHANGED <<at, of>> \/ \E h \in Handlers : Moves(h)
  BY <1>3, <1>4 DEF Pay!Next, Pay!vars, Pay!handlerVars, Pay!Lose, Pay!Repeat, Pay!Reach,
     Pay!MilestoneReached, Pay!ClosePeriod
<1> QED
  BY <1>5 DEF Moves

LEMMA FewRunStep ==
  ASSUME PayTyped, FewRun, [Pay!Next]_(Pay!vars) PROVE FewRun'
<1> DEFINE Busies == {h \in Handlers : at[h] # "idle"}
<1>1. IsFiniteSet(Busies)
  BY DEF FewRun
<1>2. CASE UNCHANGED at
  BY <1>1, <1>2 DEF FewRun
<1>3. ASSUME NEW h \in Handlers, \A g \in Handlers : g # h => UNCHANGED at[g] PROVE FewRun'
  <2>1. Busies' \subseteq Busies \cup {h}
    BY <1>3
  <2>2. IsFiniteSet(Busies \cup {h})
    BY <1>1, FS_AddElement
  <2>3. IsFiniteSet(Busies')
    BY <2>1, <2>2, FS_Subset
  <2>4. QED
    BY <2>3 DEF FewRun
<1> QED
  BY <1>2, <1>3, OneMoves

\* What happened has happened for good.
LEMMA CausesStay ==
  ASSUME PayTyped, [Pay!Next]_(Pay!vars)
  PROVE  \A m \in Codes : /\ commands[m] <= commands'[m] /\ invoiced[m] <= invoiced'[m]
                          /\ recognised[m] <= recognised'[m]
<1> USE DEF Pay!counts, Pay!books, Pay!invoices
<1>1. \A m \in Codes : commands[m] \in Nat /\ invoiced[m] \in Nat /\ recognised[m] \in Nat
  BY DEF PayTyped
<1>2. \/ UNCHANGED commands
      \/ \E n \in Codes : commands' = [commands EXCEPT ![n] = @ + 1]
  BY DEF Pay!Next, Pay!Step, Pay!vars, Pay!Lose, Pay!Repeat, Pay!Reach, Pay!MilestoneReached,
     Pay!Throws, Pay!ClosePeriod, Pay!InvoiceSent, Pay!BeginInvoice, Pay!CrmReceives,
     Pay!MarkInvoiced, Pay!Recognise, Pay!CreateDraft, Pay!SendInvoice, Pay!MarkSent,
     Pay!Announce, Pay!CrmWrites
<1>3. UNCHANGED invoiced \/ \E n : invoiced' = [invoiced EXCEPT ![n] = @ + 1]
  BY InvoiceCounted DEF invoiced, Pay!Next, Pay!Step, Pay!vars, Pay!Lose, Pay!Repeat, Pay!Reach, Pay!MilestoneReached,
     Pay!Throws, Pay!ClosePeriod, Pay!InvoiceSent, Pay!BeginInvoice, Pay!CrmReceives,
     Pay!MarkInvoiced, Pay!Recognise, Pay!CreateDraft, Pay!SendInvoice, Pay!MarkSent,
     Pay!Announce, Pay!CrmWrites
<1>4. UNCHANGED recognised \/ \E n : recognised' = [recognised EXCEPT ![n] = @ + 1]
  BY DEF Pay!Next, Pay!Step, Pay!vars, Pay!Lose, Pay!Repeat, Pay!Reach, Pay!MilestoneReached,
     Pay!Throws, Pay!ClosePeriod, Pay!InvoiceSent, Pay!BeginInvoice, Pay!CrmReceives,
     Pay!MarkInvoiced, Pay!Recognise, Pay!RevenueBooked, Pay!CreateDraft, Pay!SendInvoice,
     Pay!MarkSent, Pay!Announce, Pay!CrmWrites
<1>5. \A m \in Codes : commands[m] <= commands'[m]
  BY <1>1, <1>2 DEF PayTyped
<1>6. \A m \in Codes : invoiced[m] <= invoiced'[m]
  BY <1>1, <1>3 DEF PayTyped
<1>7. \A m \in Codes : recognised[m] <= recognised'[m]
  BY <1>1, <1>4 DEF PayTyped
<1> QED
  BY <1>5, <1>6, <1>7

\* What is said anew has its cause by then; what was said before keeps its own.
LEMMA ToldOfKept ==
  ASSUME PayTyped, ToldOf, [Pay!Next]_(Pay!vars),
         \A m \in Codes : /\ UNCHANGED billing[m] \/ Cause(m, billing[m])'
                          /\ UNCHANGED shown[m] \/ Cause(m, shown[m])',
         \A l \in Pay!Letters : mail'[l] > mail[l] => Cause(l[3], Pay!StatusOf(l[2]))',
         \A h \in Handlers :
           /\ UNCHANGED copy[h] \/ \A m \in Codes : Cause(m, copy[h][m])'
           /\ at'[h] = "write" => UNCHANGED <<at[h], of[h], news[h]>> \/ Cause(of[h], news[h])'
           /\ at'[h] \in {"mark", "announce", "invoice", "recognise"} =>
                \/ of'[h] = of[h] /\ at[h] \in {"mark", "announce", "invoice", "recognise"}
                \/ invoiced'[of'[h]] > 0
  PROVE  ToldOf'
<1>1. \A m \in Codes : /\ commands[m] \in Nat /\ invoiced[m] \in Nat /\ recognised[m] \in Nat
                       /\ commands'[m] \in Nat /\ invoiced'[m] \in Nat /\ recognised'[m] \in Nat
  BY PayTypedStep DEF PayTyped
<1>2. ASSUME NEW m \in Codes, NEW state, Cause(m, state) PROVE Cause(m, state)'
  BY <1>1, <1>2, CausesStay DEF Cause
<1>3. \A m \in Codes : Cause(m, billing[m]) => Cause(m, billing[m])' \/ ~ UNCHANGED billing[m]
  BY <1>2 DEF Cause
<1>4. \A m \in Codes : Cause(m, shown[m]) => Cause(m, shown[m])' \/ ~ UNCHANGED shown[m]
  BY <1>2 DEF Cause
<1>5. \A m \in Codes : Cause(m, billing[m])' /\ Cause(m, shown[m])'
  BY <1>3, <1>4 DEF ToldOf
<1>6. \A l \in Pay!Letters : mail'[l] > 0 => Cause(l[3], Pay!StatusOf(l[2]))'
  <2> SUFFICES ASSUME NEW l \in Pay!Letters, mail'[l] > 0, ~ (mail'[l] > mail[l])
               PROVE  Cause(l[3], Pay!StatusOf(l[2]))'
    OBVIOUS
  <2>1. mail[l] \in Nat /\ mail'[l] \in Nat /\ l[3] \in Codes
    BY PayTypedStep, PayLetters DEF PayTyped
  <2>2. Cause(l[3], Pay!StatusOf(l[2]))
    BY <2>1 DEF ToldOf
  <2>3. QED
    BY <1>2, <2>1, <2>2
<1>7. ASSUME NEW h \in Handlers, NEW m \in Codes PROVE Cause(m, copy[h][m])'
  <2>1. Cause(m, copy[h][m])
    BY DEF ToldOf
  <2>2. CASE UNCHANGED copy[h]
    BY <1>2, <2>1, <2>2 DEF Cause
  <2>3. QED
    BY <2>2
<1>8. ASSUME NEW h \in Handlers, at'[h] = "write" PROVE Cause(of[h], news[h])'
  <2>1. CASE UNCHANGED <<at[h], of[h], news[h]>>
    <3>1. Cause(of[h], news[h]) /\ of[h] \in Codes
      BY <1>8, <2>1 DEF ToldOf, PayTyped
    <3>2. QED
      BY <1>2, <2>1, <3>1 DEF Cause
  <2>2. QED
    BY <1>8, <2>1
<1>9. ASSUME NEW h \in Handlers, at'[h] \in {"mark", "announce", "invoice", "recognise"}
      PROVE  invoiced'[of'[h]] > 0
  <2>1. CASE of'[h] = of[h] /\ at[h] \in {"mark", "announce", "invoice", "recognise"}
    <3>1. invoiced[of[h]] > 0 /\ of[h] \in Codes
      BY <2>1 DEF ToldOf, PayTyped
    <3>2. QED
      BY <1>1, <2>1, <3>1, CausesStay
  <2>2. QED
    BY <1>9, <2>1
<1> QED
  BY <1>5, <1>6, <1>7, <1>8, <1>9 DEF ToldOf

LEMMA ToldOfStep ==
  ASSUME PayTyped, ToldOf, Accounts, FewRun, [Pay!Next]_(Pay!vars) PROVE ToldOf'
<1> USE DEF Pay!counts, Pay!books, Pay!invoices, Pay!handlerVars
<1>0. UNCHANGED <<issued, invented>> => UNCHANGED invoiced
  BY DEF invoiced
<1> USE <1>0
<1> DEFINE Far == {"mark", "announce", "invoice", "recognise"}
           BooksTold == \A m \in Codes : /\ UNCHANGED billing[m] \/ Cause(m, billing[m])'
                                         /\ UNCHANGED shown[m] \/ Cause(m, shown[m])'
           MailTold == \A l \in Pay!Letters : mail'[l] > mail[l] => Cause(l[3], Pay!StatusOf(l[2]))'
           HandlersTold ==
             \A h \in Handlers :
               /\ UNCHANGED copy[h] \/ \A m \in Codes : Cause(m, copy[h][m])'
               /\ at'[h] = "write" => UNCHANGED <<at[h], of[h], news[h]>> \/ Cause(of[h], news[h])'
               /\ at'[h] \in Far => \/ of'[h] = of[h] /\ at[h] \in Far
                                    \/ invoiced'[of'[h]] > 0
<1>1. BooksTold /\ MailTold /\ HandlersTold => ToldOf'
  BY ToldOfKept
<1>2. \A m \in Codes : /\ commands[m] \in Nat /\ invoiced[m] \in Nat /\ recognised[m] \in Nat
                       /\ commands'[m] \in Nat /\ invoiced'[m] \in Nat /\ recognised'[m] \in Nat
  BY PayTypedStep DEF PayTyped
<1>3. \A l \in Pay!Letters : mail[l] \in Nat
  BY DEF PayTyped
<1>4. ASSUME UNCHANGED <<billing, shown>> PROVE BooksTold
  BY <1>4
<1>5. ASSUME UNCHANGED mail PROVE MailTold
  BY <1>3, <1>5
<1>6. ASSUME NEW l \in Pay!Letters, mail[l] > 0, mail' = Pay!Less(l) PROVE MailTold
  BY <1>3, <1>6, LessMail
<1>7. ASSUME NEW kind \in Pay!Kinds, NEW m \in Codes, mail' = Pay!Posted(kind, m),
             Cause(m, Pay!StatusOf(kind))'
      PROVE  MailTold
  BY <1>7, MorePosted
<1>8. ASSUME UNCHANGED <<at, of, news, copy>> PROVE HandlersTold
  BY <1>8
<1>9. ASSUME NEW h \in Handlers, Pay!Ends(h) PROVE HandlersTold
  <2>1. /\ at'[h] = "idle" /\ copy'[h] = Pay!Nothing
        /\ \A g \in Handlers : g # h => UNCHANGED <<at[g], of[g], news[g], copy[g]>>
    BY <1>9, HandlerEnds
  <2>2. \A m \in Codes : Cause(m, copy[h][m])'
    BY <2>1 DEF Cause, Pay!Nothing
  <2>3. QED
    BY <2>1, <2>2
<1>10. ASSUME NEW h \in Handlers, NEW p \in Places \ {"write"}, at' = [at EXCEPT ![h] = p],
              UNCHANGED <<news, copy>>,
              NEW m \in Codes, of' = [of EXCEPT ![h] = m] \/ (of' = of /\ of[h] = m),
              p \in Far => invoiced'[m] > 0
       PROVE  HandlersTold
  <2>1. at'[h] = p /\ of'[h] = m /\ \A g \in Handlers : g # h => UNCHANGED <<at[g], of[g]>>
    BY <1>10, HandlerMoves
  <2>2. QED
    BY <1>10, <2>1
<1> HIDE DEF BooksTold, MailTold, HandlersTold
<1>11. ASSUME NEW l \in Pay!Letters, Pay!Lose(l) PROVE ToldOf'
  BY <1>1, <1>4, <1>6, <1>8, <1>11 DEF Pay!Lose
<1>12. \A m \in Codes : announced[m] > 0 => invoiced[m] > 0
  <2> SUFFICES ASSUME NEW m \in Codes PROVE announced[m] > 0 => invoiced[m] > 0
    OBVIOUS
  <2>1. IsFiniteSet(Announcing(m))
    <3>1. Announcing(m) \subseteq {h \in Handlers : at[h] # "idle"}
      BY DEF Announcing
    <3>2. QED
      BY <3>1, FS_Subset DEF FewRun
  <2>2. Cardinality(Announcing(m)) \in Nat
    BY <2>1, FS_CardinalityType
  <2>3. announced[m] + Cardinality(Announcing(m)) <= invoiced[m] /\ announced[m] \in Nat
    BY DEF Accounts, PayTyped
  <2>4. QED
    BY <1>2, <2>2, <2>3
<1>13. ASSUME NEW kind \in Pay!Kinds, NEW m \in Codes, Pay!Repeat(kind, m) PROVE ToldOf'
  <2>1. /\ Pay!Rows(kind)[m] > 0 /\ mail' = Pay!Posted(kind, m)
        /\ UNCHANGED <<commands, billing, invoiced, announced, recognised, shown, at, of, news, copy>>
    BY <1>13 DEF Pay!Repeat, Pay!Fault
  <2>2. Cause(m, Pay!StatusOf(kind))'
    BY <1>12, <2>1 DEF Cause, Pay!StatusOf, Pay!Rows, Pay!Kinds
  <2>3. QED
    BY <1>1, <1>4, <1>7, <1>8, <2>1, <2>2
<1>14. ASSUME NEW m \in Codes, Pay!Reach(m) PROVE ToldOf'
  <2>1. /\ commands' = [commands EXCEPT ![m] = @ + 1] /\ mail' = Pay!Posted("reached", m)
        /\ UNCHANGED <<billing, shown, at, of, news, copy>>
    BY <1>14 DEF Pay!Reach
  <2>2. Cause(m, Pay!StatusOf("reached"))'
    BY <1>2, <2>1 DEF Cause, Pay!StatusOf, PayTyped
  <2>3. QED
    BY <1>1, <1>4, <1>7, <1>8, <2>1, <2>2 DEF Pay!Kinds
<1>15. ASSUME NEW m \in Codes, Pay!MilestoneReached(m) PROVE ToldOf'
  <2> DEFINE l == <<"finance", "reached", m>>
  <2>1. /\ mail[l] > 0 /\ billing' = [billing EXCEPT ![m] = "READY"]
        /\ mail' = Pay!Less(l) \/ mail' = Pay!PostedAfter(l, "reached", m)
        /\ UNCHANGED <<commands, shown, at, of, news, copy>>
    BY <1>15 DEF Pay!MilestoneReached
  <2>2. l \in Pay!Letters
    BY PayLetters DEF Pay!Audience, Pay!Kinds
  <2>3. Cause(m, "READY") /\ commands[m] > 0
    <3>1. Cause(l[3], Pay!StatusOf(l[2]))
      BY <2>1, <2>2 DEF ToldOf
    <3>2. QED
      BY <3>1 DEF Pay!StatusOf, Cause
  <2>4. Cause(m, "READY")'
    BY <2>1, <2>3 DEF Cause
  <2>5. BooksTold
    <3>1. billing'[m] = "READY" /\ \A n \in Codes : n # m => billing'[n] = billing[n]
      BY <2>1 DEF PayTyped
    <3>2. Cause(m, billing[m])'
      BY <2>4, <3>1 DEF Cause
    <3>3. QED
      BY <2>1, <3>1, <3>2 DEF BooksTold
  <2>6. MailTold
    <3>1. CASE mail' = Pay!Less(l)
      BY <1>6, <2>1, <2>2, <3>1
    <3>2. CASE mail' = Pay!PostedAfter(l, "reached", m)
      <4>1. \A k \in Pay!Letters : mail'[k] = Pay!Posted("reached", m)[k] \/ k = l
        BY <3>2, MorePosted DEF Pay!PostedAfter, Pay!Kinds
      <4>2. \A k \in Pay!Letters : mail'[k] > mail[k] => k[2] = "reached" /\ k[3] = m
        BY <4>1, MorePosted DEF Pay!Kinds
      <4>3. QED
        BY <2>4, <4>2 DEF MailTold, Pay!StatusOf
    <3>3. QED
      BY <2>1, <3>1, <3>2
  <2>7. QED
    BY <1>1, <1>8, <2>1, <2>5, <2>6
<1>16. ASSUME NEW h \in Handlers, NEW m \in Codes, Pay!InvoiceSent(h, m) PROVE ToldOf'
  <2> DEFINE l == <<"finance", "sent", m>>
  <2>1. l \in Pay!Letters
    BY PayLetters DEF Sent
  <2>2. /\ mail[l] > 0 /\ mail' = Pay!Less(l) /\ UNCHANGED <<invoiced, billing, shown, news, copy>>
        /\ \/ UNCHANGED <<at, of>>
           \/ at' = [at EXCEPT ![h] = "invoice"] /\ of' = [of EXCEPT ![h] = m]
    BY <1>16 DEF Pay!InvoiceSent, Pay!Begins
  <2>3. invoiced'[m] > 0
    <3>1. Cause(l[3], Pay!StatusOf(l[2]))
      BY <2>1, <2>2 DEF ToldOf
    <3>2. QED
      BY <2>2, <3>1 DEF Pay!StatusOf, Cause
  <2>4. HandlersTold
    BY <1>8, <1>10, <2>2, <2>3 DEF Places
  <2>5. QED
    BY <1>1, <1>4, <1>6, <2>1, <2>2, <2>4
<1>17. ASSUME NEW h \in Handlers, NEW m \in Codes, Pay!BeginInvoice(h, m) PROVE ToldOf'
  <2>1. <<"tax", "reached", m>> \in Pay!Letters
    BY PayLetters DEF Pay!Audience, Pay!Kinds
  <2>2. at' = [at EXCEPT ![h] = "draft"] /\ of' = [of EXCEPT ![h] = m] /\ UNCHANGED <<news, copy>>
    BY <1>17 DEF Pay!BeginInvoice, Pay!Begins
  <2>3. HandlersTold
    <3>1. "draft" \in Places \ {"write"} /\ "draft" \notin Far
      BY DEF Places
    <3>2. QED
      BY <1>10, <2>2, <3>1
  <2>4. QED
    BY <1>1, <1>4, <1>6, <1>17, <2>1, <2>3 DEF Pay!BeginInvoice, Pay!Begins
<1>18. ASSUME NEW h \in Handlers, NEW kind \in Pay!Kinds, NEW m \in Codes, Pay!CrmReceives(h, kind, m)
       PROVE  ToldOf'
  <2> DEFINE l == <<"crm", kind, m>>
  <2>1. l \in Pay!Letters
    BY PayLetters DEF Pay!Audience, Pay!Kinds
  <2>2. /\ mail[l] > 0 /\ mail' = Pay!Less(l)
        /\ at' = [at EXCEPT ![h] = "write"] /\ of' = [of EXCEPT ![h] = m]
        /\ news' = [news EXCEPT ![h] = Pay!StatusOf(kind)] /\ copy' = [copy EXCEPT ![h] = shown]
        /\ UNCHANGED <<commands, invoiced, recognised, billing, shown>>
    BY <1>18 DEF Pay!CrmReceives, Pay!Begins
  <2>3. /\ at'[h] = "write" /\ of'[h] = m /\ news'[h] = Pay!StatusOf(kind) /\ copy'[h] = shown
        /\ \A g \in Handlers : g # h => UNCHANGED <<at[g], of[g], news[g], copy[g]>>
    BY <2>2 DEF PayTyped
  <2>4. Cause(of[h], news[h])'
    <3>1. Cause(l[3], Pay!StatusOf(l[2]))
      BY <2>1, <2>2 DEF ToldOf
    <3>2. QED
      BY <2>2, <2>3, <3>1 DEF Cause
  <2>5. \A n \in Codes : Cause(n, copy[h][n])'
    BY <2>2, <2>3 DEF ToldOf, Cause
  <2>6. HandlersTold
    BY <2>3, <2>4, <2>5 DEF HandlersTold
  <2>7. QED
    BY <1>1, <1>4, <1>6, <2>1, <2>2, <2>6
<1>19. ASSUME NEW h \in Handlers, Pay!MarkInvoiced(h) PROVE ToldOf'
  <2>1. of[h] \in Codes /\ invoiced[of[h]] > 0
    BY <1>19 DEF Pay!MarkInvoiced, PayTyped, ToldOf
  <2>2. HandlersTold
    BY <1>10, <1>19, <2>1 DEF Pay!MarkInvoiced, Pay!Goto, Places
  <2>3. BooksTold
    <3>1. /\ billing'[of[h]] \in {"none", "INVOICED"}
          /\ \A n \in Codes : n # of[h] => billing'[n] = billing[n]
          /\ UNCHANGED <<invoiced, shown>>
      BY <1>19, <2>1 DEF Pay!MarkInvoiced, Pay!Mark, PayTyped
    <3>2. \A n \in Codes : n = of[h] => Cause(n, billing[n])'
      BY <2>1, <3>1 DEF Cause
    <3>3. QED
      BY <3>1, <3>2 DEF BooksTold
  <2>4. QED
    BY <1>1, <1>5, <1>19, <2>2, <2>3 DEF Pay!MarkInvoiced
<1>20. ASSUME NEW h \in Handlers, Pay!Recognise(h) PROVE ToldOf'
  <2>1. PICK m \in Codes : of[h] = m
    BY <1>20 DEF Pay!Recognise, PayTyped
  <2>2. /\ recognised' = [recognised EXCEPT ![m] = @ + 1] /\ mail' = Pay!Posted("recognized", m)
        /\ billing' = [billing EXCEPT ![m] = IF @ = "none" THEN @ ELSE "RECOGNIZED"]
        /\ Pay!Ends(h) /\ UNCHANGED shown
    BY <1>20, <2>1 DEF Pay!Recognise, Pay!RevenueBooked, Pay!Mark
  <2>3. recognised'[m] > 0
    BY <1>2, <2>1, <2>2 DEF PayTyped
  <2>4. Cause(m, Pay!StatusOf("recognized"))'
    BY <2>3 DEF Cause, Pay!StatusOf
  <2>5. BooksTold
    <3>1. /\ billing'[m] \in {"none", "RECOGNIZED"}
          /\ \A n \in Codes : n # m => billing'[n] = billing[n]
      BY <2>1, <2>2 DEF PayTyped
    <3>2. \A n \in Codes : n = m => Cause(n, billing[n])'
      BY <2>3, <3>1 DEF Cause
    <3>3. QED
      BY <2>2, <3>1, <3>2 DEF BooksTold
  <2>6. QED
    BY <1>1, <1>7, <1>9, <2>1, <2>2, <2>4, <2>5 DEF Pay!Kinds
<1>21. ASSUME NEW h \in Handlers, Pay!CreateDraft(h) PROVE ToldOf'
  <2>1. of[h] \in Codes
    BY <1>21 DEF Pay!CreateDraft, PayTyped
  <2>2. at' = [at EXCEPT ![h] = "send"] /\ UNCHANGED <<of, news, copy>>
    BY <1>21 DEF Pay!CreateDraft
  <2>3. HandlersTold
    <3>1. "send" \in Places \ {"write"} /\ "send" \notin Far
      BY DEF Places
    <3>2. QED
      BY <1>10, <2>1, <2>2, <3>1
  <2>4. QED
    BY <1>1, <1>4, <1>5, <1>21, <2>3 DEF Pay!CreateDraft
<1>22. ASSUME NEW h \in Handlers, Pay!SendInvoice(h) PROVE ToldOf'
  <2>1. of[h] \in Codes
    BY <1>22, InvoiceCounted
  <2>2. /\ invoiced' = [invoiced EXCEPT ![of[h]] = @ + 1] /\ UNCHANGED <<mail, billing, shown>>
        /\ \/ Pay!Ends(h)
           \/ at' = [at EXCEPT ![h] = "mark"] /\ UNCHANGED <<of, news, copy>>
    BY <1>22, InvoiceCounted DEF Pay!SendInvoice
  <2>3. invoiced'[of[h]] > 0
    BY <1>2, <2>1, <2>2 DEF PayTyped
  <2>4. HandlersTold
    BY <1>9, <1>10, <2>1, <2>2, <2>3 DEF Places
  <2>5. QED
    BY <1>1, <1>4, <1>5, <2>2, <2>4
<1>23. ASSUME NEW h \in Handlers, Pay!MarkSent(h) PROVE ToldOf'
  <2>1. of[h] \in Codes /\ invoiced[of[h]] > 0
    BY <1>23 DEF Pay!MarkSent, PayTyped, ToldOf
  <2>2. HandlersTold
    BY <1>10, <1>23, <2>1 DEF Pay!MarkSent, Pay!Goto, Places
  <2>3. QED
    BY <1>1, <1>4, <1>5, <1>23, <2>2 DEF Pay!MarkSent
<1>24. ASSUME NEW h \in Handlers, Pay!Announce(h) PROVE ToldOf'
  <2>1. PICK m \in Codes : of[h] = m /\ invoiced[m] > 0
    BY <1>24 DEF Pay!Announce, PayTyped, ToldOf
  <2>2. /\ mail' = Pay!Posted("sent", m) \/ UNCHANGED mail
        /\ Pay!Ends(h) /\ UNCHANGED <<invoiced, billing, shown>>
    BY <1>24, <2>1 DEF Pay!Announce
  <2>3. Cause(m, Pay!StatusOf("sent"))'
    BY <2>1, <2>2 DEF Cause, Pay!StatusOf
  <2>4. QED
    BY <1>1, <1>4, <1>5, <1>7, <1>9, <2>1, <2>2, <2>3 DEF Pay!Kinds
<1>25. ASSUME NEW h \in Handlers, Pay!CrmWrites(h) PROVE ToldOf'
  <2>1. /\ at[h] = "write" /\ shown' = [copy[h] EXCEPT ![of[h]] = news[h]] /\ Pay!Ends(h)
        /\ UNCHANGED <<mail, commands, invoiced, recognised, billing>>
    BY <1>25 DEF Pay!CrmWrites, Pay!ListAfter
  <2>2. copy[h] \in [Codes -> Pay!Statuses] /\ Cause(of[h], news[h]) /\ \A m \in Codes : Cause(m, copy[h][m])
    BY <2>1 DEF PayTyped, ToldOf
  <2>3. \A m \in Codes : Cause(m, shown[m])'
    BY <2>1, <2>2 DEF Cause
  <2>4. BooksTold
    BY <2>1, <2>3 DEF BooksTold
  <2>5. QED
    BY <1>1, <1>5, <1>9, <2>1, <2>4
<1>26. ASSUME NEW h \in Handlers, Pay!Throws(h) PROVE ToldOf'
  BY <1>1, <1>4, <1>5, <1>9, <1>26 DEF Pay!Throws
<1>27. CASE Pay!ClosePeriod \/ UNCHANGED Pay!vars
  BY <1>1, <1>4, <1>5, <1>8, <1>27 DEF Pay!ClosePeriod, Pay!vars
<1> QED
  BY <1>11, <1>13, <1>14, <1>15, <1>16, <1>17, <1>18, <1>19, <1>20, <1>21, <1>22, <1>23, <1>24,
     <1>25, <1>26, <1>27 DEF Pay!Next, Pay!Step

\* Two finite sets that differ by one element at most.
LEMMA OneApart ==
  ASSUME NEW S, NEW T, NEW x, IsFiniteSet(S), IsFiniteSet(T), S \ {x} = T \ {x}
  PROVE  /\ Cardinality(S) \in Nat /\ Cardinality(T) \in Nat
         /\ Cardinality(T) + (IF x \in S THEN 1 ELSE 0) = Cardinality(S) + (IF x \in T THEN 1 ELSE 0)
<1>1. Cardinality(S) \in Nat /\ Cardinality(T) \in Nat
  BY FS_CardinalityType
<1>2. Cardinality(S \ {x}) = IF x \in S THEN Cardinality(S) - 1 ELSE Cardinality(S)
  BY FS_RemoveElement
<1>3. Cardinality(T \ {x}) = IF x \in T THEN Cardinality(T) - 1 ELSE Cardinality(T)
  BY FS_RemoveElement
<1> QED
  BY <1>1, <1>2, <1>3

LEMMA FewAnnounce ==
  ASSUME FewRun, NEW m
  PROVE  /\ IsFiniteSet(Announcing(m)) /\ IsFiniteSet(Booking(m))
         /\ Cardinality(Announcing(m)) \in Nat /\ Cardinality(Booking(m)) \in Nat
<1> DEFINE Busies == {h \in Handlers : at[h] # "idle"}
<1>1. IsFiniteSet(Busies)
  BY DEF FewRun
<1>2. Announcing(m) \subseteq Busies /\ Booking(m) \subseteq Busies
  BY DEF Announcing, Booking
<1>3. IsFiniteSet(Announcing(m)) /\ IsFiniteSet(Booking(m))
  BY <1>1, <1>2, FS_Subset
<1> QED
  BY <1>3, FS_CardinalityType

\* Does this handler stand between the invoice of m and its announcement; between the
\* announcement and the revenue?
ToAnnounce(h, m) == IF of[h] = m /\ at[h] \in {"mark", "announce"} THEN 1 ELSE 0
ToBook(h, m) == IF of[h] = m /\ at[h] \in {"invoice", "recognise"} THEN 1 ELSE 0

\* The accounts hold after a step of one handler when they hold for what it adds and
\* takes away.
LEMMA AccountsMove ==
  ASSUME PayTyped, FewRun, Accounts, [Pay!Next]_(Pay!vars), NEW h \in Handlers,
         \A g \in Handlers : g # h => UNCHANGED <<at[g], of[g]>>,
         \A m \in Codes :
           /\ announced'[m] + ToAnnounce(h, m)' + invoiced[m] <= invoiced'[m] + announced[m] + ToAnnounce(h, m)
           /\ recognised'[m] + ToBook(h, m)' + mail'[Sent(m)] + announced[m] + again["sent"][m]
                <= announced'[m] + again'["sent"][m] + recognised[m] + ToBook(h, m) + mail[Sent(m)]
  PROVE  Accounts'
<1>1. PayTyped' /\ FewRun'
  BY PayTypedStep, FewRunStep
<1> SUFFICES ASSUME NEW m \in Codes
             PROVE  /\ announced'[m] + Cardinality(Announcing(m)') <= invoiced'[m]
                    /\ recognised'[m] + Cardinality(Booking(m)') + mail'[Sent(m)]
                         <= announced'[m] + again'["sent"][m]
  BY DEF Accounts
<1>2. /\ IsFiniteSet(Announcing(m)) /\ IsFiniteSet(Booking(m))
      /\ IsFiniteSet(Announcing(m)') /\ IsFiniteSet(Booking(m)')
  <2> DEFINE Now == {g \in Handlers : at'[g] # "idle"}
  <2>1. IsFiniteSet(Now)
    BY <1>1 DEF FewRun
  <2>2. Announcing(m)' \subseteq Now /\ Booking(m)' \subseteq Now
    BY DEF Announcing, Booking
  <2>3. IsFiniteSet(Announcing(m)') /\ IsFiniteSet(Booking(m)')
    BY <2>1, <2>2, FS_Subset
  <2>4. QED
    BY <2>3, FewAnnounce
<1>3. Announcing(m) \ {h} = Announcing(m)' \ {h} /\ Booking(m) \ {h} = Booking(m)' \ {h}
  BY DEF Announcing, Booking
<1>4. /\ Cardinality(Announcing(m)) \in Nat /\ Cardinality(Announcing(m)') \in Nat
      /\ Cardinality(Announcing(m)') + ToAnnounce(h, m) = Cardinality(Announcing(m)) + ToAnnounce(h, m)'
  <2> DEFINE A == Announcing(m)
             B == Announcing(m)'
  <2>1. /\ ToAnnounce(h, m) = IF h \in A THEN 1 ELSE 0
        /\ ToAnnounce(h, m)' = IF h \in B THEN 1 ELSE 0
    BY DEF ToAnnounce, Announcing
  <2>2. IsFiniteSet(A) /\ IsFiniteSet(B) /\ A \ {h} = B \ {h}
    BY <1>2, <1>3
  <2> HIDE DEF A, B
  <2>3. /\ Cardinality(A) \in Nat /\ Cardinality(B) \in Nat
        /\ Cardinality(B) + ToAnnounce(h, m) = Cardinality(A) + ToAnnounce(h, m)'
    BY <2>1, <2>2, OneApart
  <2>4. QED
    BY <2>3 DEF A, B
<1>5. /\ Cardinality(Booking(m)) \in Nat /\ Cardinality(Booking(m)') \in Nat
      /\ Cardinality(Booking(m)') + ToBook(h, m) = Cardinality(Booking(m)) + ToBook(h, m)'
  <2> DEFINE A == Booking(m)
             B == Booking(m)'
  <2>1. /\ ToBook(h, m) = IF h \in A THEN 1 ELSE 0
        /\ ToBook(h, m)' = IF h \in B THEN 1 ELSE 0
    BY DEF ToBook, Booking
  <2>2. IsFiniteSet(A) /\ IsFiniteSet(B) /\ A \ {h} = B \ {h}
    BY <1>2, <1>3
  <2> HIDE DEF A, B
  <2>3. /\ Cardinality(A) \in Nat /\ Cardinality(B) \in Nat
        /\ Cardinality(B) + ToBook(h, m) = Cardinality(A) + ToBook(h, m)'
    BY <2>1, <2>2, OneApart
  <2>4. QED
    BY <2>3 DEF A, B
<1>6. /\ announced[m] + Cardinality(Announcing(m)) <= invoiced[m]
      /\ recognised[m] + Cardinality(Booking(m)) + mail[Sent(m)] <= announced[m] + again["sent"][m]
  BY DEF Accounts
<1>7. /\ announced[m] \in Nat /\ invoiced[m] \in Nat /\ recognised[m] \in Nat
      /\ mail[Sent(m)] \in Nat /\ again["sent"][m] \in Nat
      /\ announced'[m] \in Nat /\ invoiced'[m] \in Nat /\ recognised'[m] \in Nat
      /\ mail'[Sent(m)] \in Nat /\ again'["sent"][m] \in Nat
  BY <1>1, PayLetters DEF PayTyped, Pay!Kinds
<1>8. /\ ToAnnounce(h, m) \in Nat /\ ToAnnounce(h, m)' \in Nat
      /\ ToBook(h, m) \in Nat /\ ToBook(h, m)' \in Nat
  BY DEF ToAnnounce, ToBook
<1>9. /\ announced'[m] + ToAnnounce(h, m)' + invoiced[m] <= invoiced'[m] + announced[m] + ToAnnounce(h, m)
      /\ recognised'[m] + ToBook(h, m)' + mail'[Sent(m)] + announced[m] + again["sent"][m]
           <= announced'[m] + again'["sent"][m] + recognised[m] + ToBook(h, m) + mail[Sent(m)]
  OBVIOUS
<1>10. announced'[m] + Cardinality(Announcing(m)') <= invoiced'[m]
  BY <1>4, <1>6, <1>7, <1>8, <1>9
<1>11. recognised'[m] + Cardinality(Booking(m)') + mail'[Sent(m)] <= announced'[m] + again'["sent"][m]
  BY <1>5, <1>6, <1>7, <1>8, <1>9
<1> QED
  BY <1>10, <1>11

LEMMA AccountsStep ==
  ASSUME PayTyped, FewRun, Accounts, [Pay!Next]_(Pay!vars) PROVE Accounts'
<1> USE DEF Pay!counts, Pay!books, Pay!invoices, Pay!handlerVars
<1>0. UNCHANGED <<issued, invented>> => UNCHANGED invoiced
  BY DEF invoiced
<1> USE <1>0
<1>1. \A m \in Codes :
        /\ announced[m] \in Nat /\ invoiced[m] \in Nat /\ recognised[m] \in Nat
        /\ mail[Sent(m)] \in Nat /\ again["sent"][m] \in Nat
  BY PayLetters DEF PayTyped, Pay!Kinds
<1>2. \A m \in Codes : Sent(m) \in Pay!Letters
  BY PayLetters

\* Nobody moves, and no letter to finance is added but by a repetition that is counted.
<1>3. ASSUME UNCHANGED <<at, of, announced, invoiced, recognised>>,
             \A m \in Codes : /\ mail'[Sent(m)] \in Nat /\ again'["sent"][m] \in Nat
                              /\ mail'[Sent(m)] + again["sent"][m] <= mail[Sent(m)] + again'["sent"][m]
      PROVE  Accounts'
  <2>1. \A m \in Codes : Announcing(m)' = Announcing(m) /\ Booking(m)' = Booking(m)
    BY <1>3 DEF Announcing, Booking
  <2> SUFFICES ASSUME NEW m \in Codes
               PROVE  /\ announced[m] + Cardinality(Announcing(m)) <= invoiced[m]
                      /\ recognised[m] + Cardinality(Booking(m)) + mail'[Sent(m)]
                           <= announced[m] + again'["sent"][m]
    BY <1>3, <2>1 DEF Accounts
  <2>2. /\ announced[m] + Cardinality(Announcing(m)) <= invoiced[m]
        /\ recognised[m] + Cardinality(Booking(m)) + mail[Sent(m)] <= announced[m] + again["sent"][m]
        /\ Cardinality(Booking(m)) \in Nat
    BY FewAnnounce DEF Accounts
  <2>3. QED
    BY <1>1, <1>3, <2>2
<1>4. ASSUME NEW l \in Pay!Letters, Pay!Lose(l) PROVE Accounts'
  <2>1. UNCHANGED <<at, of, announced, invoiced, recognised, again>> /\ mail[l] > 0 /\ mail' = Pay!Less(l)
    BY <1>4 DEF Pay!Lose
  <2>2. \A m \in Codes : mail'[Sent(m)] \in Nat /\ mail'[Sent(m)] <= mail[Sent(m)]
    BY <1>1, <1>2, <2>1, LessMail
  <2>3. QED
    BY <1>1, <1>3, <2>1, <2>2
<1>5. ASSUME NEW kind \in Pay!Kinds, NEW m \in Codes, Pay!Repeat(kind, m) PROVE Accounts'
  <2>1. /\ UNCHANGED <<at, of, announced, invoiced, recognised>> /\ mail' = Pay!Posted(kind, m)
        /\ again' = [again EXCEPT ![kind][m] = @ + 1]
    BY <1>5 DEF Pay!Repeat
  <2>2. \A n \in Codes : mail'[Sent(n)] = IF kind = "sent" /\ n = m THEN mail[Sent(n)] + 1 ELSE mail[Sent(n)]
    BY <2>1, MorePosted
  <2>3. \A n \in Codes : again'["sent"][n] =
          IF kind = "sent" /\ n = m THEN again["sent"][n] + 1 ELSE again["sent"][n]
    BY <2>1 DEF PayTyped, Pay!Kinds
  <2>4. QED
    BY <1>1, <1>3, <2>1, <2>2, <2>3
<1>6. ASSUME NEW m \in Codes, Pay!Reach(m) PROVE Accounts'
  <2>1. /\ UNCHANGED <<at, of, announced, invoiced, recognised, again>>
        /\ mail' = Pay!Posted("reached", m)
    BY <1>6 DEF Pay!Reach
  <2>2. \A n \in Codes : mail'[Sent(n)] = mail[Sent(n)]
    BY <2>1, MorePosted DEF Pay!Kinds
  <2>3. QED
    BY <1>1, <1>3, <2>1, <2>2
<1>7. ASSUME NEW m \in Codes, Pay!MilestoneReached(m) PROVE Accounts'
  <2> DEFINE l == <<"finance", "reached", m>>
  <2>1. /\ UNCHANGED <<at, of, announced, invoiced, recognised, again>> /\ mail[l] > 0
        /\ mail' = Pay!Less(l) \/ mail' = Pay!PostedAfter(l, "reached", m)
    BY <1>7 DEF Pay!MilestoneReached
  <2>2. l \in Pay!Letters /\ \A n \in Codes : Sent(n) # l
    BY PayLetters DEF Pay!Audience, Pay!Kinds, Sent
  <2>3. \A n \in Codes : Pay!Less(l)[Sent(n)] = mail[Sent(n)]
    BY <1>2, <2>1, <2>2, LessMail
  <2>4. \A n \in Codes : Pay!PostedAfter(l, "reached", m)[Sent(n)] = mail[Sent(n)]
    BY <1>2, <2>2, MorePosted DEF Pay!PostedAfter, Pay!Kinds
  <2>5. QED
    BY <1>1, <1>3, <2>1, <2>3, <2>4
<1>8. CASE Pay!ClosePeriod \/ UNCHANGED Pay!vars
  <2>1. UNCHANGED <<at, of, announced, invoiced, recognised, again, mail>>
    BY <1>8 DEF Pay!ClosePeriod, Pay!vars
  <2>2. QED
    BY <1>1, <1>3, <2>1

\* A handler moves, and nothing that is counted changes but a letter that is taken.
<1>9. ASSUME NEW h \in Handlers, UNCHANGED <<announced, invoiced, recognised, again>>,
             \A g \in Handlers : g # h => UNCHANGED <<at[g], of[g]>>,
             \A m \in Codes : /\ ToAnnounce(h, m)' <= ToAnnounce(h, m)
                              /\ ToBook(h, m)' + mail'[Sent(m)] <= ToBook(h, m) + mail[Sent(m)]
      PROVE  Accounts'
  <2>1. \A m \in Codes : mail'[Sent(m)] \in Nat
    BY <1>2, MailTyped
  <2>2. \A m \in Codes : /\ ToAnnounce(h, m) \in {0, 1} /\ ToAnnounce(h, m)' \in {0, 1}
                         /\ ToBook(h, m) \in {0, 1} /\ ToBook(h, m)' \in {0, 1}
    BY DEF ToAnnounce, ToBook
  <2>3. \A m \in Codes :
          /\ announced'[m] + ToAnnounce(h, m)' + invoiced[m] <= invoiced'[m] + announced[m] + ToAnnounce(h, m)
          /\ recognised'[m] + ToBook(h, m)' + mail'[Sent(m)] + announced[m] + again["sent"][m]
               <= announced'[m] + again'["sent"][m] + recognised[m] + ToBook(h, m) + mail[Sent(m)]
    BY <1>1, <1>9, <2>1, <2>2
  <2>4. QED
    BY <1>9, <2>3, AccountsMove
<1>10. ASSUME NEW h \in Handlers, NEW m \in Codes, Pay!InvoiceSent(h, m) PROVE Accounts'
  <2>1. /\ UNCHANGED <<announced, invoiced, recognised, again>>
        /\ mail[Sent(m)] > 0 /\ mail' = Pay!Less(Sent(m))
        /\ \/ UNCHANGED <<at, of>>
           \/ at[h] = "idle" /\ at' = [at EXCEPT ![h] = "invoice"] /\ of' = [of EXCEPT ![h] = m]
    BY <1>10 DEF Pay!InvoiceSent, Pay!Begins, Sent
  <2>2. /\ mail'[Sent(m)] = mail[Sent(m)] - 1
        /\ \A n \in Codes : n # m => mail'[Sent(n)] = mail[Sent(n)]
    BY <1>2, <2>1, LessMail DEF Sent
  <2>3. CASE UNCHANGED <<at, of>>
    BY <1>1, <1>3, <2>1, <2>2, <2>3
  <2>4. CASE at[h] = "idle" /\ at' = [at EXCEPT ![h] = "invoice"] /\ of' = [of EXCEPT ![h] = m]
    <3>1. /\ at'[h] = "invoice" /\ of'[h] = m
          /\ \A g \in Handlers : g # h => UNCHANGED <<at[g], of[g]>>
      BY <2>4 DEF PayTyped
    <3>2. \A n \in Codes : /\ ToAnnounce(h, n)' = 0 /\ ToAnnounce(h, n) = 0 /\ ToBook(h, n) = 0
                           /\ ToBook(h, n)' = IF n = m THEN 1 ELSE 0
      BY <2>4, <3>1 DEF ToAnnounce, ToBook
    <3>3. \A n \in Codes : ToBook(h, n)' + mail'[Sent(n)] <= ToBook(h, n) + mail[Sent(n)]
      BY <1>1, <2>2, <3>2
    <3>4. QED
      BY <1>9, <2>1, <3>1, <3>2, <3>3
  <2>5. QED
    BY <2>1, <2>3, <2>4
<1>11. ASSUME NEW h \in Handlers, NEW l \in Pay!Letters, \A n \in Codes : l # Sent(n), NEW p \in {"draft", "write"},
              Pay!Begins(h, l, p), mail' = Pay!Less(l),
              UNCHANGED <<announced, invoiced, recognised, again>>
       PROVE  Accounts'
  <2>1. /\ at'[h] = p /\ at[h] = "idle"
        /\ \A g \in Handlers : g # h => UNCHANGED <<at[g], of[g]>>
    BY <1>11 DEF Pay!Begins, PayTyped
  <2>2. \A n \in Codes : mail'[Sent(n)] = mail[Sent(n)]
    BY <1>2, <1>11, LessMail DEF Pay!Begins
  <2>3. \A n \in Codes : /\ ToAnnounce(h, n)' = 0 /\ ToAnnounce(h, n) = 0
                         /\ ToBook(h, n)' = 0 /\ ToBook(h, n) = 0
    BY <2>1 DEF ToAnnounce, ToBook
  <2>4. QED
    BY <1>1, <1>9, <1>11, <2>1, <2>2, <2>3
<1>12. ASSUME NEW h \in Handlers, NEW m \in Codes, Pay!BeginInvoice(h, m) PROVE Accounts'
  <2>1. <<"tax", "reached", m>> \in Pay!Letters /\ \A n \in Codes : <<"tax", "reached", m>> # Sent(n)
    BY PayLetters DEF Pay!Audience, Pay!Kinds, Sent
  <2>2. QED
    BY <1>11, <1>12, <2>1 DEF Pay!BeginInvoice
<1>13. ASSUME NEW h \in Handlers, NEW kind \in Pay!Kinds, NEW m \in Codes, Pay!CrmReceives(h, kind, m)
       PROVE  Accounts'
  <2>1. <<"crm", kind, m>> \in Pay!Letters /\ \A n \in Codes : <<"crm", kind, m>> # Sent(n)
    BY PayLetters DEF Pay!Audience, Pay!Kinds, Sent
  <2>2. QED
    BY <1>11, <1>13, <2>1 DEF Pay!CrmReceives
<1>14. ASSUME NEW h \in Handlers, Pay!MarkInvoiced(h) \/ Pay!CreateDraft(h) \/ Pay!MarkSent(h)
       PROVE  Accounts'
  <2>1. /\ UNCHANGED <<of, announced, invoiced, recognised, again, mail>>
        /\ \/ at[h] = "invoice" /\ at' = [at EXCEPT ![h] = "recognise"]
           \/ at[h] = "draft" /\ at' = [at EXCEPT ![h] = "send"]
           \/ at[h] = "mark" /\ at' = [at EXCEPT ![h] = "announce"]
    BY <1>14 DEF Pay!MarkInvoiced, Pay!CreateDraft, Pay!MarkSent, Pay!Goto
  <2>2. /\ \/ at[h] = "invoice" /\ at'[h] = "recognise"
           \/ at[h] = "draft" /\ at'[h] = "send"
           \/ at[h] = "mark" /\ at'[h] = "announce"
        /\ \A g \in Handlers : g # h => UNCHANGED <<at[g], of[g]>>
    BY <2>1 DEF PayTyped
  <2>3. \A n \in Codes : ToAnnounce(h, n)' = ToAnnounce(h, n) /\ ToBook(h, n)' = ToBook(h, n)
    BY <2>1, <2>2 DEF ToAnnounce, ToBook
  <2>4. \A n \in Codes : ToAnnounce(h, n) \in Nat /\ ToBook(h, n) \in Nat
    BY DEF ToAnnounce, ToBook
  <2>5. QED
    BY <1>1, <1>9, <2>1, <2>2, <2>3, <2>4
<1>15. ASSUME NEW h \in Handlers, Pay!Throws(h) \/ Pay!CrmWrites(h) PROVE Accounts'
  <2>1. UNCHANGED <<announced, invoiced, recognised, again, mail>> /\ Pay!Ends(h)
    BY <1>15 DEF Pay!Throws, Pay!CrmWrites
  <2>2. at'[h] = "idle" /\ \A g \in Handlers : g # h => UNCHANGED <<at[g], of[g]>>
    BY <2>1, HandlerEnds
  <2>3. \A n \in Codes : /\ ToAnnounce(h, n)' = 0 /\ ToBook(h, n)' = 0
                         /\ ToAnnounce(h, n) \in Nat /\ ToBook(h, n) \in Nat
    BY <2>2 DEF ToAnnounce, ToBook
  <2>4. QED
    BY <1>1, <1>9, <2>1, <2>2, <2>3

\* The steps that count: an invoice, an announcement, a revenue.
<1>16. ASSUME NEW h \in Handlers, Pay!SendInvoice(h) PROVE Accounts'
  <2>1. PICK m \in Codes : of[h] = m
    BY <1>16 DEF Pay!SendInvoice, PayTyped
  <2>2. /\ at[h] = "send" /\ invoiced' = [invoiced EXCEPT ![m] = @ + 1]
        /\ UNCHANGED <<mail, announced, recognised, again>>
        /\ Pay!Ends(h) \/ (at' = [at EXCEPT ![h] = "mark"] /\ UNCHANGED of)
    BY <1>16, <2>1, InvoiceCounted DEF Pay!SendInvoice, Pay!KsefIssues, Pay!ReferenceMadeUp
  <2>3. /\ at'[h] = "idle" \/ (at'[h] = "mark" /\ of'[h] = m)
        /\ \A g \in Handlers : g # h => UNCHANGED <<at[g], of[g]>>
    BY <2>1, <2>2, HandlerEnds DEF PayTyped
  <2>4. \A n \in Codes : /\ ToAnnounce(h, n) = 0 /\ ToBook(h, n) = 0 /\ ToBook(h, n)' = 0
                         /\ ToAnnounce(h, n)' \in {0, 1} /\ (n # m => ToAnnounce(h, n)' = 0)
    BY <2>2, <2>3 DEF ToAnnounce, ToBook
  <2>5. invoiced'[m] = invoiced[m] + 1 /\ \A n \in Codes : n # m => invoiced'[n] = invoiced[n]
    BY <2>2 DEF PayTyped
  <2>6. \A n \in Codes :
          /\ announced'[n] + ToAnnounce(h, n)' + invoiced[n] <= invoiced'[n] + announced[n] + ToAnnounce(h, n)
          /\ recognised'[n] + ToBook(h, n)' + mail'[Sent(n)] + announced[n] + again["sent"][n]
               <= announced'[n] + again'["sent"][n] + recognised[n] + ToBook(h, n) + mail[Sent(n)]
    BY <1>1, <2>2, <2>4, <2>5
  <2>7. QED
    BY <2>3, <2>6, AccountsMove
<1>17. ASSUME NEW h \in Handlers, Pay!Announce(h) PROVE Accounts'
  <2>1. PICK m \in Codes : of[h] = m
    BY <1>17 DEF Pay!Announce, PayTyped
  <2>2. /\ at[h] = "announce" /\ Pay!Ends(h) /\ UNCHANGED <<invoiced, recognised, again>>
        /\ \/ announced' = [announced EXCEPT ![m] = @ + 1] /\ mail' = Pay!Posted("sent", m)
           \/ UNCHANGED <<announced, mail>>
    BY <1>17, <2>1 DEF Pay!Announce
  <2>3. at'[h] = "idle" /\ \A g \in Handlers : g # h => UNCHANGED <<at[g], of[g]>>
    BY <2>2, HandlerEnds
  <2>4. \A n \in Codes : /\ ToAnnounce(h, n) = (IF n = m THEN 1 ELSE 0) /\ ToAnnounce(h, n)' = 0
                         /\ ToBook(h, n) = 0 /\ ToBook(h, n)' = 0
    BY <2>1, <2>2, <2>3 DEF ToAnnounce, ToBook
  <2>5. \/ UNCHANGED <<announced, mail>>
        \/ \A n \in Codes : /\ announced'[n] = announced[n] + (IF n = m THEN 1 ELSE 0)
                            /\ mail'[Sent(n)] = mail[Sent(n)] + (IF n = m THEN 1 ELSE 0)
    <3>1. CASE announced' = [announced EXCEPT ![m] = @ + 1] /\ mail' = Pay!Posted("sent", m)
      <4>1. \A n \in Codes : mail'[Sent(n)] = mail[Sent(n)] + (IF n = m THEN 1 ELSE 0)
        BY <1>1, <3>1, MorePosted DEF Pay!Kinds
      <4>2. \A n \in Codes : announced'[n] = announced[n] + (IF n = m THEN 1 ELSE 0)
        BY <1>1, <3>1 DEF PayTyped
      <4>3. QED
        BY <4>1, <4>2
    <3>2. QED
      BY <2>2, <3>1
  <2>6. \A n \in Codes :
          /\ announced'[n] + ToAnnounce(h, n)' + invoiced[n] <= invoiced'[n] + announced[n] + ToAnnounce(h, n)
          /\ recognised'[n] + ToBook(h, n)' + mail'[Sent(n)] + announced[n] + again["sent"][n]
               <= announced'[n] + again'["sent"][n] + recognised[n] + ToBook(h, n) + mail[Sent(n)]
    BY <1>1, <2>2, <2>4, <2>5
  <2>7. QED
    BY <2>3, <2>6, AccountsMove
<1>18. ASSUME NEW h \in Handlers, Pay!Recognise(h) PROVE Accounts'
  <2>1. PICK m \in Codes : of[h] = m
    BY <1>18 DEF Pay!Recognise, PayTyped
  <2>2. /\ at[h] = "recognise" /\ Pay!Ends(h) /\ UNCHANGED <<invoiced, announced, again>>
        /\ recognised' = [recognised EXCEPT ![m] = @ + 1] /\ mail' = Pay!Posted("recognized", m)
    BY <1>18, <2>1 DEF Pay!Recognise, Pay!RevenueBooked
  <2>3. at'[h] = "idle" /\ \A g \in Handlers : g # h => UNCHANGED <<at[g], of[g]>>
    BY <2>2, HandlerEnds
  <2>4. \A n \in Codes : /\ ToBook(h, n) = (IF n = m THEN 1 ELSE 0) /\ ToBook(h, n)' = 0
                         /\ ToAnnounce(h, n) = 0 /\ ToAnnounce(h, n)' = 0
    BY <2>1, <2>2, <2>3 DEF ToAnnounce, ToBook
  <2>5. \A n \in Codes : mail'[Sent(n)] = mail[Sent(n)]
    BY <2>2, MorePosted DEF Pay!Kinds
  <2>6. recognised'[m] = recognised[m] + 1 /\ \A n \in Codes : n # m => recognised'[n] = recognised[n]
    BY <2>2 DEF PayTyped
  <2>7. \A n \in Codes :
          /\ announced'[n] + ToAnnounce(h, n)' + invoiced[n] <= invoiced'[n] + announced[n] + ToAnnounce(h, n)
          /\ recognised'[n] + ToBook(h, n)' + mail'[Sent(n)] + announced[n] + again["sent"][n]
               <= announced'[n] + again'["sent"][n] + recognised[n] + ToBook(h, n) + mail[Sent(n)]
    BY <1>1, <2>2, <2>4, <2>5, <2>6
  <2>8. QED
    BY <2>3, <2>7, AccountsMove
<1> QED
  BY <1>4, <1>5, <1>6, <1>7, <1>8, <1>10, <1>12, <1>13, <1>14, <1>15, <1>16, <1>17, <1>18
  DEF Pay!Next, Pay!Step

\* What finance and crm say of a milestone has happened, and there is no more revenue than
\* there are invoices and repeated announcements.
THEOREM StatusesAreEarned ==
  ASSUME Pay!MilestonesAssumption PROVE Pay!Safety => []StatusIsEarned
<1>1. PayInv => StatusIsEarned
  <2> SUFFICES ASSUME PayInv, NEW m \in Codes
               PROVE  /\ "READY" \in {billing[m], shown[m]} => commands[m] > 0
                      /\ "INVOICED" \in {billing[m], shown[m]} => invoiced[m] > 0
                      /\ "RECOGNIZED" \in {billing[m], shown[m]} => recognised[m] > 0
                      /\ recognised[m] <= invoiced[m] + again["sent"][m]
    BY DEF StatusIsEarned
  <2>1. Cause(m, billing[m]) /\ Cause(m, shown[m])
    BY DEF PayInv, ToldOf
  <2>2. /\ announced[m] + Cardinality(Announcing(m)) <= invoiced[m]
        /\ recognised[m] + Cardinality(Booking(m)) + mail[Sent(m)] <= announced[m] + again["sent"][m]
    BY DEF PayInv, Accounts
  <2>3. Cardinality(Announcing(m)) \in Nat /\ Cardinality(Booking(m)) \in Nat
    BY FewAnnounce DEF PayInv
  <2>4. /\ announced[m] \in Nat /\ invoiced[m] \in Nat /\ recognised[m] \in Nat
        /\ mail[Sent(m)] \in Nat /\ again["sent"][m] \in Nat
    BY PayLetters DEF PayInv, PayTyped, Pay!Kinds
  <2>5. recognised[m] <= invoiced[m] + again["sent"][m]
    BY <2>2, <2>3, <2>4
  <2>6. QED
    BY <2>1, <2>5 DEF Cause
<1>2. PayInv /\ [Pay!Next]_(Pay!vars) => PayInv'
  BY PayTypedStep, FewRunStep, ToldOfStep, AccountsStep DEF PayInv
<1> QED
  BY <1>1, <1>2, PayInit, PTL DEF Pay!Safety

-----------------------------------------------------------------------------
(* Milestones: types *)

\* The handlers whose row is a draft.
Drafting(m) == {h \in Handlers : of[h] = m /\ at[h] \in {"send", "mark"} /\ row[h]}

\* Each of them has a draft of its own, and nobody begins with one.
DraftsInHand ==
  /\ row \in [Handlers -> BOOLEAN] /\ \A h \in Handlers : at[h] \in {"idle", "draft"} => ~row[h]
  /\ draft \in [Codes -> Nat] /\ \A m \in Codes : Cardinality(Drafting(m)) <= draft[m]

WorldOfPay ==
  /\ bound \in MilestoneBounds /\ \A m \in Codes : commands[m] <= bound.reaches[m]
  /\ echoes \in [Codes -> Nat] /\ open \in BOOLEAN /\ broken \in BOOLEAN
  /\ faults \in 0..bound.faults

LEMMA WorldOfPayStep ==
  ASSUME Pay!MilestonesAssumption, PayTyped, WorldOfPay, [Pay!Next]_(Pay!vars)
  PROVE  WorldOfPay'
<1> USE DEF Pay!counts, Pay!books, Pay!invoices, Pay!handlerVars
<1>1. bound.faults \in Nat /\ bound.reaches \in [Codes -> Nat]
  BY DEF WorldOfPay, Pay!MilestonesAssumption
<1>2. UNCHANGED bound
  BY DEF Pay!Next, Pay!Step, Pay!vars, Pay!Lose, Pay!Repeat, Pay!Reach, Pay!MilestoneReached,
     Pay!InvoiceSent, Pay!BeginInvoice, Pay!CrmReceives, Pay!MarkInvoiced, Pay!Recognise,
     Pay!CreateDraft, Pay!SendInvoice, Pay!KsefIssues, Pay!ReferenceMadeUp, Pay!MarkSent, Pay!Announce, Pay!CrmWrites, Pay!Throws,
     Pay!ClosePeriod
<1>3. \A m \in Codes : commands'[m] <= bound.reaches[m]
  <2>1. CASE UNCHANGED commands
    BY <2>1 DEF WorldOfPay
  <2>2. ASSUME NEW m \in Codes, Pay!Reach(m) PROVE \A n \in Codes : commands'[n] <= bound.reaches[n]
    BY <1>1, <2>2 DEF Pay!Reach, WorldOfPay, PayTyped
  <2> QED
    BY <2>1, <2>2 DEF Pay!Next, Pay!Step, Pay!vars, Pay!Lose, Pay!Repeat, Pay!MilestoneReached,
       Pay!InvoiceSent, Pay!BeginInvoice, Pay!CrmReceives, Pay!MarkInvoiced, Pay!Recognise,
       Pay!CreateDraft, Pay!SendInvoice, Pay!KsefIssues, Pay!ReferenceMadeUp, Pay!MarkSent, Pay!Announce, Pay!CrmWrites, Pay!Throws,
       Pay!ClosePeriod
<1>4. echoes' \in [Codes -> Nat]
  <2>1. CASE UNCHANGED echoes
    BY <2>1 DEF WorldOfPay
  <2>2. ASSUME NEW m \in Codes, Pay!MilestoneReached(m) PROVE echoes' \in [Codes -> Nat]
    <3>1. UNCHANGED echoes \/ echoes' = [echoes EXCEPT ![m] = @ + 1]
      BY <2>2 DEF Pay!MilestoneReached
    <3> QED
      BY <3>1 DEF WorldOfPay
  <2> QED
    BY <2>1, <2>2 DEF Pay!Next, Pay!Step, Pay!vars, Pay!Lose, Pay!Repeat, Pay!Reach,
       Pay!InvoiceSent, Pay!BeginInvoice, Pay!CrmReceives, Pay!MarkInvoiced, Pay!Recognise,
       Pay!CreateDraft, Pay!SendInvoice, Pay!KsefIssues, Pay!ReferenceMadeUp, Pay!MarkSent, Pay!Announce, Pay!CrmWrites, Pay!Throws,
       Pay!ClosePeriod
<1>5. open' \in BOOLEAN /\ broken' \in BOOLEAN
  <2>1. /\ UNCHANGED open \/ open' = FALSE
        /\ UNCHANGED broken \/ broken' = TRUE
    BY DEF Pay!Next, Pay!Step, Pay!vars, Pay!Lose, Pay!Repeat, Pay!Reach, Pay!MilestoneReached,
       Pay!InvoiceSent, Pay!BeginInvoice, Pay!CrmReceives, Pay!MarkInvoiced, Pay!Recognise,
       Pay!CreateDraft, Pay!SendInvoice, Pay!KsefIssues, Pay!ReferenceMadeUp, Pay!MarkSent, Pay!Announce, Pay!CrmWrites, Pay!Throws,
       Pay!ClosePeriod
  <2> QED
    BY <2>1, Zenon DEF WorldOfPay
<1>6. faults' \in 0..bound.faults
  <2>1. UNCHANGED faults \/ Pay!Fault
    BY DEF Pay!Next, Pay!Step, Pay!vars, Pay!Lose, Pay!Repeat, Pay!Reach, Pay!MilestoneReached,
       Pay!InvoiceSent, Pay!BeginInvoice, Pay!CrmReceives, Pay!MarkInvoiced, Pay!Recognise,
       Pay!CreateDraft, Pay!SendInvoice, Pay!KsefIssues, Pay!ReferenceMadeUp, Pay!MarkSent, Pay!Announce, Pay!CrmWrites, Pay!Throws,
       Pay!ClosePeriod
  <2>2. faults \in 0..bound.faults
    BY DEF WorldOfPay
  <2> QED
    BY <1>1, <2>1, <2>2 DEF Pay!Fault
<1> QED
  BY <1>2, <1>3, <1>4, <1>5, <1>6 DEF WorldOfPay

\* Does this handler have a draft of m?
HasDraft(h, m) == IF of[h] = m /\ at[h] \in {"send", "mark"} /\ row[h] THEN 1 ELSE 0

LEMMA FewDrafts ==
  ASSUME FewRun, NEW m \in Codes
  PROVE  IsFiniteSet(Drafting(m)) /\ Cardinality(Drafting(m)) \in Nat
<1>1. Drafting(m) \subseteq {h \in Handlers : at[h] # "idle"}
  BY DEF Drafting
<1> QED
  BY <1>1, FS_Subset, FS_CardinalityType DEF FewRun

\* The drafts suffice after a step of one handler when they do for what it adds and takes away.
LEMMA DraftsMove ==
  ASSUME PayTyped, FewRun, DraftsInHand, [Pay!Next]_(Pay!vars), NEW h \in Handlers,
         \A g \in Handlers : g # h => UNCHANGED <<at[g], of[g], row[g]>>,
         row' \in [Handlers -> BOOLEAN], at'[h] \in {"idle", "draft"} => ~row'[h],
         draft' \in [Codes -> Nat],
         \A m \in Codes : HasDraft(h, m)' + draft[m] <= draft'[m] + HasDraft(h, m)
  PROVE  DraftsInHand'
<1>1. ASSUME NEW m \in Codes PROVE Cardinality(Drafting(m)') <= draft'[m]
  <2> DEFINE A == Drafting(m)
             B == Drafting(m)'
  <2>1. IsFiniteSet(A) /\ Cardinality(A) <= draft[m]
    BY FewDrafts DEF DraftsInHand
  <2>2. IsFiniteSet(B)
    <3>1. FewRun'
      BY FewRunStep
    <3>2. B \subseteq {g \in Handlers : at'[g] # "idle"}
      BY DEF Drafting
    <3> QED
      BY <3>1, <3>2, FS_Subset DEF FewRun
  <2>3. A \ {h} = B \ {h}
    BY DEF Drafting
  <2>4. /\ HasDraft(h, m) = IF h \in A THEN 1 ELSE 0
        /\ HasDraft(h, m)' = IF h \in B THEN 1 ELSE 0
    BY DEF HasDraft, Drafting
  <2>5. draft[m] \in Nat /\ draft'[m] \in Nat
    BY DEF DraftsInHand
  <2> HIDE DEF A, B
  <2>6. /\ Cardinality(A) \in Nat /\ Cardinality(B) \in Nat
        /\ Cardinality(B) + HasDraft(h, m) = Cardinality(A) + HasDraft(h, m)'
    BY <2>1, <2>2, <2>3, <2>4, OneApart
  <2>7. Cardinality(B) <= draft'[m]
    BY <2>1, <2>4, <2>5, <2>6
  <2> QED
    BY <2>7 DEF B
<1>2. \A g \in Handlers : at'[g] \in {"idle", "draft"} => ~row'[g]
  BY DEF DraftsInHand
<1> QED
  BY <1>1, <1>2 DEF DraftsInHand

LEMMA DraftsStep ==
  ASSUME PayTyped, FewRun, DraftsInHand, [Pay!Next]_(Pay!vars)
  PROVE  DraftsInHand'
<1> USE DEF Pay!counts, Pay!books, Pay!invoices, Pay!handlerVars
<1>1. CASE UNCHANGED <<at, of, row, draft>>
  BY <1>1 DEF DraftsInHand, Drafting
<1>2. /\ draft \in [Codes -> Nat] /\ row \in [Handlers -> BOOLEAN]
      /\ \A h \in Handlers : at[h] \in {"idle", "draft"} => ~row[h]
      /\ at \in [Handlers -> Places] /\ of \in [Handlers -> Codes \cup {Pay!NoCode}]
  BY DEF DraftsInHand, PayTyped
<1>3. ASSUME NEW h \in Handlers, Pay!Ends(h), UNCHANGED draft PROVE DraftsInHand'
  <2>1. /\ \A g \in Handlers : g # h => UNCHANGED <<at[g], of[g], row[g]>>
        /\ row' \in [Handlers -> BOOLEAN] /\ ~row'[h]
    BY <1>2, <1>3 DEF Pay!Ends
  <2>2. \A m \in Codes : HasDraft(h, m)' = 0 /\ HasDraft(h, m) \in {0, 1}
    BY <2>1 DEF HasDraft
  <2>3. \A m \in Codes : HasDraft(h, m)' + draft[m] <= draft'[m] + HasDraft(h, m)
    BY <1>2, <1>3, <2>2
  <2> QED
    BY <1>2, <1>3, <2>1, <2>3, DraftsMove
<1>4. ASSUME NEW h \in Handlers, NEW p \in Places \ {"idle", "send", "mark"},
             at' = [at EXCEPT ![h] = p], UNCHANGED <<row, draft>>,
             UNCHANGED of \/ \E m \in Codes : of' = [of EXCEPT ![h] = m], at[h] = "idle" \/ p # "draft"
      PROVE  DraftsInHand'
  <2>1. /\ \A g \in Handlers : g # h => UNCHANGED <<at[g], of[g], row[g]>>
        /\ at'[h] = p /\ p \notin {"send", "mark", "idle"}
        /\ at'[h] \in {"idle", "draft"} => ~row'[h]
    BY <1>2, <1>4
  <2>2. \A m \in Codes : HasDraft(h, m)' = 0 /\ HasDraft(h, m) \in {0, 1}
    BY <2>1 DEF HasDraft
  <2>3. \A m \in Codes : HasDraft(h, m)' + draft[m] <= draft'[m] + HasDraft(h, m)
    BY <1>2, <1>4, <2>2
  <2> QED
    BY <1>2, <1>4, <2>1, <2>3, DraftsMove
<1>5. ASSUME NEW h \in Handlers, Pay!CreateDraft(h) PROVE DraftsInHand'
  <2>1. /\ at[h] = "draft" /\ ~row[h] /\ of[h] \in Codes
        /\ at' = [at EXCEPT ![h] = "send"] /\ UNCHANGED of
    BY <1>2, <1>5 DEF Pay!CreateDraft, PayTyped
  <2>2. \/ /\ draft' = [draft EXCEPT ![of[h]] = @ + 1] /\ row' = [row EXCEPT ![h] = TRUE]
        \/ UNCHANGED <<draft, row>>
    BY <1>5 DEF Pay!CreateDraft
  <2>3. /\ \A g \in Handlers : g # h => UNCHANGED <<at[g], of[g], row[g]>>
        /\ row' \in [Handlers -> BOOLEAN] /\ draft' \in [Codes -> Nat] /\ at'[h] = "send"
    <3>1. \A g \in Handlers : g # h => UNCHANGED <<at[g], of[g], row[g]>>
      BY <1>2, <2>1, <2>2
    <3>2. row' \in [Handlers -> BOOLEAN]
      BY <1>2, <2>2
    <3>3. draft' \in [Codes -> Nat]
      BY <1>2, <2>1, <2>2
    <3>4. at'[h] = "send"
      BY <1>2, <2>1
    <3> QED
      BY <3>1, <3>2, <3>3, <3>4
  <2>4. \A m \in Codes : HasDraft(h, m) = 0
    BY <2>1 DEF HasDraft
  <2>5. \A m \in Codes : HasDraft(h, m)' + draft[m] <= draft'[m]
    <3>1. CASE UNCHANGED <<draft, row>>
      BY <1>2, <2>1, <3>1 DEF HasDraft
    <3>2. CASE draft' = [draft EXCEPT ![of[h]] = @ + 1]
      BY <1>2, <2>1, <3>2 DEF HasDraft
    <3> QED
      BY <2>2, <3>1, <3>2
  <2>6. \A m \in Codes : HasDraft(h, m)' + draft[m] <= draft'[m] + HasDraft(h, m)
    BY <1>2, <2>3, <2>4, <2>5
  <2> QED
    BY <2>3, <2>6, DraftsMove
<1>6. ASSUME NEW h \in Handlers, Pay!SendInvoice(h) PROVE DraftsInHand'
  <2>1. at[h] = "send" /\ UNCHANGED draft
    BY <1>6 DEF Pay!SendInvoice
  <2>2. CASE Pay!Goto(h, "mark")
    <3>1. at' = [at EXCEPT ![h] = "mark"] /\ UNCHANGED <<of, row>>
      BY <2>2 DEF Pay!Goto
    <3>2. /\ \A g \in Handlers : g # h => UNCHANGED <<at[g], of[g], row[g]>>
          /\ at'[h] = "mark" /\ \A m \in Codes : HasDraft(h, m)' = HasDraft(h, m)
      BY <1>2, <2>1, <3>1 DEF HasDraft
    <3>3. \A m \in Codes : HasDraft(h, m) \in {0, 1}
      BY DEF HasDraft
    <3>4. \A m \in Codes : HasDraft(h, m)' + draft[m] <= draft'[m] + HasDraft(h, m)
      BY <1>2, <2>1, <3>2, <3>3
    <3> QED
      BY <1>2, <2>1, <3>1, <3>2, <3>4, DraftsMove
  <2>3. Pay!Goto(h, "mark") \/ Pay!Ends(h)
    BY <1>6 DEF Pay!SendInvoice, Pay!KsefIssues, Pay!ReferenceMadeUp, Pay!AfterSend
  <2> QED
    BY <1>3, <2>1, <2>2, <2>3
<1>7. ASSUME NEW h \in Handlers, Pay!MarkSent(h) PROVE DraftsInHand'
  <2>1. /\ at[h] = "mark" /\ at' = [at EXCEPT ![h] = "announce"] /\ UNCHANGED <<of, row>>
        /\ draft' = Pay!DraftLess(h) \/ UNCHANGED draft
        /\ of[h] \in Codes
    BY <1>7 DEF Pay!MarkSent, Pay!Goto, PayTyped
  <2>2. CASE UNCHANGED draft
    BY <1>4, <2>1, <2>2 DEF Places
  <2>3. CASE draft' = Pay!DraftLess(h) /\ row[h]
    <3>1. of[h] \in Codes /\ draft' = [draft EXCEPT ![of[h]] = @ - 1]
      BY <1>7, <2>3 DEF Pay!DraftLess, Pay!MarkSent, PayTyped
    <3>2. draft[of[h]] >= 1
      <4>1. h \in Drafting(of[h]) /\ IsFiniteSet(Drafting(of[h]))
        BY <2>1, <2>3, <3>1, FewDrafts DEF Drafting
      <4>2. Cardinality(Drafting(of[h])) # 0 /\ Cardinality(Drafting(of[h])) \in Nat
        BY <4>1, FS_EmptySet, FS_CardinalityType
      <4> QED
        BY <1>2, <3>1, <4>2 DEF DraftsInHand
    <3>3. draft' \in [Codes -> Nat] /\ at'[h] = "announce"
      BY <1>2, <2>1, <3>1, <3>2
    <3>4. \A m \in Codes : HasDraft(h, m)' = 0 /\ HasDraft(h, m) = IF m = of[h] THEN 1 ELSE 0
      BY <2>1, <2>3, <3>3 DEF HasDraft
    <3>5. \A m \in Codes : HasDraft(h, m)' + draft[m] <= draft'[m] + HasDraft(h, m)
      BY <1>2, <3>1, <3>4
    <3>6. \A g \in Handlers : g # h => UNCHANGED <<at[g], of[g], row[g]>>
      BY <1>2, <2>1
    <3> QED
      BY <1>2, <2>1, <3>3, <3>5, <3>6, DraftsMove
  <2> QED
    BY <2>1, <2>2, <2>3 DEF Pay!DraftLess
<1>8. ASSUME NEW h \in Handlers, NEW m \in Codes,
             Pay!InvoiceSent(h, m) \/ Pay!BeginInvoice(h, m)
      PROVE  DraftsInHand'
  <2>1. \/ UNCHANGED <<at, of, row, draft>>
        \/ /\ \E p \in {"invoice", "draft"} : at' = [at EXCEPT ![h] = p]
           /\ at[h] = "idle" /\ of' = [of EXCEPT ![h] = m] /\ UNCHANGED <<row, draft>>
    BY <1>8 DEF Pay!InvoiceSent, Pay!BeginInvoice, Pay!Begins
  <2> QED
    BY <1>1, <1>4, <2>1 DEF Places
<1>9. ASSUME NEW h \in Handlers, NEW kind \in Pay!Kinds, NEW m \in Codes, Pay!CrmReceives(h, kind, m)
      PROVE  DraftsInHand'
  BY <1>4, <1>9 DEF Pay!CrmReceives, Pay!Begins, Places
<1>10. ASSUME NEW h \in Handlers, Pay!MarkInvoiced(h) PROVE DraftsInHand'
  BY <1>4, <1>10 DEF Pay!MarkInvoiced, Pay!Goto, Places
<1>11. ASSUME NEW h \in Handlers,
              Pay!Recognise(h) \/ Pay!Announce(h) \/ Pay!CrmWrites(h) \/ Pay!Throws(h)
       PROVE  DraftsInHand'
  BY <1>3, <1>11 DEF Pay!Recognise, Pay!Announce, Pay!CrmWrites, Pay!Throws
<1> QED
  BY <1>1, <1>5, <1>6, <1>7, <1>8, <1>9, <1>10, <1>11 DEF Pay!Next, Pay!Step, Pay!vars, Pay!Lose,
     Pay!Repeat, Pay!Reach, Pay!MilestoneReached, Pay!ClosePeriod

\* The types of books, letters and handlers; a handler that sends its invoice only updates a
\* draft that is there.
THEOREM MilestonesTypeCorrect ==
  ASSUME Pay!MilestonesAssumption PROVE Pay!Safety => []Pay!TypeOK
<1> DEFINE Inv == PayInv /\ WorldOfPay /\ DraftsInHand
<1>1. Inv => Pay!TypeOK
  <2> SUFFICES ASSUME Inv PROVE Pay!TypeOK
    OBVIOUS
  <2>1. \A m \in Codes : commands[m] \in 0..bound.reaches[m]
    BY DEF WorldOfPay, PayInv, PayTyped, Pay!MilestonesAssumption
  <2> QED
    BY <2>1 DEF Pay!TypeOK, PayInv, PayTyped, WorldOfPay, DraftsInHand, Places
<1>2. Pay!Init => Inv
  <2> SUFFICES ASSUME Pay!Init PROVE WorldOfPay /\ DraftsInHand
    BY PayInit
  <2>1. WorldOfPay
    <3>1. /\ bound \in MilestoneBounds /\ bound.faults \in Nat
          /\ bound.reaches \in [Codes -> Nat]
      BY DEF Pay!Init, Pay!MilestonesAssumption
    <3>2. \A m \in Codes : commands[m] = 0 /\ bound.reaches[m] \in Nat
      BY <3>1 DEF Pay!Init, Pay!Zero
    <3> QED
      <4>1. \A m \in Codes : commands[m] <= bound.reaches[m]
        BY <3>2
      <4>2. faults \in 0..bound.faults /\ echoes \in [Codes -> Nat]
        BY <3>1 DEF Pay!Init, Pay!Zero
      <4> QED
        BY <3>1, <4>1, <4>2, Zenon DEF Pay!Init, WorldOfPay
  <2>2. \A m \in Codes : Drafting(m) = {}
    BY DEF Pay!Init, Drafting
  <2>3. draft \in [Codes -> Nat] /\ \A m \in Codes : draft[m] = 0
    BY DEF Pay!Init, Pay!Zero
  <2>4. \A m \in Codes : Cardinality(Drafting(m)) <= draft[m]
    <3>1. Cardinality({}) = 0
      BY FS_EmptySet
    <3>2. \A m \in Codes : Cardinality(Drafting(m)) = 0
      BY <2>2, <3>1, Zenon
    <3> QED
      BY <2>3, <3>2
  <2>5. DraftsInHand
    BY <2>3, <2>4 DEF Pay!Init, DraftsInHand
  <2> QED
    BY <2>1, <2>5
<1>3. Inv /\ [Pay!Next]_(Pay!vars) => Inv'
  BY PayTypedStep, FewRunStep, ToldOfStep, AccountsStep, WorldOfPayStep, DraftsStep DEF PayInv
<1> QED
  BY <1>1, <1>2, <1>3, PTL DEF Pay!Safety

-----------------------------------------------------------------------------
(* The chain of jobs: types *)

\* A job that has been written and has left BLOCKED.
Begun(s) == job[s] \notin {"absent", "BLOCKED"}

\* What a tick or a promise chain has in hand was there when it took it, and stays.
InHandIsBegun ==
  /\ enqueuing => enqueued < NumSteps
  /\ \A t \in Ticks :
       /\ \A s \in batch[t] : Begun(s)
       /\ cur[t] # 0 => Begun(cur[t])
       /\ cur[t] # 0 <=> pc[t] \in {"compensateLate", "publish", "retry", "compensateFailed"}
  /\ \A r \in Replicas, s \in Chain!Steps :
       /\ ingest[r][s] \in {"complete", "findNext", "unblock"} => Begun(s)
       /\ ingest[r][s] = "unblock" => next[r][s] \in Chain!Steps /\ job[next[r][s]] # "absent"

ChainTyped == Chain!TypeOK /\ InHandIsBegun

\* The parts of Chain!TypeOK.
QueueTypes ==
  /\ bound \in ChainBounds
  /\ enqueued \in 0..NumSteps /\ enqueuing \in BOOLEAN
  /\ job \in [Chain!Steps -> {"absent", "BLOCKED", "PENDING", "IN_PROGRESS", "DONE", "FAILED"}]
  /\ \A s \in Chain!Steps : job[s] = "absent" <=> s > enqueued
  /\ attempts \in [Chain!Steps -> Nat]
  /\ due \subseteq Chain!Steps
  /\ overdue \subseteq {s \in Chain!Steps : job[s] = "IN_PROGRESS"}
TickTypes ==
  /\ pc \in [Ticks -> {"idle", "recover", "compensateLate", "fetch", "run", "publish",
                       "retry", "compensateFailed"}]
  /\ batch \in [Ticks -> SUBSET Chain!Steps]
  /\ cur \in [Ticks -> Chain!Steps \cup {0}]
  /\ seen \in [Ticks -> [Chain!Steps -> Nat]]
SagaTypes ==
  /\ inbox \in [Replicas -> SUBSET Chain!Steps]
  /\ completed \in [Replicas -> SUBSET Chain!Steps] /\ saved \subseteq Chain!Steps
  /\ ingest \in [Replicas -> [Chain!Steps -> {"none", "find", "complete", "findNext", "unblock"}]]
  /\ next \in [Replicas -> [Chain!Steps -> Chain!Steps \cup {0}]]
HistoryTypes ==
  /\ happened \subseteq Chain!Steps /\ compensated \subseteq Chain!Steps
  /\ everDone \subseteq Chain!Steps /\ redone \subseteq everDone /\ met \subseteq Chain!Steps
  /\ cut \in BOOLEAN /\ faults \in 0..bound.faults

LEMMA ChainTypes == Chain!TypeOK <=> QueueTypes /\ TickTypes /\ SagaTypes /\ HistoryTypes
  BY DEF Chain!TypeOK, QueueTypes, TickTypes, SagaTypes, HistoryTypes

LEMMA ChainInit ==
  ASSUME Chain!EtoOrchestratorAssumption, Chain!Init PROVE ChainTyped
<1>1. NumSteps \in Nat \ {0} /\ \A b \in ChainBounds : b.faults \in Nat
  BY DEF Chain!EtoOrchestratorAssumption
<1>2. QueueTypes
  BY <1>1 DEF Chain!Init, QueueTypes, Chain!NoneSeen, Chain!Steps
<1>3. TickTypes /\ SagaTypes
  BY DEF Chain!Init, TickTypes, SagaTypes, Chain!NoneSeen
<1>4. HistoryTypes
  <2>1. /\ happened = {} /\ everDone = {} /\ redone = {} /\ compensated = {} /\ met = {}
        /\ cut = FALSE /\ faults = 0 /\ bound \in ChainBounds
    BY DEF Chain!Init
  <2>2. faults \in 0..bound.faults
    BY <1>1, <2>1
  <2>3. cut \in BOOLEAN
    BY <2>1
  <2> QED
    BY <2>1, <2>2, <2>3 DEF HistoryTypes
<1>5. InHandIsBegun
  BY <1>1 DEF Chain!Init, InHandIsBegun, Chain!NoneSeen, Chain!Steps
<1> QED
  BY <1>2, <1>3, <1>4, <1>5, ChainTypes DEF ChainTyped

LEMMA QueueTypesStep ==
  ASSUME Chain!EtoOrchestratorAssumption, ChainTyped, [Chain!Next]_(Chain!vars) PROVE QueueTypes'
<1>1. QueueTypes /\ TickTypes /\ SagaTypes
  BY ChainTypes DEF ChainTyped
<1>2. ASSUME NEW u \in Chain!Steps, job[u] # "absent", UNCHANGED Chain!queueVars,
             NEW state \in {"PENDING", "IN_PROGRESS", "DONE", "FAILED"}, Chain!SetJob(u, state),
             attempts' \in [Chain!Steps -> Nat], due' \subseteq Chain!Steps
      PROVE  QueueTypes'
  BY <1>1, <1>2 DEF Chain!SetJob, Chain!queueVars, QueueTypes
<1>3. CASE UNCHANGED <<Chain!queueVars, Chain!jobVars>>
  BY <1>1, <1>3 DEF Chain!queueVars, Chain!jobVars, QueueTypes
<1>4. CASE Chain!Enqueue
  <2>1. CASE UNCHANGED <<job, due, enqueued, bound, attempts, overdue>> /\ enqueuing' = FALSE
    BY <1>1, <2>1 DEF QueueTypes
  <2>2. CASE /\ job' = [job EXCEPT ![enqueued + 1] = IF enqueued + 1 = 1 THEN "PENDING" ELSE "BLOCKED"]
             /\ due' = due \cup {enqueued + 1} /\ enqueued' = enqueued + 1
             /\ enqueuing' = (enqueued + 1 < NumSteps)
             /\ UNCHANGED <<bound, attempts, overdue>>
    <3>1. enqueued + 1 \in Chain!Steps /\ NumSteps \in Nat
      BY <1>1, <1>4 DEF Chain!Enqueue, QueueTypes, ChainTyped, InHandIsBegun, Chain!Steps,
         Chain!EtoOrchestratorAssumption
    <3>2. \A u \in Chain!Steps : u \in Nat
      BY <3>1 DEF Chain!Steps
    <3>3. job[enqueued + 1] = "absent"
      BY <1>1, <3>1 DEF QueueTypes
    <3>4. \A u \in Chain!Steps : job'[u] = "absent" <=> u > enqueued'
      BY <1>1, <2>2, <3>1, <3>2 DEF QueueTypes
    <3>5. overdue \subseteq {u \in Chain!Steps : job'[u] = "IN_PROGRESS"}
      BY <1>1, <2>2, <3>3 DEF QueueTypes
    <3>6. job' \in [Chain!Steps -> {"absent", "BLOCKED", "PENDING", "IN_PROGRESS", "DONE", "FAILED"}]
      BY <1>1, <2>2 DEF QueueTypes
    <3>7. enqueued' \in 0..NumSteps /\ due' \subseteq Chain!Steps /\ enqueuing' \in BOOLEAN
      BY <1>1, <2>2, <3>1 DEF QueueTypes, Chain!Steps
    <3> QED
      BY <1>1, <2>2, <3>4, <3>5, <3>6, <3>7 DEF QueueTypes
  <2> QED
    BY <1>4, <2>1, <2>2 DEF Chain!Enqueue
<1>5. ASSUME NEW s \in Chain!Steps, Chain!BecomeDue(s) \/ Chain!BecomeOverdue(s) PROVE QueueTypes'
  BY <1>1, <1>5 DEF Chain!BecomeDue, Chain!BecomeOverdue, Chain!queueVars, QueueTypes
<1>6. ASSUME NEW t \in Ticks, Chain!RecoverFail(t) PROVE QueueTypes'
  <2>1. CASE UNCHANGED <<job, overdue>>
    BY <1>3, <1>6, <2>1 DEF Chain!RecoverFail, Chain!jobVars
  <2>2. ASSUME NEW s \in batch[t], Chain!SetJob(s, "FAILED") PROVE QueueTypes'
    <3>1. s \in Chain!Steps /\ job[s] # "absent"
      BY <1>1 DEF TickTypes, ChainTyped, InHandIsBegun, Begun
    <3> QED
      BY <1>1, <1>2, <1>6, <2>2, <3>1 DEF Chain!RecoverFail, QueueTypes
  <2> QED
    BY <1>6, <2>1, <2>2 DEF Chain!RecoverFail
<1>7. ASSUME NEW t \in Ticks, Chain!Start(t) PROVE QueueTypes'
  <2>1. CASE UNCHANGED <<job, overdue, attempts>>
    BY <1>3, <1>7, <2>1 DEF Chain!Start, Chain!jobVars
  <2>2. ASSUME NEW s \in batch[t], Chain!SetJob(s, "IN_PROGRESS"),
               attempts' = [attempts EXCEPT ![s] = @ + 1]
        PROVE  QueueTypes'
    <3>1. s \in Chain!Steps /\ job[s] # "absent"
      BY <1>1 DEF TickTypes, ChainTyped, InHandIsBegun, Begun
    <3>2. attempts' \in [Chain!Steps -> Nat]
      BY <1>1, <2>2, <3>1 DEF QueueTypes
    <3> QED
      BY <1>1, <1>2, <1>7, <2>2, <3>1, <3>2 DEF Chain!Start, QueueTypes
  <2> QED
    BY <1>7, <2>1, <2>2 DEF Chain!Start
<1>8. ASSUME NEW t \in Ticks, Chain!Retry(t) PROVE QueueTypes'
  <2>1. cur[t] # 0 /\ cur[t] \in Chain!Steps /\ job[cur[t]] # "absent"
    BY <1>1, <1>8 DEF Chain!Retry, TickTypes, ChainTyped, InHandIsBegun, Begun
  <2>2. attempts' \in [Chain!Steps -> Nat] /\ due' \subseteq Chain!Steps
    BY <1>1, <1>8, <2>1 DEF Chain!Retry, QueueTypes, TickTypes
  <2>3. (Chain!SetJob(cur[t], "FAILED") \/ Chain!SetJob(cur[t], "PENDING")) /\ UNCHANGED Chain!queueVars
    BY <1>8 DEF Chain!Retry
  <2> QED
    BY <1>2, <2>1, <2>2, <2>3
<1>9. ASSUME NEW r \in Replicas, NEW s \in Chain!Steps, Chain!Complete(r, s) PROVE QueueTypes'
  <2>1. job[s] # "absent"
    BY <1>9 DEF Chain!Complete, ChainTyped, InHandIsBegun, Begun
  <2> QED
    BY <1>1, <1>2, <1>9, <2>1 DEF Chain!Complete, QueueTypes
<1>10. ASSUME NEW r \in Replicas, NEW s \in Chain!Steps, Chain!Unblock(r, s) PROVE QueueTypes'
  <2>1. next[r][s] \in Chain!Steps /\ job[next[r][s]] # "absent"
    BY <1>10 DEF Chain!Unblock, ChainTyped, InHandIsBegun
  <2> QED
    BY <1>1, <1>2, <1>10, <2>1 DEF Chain!Unblock, Chain!UnblockJob, QueueTypes
<1>11. ASSUME NEW t \in Ticks, Chain!Tick(t) \/ Chain!TickFails(t) PROVE QueueTypes'
  BY <1>3, <1>6, <1>7, <1>8, <1>11 DEF Chain!Tick, Chain!RecoverFetch, Chain!Compensate,
     Chain!Fetch, Chain!Publish, Chain!TickFails
<1>12. ASSUME NEW r \in Replicas, NEW s \in Chain!Steps,
              Chain!Ingest(r, s) \/ Chain!Lose(r, s) \/ Chain!IngestFails(r, s)
       PROVE  QueueTypes'
  BY <1>3, <1>9, <1>10, <1>12 DEF Chain!Ingest, Chain!Receive, Chain!FindJob, Chain!FindNext,
     Chain!Lose, Chain!IngestFails
<1>13. ASSUME NEW r \in Replicas, Chain!Persist(r) \/ Chain!Restart(r) PROVE QueueTypes'
  BY <1>3, <1>13 DEF Chain!Persist, Chain!Restart
<1>14. ASSUME NEW s \in Chain!Steps, Chain!DomainEvent(s) PROVE QueueTypes'
  BY <1>3, <1>14 DEF Chain!DomainEvent
<1>15. CASE UNCHANGED Chain!vars
  BY <1>3, <1>15 DEF Chain!vars, Chain!chainVars
<1> QED
  BY <1>4, <1>5, <1>11, <1>12, <1>13, <1>14, <1>15 DEF Chain!Next

LEMMA TickTypesStep ==
  ASSUME ChainTyped, [Chain!Next]_(Chain!vars) PROVE TickTypes'
<1>1. QueueTypes /\ TickTypes
  BY ChainTypes DEF ChainTyped
<1>2. CASE UNCHANGED Chain!tickVars
  BY <1>1, <1>2 DEF Chain!tickVars, TickTypes
<1>3. Chain!NoneSeen \in [Chain!Steps -> Nat]
  BY DEF Chain!NoneSeen
<1>4. ASSUME NEW t \in Ticks, Chain!RecoverFetch(t) PROVE TickTypes'
  BY <1>1, <1>4 DEF Chain!RecoverFetch, Chain!Hold, Chain!Goto, QueueTypes, TickTypes
<1>5. ASSUME NEW t \in Ticks, Chain!RecoverFail(t) PROVE TickTypes'
  <2>1. /\ batch[t] \subseteq Chain!Steps
        /\ pc' \in {[pc EXCEPT ![t] = "compensateLate"], [pc EXCEPT ![t] = "fetch"]}
        /\ UNCHANGED <<cur, batch>> \/ \E s \in batch[t] : /\ cur' = [cur EXCEPT ![t] = s]
                                                        /\ batch' = [batch EXCEPT ![t] = @ \ {s}]
        /\ UNCHANGED seen
    BY <1>1, <1>5 DEF Chain!RecoverFail, Chain!Hold, Chain!Goto, Chain!Take, TickTypes
  <2>2. cur' \in [Ticks -> Chain!Steps \cup {0}] /\ batch' \in [Ticks -> SUBSET Chain!Steps]
    <3>1. CASE UNCHANGED <<cur, batch>>
      BY <1>1, <3>1 DEF TickTypes
    <3>2. ASSUME NEW s \in batch[t], cur' = [cur EXCEPT ![t] = s],
                 batch' = [batch EXCEPT ![t] = @ \ {s}]
          PROVE  cur' \in [Ticks -> Chain!Steps \cup {0}] /\ batch' \in [Ticks -> SUBSET Chain!Steps]
      <4>1. s \in Chain!Steps \cup {0} /\ batch[t] \ {s} \in SUBSET Chain!Steps
        BY <2>1
      <4> QED
        BY <1>1, <3>2, <4>1 DEF TickTypes
    <3> QED
      BY <2>1, <3>1, <3>2
  <2>3. pc' \in [Ticks -> {"idle", "recover", "compensateLate", "fetch", "run", "publish",
                         "retry", "compensateFailed"}]
    BY <1>1, <2>1 DEF TickTypes
  <2> QED
    BY <1>1, <2>1, <2>2, <2>3 DEF TickTypes
<1>6. ASSUME NEW t \in Ticks, Chain!Compensate(t) PROVE TickTypes'
  BY <1>1, <1>6 DEF Chain!Compensate, Chain!Goto, Chain!Take, TickTypes
<1>7. ASSUME NEW t \in Ticks, Chain!Fetch(t) PROVE TickTypes'
  BY <1>1, <1>7 DEF Chain!Fetch, Chain!Hold, Chain!Goto, Chain!Runnable, QueueTypes, TickTypes
<1>8. ASSUME NEW t \in Ticks, Chain!Start(t) PROVE TickTypes'
  <2>1. /\ batch[t] \subseteq Chain!Steps
        /\ pc' \in {[pc EXCEPT ![t] = "publish"], [pc EXCEPT ![t] = "idle"]}
        /\ UNCHANGED <<cur, batch>> \/ \E s \in batch[t] : /\ cur' = [cur EXCEPT ![t] = s]
                                                        /\ batch' = [batch EXCEPT ![t] = @ \ {s}]
        /\ UNCHANGED seen \/ seen' = [seen EXCEPT ![t] = Chain!NoneSeen]
    BY <1>1, <1>8 DEF Chain!Start, Chain!Hold, Chain!Goto, Chain!Take, TickTypes
  <2>2. cur' \in [Ticks -> Chain!Steps \cup {0}] /\ batch' \in [Ticks -> SUBSET Chain!Steps]
    <3>1. CASE UNCHANGED <<cur, batch>>
      BY <1>1, <3>1 DEF TickTypes
    <3>2. ASSUME NEW s \in batch[t], cur' = [cur EXCEPT ![t] = s],
                 batch' = [batch EXCEPT ![t] = @ \ {s}]
          PROVE  cur' \in [Ticks -> Chain!Steps \cup {0}] /\ batch' \in [Ticks -> SUBSET Chain!Steps]
      <4>1. s \in Chain!Steps \cup {0} /\ batch[t] \ {s} \in SUBSET Chain!Steps
        BY <2>1
      <4> QED
        BY <1>1, <3>2, <4>1 DEF TickTypes
    <3> QED
      BY <2>1, <3>1, <3>2
  <2>3. pc' \in [Ticks -> {"idle", "recover", "compensateLate", "fetch", "run", "publish",
                         "retry", "compensateFailed"}]
    BY <1>1, <2>1 DEF TickTypes
  <2>4. seen' \in [Ticks -> [Chain!Steps -> Nat]]
    BY <1>1, <1>3, <2>1 DEF TickTypes
  <2> QED
    BY <2>2, <2>3, <2>4 DEF TickTypes
<1>9. ASSUME NEW t \in Ticks, Chain!Publish(t) PROVE TickTypes'
  BY <1>1, <1>9 DEF Chain!Publish, Chain!Goto, Chain!Take, TickTypes
<1>10. ASSUME NEW t \in Ticks, Chain!Retry(t) PROVE TickTypes'
  BY <1>1, <1>10 DEF Chain!Retry, Chain!Goto, Chain!Take, TickTypes
<1>11. ASSUME NEW t \in Ticks, Chain!TickFails(t) PROVE TickTypes'
  BY <1>1, <1>3, <1>11 DEF Chain!TickFails, Chain!Goto, Chain!Take, Chain!Hold, TickTypes
<1>12. ASSUME NEW r \in Replicas, Chain!Restart(r) PROVE TickTypes'
  BY <1>1, <1>3, <1>12 DEF Chain!Restart, TickTypes
<1>13. ASSUME NEW r \in Replicas, NEW s \in Chain!Steps,
              Chain!Ingest(r, s) \/ Chain!Lose(r, s) \/ Chain!IngestFails(r, s)
       PROVE  TickTypes'
  BY <1>2, <1>13 DEF Chain!Ingest, Chain!Receive, Chain!FindJob, Chain!Complete, Chain!FindNext,
     Chain!Unblock, Chain!Lose, Chain!IngestFails
<1>14. CASE Chain!Enqueue \/ (\E r \in Replicas : Chain!Persist(r)) \/ UNCHANGED Chain!vars
            \/ \E s \in Chain!Steps :
                 Chain!BecomeDue(s) \/ Chain!BecomeOverdue(s) \/ Chain!DomainEvent(s)
  BY <1>2, <1>14 DEF Chain!Enqueue, Chain!Persist, Chain!vars, Chain!chainVars, Chain!BecomeDue, Chain!BecomeOverdue,
     Chain!DomainEvent
<1> QED
  BY <1>4, <1>5, <1>6, <1>7, <1>8, <1>9, <1>10, <1>11, <1>12, <1>13, <1>14
  DEF Chain!Next, Chain!Tick

\* The oldest blocked job exists when there is one.
LEMMA LowestBlocked ==
  ASSUME Chain!EtoOrchestratorAssumption, Chain!Blocked # {}
  PROVE  /\ Chain!Min(Chain!Blocked) \in Chain!Blocked
         /\ \A u \in Chain!Blocked : Chain!Min(Chain!Blocked) <= u
<1> DEFINE B == {1..u : u \in Chain!Blocked}
<1>1. NumSteps \in Nat /\ Chain!Blocked \subseteq 1..NumSteps
  BY DEF Chain!EtoOrchestratorAssumption, Chain!Blocked, Chain!Steps
<1>2. IsWellFoundedOn(StrictSubsetOrdering(1..NumSteps), FiniteSubsetsOf(1..NumSteps))
  BY FS_StrictSubsetOrderingWellFounded
<1>3. B \subseteq FiniteSubsetsOf(1..NumSteps) /\ B # {}
  <2>1. \A u \in Chain!Blocked : IsFiniteSet(1..u) /\ 1..u \subseteq 1..NumSteps
    BY <1>1, FS_Interval
  <2> QED
    BY <2>1 DEF FiniteSubsetsOf
<1>4. PICK m \in B : \A b \in B : ~ (<<b, m>> \in StrictSubsetOrdering(1..NumSteps))
  BY <1>2, <1>3, WFMin
<1>5. PICK x \in Chain!Blocked : m = 1..x
  BY <1>4
<1>6. \A u \in Chain!Blocked : x <= u
  <2> SUFFICES ASSUME NEW u \in Chain!Blocked, u < x PROVE FALSE
    BY <1>1
  <2>1. 1..u \in B /\ m \in B
    OBVIOUS
  <2>2. 1..u \subseteq m /\ 1..u # m
    <3>1. 1..u \subseteq 1..x /\ x \in 1..x /\ x \notin 1..u
      BY <1>1
    <3> QED
      BY <1>5, <3>1
  <2>3. 1..u \in SUBSET (1..NumSteps) /\ m \in SUBSET (1..NumSteps)
    BY <1>1, <1>5
  <2>4. <<1..u, m>> \in StrictSubsetOrdering(1..NumSteps)
    <3> HIDE DEF B
    <3> QED
      BY <2>2, <2>3 DEF StrictSubsetOrdering
  <2> QED
    BY <1>4, <2>1, <2>4
<1> QED
  BY <1>6 DEF Chain!Min

LEMMA SagaTypesStep ==
  ASSUME Chain!EtoOrchestratorAssumption, ChainTyped, [Chain!Next]_(Chain!vars) PROVE SagaTypes'
<1>1. QueueTypes /\ TickTypes /\ SagaTypes
  BY ChainTypes DEF ChainTyped
<1>2. CASE UNCHANGED <<inbox, Chain!sagaVars, Chain!ingestVars>>
  BY <1>1, <1>2 DEF Chain!sagaVars, Chain!ingestVars, SagaTypes
<1>3. ASSUME NEW s \in Chain!Steps, Chain!Broadcast(s), UNCHANGED <<Chain!sagaVars, Chain!ingestVars>>
      PROVE  SagaTypes'
  BY <1>1, <1>3 DEF Chain!Broadcast, Chain!sagaVars, Chain!ingestVars, SagaTypes
<1>4. ASSUME NEW s \in Chain!Steps, Chain!DomainEvent(s) PROVE SagaTypes'
  BY <1>3, <1>4 DEF Chain!DomainEvent
<1>5. ASSUME NEW t \in Ticks, Chain!Publish(t) PROVE SagaTypes'
  <2>1. cur[t] \in Chain!Steps
    BY <1>1, <1>5 DEF Chain!Publish, ChainTyped, InHandIsBegun, TickTypes
  <2> QED
    BY <1>2, <1>3, <1>5, <2>1 DEF Chain!Publish
<1>6. ASSUME NEW t \in Ticks, Chain!Tick(t) \/ Chain!TickFails(t) PROVE SagaTypes'
  BY <1>2, <1>5, <1>6 DEF Chain!Tick, Chain!RecoverFetch, Chain!RecoverFail, Chain!Compensate,
     Chain!Fetch, Chain!Start, Chain!Retry, Chain!TickFails
<1>7. ASSUME NEW r \in Replicas, NEW s \in Chain!Steps,
             NEW place \in {"none", "find", "complete", "findNext", "unblock"}, Chain!At(r, s, place)
      PROVE  ingest' \in [Replicas -> [Chain!Steps ->
                            {"none", "find", "complete", "findNext", "unblock"}]]
  BY <1>1, <1>7 DEF Chain!At, SagaTypes
<1>8. ASSUME NEW r \in Replicas, NEW s \in Chain!Steps, NEW n \in Chain!Steps \cup {0},
             next' = [next EXCEPT ![r][s] = n]
      PROVE  next' \in [Replicas -> [Chain!Steps -> Chain!Steps \cup {0}]]
  BY <1>1, <1>8 DEF SagaTypes
<1>9. ASSUME NEW r \in Replicas, NEW s \in Chain!Steps, Chain!Receive(r, s) PROVE SagaTypes'
  <2>1. ingest' \in [Replicas -> [Chain!Steps -> {"none", "find", "complete", "findNext", "unblock"}]]
    BY <1>1, <1>7, <1>9 DEF Chain!Receive, SagaTypes
  <2>2. inbox' \in [Replicas -> SUBSET Chain!Steps] /\ completed' \in [Replicas -> SUBSET Chain!Steps]
    BY <1>1, <1>9 DEF Chain!Receive, SagaTypes
  <2> QED
    BY <1>1, <1>9, <2>1, <2>2 DEF Chain!Receive, SagaTypes
<1>10. ASSUME NEW r \in Replicas, NEW s \in Chain!Steps, Chain!Lose(r, s) PROVE SagaTypes'
  BY <1>1, <1>10 DEF Chain!Lose, Chain!sagaVars, Chain!ingestVars, SagaTypes
<1>11. ASSUME NEW r \in Replicas, NEW s \in Chain!Steps, Chain!FindJob(r, s) \/ Chain!Complete(r, s)
       PROVE  SagaTypes'
  <2>1. UNCHANGED <<inbox, Chain!sagaVars, next>>
    BY <1>11 DEF Chain!FindJob, Chain!Complete
  <2>2. Chain!At(r, s, "complete") \/ Chain!At(r, s, "none") \/ Chain!At(r, s, "findNext")
    BY <1>11 DEF Chain!FindJob, Chain!Complete
  <2> QED
    BY <1>1, <1>7, <2>1, <2>2 DEF Chain!sagaVars, SagaTypes
<1>12. ASSUME NEW r \in Replicas, NEW s \in Chain!Steps, Chain!FindNext(r, s) PROVE SagaTypes'
  <2>1. UNCHANGED <<inbox, Chain!sagaVars>> /\ (Chain!At(r, s, "unblock") \/ Chain!At(r, s, "none"))
    BY <1>12 DEF Chain!FindNext
  <2>2. UNCHANGED next \/ \E n \in Chain!Steps : next' = [next EXCEPT ![r][s] = n]
    BY <1>12, LowestBlocked DEF Chain!FindNext, Chain!Blocked
  <2>3. next' \in [Replicas -> [Chain!Steps -> Chain!Steps \cup {0}]]
    BY <1>1, <1>8, <2>2 DEF SagaTypes
  <2> QED
    BY <1>1, <1>7, <2>1, <2>3 DEF Chain!sagaVars, SagaTypes
<1>13. ASSUME NEW r \in Replicas, NEW s \in Chain!Steps, Chain!Unblock(r, s) \/ Chain!IngestFails(r, s)
       PROVE  SagaTypes'
  <2>1. /\ UNCHANGED <<inbox, Chain!sagaVars>> /\ Chain!At(r, s, "none")
        /\ next' = [next EXCEPT ![r][s] = 0]
    BY <1>13 DEF Chain!Unblock, Chain!IngestFails
  <2>2. next' \in [Replicas -> [Chain!Steps -> Chain!Steps \cup {0}]]
    BY <1>8, <2>1
  <2> QED
    BY <1>1, <1>7, <2>1, <2>2 DEF Chain!sagaVars, SagaTypes
<1>14. ASSUME NEW r \in Replicas, Chain!Persist(r) PROVE SagaTypes'
  BY <1>1, <1>14 DEF Chain!Persist, Chain!ingestVars, SagaTypes
<1>15. ASSUME NEW r \in Replicas, Chain!Restart(r) PROVE SagaTypes'
  <2>1. Chain!NoneSeen \in [Chain!Steps -> Chain!Steps \cup {0}]
    BY DEF Chain!NoneSeen
  <2> QED
    BY <1>1, <1>15, <2>1 DEF Chain!Restart, SagaTypes
<1>16. CASE Chain!Enqueue \/ UNCHANGED Chain!vars
            \/ \E s \in Chain!Steps : Chain!BecomeDue(s) \/ Chain!BecomeOverdue(s)
  BY <1>2, <1>16 DEF Chain!Enqueue, Chain!vars, Chain!chainVars, Chain!BecomeDue, Chain!BecomeOverdue
<1> QED
  BY <1>4, <1>6, <1>9, <1>10, <1>11, <1>12, <1>13, <1>14, <1>15, <1>16
  DEF Chain!Next, Chain!Ingest

\* Only the enqueue loop writes of what is enqueued.
LEMMA QueueMoves ==
  ASSUME [Chain!Next]_(Chain!vars) PROVE Chain!Enqueue \/ UNCHANGED Chain!queueVars
<1>1. ASSUME NEW t \in Ticks, Chain!Tick(t) \/ Chain!TickFails(t) PROVE UNCHANGED Chain!queueVars
  BY <1>1 DEF Chain!Tick, Chain!RecoverFetch, Chain!RecoverFail, Chain!Compensate, Chain!Fetch,
     Chain!Start, Chain!Publish, Chain!Retry, Chain!TickFails
<1>2. ASSUME NEW r \in Replicas, NEW s \in Chain!Steps,
             Chain!Ingest(r, s) \/ Chain!Lose(r, s) \/ Chain!IngestFails(r, s)
      PROVE  UNCHANGED Chain!queueVars
  BY <1>2 DEF Chain!Ingest, Chain!Receive, Chain!FindJob, Chain!Complete, Chain!FindNext,
     Chain!Unblock, Chain!Lose, Chain!IngestFails
<1>3. CASE (\E r \in Replicas : Chain!Persist(r) \/ Chain!Restart(r)) \/ UNCHANGED Chain!vars
           \/ \E s \in Chain!Steps :
                Chain!BecomeDue(s) \/ Chain!BecomeOverdue(s) \/ Chain!DomainEvent(s)
  BY <1>3 DEF Chain!Persist, Chain!Restart, Chain!vars, Chain!chainVars, Chain!BecomeDue, Chain!BecomeOverdue,
     Chain!DomainEvent
<1> QED
  BY <1>1, <1>2, <1>3 DEF Chain!Next

LEMMA HistoryTypesStep ==
  ASSUME Chain!EtoOrchestratorAssumption, ChainTyped, [Chain!Next]_(Chain!vars) PROVE HistoryTypes'
<1>1. QueueTypes /\ TickTypes /\ SagaTypes /\ HistoryTypes
  BY ChainTypes DEF ChainTyped
<1>2. bound' = bound /\ bound.faults \in Nat
  BY <1>1, QueueMoves DEF Chain!Enqueue, Chain!queueVars, QueueTypes, Chain!EtoOrchestratorAssumption
<1>3. UNCHANGED faults \/ Chain!Fault
  <2>1. CASE Chain!Enqueue \/ UNCHANGED Chain!vars
             \/ \E s \in Chain!Steps : Chain!BecomeDue(s) \/ Chain!BecomeOverdue(s) \/ Chain!DomainEvent(s)
    BY <2>1 DEF Chain!Enqueue, Chain!vars, Chain!chainVars, Chain!BecomeDue, Chain!BecomeOverdue, Chain!DomainEvent
  <2>2. ASSUME NEW t \in Ticks, Chain!Tick(t) \/ Chain!TickFails(t)
        PROVE  UNCHANGED faults \/ Chain!Fault
    BY <2>2 DEF Chain!Tick, Chain!RecoverFetch, Chain!RecoverFail, Chain!Compensate, Chain!Fetch,
       Chain!Start, Chain!Publish, Chain!Retry, Chain!TickFails
  <2>3. ASSUME NEW r \in Replicas, NEW s \in Chain!Steps,
               Chain!Ingest(r, s) \/ Chain!Lose(r, s) \/ Chain!IngestFails(r, s)
        PROVE  UNCHANGED faults \/ Chain!Fault
    BY <2>3 DEF Chain!Ingest, Chain!Receive, Chain!FindJob, Chain!Complete, Chain!FindNext,
       Chain!Unblock, Chain!Lose, Chain!IngestFails
  <2>4. ASSUME NEW r \in Replicas, Chain!Persist(r) \/ Chain!Restart(r)
        PROVE  UNCHANGED faults \/ Chain!Fault
    BY <2>4 DEF Chain!Persist, Chain!Restart
  <2> QED
    BY <2>1, <2>2, <2>3, <2>4 DEF Chain!Next
<1>4. faults' \in 0..bound'.faults
  BY <1>1, <1>2, <1>3 DEF HistoryTypes, Chain!Fault, Chain!MayFail
<1>met. met' \subseteq Chain!Steps
  <2>1. Chain!Shared' \subseteq Chain!Steps
    BY DEF Chain!Shared, Chain!Steps
  <2> QED
    BY <1>1, <2>1 DEF Chain!Next, Chain!Meet, Chain!vars, Chain!chainVars, HistoryTypes
<1>5. CASE UNCHANGED <<happened, everDone, redone, compensated>> /\ cut' \in BOOLEAN
  BY <1>1, <1>4, <1>met, <1>5 DEF HistoryTypes
<1>6. ASSUME NEW s \in Chain!Steps, Chain!DomainEvent(s) PROVE HistoryTypes'
  BY <1>1, <1>4, <1>met, <1>6 DEF Chain!DomainEvent, Chain!histories, HistoryTypes
<1>7. ASSUME NEW t \in Ticks, Chain!Compensate(t) PROVE HistoryTypes'
  <2>1. cur[t] \in Chain!Steps
    BY <1>1, <1>7 DEF Chain!Compensate, ChainTyped, InHandIsBegun, TickTypes
  <2> QED
    BY <1>1, <1>4, <1>met, <1>7, <2>1 DEF Chain!Compensate, HistoryTypes
<1>8. ASSUME NEW r \in Replicas, NEW s \in Chain!Steps, Chain!Complete(r, s) PROVE HistoryTypes'
  BY <1>1, <1>4, <1>met, <1>8 DEF Chain!Complete, HistoryTypes
<1>9. ASSUME NEW r \in Replicas, NEW s \in Chain!Steps, Chain!IngestFails(r, s) PROVE HistoryTypes'
  BY <1>5, <1>9 DEF Chain!IngestFails
<1>10. ASSUME NEW r \in Replicas, Chain!Restart(r) PROVE HistoryTypes'
  <2>1. cut' \in BOOLEAN
    BY <1>1, <1>10 DEF Chain!Restart, HistoryTypes
  <2> QED
    BY <1>5, <1>10, <2>1 DEF Chain!Restart
<1>11. CASE UNCHANGED <<happened, Chain!histories>>
  BY <1>1, <1>5, <1>11 DEF Chain!histories, HistoryTypes
<1>12. CASE Chain!Enqueue \/ UNCHANGED Chain!vars
            \/ \E s \in Chain!Steps : Chain!BecomeDue(s) \/ Chain!BecomeOverdue(s)
  BY <1>11, <1>12 DEF Chain!Enqueue, Chain!vars, Chain!chainVars, Chain!BecomeDue, Chain!BecomeOverdue
<1>13. ASSUME NEW t \in Ticks, Chain!Tick(t) \/ Chain!TickFails(t) PROVE HistoryTypes'
  BY <1>7, <1>11, <1>13 DEF Chain!Tick, Chain!RecoverFetch, Chain!RecoverFail, Chain!Fetch,
     Chain!Start, Chain!Publish, Chain!Retry, Chain!TickFails
<1>14. ASSUME NEW r \in Replicas, NEW s \in Chain!Steps, Chain!Ingest(r, s) \/ Chain!Lose(r, s)
       PROVE  HistoryTypes'
  BY <1>8, <1>11, <1>14 DEF Chain!Ingest, Chain!Receive, Chain!FindJob, Chain!FindNext,
     Chain!Unblock, Chain!Lose
<1>15. ASSUME NEW r \in Replicas, Chain!Persist(r) PROVE HistoryTypes'
  BY <1>11, <1>15 DEF Chain!Persist
<1> QED
  BY <1>6, <1>9, <1>10, <1>12, <1>13, <1>14, <1>15 DEF Chain!Next

\* A job that has begun is never unwritten or blocked again, and a written one stays written.
LEMMA BegunStays ==
  ASSUME Chain!EtoOrchestratorAssumption, ChainTyped, [Chain!Next]_(Chain!vars),
         NEW s \in Chain!Steps
  PROVE  (Begun(s) => Begun(s)') /\ (job[s] # "absent" => job'[s] # "absent")
<1> USE DEF Begun
<1>1. QueueTypes
  BY ChainTypes DEF ChainTyped
<1>2. ASSUME NEW u, NEW state \in {"PENDING", "IN_PROGRESS", "DONE", "FAILED"},
             Chain!SetJob(u, state)
      PROVE  Begun(s)' \/ job'[s] = job[s]
  BY <1>1, <1>2 DEF Chain!SetJob, QueueTypes
<1>3. CASE Chain!Enqueue
  <2>1. NumSteps \in Nat /\ enqueued + 1 > enqueued
    BY <1>1 DEF QueueTypes, Chain!EtoOrchestratorAssumption
  <2>2. job[s] # "absent" => s # enqueued + 1
    BY <1>1, <2>1 DEF QueueTypes, Chain!Steps
  <2>3. UNCHANGED job \/ job' = [job EXCEPT ![enqueued + 1] = IF enqueued + 1 = 1 THEN "PENDING" ELSE "BLOCKED"]
    BY <1>3 DEF Chain!Enqueue
  <2> QED
    BY <1>1, <2>2, <2>3 DEF QueueTypes
<1>4. ASSUME NEW t \in Ticks, Chain!Tick(t) \/ Chain!TickFails(t)
      PROVE  Begun(s)' \/ job'[s] = job[s]
  <2>1. \/ UNCHANGED job
        \/ \E u \in batch[t] \cup {cur[t]} :
             \E state \in {"PENDING", "IN_PROGRESS", "FAILED"} : Chain!SetJob(u, state)
    BY <1>4 DEF Chain!Tick, Chain!RecoverFetch, Chain!RecoverFail, Chain!Compensate, Chain!Fetch,
       Chain!Start, Chain!Publish, Chain!Retry, Chain!TickFails, Chain!jobVars
  <2> QED
    BY <1>2, <2>1
<1>5. ASSUME NEW r \in Replicas, NEW u \in Chain!Steps,
             Chain!Ingest(r, u) \/ Chain!Lose(r, u) \/ Chain!IngestFails(r, u)
      PROVE  Begun(s)' \/ job'[s] = job[s]
  <2>1. UNCHANGED job \/ Chain!SetJob(u, "DONE") \/ Chain!SetJob(next[r][u], "PENDING")
    BY <1>5 DEF Chain!Ingest, Chain!Receive, Chain!FindJob, Chain!Complete, Chain!FindNext,
       Chain!Unblock, Chain!UnblockJob, Chain!Lose, Chain!IngestFails, Chain!jobVars
  <2> QED
    BY <1>2, <2>1
<1>6. CASE UNCHANGED Chain!vars \/ (\E r \in Replicas : Chain!Persist(r) \/ Chain!Restart(r))
           \/ \E u \in Chain!Steps :
                Chain!BecomeDue(u) \/ Chain!BecomeOverdue(u) \/ Chain!DomainEvent(u)
  BY <1>6 DEF Chain!vars, Chain!chainVars, Chain!jobVars, Chain!Persist, Chain!Restart, Chain!BecomeDue,
     Chain!BecomeOverdue, Chain!DomainEvent
<1> QED
  BY <1>3, <1>4, <1>5, <1>6 DEF Chain!Next

\* What a step may put into a tick's hand: rows that are overdue or runnable, or in its batch.
TicksMove ==
  \A t \in Ticks :
    /\ batch'[t] \subseteq batch[t] \cup overdue \cup Chain!Runnable
    /\ cur'[t] \in {0, cur[t]} \cup batch[t]
    /\ cur'[t] # 0 <=> pc'[t] \in {"compensateLate", "publish", "retry", "compensateFailed"}

LEMMA TicksMoveSo ==
  ASSUME Chain!EtoOrchestratorAssumption, ChainTyped, [Chain!Next]_(Chain!vars) PROVE TicksMove
<1>1. TickTypes /\ InHandIsBegun
  BY ChainTypes DEF ChainTyped
<1>2. \A t \in Ticks :
        /\ cur[t] # 0 <=> pc[t] \in {"compensateLate", "publish", "retry", "compensateFailed"}
        /\ \A s \in batch[t] : s \in Chain!Steps /\ s # 0
        /\ cur[t] \in Chain!Steps \cup {0}
  BY <1>1 DEF InHandIsBegun, TickTypes, Chain!Steps
<1>3. CASE UNCHANGED Chain!tickVars
  BY <1>2, <1>3 DEF Chain!tickVars, TicksMove
<1>4. ASSUME NEW t \in Ticks, NEW taken, NEW s, NEW place,
             batch' = [batch EXCEPT ![t] = taken], cur' = [cur EXCEPT ![t] = s],
             pc' = [pc EXCEPT ![t] = place], taken \subseteq batch[t] \cup overdue \cup Chain!Runnable,
             s \in {0, cur[t]} \cup batch[t],
             s # 0 <=> place \in {"compensateLate", "publish", "retry", "compensateFailed"}
      PROVE  TicksMove
  BY <1>1, <1>2, <1>4 DEF TickTypes, TicksMove
<1>5. \A t \in Ticks : /\ batch = [batch EXCEPT ![t] = batch[t]]
                       /\ cur = [cur EXCEPT ![t] = cur[t]]
  BY <1>1 DEF TickTypes
<1>6. ASSUME NEW t \in Ticks, Chain!RecoverFetch(t) \/ Chain!Fetch(t) PROVE TicksMove
  <2>1. /\ \E taken \in {overdue, Chain!Runnable} : batch' = [batch EXCEPT ![t] = taken]
        /\ \E place \in {"recover", "run"} : pc' = [pc EXCEPT ![t] = place]
        /\ cur' = cur /\ pc[t] \in {"idle", "fetch"}
    BY <1>6 DEF Chain!RecoverFetch, Chain!Fetch, Chain!Hold, Chain!Goto
  <2>2. cur' = [cur EXCEPT ![t] = cur[t]] /\ cur[t] = 0
    BY <1>2, <1>5, <2>1
  <2> QED
    BY <1>4, <2>1, <2>2
<1>7. ASSUME NEW t \in Ticks, Chain!RecoverFail(t) \/ Chain!Start(t) PROVE TicksMove
  <2>1. CASE /\ UNCHANGED <<cur, batch>>
             /\ \E place \in {"fetch", "idle"} : pc' = [pc EXCEPT ![t] = place]
             /\ pc[t] \in {"recover", "run"}
    <3>1. PICK place \in {"fetch", "idle"} : pc' = [pc EXCEPT ![t] = place]
      BY <2>1
    <3>2. batch' = [batch EXCEPT ![t] = batch[t]] /\ cur' = [cur EXCEPT ![t] = cur[t]] /\ cur[t] = 0
      BY <1>2, <1>5, <2>1
    <3> QED
      BY <1>4, <3>1, <3>2
  <2>2. ASSUME NEW s \in batch[t], cur' = [cur EXCEPT ![t] = s],
               batch' = [batch EXCEPT ![t] = batch[t] \ {s}],
               NEW place \in {"compensateLate", "publish"}, pc' = [pc EXCEPT ![t] = place]
        PROVE  TicksMove
    BY <1>2, <1>4, <2>2
  <2> QED
    BY <1>7, <2>1, <2>2 DEF Chain!RecoverFail, Chain!Start, Chain!Hold, Chain!Goto, Chain!Take
<1>8. ASSUME NEW t \in Ticks, Chain!Compensate(t) \/ Chain!Publish(t) \/ Chain!Retry(t)
      PROVE  TicksMove
  <2>1. pc[t] \in {"compensateLate", "compensateFailed", "publish", "retry"} /\ UNCHANGED batch
    BY <1>8 DEF Chain!Compensate, Chain!Publish, Chain!Retry
  <2>2. \/ UNCHANGED cur /\ \E place \in {"retry", "compensateFailed"} : pc' = [pc EXCEPT ![t] = place]
        \/ /\ cur' = [cur EXCEPT ![t] = 0]
           /\ \E place \in {"recover", "run"} : pc' = [pc EXCEPT ![t] = place]
    BY <1>8 DEF Chain!Compensate, Chain!Publish, Chain!Retry, Chain!Goto, Chain!Take
  <2>3. batch' = [batch EXCEPT ![t] = batch[t]] /\ cur = [cur EXCEPT ![t] = cur[t]] /\ cur[t] # 0
    BY <1>2, <1>5, <2>1
  <2>4. ASSUME NEW place \in {"retry", "compensateFailed"}, UNCHANGED cur,
               pc' = [pc EXCEPT ![t] = place]
        PROVE  TicksMove
    BY <1>4, <2>3, <2>4
  <2>5. ASSUME NEW place \in {"recover", "run"}, cur' = [cur EXCEPT ![t] = 0],
               pc' = [pc EXCEPT ![t] = place]
        PROVE  TicksMove
    BY <1>4, <2>3, <2>5
  <2> QED
    BY <2>2, <2>4, <2>5
<1>9. ASSUME NEW t \in Ticks, Chain!TickFails(t) PROVE TicksMove
  <2>1. /\ batch' = [batch EXCEPT ![t] = {}] /\ cur' = [cur EXCEPT ![t] = 0]
        /\ pc' = [pc EXCEPT ![t] = "idle"]
    BY <1>9 DEF Chain!TickFails, Chain!Hold, Chain!Goto, Chain!Take
  <2> QED
    BY <1>4, <2>1
<1>10. ASSUME NEW r \in Replicas, Chain!Restart(r) PROVE TicksMove
  BY <1>1, <1>2, <1>10 DEF Chain!Restart, TickTypes, TicksMove
<1>11. ASSUME NEW r \in Replicas, NEW s \in Chain!Steps,
              Chain!Ingest(r, s) \/ Chain!Lose(r, s) \/ Chain!IngestFails(r, s)
       PROVE  TicksMove
  BY <1>3, <1>11 DEF Chain!Ingest, Chain!Receive, Chain!FindJob, Chain!Complete, Chain!FindNext,
     Chain!Unblock, Chain!Lose, Chain!IngestFails
<1>12. CASE Chain!Enqueue \/ (\E r \in Replicas : Chain!Persist(r)) \/ UNCHANGED Chain!vars
            \/ \E s \in Chain!Steps :
                 Chain!BecomeDue(s) \/ Chain!BecomeOverdue(s) \/ Chain!DomainEvent(s)
  BY <1>3, <1>12 DEF Chain!Enqueue, Chain!Persist, Chain!vars, Chain!chainVars, Chain!BecomeDue, Chain!BecomeOverdue,
     Chain!DomainEvent
<1> QED
  BY <1>6, <1>7, <1>8, <1>9, <1>10, <1>11, <1>12 DEF Chain!Next, Chain!Tick

\* What a step may do to the promise chain of subject s at replica r.
ChainMoves(r, s) ==
  \/ ingest'[r][s] = ingest[r][s] /\ next'[r][s] = next[r][s]
  \/ ingest'[r][s] \in {"none", "find"}
  \/ ingest[r][s] = "find" /\ ingest'[r][s] = "complete" /\ job[s] \in Chain!Open
  \/ ingest[r][s] = "complete" /\ ingest'[r][s] = "findNext"
  \/ /\ ingest[r][s] = "findNext" /\ ingest'[r][s] = "unblock" /\ Chain!Blocked # {}
     /\ next'[r][s] = Chain!Min(Chain!Blocked)

LEMMA ChainMovesSo ==
  ASSUME Chain!EtoOrchestratorAssumption, ChainTyped, [Chain!Next]_(Chain!vars),
         NEW r \in Replicas, NEW s \in Chain!Steps
  PROVE  ChainMoves(r, s)
<1>1. QueueTypes /\ SagaTypes /\ InHandIsBegun
  BY ChainTypes DEF ChainTyped
<1>2. CASE UNCHANGED Chain!ingestVars
  BY <1>2 DEF Chain!ingestVars, ChainMoves
<1>3. ASSUME NEW q \in Replicas, NEW u \in Chain!Steps, NEW place, Chain!At(q, u, place)
      PROVE  ingest'[r][s] = IF r = q /\ s = u THEN place ELSE ingest[r][s]
  BY <1>1, <1>3 DEF Chain!At, SagaTypes
<1>4. ASSUME NEW q \in Replicas, NEW u \in Chain!Steps, NEW n, next' = [next EXCEPT ![q][u] = n]
      PROVE  next'[r][s] = IF r = q /\ s = u THEN n ELSE next[r][s]
  BY <1>1, <1>4 DEF SagaTypes
<1>5. ASSUME NEW q \in Replicas, NEW u \in Chain!Steps, Chain!Receive(q, u) PROVE ChainMoves(r, s)
  BY <1>2, <1>3, <1>5 DEF Chain!Receive, ChainMoves
<1>6. ASSUME NEW q \in Replicas, NEW u \in Chain!Steps, Chain!FindJob(q, u) PROVE ChainMoves(r, s)
  BY <1>3, <1>6 DEF Chain!FindJob, ChainMoves
<1>7. ASSUME NEW q \in Replicas, NEW u \in Chain!Steps, Chain!Complete(q, u) PROVE ChainMoves(r, s)
  BY <1>3, <1>7 DEF Chain!Complete, ChainMoves
<1>8. ASSUME NEW q \in Replicas, NEW u \in Chain!Steps, Chain!FindNext(q, u) PROVE ChainMoves(r, s)
  <2>1. CASE Chain!At(q, u, "none") /\ UNCHANGED next
    BY <1>3, <2>1 DEF ChainMoves
  <2>2. CASE /\ Chain!Blocked # {} /\ Chain!At(q, u, "unblock")
             /\ next' = [next EXCEPT ![q][u] = Chain!Min(Chain!Blocked)]
    <3>1. ingest'[r][s] = IF r = q /\ s = u THEN "unblock" ELSE ingest[r][s]
      BY <1>3, <2>2
    <3>2. next'[r][s] = IF r = q /\ s = u THEN Chain!Min(Chain!Blocked) ELSE next[r][s]
      BY <1>4, <2>2
    <3>3. ingest[q][u] = "findNext"
      BY <1>8 DEF Chain!FindNext
    <3> QED
      BY <2>2, <3>1, <3>2, <3>3 DEF ChainMoves
  <2> QED
    BY <1>8, <2>1, <2>2 DEF Chain!FindNext
<1>9. ASSUME NEW q \in Replicas, NEW u \in Chain!Steps, Chain!Unblock(q, u) \/ Chain!IngestFails(q, u)
      PROVE  ChainMoves(r, s)
  BY <1>3, <1>4, <1>9 DEF Chain!Unblock, Chain!IngestFails, ChainMoves
<1>10. ASSUME NEW q \in Replicas, Chain!Restart(q) PROVE ChainMoves(r, s)
  BY <1>1, <1>10 DEF Chain!Restart, SagaTypes, ChainMoves
<1>11. ASSUME NEW q \in Replicas, NEW u \in Chain!Steps, Chain!Lose(q, u) PROVE ChainMoves(r, s)
  BY <1>2, <1>11 DEF Chain!Lose
<1>12. ASSUME NEW t \in Ticks, Chain!Tick(t) \/ Chain!TickFails(t) PROVE ChainMoves(r, s)
  BY <1>2, <1>12 DEF Chain!Tick, Chain!RecoverFetch, Chain!RecoverFail, Chain!Compensate,
     Chain!Fetch, Chain!Start, Chain!Publish, Chain!Retry, Chain!TickFails
<1>13. CASE Chain!Enqueue \/ (\E q \in Replicas : Chain!Persist(q)) \/ UNCHANGED Chain!vars
            \/ \E u \in Chain!Steps :
                 Chain!BecomeDue(u) \/ Chain!BecomeOverdue(u) \/ Chain!DomainEvent(u)
  BY <1>2, <1>13 DEF Chain!Enqueue, Chain!Persist, Chain!vars, Chain!chainVars, Chain!BecomeDue, Chain!BecomeOverdue,
     Chain!DomainEvent
<1> QED
  BY <1>5, <1>6, <1>7, <1>8, <1>9, <1>10, <1>11, <1>12, <1>13 DEF Chain!Next, Chain!Ingest

LEMMA InHandStep ==
  ASSUME Chain!EtoOrchestratorAssumption, ChainTyped, [Chain!Next]_(Chain!vars)
  PROVE  InHandIsBegun'
<1>1. QueueTypes /\ TickTypes /\ SagaTypes /\ InHandIsBegun
  BY ChainTypes DEF ChainTyped
<1>2. \A s \in Chain!Steps : (Begun(s) => Begun(s)') /\ (job[s] # "absent" => job'[s] # "absent")
  BY BegunStays
<1>3. TicksMove /\ \A r \in Replicas, s \in Chain!Steps : ChainMoves(r, s)
  BY TicksMoveSo, ChainMovesSo
<1>4. enqueuing' => enqueued' < NumSteps
  <2>1. UNCHANGED <<enqueuing, enqueued>> \/ enqueuing' = (enqueued' < NumSteps) \/ enqueuing' = FALSE
    BY QueueMoves DEF Chain!Enqueue, Chain!queueVars
  <2> QED
    BY <1>1, <2>1 DEF InHandIsBegun
<1>5. \A s \in overdue \cup Chain!Runnable : s \in Chain!Steps /\ Begun(s)
  BY <1>1 DEF QueueTypes, Chain!Runnable, Begun
<1>6. ASSUME NEW t \in Ticks
      PROVE  /\ \A s \in batch'[t] : Begun(s)'
             /\ cur'[t] # 0 => job'[cur'[t]] \notin {"absent", "BLOCKED"}
  <2>1. \A s \in batch[t] : s \in Chain!Steps /\ Begun(s)
    BY <1>1 DEF TickTypes, InHandIsBegun
  <2>2. \A s \in batch'[t] : s \in Chain!Steps /\ Begun(s)
    BY <1>3, <1>5, <2>1 DEF TicksMove
  <2>3. cur'[t] # 0 => cur'[t] \in Chain!Steps /\ Begun(cur'[t])
    BY <1>1, <1>3, <2>1 DEF TicksMove, TickTypes, InHandIsBegun
  <2> QED
    BY <1>2, <2>2, <2>3 DEF Begun
<1>7. ASSUME NEW r \in Replicas, NEW s \in Chain!Steps,
             ingest'[r][s] \in {"complete", "findNext", "unblock"}
      PROVE  Begun(s)'
  <2>1. Begun(s)
    BY <1>1, <1>3, <1>7 DEF ChainMoves, InHandIsBegun, Begun, Chain!Open
  <2> QED
    BY <1>2, <2>1
<1>8. ASSUME NEW r \in Replicas, NEW s \in Chain!Steps, ingest'[r][s] = "unblock"
      PROVE  next'[r][s] \in Chain!Steps /\ job'[next'[r][s]] # "absent"
  <2>1. next'[r][s] \in Chain!Steps /\ job[next'[r][s]] # "absent"
    <3>1. CASE ingest[r][s] = "unblock" /\ next'[r][s] = next[r][s]
      BY <1>1, <3>1 DEF InHandIsBegun
    <3>2. CASE Chain!Blocked # {} /\ next'[r][s] = Chain!Min(Chain!Blocked)
      BY <3>2, LowestBlocked DEF Chain!Blocked
    <3> QED
      BY <1>3, <1>8, <3>1, <3>2 DEF ChainMoves
  <2> QED
    BY <1>2, <2>1
<1> QED
  BY <1>3, <1>4, <1>6, <1>7, <1>8 DEF InHandIsBegun, TicksMove, Begun

LEMMA ChainTypedStep ==
  ASSUME Chain!EtoOrchestratorAssumption, ChainTyped, [Chain!Next]_(Chain!vars) PROVE ChainTyped'
<1>1. QueueTypes' /\ TickTypes' /\ SagaTypes' /\ HistoryTypes'
  BY QueueTypesStep, TickTypesStep, SagaTypesStep, HistoryTypesStep
<1>2. Chain!TypeOK'
  BY <1>1 DEF Chain!TypeOK, QueueTypes, TickTypes, SagaTypes, HistoryTypes
<1> QED
  BY <1>2, InHandStep DEF ChainTyped

\* The queue, the ticks, the messages and the histories of a chain have their types, with any
\* number of replicas, overlapping ticks and faults.
THEOREM ChainTypeCorrect ==
  ASSUME Chain!EtoOrchestratorAssumption PROVE Chain!Safety => []Chain!TypeOK
<1>1. ChainTyped => Chain!TypeOK
  BY DEF ChainTyped
<1> QED
  BY <1>1, ChainInit, ChainTypedStep, PTL DEF Chain!Safety

-----------------------------------------------------------------------------
(* The chain of jobs: who moves what *)

\* How tick t may move job s, and how the promise chain of subject u at replica r may.
TickJob(t, s) ==
  \/ job'[s] = job[s]
  \/ pc[t] = "recover" /\ s \in batch[t] /\ job'[s] = "FAILED"
  \/ pc[t] = "run" /\ s \in batch[t] /\ job'[s] = "IN_PROGRESS"
  \/ pc[t] = "retry" /\ s = cur[t] /\ job'[s] \in {"PENDING", "FAILED"}
ChainJob(r, u, s) ==
  \/ job'[s] = job[s]
  \/ ingest[r][u] = "complete" /\ s = u /\ job'[s] = "DONE"
  \/ ingest[r][u] = "unblock" /\ s = next[r][u] /\ job'[s] = "PENDING"

\* Where all jobs but one stay as they are.
Only(u) == \A s \in Chain!Steps : s # u => job'[s] = job[s]

LEMMA TickAlone ==
  ASSUME ChainTyped, NEW t \in Ticks, Chain!Tick(t) \/ Chain!TickFails(t)
  PROVE  /\ UNCHANGED <<everDone, redone, ingest, next>>
         /\ \A v \in Ticks \ {t} : batch'[v] = batch[v] /\ cur'[v] = cur[v] /\ pc'[v] = pc[v]
         /\ \A s \in Chain!Steps : TickJob(t, s)
         /\ \E u : Only(u)
         /\ \/ UNCHANGED <<job, compensated>>
            \/ batch'[t] \subseteq batch[t] /\ cur'[t] \in {0, cur[t]} \cup batch[t]
<1>1. QueueTypes /\ TickTypes
  BY ChainTypes DEF ChainTyped
<1>2. UNCHANGED <<everDone, redone, ingest, next>>
  BY DEF Chain!Tick, Chain!RecoverFetch, Chain!RecoverFail, Chain!Compensate, Chain!Fetch,
     Chain!Start, Chain!Publish, Chain!Retry, Chain!TickFails, Chain!histories, Chain!ingestVars
<1>3. ASSUME NEW v \in Ticks \ {t}
      PROVE  batch'[v] = batch[v] /\ cur'[v] = cur[v] /\ pc'[v] = pc[v]
  <2>1. /\ UNCHANGED batch \/ \E x : batch' = [batch EXCEPT ![t] = x]
        /\ UNCHANGED cur \/ \E x : cur' = [cur EXCEPT ![t] = x]
        /\ UNCHANGED pc \/ \E x : pc' = [pc EXCEPT ![t] = x]
    BY DEF Chain!Tick, Chain!RecoverFetch, Chain!RecoverFail, Chain!Compensate, Chain!Fetch,
       Chain!Start, Chain!Publish, Chain!Retry, Chain!TickFails, Chain!Hold, Chain!Take, Chain!Goto
  <2> QED
    BY <1>1, <2>1 DEF TickTypes
<1>4. \/ UNCHANGED job
      \/ pc[t] = "recover" /\ \E u \in batch[t] : Chain!SetJob(u, "FAILED")
      \/ pc[t] = "run" /\ \E u \in batch[t] : Chain!SetJob(u, "IN_PROGRESS")
      \/ pc[t] = "retry" /\ \E x \in {"PENDING", "FAILED"} : Chain!SetJob(cur[t], x)
  BY DEF Chain!Tick, Chain!RecoverFetch, Chain!RecoverFail, Chain!Compensate, Chain!Fetch,
     Chain!Start, Chain!Publish, Chain!Retry, Chain!TickFails, Chain!jobVars
<1>5. ASSUME NEW u, NEW x, Chain!SetJob(u, x), NEW s \in Chain!Steps
      PROVE  job'[s] = IF s = u THEN x ELSE job[s]
  BY <1>1, <1>5 DEF Chain!SetJob, QueueTypes
<1>6. \A s \in Chain!Steps : TickJob(t, s)
  BY <1>4, <1>5 DEF TickJob
<1>7. \E u : Only(u)
  BY <1>4, <1>5 DEF Only
<1>8. \/ UNCHANGED <<job, compensated>>
      \/ batch'[t] \subseteq batch[t] /\ cur'[t] \in {0, cur[t]} \cup batch[t]
  <2>1. CASE Chain!RecoverFetch(t) \/ Chain!Fetch(t) \/ Chain!Publish(t) \/ Chain!TickFails(t)
    BY <2>1 DEF Chain!RecoverFetch, Chain!Fetch, Chain!Publish, Chain!TickFails, Chain!jobVars,
       Chain!histories
  <2>2. CASE Chain!RecoverFail(t)
    BY <1>1, <2>2 DEF Chain!RecoverFail, Chain!Hold, Chain!Take, TickTypes
  <2>3. CASE Chain!Start(t)
    BY <1>1, <2>3 DEF Chain!Start, Chain!Hold, Chain!Take, TickTypes
  <2>4. CASE Chain!Compensate(t) \/ Chain!Retry(t)
    BY <1>1, <2>4 DEF Chain!Compensate, Chain!Retry, Chain!Take, TickTypes
  <2> QED
    BY <2>1, <2>2, <2>3, <2>4 DEF Chain!Tick
<1> QED
  BY <1>2, <1>3, <1>6, <1>7, <1>8

LEMMA ChainAlone ==
  ASSUME ChainTyped, NEW r \in Replicas, NEW u \in Chain!Steps,
         Chain!Ingest(r, u) \/ Chain!Lose(r, u) \/ Chain!IngestFails(r, u)
  PROVE  /\ UNCHANGED <<pc, batch, cur, compensated>>
         /\ \A q \in Replicas, v \in Chain!Steps :
              <<q, v>> # <<r, u>> => ingest'[q][v] = ingest[q][v] /\ next'[q][v] = next[q][v]
         /\ \A s \in Chain!Steps : ChainJob(r, u, s)
         /\ \E w : Only(w)
         /\ UNCHANGED job \/ ingest'[r][u] \notin {"complete", "unblock"}
         /\ UNCHANGED <<everDone, redone>> \/ Chain!Complete(r, u)
<1>1. QueueTypes /\ SagaTypes
  BY ChainTypes DEF ChainTyped
<1>2. /\ UNCHANGED <<pc, batch, cur, compensated>>
      /\ UNCHANGED <<everDone, redone>> \/ Chain!Complete(r, u)
  BY DEF Chain!Ingest, Chain!Receive, Chain!FindJob, Chain!Complete, Chain!FindNext,
     Chain!Unblock, Chain!Lose, Chain!IngestFails, Chain!histories, Chain!tickVars
<1>3. ASSUME NEW q \in Replicas, NEW v \in Chain!Steps, <<q, v>> # <<r, u>>
      PROVE  ingest'[q][v] = ingest[q][v] /\ next'[q][v] = next[q][v]
  <2>1. UNCHANGED ingest \/ \E x : ingest' = [ingest EXCEPT ![r][u] = x]
    BY DEF Chain!Ingest, Chain!Receive, Chain!FindJob, Chain!Complete, Chain!FindNext,
       Chain!Unblock, Chain!Lose, Chain!IngestFails, Chain!At, Chain!ingestVars
  <2>2. UNCHANGED next \/ \E x : next' = [next EXCEPT ![r][u] = x]
    BY DEF Chain!Ingest, Chain!Receive, Chain!FindJob, Chain!Complete, Chain!FindNext,
       Chain!Unblock, Chain!Lose, Chain!IngestFails, Chain!ingestVars
  <2>3. ingest'[q][v] = ingest[q][v]
    BY <1>1, <1>3, <2>1 DEF SagaTypes
  <2>4. next'[q][v] = next[q][v]
    BY <1>1, <1>3, <2>2 DEF SagaTypes
  <2> QED
    BY <2>3, <2>4
<1>4. \/ UNCHANGED job
      \/ ingest[r][u] = "complete" /\ Chain!SetJob(u, "DONE") /\ Chain!At(r, u, "findNext")
      \/ ingest[r][u] = "unblock" /\ Chain!SetJob(next[r][u], "PENDING") /\ Chain!At(r, u, "none")
  BY DEF Chain!Ingest, Chain!Receive, Chain!FindJob, Chain!Complete, Chain!FindNext,
     Chain!Unblock, Chain!UnblockJob, Chain!Lose, Chain!IngestFails, Chain!jobVars
<1>5. ASSUME NEW w, NEW x, Chain!SetJob(w, x), NEW s \in Chain!Steps
      PROVE  job'[s] = IF s = w THEN x ELSE job[s]
  BY <1>1, <1>5 DEF Chain!SetJob, QueueTypes
<1>6. \A s \in Chain!Steps : ChainJob(r, u, s)
  BY <1>4, <1>5 DEF ChainJob
<1>7. \E w : Only(w)
  BY <1>4, <1>5 DEF Only
<1>8. ASSUME NEW x, Chain!At(r, u, x) PROVE ingest'[r][u] = x
  BY <1>1, <1>8 DEF Chain!At, SagaTypes
<1>9. UNCHANGED job \/ ingest'[r][u] \notin {"complete", "unblock"}
  BY <1>4, <1>8
<1> QED
  BY <1>2, <1>3, <1>6, <1>7, <1>9

LEMMA RestartClears ==
  ASSUME ChainTyped, NEW r \in Replicas, Chain!Restart(r)
  PROVE  /\ UNCHANGED <<job, everDone, redone, compensated>>
         /\ \A t \in Ticks : \/ batch'[t] = batch[t] /\ cur'[t] = cur[t] /\ pc'[t] = pc[t]
                             \/ batch'[t] = {} /\ cur'[t] = 0
         /\ \A q \in Replicas, v \in Chain!Steps :
              \/ ingest'[q][v] = ingest[q][v] /\ next'[q][v] = next[q][v]
              \/ ingest'[q][v] = "none"
<1>1. TickTypes /\ SagaTypes
  BY ChainTypes DEF ChainTyped
<1> QED
  BY <1>1 DEF Chain!Restart, Chain!jobVars, TickTypes, SagaTypes

\* The other steps hand nothing over, and write at most the next job of the queue.
RestOfNext ==
  \/ Chain!Enqueue \/ (\E r \in Replicas : Chain!Persist(r)) \/ UNCHANGED Chain!vars
  \/ \E s \in Chain!Steps : Chain!BecomeDue(s) \/ Chain!BecomeOverdue(s) \/ Chain!DomainEvent(s)

LEMMA RestMoves ==
  ASSUME ChainTyped, RestOfNext
  PROVE  /\ UNCHANGED <<pc, batch, cur, ingest, next, everDone, redone, compensated>>
         /\ \/ UNCHANGED job
            \/ /\ Chain!Enqueue
               /\ job' = [job EXCEPT ![enqueued + 1] = IF enqueued + 1 = 1 THEN "PENDING" ELSE "BLOCKED"]
         /\ \E u : Only(u)
<1>1. QueueTypes
  BY ChainTypes DEF ChainTyped
<1>2. UNCHANGED <<pc, batch, cur, ingest, next, everDone, redone, compensated>>
  BY DEF RestOfNext, Chain!Enqueue, Chain!Persist, Chain!BecomeDue, Chain!BecomeOverdue,
     Chain!DomainEvent, Chain!vars, Chain!chainVars, Chain!tickVars, Chain!ingestVars, Chain!histories
<1>3. \/ UNCHANGED job
      \/ /\ Chain!Enqueue
         /\ job' = [job EXCEPT ![enqueued + 1] = IF enqueued + 1 = 1 THEN "PENDING" ELSE "BLOCKED"]
  BY DEF RestOfNext, Chain!Enqueue, Chain!Persist, Chain!BecomeDue, Chain!BecomeOverdue,
     Chain!DomainEvent, Chain!vars, Chain!chainVars, Chain!jobVars
<1>4. \E u : Only(u)
  BY <1>1, <1>3 DEF Only, QueueTypes
<1> QED
  BY <1>2, <1>3, <1>4

LEMMA NextIs ==
  ASSUME [Chain!Next]_(Chain!vars)
  PROVE  \/ \E t \in Ticks : Chain!Tick(t) \/ Chain!TickFails(t)
         \/ \E r \in Replicas, u \in Chain!Steps :
              Chain!Ingest(r, u) \/ Chain!Lose(r, u) \/ Chain!IngestFails(r, u)
         \/ \E r \in Replicas : Chain!Restart(r)
         \/ RestOfNext
  BY DEF Chain!Next, RestOfNext

-----------------------------------------------------------------------------
(* The chain of jobs: what is known of a job that nobody else has in hand *)

\* What a tick, and a promise chain, know of the status of a job they have in hand.
TickKnows(t, s) ==
  /\ s \in batch[t] =>
       job[s] = IF pc[t] \in {"recover", "compensateLate"} THEN "IN_PROGRESS" ELSE "PENDING"
  /\ cur[t] = s => job[s] = IF pc[t] \in {"publish", "retry"} THEN "IN_PROGRESS" ELSE "FAILED"
ChainKnows(r, u, s) ==
  /\ ingest[r][u] = "complete" /\ u = s => job[s] \in Chain!Open
  /\ ingest[r][u] = "unblock" /\ next[r][u] = s => job[s] = "BLOCKED"

\* Done for good, and compensated only when failed.
Settled(s) ==
  /\ s \in everDone => job[s] = "DONE"
  /\ s \in compensated => job[s] = "FAILED"

\* Of every job that two never had in hand at once: what is in hand is as it was when it was
\* read, and what is done or compensated stays so.
Knows ==
  /\ Chain!Shared \subseteq met /\ redone \subseteq met
  /\ \A t \in Ticks : pc[t] \in {"idle", "fetch"} => batch[t] = {}
  /\ \A s \in Chain!Steps \ met :
       /\ Settled(s)
       /\ \A t \in Ticks : TickKnows(t, s)
       /\ \A r \in Replicas, u \in Chain!Steps : ChainKnows(r, u, s)

LEMMA MetGrows ==
  ASSUME Chain!Shared \subseteq met, [Chain!Next]_(Chain!vars)
  PROVE  met \subseteq met' /\ Chain!Shared' \subseteq met'
         /\ (Chain!Shared' \subseteq Chain!Shared => met' = met)
<1>1. CASE Chain!Next
  BY <1>1 DEF Chain!Next, Chain!Meet
<1>2. CASE UNCHANGED Chain!vars
  <2>1. UNCHANGED <<met, batch, cur, ingest, next>>
    BY <1>2 DEF Chain!vars, Chain!chainVars, Chain!tickVars, Chain!ingestVars
  <2>2. Chain!Shared' = Chain!Shared
    BY <2>1 DEF Chain!Shared, Chain!TickHas, Chain!ChainHas
  <2> QED
    BY <2>1, <2>2
<1> QED
  BY <1>1, <1>2

\* Who has a job in hand has it alone.
LEMMA HasAlone ==
  ASSUME Chain!Shared \subseteq met, NEW s \in Chain!Steps, s \notin met
  PROVE  /\ \A t, v \in Ticks : Chain!TickHas(t, s) /\ Chain!TickHas(v, s) => t = v
         /\ \A t \in Ticks, r \in Replicas, u \in Chain!Steps :
              ~(Chain!TickHas(t, s) /\ Chain!ChainHas(r, u, s))
         /\ \A r, q \in Replicas, u, v \in Chain!Steps :
              Chain!ChainHas(r, u, s) /\ Chain!ChainHas(q, v, s) => <<r, u>> = <<q, v>>
<1>1. s \in Chain!Steps /\ s \notin Chain!Shared
  OBVIOUS
<1>2. ASSUME NEW t \in Ticks, NEW v \in Ticks, Chain!TickHas(t, s), Chain!TickHas(v, s), t # v
      PROVE  FALSE
  <2>1. v \in Ticks \ {t}
    BY <1>2
  <2> QED
    BY <1>1, <1>2, <2>1 DEF Chain!Shared, Chain!Steps
<1>3. ASSUME NEW t \in Ticks, NEW r \in Replicas, NEW u \in Chain!Steps, Chain!TickHas(t, s),
             Chain!ChainHas(r, u, s)
      PROVE  FALSE
  BY <1>1, <1>3 DEF Chain!Shared, Chain!Steps
<1>4. ASSUME NEW r \in Replicas, NEW q \in Replicas, NEW u \in Chain!Steps, NEW v \in Chain!Steps,
             Chain!ChainHas(r, u, s), Chain!ChainHas(q, v, s), <<q, v>> # <<r, u>>
      PROVE  FALSE
  BY <1>1, <1>4 DEF Chain!Shared, Chain!Steps
<1> QED
  BY <1>2, <1>3, <1>4

\* The tick that moves a job knows in which status it finds it.
LEMMA TickFinds ==
  ASSUME ChainTyped, Knows, NEW t \in Ticks, NEW s \in Chain!Steps, s \notin met,
         TickJob(t, s), job'[s] # job[s]
  PROVE  /\ Chain!TickHas(t, s) /\ job[s] \in {"PENDING", "IN_PROGRESS"}
         /\ job'[s] \in {"PENDING", "IN_PROGRESS", "FAILED"}
<1>1. TickKnows(t, s)
  BY DEF Knows
<1> QED
  BY <1>1 DEF TickJob, TickKnows, Chain!TickHas

LEMMA ChainFinds ==
  ASSUME ChainTyped, Knows, NEW r \in Replicas, NEW u \in Chain!Steps, NEW s \in Chain!Steps,
         s \notin met, ChainJob(r, u, s), job'[s] # job[s]
  PROVE  /\ Chain!ChainHas(r, u, s)
         /\ \/ s = u /\ ingest[r][u] = "complete" /\ job[s] \in Chain!Open /\ job'[s] = "DONE"
            \/ /\ s = next[r][u] /\ ingest[r][u] = "unblock"
               /\ job[s] = "BLOCKED" /\ job'[s] = "PENDING"
<1>1. ChainKnows(r, u, s)
  BY DEF Knows
<1> QED
  BY <1>1 DEF ChainJob, ChainKnows, Chain!ChainHas

\* What a tick knows of the rows it has in hand after its own step.
LEMMA TickLearns ==
  ASSUME ChainTyped, Knows, NEW t \in Ticks, Chain!Tick(t) \/ Chain!TickFails(t),
         NEW s \in Chain!Steps, s \notin met
  PROVE  TickKnows(t, s)'
<1>1. QueueTypes /\ TickTypes /\ InHandIsBegun
  BY ChainTypes DEF ChainTyped
<1>2. TickKnows(t, s) /\ (pc[t] \in {"idle", "fetch"} => batch[t] = {})
  BY DEF Knows
<1>3. s # 0 /\ (cur[t] # 0 <=> pc[t] \in {"compensateLate", "publish", "retry", "compensateFailed"})
  BY <1>1 DEF InHandIsBegun, Chain!Steps
<1>4. ASSUME NEW u, NEW x, Chain!SetJob(u, x) PROVE job'[s] = IF s = u THEN x ELSE job[s]
  BY <1>1, <1>4 DEF Chain!SetJob, QueueTypes
<1>5. ASSUME NEW x, Chain!Goto(t, x) PROVE pc'[t] = x
  BY <1>1, <1>5 DEF Chain!Goto, TickTypes
<1>6. ASSUME NEW x, Chain!Take(t, x) PROVE cur'[t] = x
  BY <1>1, <1>6 DEF Chain!Take, TickTypes
<1>7. ASSUME NEW x, Chain!Hold(t, x) PROVE batch'[t] = x
  BY <1>1, <1>7 DEF Chain!Hold, TickTypes
<1>8. CASE Chain!RecoverFetch(t)
  <2>1. pc'[t] = "recover" /\ batch'[t] = overdue /\ UNCHANGED <<job, cur>> /\ cur[t] = 0
    BY <1>3, <1>5, <1>7, <1>8 DEF Chain!RecoverFetch, Chain!jobVars
  <2> QED
    BY <1>1, <1>3, <2>1 DEF TickKnows, QueueTypes
<1>9. CASE Chain!Fetch(t)
  <2>1. pc'[t] = "run" /\ batch'[t] = Chain!Runnable /\ UNCHANGED <<job, cur>> /\ cur[t] = 0
    BY <1>3, <1>5, <1>7, <1>9 DEF Chain!Fetch, Chain!jobVars
  <2> QED
    BY <1>1, <1>3, <2>1 DEF TickKnows, Chain!Runnable
<1>10. CASE Chain!RecoverFail(t)
  <2>1. CASE /\ pc'[t] = "fetch" /\ UNCHANGED <<job, cur, batch>> /\ batch[t] = {} /\ cur[t] = 0
    BY <1>3, <2>1 DEF TickKnows
  <2>2. ASSUME NEW u \in batch[t], Chain!SetJob(u, "FAILED"), pc'[t] = "compensateLate",
               cur'[t] = u, batch'[t] = batch[t] \ {u}, pc[t] = "recover"
        PROVE  TickKnows(t, s)'
    <3>1. job'[s] = IF s = u THEN "FAILED" ELSE job[s]
      BY <1>4, <2>2
    <3> QED
      BY <1>2, <2>2, <3>1 DEF TickKnows
  <2> QED
    BY <1>3, <1>5, <1>6, <1>7, <1>10, <2>1, <2>2 DEF Chain!RecoverFail
<1>11. CASE Chain!Start(t)
  <2>1. CASE /\ pc'[t] = "idle" /\ UNCHANGED <<job, cur, batch>> /\ batch[t] = {} /\ cur[t] = 0
    BY <1>3, <2>1 DEF TickKnows
  <2>2. ASSUME NEW u \in batch[t], Chain!SetJob(u, "IN_PROGRESS"), pc'[t] = "publish",
               cur'[t] = u, batch'[t] = batch[t] \ {u}, pc[t] = "run"
        PROVE  TickKnows(t, s)'
    <3>1. job'[s] = IF s = u THEN "IN_PROGRESS" ELSE job[s]
      BY <1>4, <2>2
    <3> QED
      BY <1>2, <2>2, <3>1 DEF TickKnows
  <2> QED
    BY <1>3, <1>5, <1>6, <1>7, <1>11, <2>1, <2>2 DEF Chain!Start
<1>12. CASE Chain!Compensate(t)
  <2>1. cur'[t] = 0 /\ UNCHANGED <<job, batch>>
    BY <1>6, <1>12 DEF Chain!Compensate, Chain!jobVars
  <2>2. \/ pc[t] = "compensateLate" /\ pc'[t] = "recover"
        \/ pc[t] = "compensateFailed" /\ pc'[t] = "run"
    BY <1>5, <1>12 DEF Chain!Compensate
  <2> QED
    BY <1>2, <1>3, <2>1, <2>2 DEF TickKnows
<1>13. CASE Chain!Publish(t)
  <2>1. pc[t] = "publish" /\ UNCHANGED <<job, batch>>
    BY <1>13 DEF Chain!Publish, Chain!jobVars
  <2>2. \/ pc'[t] = "run" /\ cur'[t] = 0
        \/ pc'[t] = "retry" /\ UNCHANGED cur
    BY <1>5, <1>6, <1>13 DEF Chain!Publish
  <2> QED
    BY <1>2, <1>3, <2>1, <2>2 DEF TickKnows
<1>14. CASE Chain!Retry(t)
  <2>1. pc[t] = "retry" /\ UNCHANGED batch
    BY <1>14 DEF Chain!Retry
  <2>2. \/ Chain!SetJob(cur[t], "FAILED") /\ pc'[t] = "compensateFailed" /\ UNCHANGED cur
        \/ Chain!SetJob(cur[t], "PENDING") /\ pc'[t] = "run" /\ cur'[t] = 0
    BY <1>5, <1>6, <1>14 DEF Chain!Retry
  <2>3. \/ /\ job'[s] = IF s = cur[t] THEN "FAILED" ELSE job[s]
           /\ pc'[t] = "compensateFailed" /\ UNCHANGED cur
        \/ /\ job'[s] = IF s = cur[t] THEN "PENDING" ELSE job[s]
           /\ pc'[t] = "run" /\ cur'[t] = 0
    BY <1>4, <2>2
  <2>4. s = cur[t] => s \notin batch[t]
    BY <1>2, <2>1 DEF TickKnows
  <2> QED
    BY <1>2, <1>3, <2>1, <2>3, <2>4 DEF TickKnows
<1>15. CASE Chain!TickFails(t)
  <2>1. batch'[t] = {} /\ cur'[t] = 0
    BY <1>6, <1>7, <1>15 DEF Chain!TickFails
  <2> QED
    BY <1>3, <2>1 DEF TickKnows
<1> QED
  BY <1>8, <1>9, <1>10, <1>11, <1>12, <1>13, <1>14, <1>15 DEF Chain!Tick

\* What a promise chain knows of the row it has in hand after its own step.
LEMMA ChainLearns ==
  ASSUME Chain!EtoOrchestratorAssumption, ChainTyped, Knows,
         NEW r \in Replicas, NEW u \in Chain!Steps,
         Chain!Ingest(r, u) \/ Chain!Lose(r, u) \/ Chain!IngestFails(r, u),
         NEW s \in Chain!Steps, s \notin met
  PROVE  ChainKnows(r, u, s)'
<1>1. SagaTypes
  BY ChainTypes DEF ChainTyped
<1>2. ChainKnows(r, u, s)
  BY DEF Knows
<1>3. ASSUME NEW x, Chain!At(r, u, x) PROVE ingest'[r][u] = x
  BY <1>1, <1>3 DEF Chain!At, SagaTypes
<1>4. CASE ingest'[r][u] \notin {"complete", "unblock"}
  BY <1>4 DEF ChainKnows
<1>5. CASE UNCHANGED <<ingest, next, job>>
  BY <1>2, <1>5 DEF ChainKnows
<1>6. CASE Chain!FindJob(r, u)
  <2>1. UNCHANGED job /\ (ingest'[r][u] = "none" \/ (ingest'[r][u] = "complete" /\ job[u] \in Chain!Open))
    BY <1>3, <1>6 DEF Chain!FindJob, Chain!jobVars
  <2> QED
    BY <1>4, <2>1 DEF ChainKnows
<1>7. CASE Chain!FindNext(r, u)
  <2>1. CASE Chain!Blocked # {} /\ next' = [next EXCEPT ![r][u] = Chain!Min(Chain!Blocked)]
    <3>1. next'[r][u] = Chain!Min(Chain!Blocked) /\ job[Chain!Min(Chain!Blocked)] = "BLOCKED"
      BY <1>1, <2>1, LowestBlocked DEF SagaTypes, Chain!Blocked
    <3>2. UNCHANGED job /\ ingest'[r][u] \in {"none", "unblock"}
      BY <1>3, <1>7 DEF Chain!FindNext, Chain!jobVars
    <3> QED
      BY <3>1, <3>2 DEF ChainKnows
  <2>2. CASE Chain!At(r, u, "none")
    BY <1>3, <1>4, <2>2
  <2> QED
    BY <1>7, <2>1, <2>2 DEF Chain!FindNext
<1>8. CASE Chain!Complete(r, u) \/ Chain!Unblock(r, u) \/ Chain!IngestFails(r, u)
  BY <1>3, <1>4, <1>8 DEF Chain!Complete, Chain!Unblock, Chain!IngestFails
<1>9. CASE Chain!Receive(r, u) \/ Chain!Lose(r, u)
  BY <1>3, <1>4, <1>5, <1>9 DEF Chain!Receive, Chain!Lose, Chain!jobVars, Chain!ingestVars
<1> QED
  BY <1>6, <1>7, <1>8, <1>9 DEF Chain!Ingest

\* Knowledge survives where the job stays as it is and nobody takes anything new in hand.
LEMMA TickStillKnows ==
  ASSUME NEW t \in Ticks, NEW s \in Chain!Steps, TickKnows(t, s),
         batch'[t] = batch[t] /\ cur'[t] = cur[t] /\ pc'[t] = pc[t],
         job'[s] = job[s] \/ ~Chain!TickHas(t, s)
  PROVE  TickKnows(t, s)'
  BY DEF TickKnows, Chain!TickHas

LEMMA ChainStillKnows ==
  ASSUME NEW r \in Replicas, NEW u \in Chain!Steps, NEW s \in Chain!Steps, ChainKnows(r, u, s),
         ingest'[r][u] = ingest[r][u] /\ next'[r][u] = next[r][u],
         job'[s] = job[s] \/ ~Chain!ChainHas(r, u, s)
  PROVE  ChainKnows(r, u, s)'
  BY DEF ChainKnows, Chain!ChainHas

Known(s) ==
  /\ Settled(s)
  /\ \A t \in Ticks : TickKnows(t, s)
  /\ \A r \in Replicas, u \in Chain!Steps : ChainKnows(r, u, s)

LEMMA KnownStep ==
  ASSUME Chain!EtoOrchestratorAssumption, ChainTyped, Knows, [Chain!Next]_(Chain!vars),
         NEW s \in Chain!Steps, s \notin met
  PROVE  Known(s)'
<1>1. QueueTypes /\ TickTypes /\ SagaTypes /\ InHandIsBegun
  BY ChainTypes DEF ChainTyped
<1>2. /\ Settled(s)
      /\ \A t \in Ticks : TickKnows(t, s)
      /\ \A r \in Replicas, u \in Chain!Steps : ChainKnows(r, u, s)
  BY DEF Knows
<1>3. /\ \A t, v \in Ticks : Chain!TickHas(t, s) /\ Chain!TickHas(v, s) => t = v
      /\ \A t \in Ticks, r \in Replicas, u \in Chain!Steps :
           ~(Chain!TickHas(t, s) /\ Chain!ChainHas(r, u, s))
      /\ \A r, q \in Replicas, u, v \in Chain!Steps :
           Chain!ChainHas(r, u, s) /\ Chain!ChainHas(q, v, s) => <<r, u>> = <<q, v>>
  BY HasAlone DEF Knows
<1>4. ASSUME NEW t \in Ticks, Chain!Tick(t) \/ Chain!TickFails(t) PROVE Known(s)'
  <2>1. /\ UNCHANGED <<everDone, redone, ingest, next>>
        /\ \A v \in Ticks \ {t} : batch'[v] = batch[v] /\ cur'[v] = cur[v] /\ pc'[v] = pc[v]
        /\ job'[s] # job[s] => Chain!TickHas(t, s) /\ job[s] \in {"PENDING", "IN_PROGRESS"}
    BY <1>4, TickAlone, TickFinds
  <2>2. \A v \in Ticks : TickKnows(v, s)'
    <3> SUFFICES ASSUME NEW v \in Ticks PROVE TickKnows(v, s)'
      OBVIOUS
    <3>1. CASE v = t
      BY <1>4, <3>1, TickLearns
    <3>2. CASE v # t
      <4>1. job'[s] = job[s] \/ ~Chain!TickHas(v, s)
        BY <1>3, <2>1, <3>2
      <4> QED
        BY <1>2, <2>1, <3>2, <4>1, TickStillKnows
    <3> QED
      BY <3>1, <3>2
  <2>3. \A r \in Replicas, u \in Chain!Steps : ChainKnows(r, u, s)'
    BY <1>2, <1>3, <2>1, ChainStillKnows
  <2>4. Settled(s)'
    <3>1. compensated' = compensated \/ (UNCHANGED job /\ compensated' = compensated \cup {cur[t]}
                                          /\ pc[t] \in {"compensateLate", "compensateFailed"})
      BY <1>4 DEF Chain!Tick, Chain!RecoverFetch, Chain!RecoverFail, Chain!Compensate, Chain!Fetch,
         Chain!Start, Chain!Publish, Chain!Retry, Chain!TickFails, Chain!histories, Chain!jobVars
    <3>2. pc[t] \in {"compensateLate", "compensateFailed"} /\ cur[t] = s => job[s] = "FAILED"
      BY <1>2 DEF TickKnows
    <3> QED
      BY <1>2, <2>1, <3>1, <3>2 DEF Settled
  <2> QED
    BY <2>2, <2>3, <2>4 DEF Known
<1>5. ASSUME NEW r \in Replicas, NEW u \in Chain!Steps,
             Chain!Ingest(r, u) \/ Chain!Lose(r, u) \/ Chain!IngestFails(r, u)
      PROVE  Known(s)'
  <2>1. /\ UNCHANGED <<pc, batch, cur, compensated>>
        /\ \A q \in Replicas, v \in Chain!Steps :
             <<q, v>> # <<r, u>> => ingest'[q][v] = ingest[q][v] /\ next'[q][v] = next[q][v]
        /\ UNCHANGED <<everDone, redone>> \/ Chain!Complete(r, u)
        /\ ChainJob(r, u, s)
    BY <1>5, ChainAlone
  <2>2. job'[s] # job[s] =>
          /\ Chain!ChainHas(r, u, s)
          /\ \/ s = u /\ ingest[r][u] = "complete" /\ job[s] \in Chain!Open /\ job'[s] = "DONE"
             \/ /\ s = next[r][u] /\ ingest[r][u] = "unblock"
                /\ job[s] = "BLOCKED" /\ job'[s] = "PENDING"
    BY <2>1, ChainFinds
  <2>3. \A t \in Ticks : TickKnows(t, s)'
    BY <1>2, <1>3, <2>1, <2>2, TickStillKnows
  <2>4. ASSUME NEW q \in Replicas, NEW v \in Chain!Steps PROVE ChainKnows(q, v, s)'
    <3>1. CASE <<q, v>> = <<r, u>>
      BY <1>5, <3>1, ChainLearns
    <3>2. CASE <<q, v>> # <<r, u>>
      <4>1. job'[s] = job[s] \/ ~Chain!ChainHas(q, v, s)
        BY <1>3, <2>2, <3>2
      <4> QED
        BY <1>2, <2>1, <3>2, <4>1, ChainStillKnows
    <3> QED
      BY <3>1, <3>2
  <2>5. Settled(s)'
    <3>1. CASE Chain!Complete(r, u)
      <4>1. /\ ingest[r][u] = "complete" /\ everDone' = everDone \cup {u}
            /\ job'[s] = IF s = u THEN "DONE" ELSE job[s]
        BY <1>1, <3>1 DEF Chain!Complete, Chain!SetJob, QueueTypes
      <4>2. s = u => job[s] \in {"PENDING", "IN_PROGRESS"}
        BY <1>2, <4>1 DEF ChainKnows, Chain!Open
      <4> QED
        BY <1>2, <2>1, <4>1, <4>2 DEF Settled
    <3>2. CASE UNCHANGED everDone
      <4>1. CASE job'[s] = job[s]
        BY <1>2, <2>1, <3>2, <4>1 DEF Settled
      <4>2. CASE job'[s] # job[s]
        BY <1>2, <2>1, <2>2, <3>2, <4>2 DEF Settled, Chain!Open
      <4> QED
        BY <4>1, <4>2
    <3> QED
      BY <2>1, <3>1, <3>2
  <2> QED
    BY <2>3, <2>4, <2>5 DEF Known
<1>6. ASSUME NEW r \in Replicas, Chain!Restart(r) PROVE Known(s)'
  <2>1. /\ UNCHANGED <<job, everDone, redone, compensated>>
        /\ \A t \in Ticks : \/ batch'[t] = batch[t] /\ cur'[t] = cur[t] /\ pc'[t] = pc[t]
                            \/ batch'[t] = {} /\ cur'[t] = 0
        /\ \A q \in Replicas, v \in Chain!Steps :
             \/ ingest'[q][v] = ingest[q][v] /\ next'[q][v] = next[q][v]
             \/ ingest'[q][v] = "none"
    BY <1>6, RestartClears
  <2>2. s # 0
    BY DEF Chain!Steps
  <2> QED
    BY <1>2, <2>1, <2>2 DEF Known, Settled, TickKnows, ChainKnows
<1>7. ASSUME RestOfNext PROVE Known(s)'
  <2>1. /\ UNCHANGED <<pc, batch, cur, ingest, next, everDone, redone, compensated>>
        /\ \/ UNCHANGED job
           \/ /\ Chain!Enqueue
              /\ job' = [job EXCEPT ![enqueued + 1] = IF enqueued + 1 = 1 THEN "PENDING" ELSE "BLOCKED"]
    BY <1>7, RestMoves
  <2>2. job'[s] = job[s] \/ job[s] = "absent"
    BY <1>1, <2>1 DEF QueueTypes, Chain!Steps
  <2>3. job[s] = "absent" => /\ s \notin everDone /\ s \notin compensated
                             /\ \A t \in Ticks : s \notin batch[t] /\ cur[t] # s
                             /\ \A r \in Replicas, u \in Chain!Steps :
                                  /\ ingest[r][u] = "complete" => u # s
                                  /\ ingest[r][u] = "unblock" => next[r][u] # s
    BY <1>2 DEF Settled, TickKnows, ChainKnows, Chain!Open
  <2> QED
    BY <1>2, <2>1, <2>2, <2>3 DEF Known, Settled, TickKnows, ChainKnows
<1> QED
  BY <1>4, <1>5, <1>6, <1>7, NextIs

LEMMA KnowsStep ==
  ASSUME Chain!EtoOrchestratorAssumption, ChainTyped, Knows, [Chain!Next]_(Chain!vars)
  PROVE  Knows'
<1>1. TickTypes
  BY ChainTypes DEF ChainTyped
<1>2. met \subseteq met' /\ Chain!Shared' \subseteq met'
  BY MetGrows DEF Knows
<1>3. \A s \in Chain!Steps \ met' : Known(s)'
  BY <1>2, KnownStep
<1>4. redone' \subseteq met'
  <2>1. CASE UNCHANGED redone
    BY <1>2, <2>1 DEF Knows
  <2>2. ASSUME NEW r \in Replicas, NEW u \in Chain!Steps, Chain!Complete(r, u)
        PROVE  redone' \subseteq met'
    <3>1. ingest[r][u] = "complete" /\ redone' = redone \cup ({u} \cap everDone)
      BY <2>2 DEF Chain!Complete
    <3>2. u \notin met => u \notin everDone
      BY <3>1 DEF Knows, ChainKnows, Settled, Chain!Open
    <3> QED
      BY <1>2, <3>1, <3>2 DEF Knows
  <2> QED
    BY <2>1, <2>2, NextIs, TickAlone, ChainAlone, RestartClears, RestMoves
<1>5. ASSUME NEW t \in Ticks, pc'[t] \in {"idle", "fetch"} PROVE batch'[t] = {}
  <2>1. pc[t] \in {"idle", "fetch"} => batch[t] = {}
    BY DEF Knows
  <2>2. CASE batch'[t] = batch[t] /\ pc'[t] = pc[t]
    BY <1>5, <2>1, <2>2
  <2>3. CASE Chain!Tick(t) \/ Chain!TickFails(t)
    BY <1>1, <1>5, <2>1, <2>3 DEF Chain!Tick, Chain!RecoverFetch, Chain!RecoverFail, Chain!Compensate,
       Chain!Fetch, Chain!Start, Chain!Publish, Chain!Retry, Chain!TickFails, Chain!Hold, Chain!Goto,
       TickTypes
  <2>4. ASSUME NEW r \in Replicas, Chain!Restart(r) PROVE batch'[t] = {}
    BY <1>5, <2>1, <2>4, RestartClears
  <2> QED
    BY <2>2, <2>3, <2>4, NextIs, TickAlone, ChainAlone, RestMoves
<1> QED
  BY <1>2, <1>3, <1>4, <1>5 DEF Knows, Known

-----------------------------------------------------------------------------
(* The chain of jobs: one step after the other *)

\* A promise chain that has completed its step and may still begin a job.
Pending(r, u) ==
  \/ ingest[r][u] = "findNext"
  \/ ingest[r][u] = "unblock" /\ job[next[r][u]] = "BLOCKED"

\* The jobs that have begun are the first ones; who is about to begin a job has begun all before
\* it; and while no job was completed twice, at most one promise chain may begin a job, and then
\* all that have begun are done.
Order ==
  /\ \A s, u \in Chain!Steps : u < s /\ Begun(s) => Begun(u)
  /\ \A s \in everDone : Begun(s)
  /\ \A r \in Replicas, u \in Chain!Steps :
       ingest[r][u] = "unblock" => \A v \in Chain!Steps : v < next[r][u] => Begun(v)
  /\ InOrder
  /\ redone = {} =>
       /\ \A r \in Replicas, u \in Chain!Steps :
            Pending(r, u) => \A v \in Chain!Steps : Begun(v) => v \in everDone
       /\ \A r, q \in Replicas, u, v \in Chain!Steps :
            Pending(r, u) /\ Pending(q, v) => r = q /\ u = v

\* Where no job begins, is completed, or may be begun by another promise chain.
LEMMA OrderKept ==
  ASSUME Order, everDone' = everDone, redone' = redone,
         \A s \in Chain!Steps : Begun(s)' <=> Begun(s),
         \A r \in Replicas, u \in Chain!Steps : Pending(r, u)' => Pending(r, u),
         \A r \in Replicas, u \in Chain!Steps :
           ingest'[r][u] = "unblock" => \A v \in Chain!Steps : v < next'[r][u] => Begun(v),
         everDone \subseteq Chain!Steps
  PROVE  Order'
<1>1. InOrder'
  BY DEF Order, InOrder, Begun, Steps, Chain!Steps
<1>2. redone' = {} =>
        /\ \A r \in Replicas, u \in Chain!Steps :
             Pending(r, u)' => \A v \in Chain!Steps : Begun(v)' => v \in everDone'
        /\ \A r, q \in Replicas, u, v \in Chain!Steps :
             Pending(r, u)' /\ Pending(q, v)' => r = q /\ u = v
  BY DEF Order
<1>3. /\ \A s, u \in Chain!Steps : u < s /\ Begun(s)' => Begun(u)'
      /\ \A s \in everDone' : Begun(s)'
      /\ \A r \in Replicas, u \in Chain!Steps :
           ingest'[r][u] = "unblock" => \A v \in Chain!Steps : v < next'[r][u] => Begun(v)'
  BY DEF Order
<1> QED
  BY <1>1, <1>2, <1>3 DEF Order

\* A promise chain that is not touched may not begin more than before.
LEMMA PendingStays ==
  ASSUME Chain!EtoOrchestratorAssumption, ChainTyped, [Chain!Next]_(Chain!vars),
         NEW r \in Replicas, NEW u \in Chain!Steps,
         \/ ingest'[r][u] = ingest[r][u] /\ next'[r][u] = next[r][u]
         \/ ingest'[r][u] \notin {"findNext", "unblock"}
  PROVE  Pending(r, u)' => Pending(r, u)
<1>1. CASE ingest'[r][u] \notin {"findNext", "unblock"}
  BY <1>1 DEF Pending
<1>2. CASE ingest'[r][u] = ingest[r][u] /\ next'[r][u] = next[r][u]
  <2>1. ingest[r][u] = "unblock" => next[r][u] \in Chain!Steps /\ job[next[r][u]] # "absent"
    BY DEF ChainTyped, InHandIsBegun
  <2>2. \A n \in Chain!Steps : Begun(n) => Begun(n)'
    BY BegunStays
  <2> QED
    BY <1>2, <2>1, <2>2 DEF Pending, Begun
<1> QED
  BY <1>1, <1>2

LEMMA TickOrder ==
  ASSUME Chain!EtoOrchestratorAssumption, ChainTyped, Order, [Chain!Next]_(Chain!vars),
         NEW t \in Ticks, Chain!Tick(t) \/ Chain!TickFails(t)
  PROVE  Order'
<1>1. HistoryTypes /\ TickTypes /\ InHandIsBegun
  BY ChainTypes DEF ChainTyped
<1>2. UNCHANGED <<everDone, redone, ingest, next>> /\ \A s \in Chain!Steps : TickJob(t, s)
  BY TickAlone
<1>3. \A s \in Chain!Steps : Begun(s)' <=> Begun(s)
  <2> SUFFICES ASSUME NEW s \in Chain!Steps PROVE Begun(s)' <=> Begun(s)
    OBVIOUS
  <2>1. TickJob(t, s) /\ s # 0
    BY <1>2 DEF Chain!Steps
  <2> QED
    BY <1>1, <2>1, BegunStays DEF TickJob, InHandIsBegun, Begun
<1>4. \A r \in Replicas, u \in Chain!Steps : Pending(r, u)' => Pending(r, u)
  BY <1>2, PendingStays
<1>5. \A r \in Replicas, u \in Chain!Steps :
        ingest'[r][u] = "unblock" => \A v \in Chain!Steps : v < next'[r][u] => Begun(v)
  BY <1>2 DEF Order
<1> QED
  BY <1>1, <1>2, <1>3, <1>4, <1>5, OrderKept DEF HistoryTypes

\* A step that completes a job that was not done: it is the last that has begun, and its promise
\* chain is the only one that may begin another.
LEMMA CompleteOrder ==
  ASSUME Chain!EtoOrchestratorAssumption, ChainTyped, Order, [Chain!Next]_(Chain!vars),
         NEW r \in Replicas, NEW u \in Chain!Steps, Chain!Complete(r, u)
  PROVE  Order'
<1>1. QueueTypes /\ SagaTypes /\ HistoryTypes /\ InHandIsBegun
  BY ChainTypes DEF ChainTyped
<1>2. /\ everDone' = everDone \cup {u} /\ redone' = redone \cup ({u} \cap everDone)
      /\ next' = next /\ ingest[r][u] = "complete" /\ ingest'[r][u] = "findNext"
      /\ \A q \in Replicas, v \in Chain!Steps :
           <<q, v>> # <<r, u>> => ingest'[q][v] = ingest[q][v]
  BY <1>1 DEF Chain!Complete, Chain!At, SagaTypes
<1>3. Begun(u) /\ \A s \in Chain!Steps : Begun(s)' <=> Begun(s)
  <2>1. Begun(u)
    BY <1>1, <1>2 DEF InHandIsBegun
  <2>2. \A s \in Chain!Steps : job'[s] = IF s = u THEN "DONE" ELSE job[s]
    BY <1>1 DEF Chain!Complete, Chain!SetJob, QueueTypes
  <2> QED
    BY <2>1, <2>2 DEF Begun
<1>4. \A q \in Replicas, v \in Chain!Steps :
        <<q, v>> # <<r, u>> => (Pending(q, v)' => Pending(q, v))
  BY <1>2, PendingStays
<1>5. InOrder'
  <2>1. everDone \subseteq everDone' /\ redone \subseteq redone'
    BY <1>2
  <2> QED
    BY <1>3, <2>1 DEF Order, InOrder, Begun, Steps, Chain!Steps
<1>6. /\ \A s, v \in Chain!Steps : v < s /\ Begun(s)' => Begun(v)'
      /\ \A s \in everDone' : Begun(s)'
  BY <1>1, <1>2, <1>3 DEF Order, HistoryTypes
<1>7. \A q \in Replicas, v \in Chain!Steps :
        ingest'[q][v] = "unblock" => \A w \in Chain!Steps : w < next'[q][v] => Begun(w)'
  BY <1>2, <1>3 DEF Order
<1>8. ASSUME redone' = {}
      PROVE  /\ u \notin everDone
             /\ \A q \in Replicas, v \in Chain!Steps : ~Pending(q, v)
             /\ \A v \in Chain!Steps : Begun(v) => v \in everDone'
  <2>1. u \notin everDone /\ redone = {}
    BY <1>2, <1>8
  <2>2. \A q \in Replicas, v \in Chain!Steps : ~Pending(q, v)
    BY <1>3, <2>1 DEF Order
  <2>3. ASSUME NEW v \in Chain!Steps, Begun(v), v # u PROVE v \in everDone
    <3>1. \A w \in Chain!Steps : w + 1 \in Chain!Steps /\ Begun(w + 1) => w \in everDone
      <4> SUFFICES ASSUME NEW w \in Chain!Steps, w + 1 \in Chain!Steps, Begun(w + 1)
                   PROVE  w \in everDone
        OBVIOUS
      <4>1. w + 1 > 1 /\ (w + 1) - 1 = w
        BY DEF Chain!Steps
      <4> QED
        BY <2>1, <4>1 DEF Order, InOrder, Begun, Steps, Chain!Steps
    <3>2. CASE v < u
      <4>1. v + 1 \in Chain!Steps /\ (v + 1 = u \/ v + 1 < u)
        BY <3>2 DEF Chain!Steps
      <4>2. Begun(v + 1)
        BY <1>3, <4>1 DEF Order
      <4> QED
        BY <3>1, <4>1, <4>2
    <3>3. CASE u < v
      <4>1. u + 1 \in Chain!Steps /\ (u + 1 = v \/ u + 1 < v)
        BY <3>3 DEF Chain!Steps
      <4>2. Begun(u + 1)
        BY <2>3, <4>1 DEF Order
      <4> QED
        BY <2>1, <3>1, <4>2, <4>1
    <3> QED
      BY <2>3, <3>2, <3>3 DEF Chain!Steps
  <2> QED
    BY <1>2, <2>1, <2>2, <2>3
<1>9. redone' = {} =>
        /\ \A q \in Replicas, v \in Chain!Steps :
             Pending(q, v)' => \A w \in Chain!Steps : Begun(w)' => w \in everDone'
        /\ \A p, q \in Replicas, v, w \in Chain!Steps :
             Pending(p, v)' /\ Pending(q, w)' => p = q /\ v = w
  <2> SUFFICES ASSUME redone' = {}
               PROVE  /\ \A w \in Chain!Steps : Begun(w)' => w \in everDone'
                      /\ \A q \in Replicas, v \in Chain!Steps : Pending(q, v)' => q = r /\ v = u
    OBVIOUS
  <2>1. \A w \in Chain!Steps : Begun(w)' => w \in everDone'
    BY <1>3, <1>8
  <2>2. \A q \in Replicas, v \in Chain!Steps : Pending(q, v)' => q = r /\ v = u
    BY <1>4, <1>8
  <2> QED
    BY <2>1, <2>2
<1> QED
  BY <1>5, <1>6, <1>7, <1>9 DEF Order

\* A step that unblocks a job: the first one that had not begun, or one that has begun already.
LEMMA UnblockOrder ==
  ASSUME Chain!EtoOrchestratorAssumption, ChainTyped, Order, [Chain!Next]_(Chain!vars),
         NEW r \in Replicas, NEW u \in Chain!Steps, Chain!Unblock(r, u)
  PROVE  Order'
<1> DEFINE n == next[r][u]
<1>1. QueueTypes /\ SagaTypes /\ HistoryTypes /\ InHandIsBegun
  BY ChainTypes DEF ChainTyped
<1>2. /\ UNCHANGED <<everDone, redone>> /\ ingest[r][u] = "unblock" /\ ingest'[r][u] = "none"
      /\ n \in Chain!Steps /\ job[n] # "absent"
      /\ \A q \in Replicas, v \in Chain!Steps :
           <<q, v>> # <<r, u>> => ingest'[q][v] = ingest[q][v] /\ next'[q][v] = next[q][v]
  BY <1>1 DEF Chain!Unblock, Chain!At, SagaTypes, InHandIsBegun, Chain!histories
<1>3. \A s \in Chain!Steps : job'[s] = IF s = n THEN "PENDING" ELSE job[s]
  BY <1>1 DEF Chain!Unblock, Chain!UnblockJob, Chain!SetJob, QueueTypes
<1>4. \A q \in Replicas, v \in Chain!Steps : Pending(q, v)' => Pending(q, v) /\ <<q, v>> # <<r, u>>
  <2>1. \A q \in Replicas, v \in Chain!Steps : Pending(q, v)' => Pending(q, v)
    BY <1>2, PendingStays
  <2> QED
    BY <1>2, <2>1 DEF Pending
<1>5. \A q \in Replicas, v \in Chain!Steps :
        ingest'[q][v] = "unblock" => \A w \in Chain!Steps : w < next'[q][v] => Begun(w)
  BY <1>2 DEF Order
<1>6. \A v \in Chain!Steps : v < n => Begun(v)
  BY <1>2 DEF Order
<1> HIDE DEF n
<1>7. CASE Begun(n)
  <2>1. \A s \in Chain!Steps : Begun(s)' <=> Begun(s)
    BY <1>3, <1>7 DEF Begun
  <2> QED
    BY <1>1, <1>2, <1>4, <1>5, <2>1, OrderKept DEF HistoryTypes
<1>8. CASE ~Begun(n)
  <2>1. Pending(r, u)
    BY <1>2, <1>8 DEF Pending, Begun, n
  <2>2. \A s \in Chain!Steps : Begun(s)' <=> Begun(s) \/ s = n
    BY <1>3 DEF Begun
  <2>3. \A s, v \in Chain!Steps : v < s /\ Begun(s)' => Begun(v)'
    BY <1>6, <2>2 DEF Order
  <2>4. \A s \in everDone' : Begun(s)'
    BY <1>1, <1>2, <2>2 DEF Order, HistoryTypes
  <2>5. n > 1 => n - 1 \in everDone \/ \E v \in 1..(n - 1) : v \in redone
    <3> SUFFICES ASSUME n > 1, \A v \in 1..(n - 1) : v \notin redone PROVE n - 1 \in everDone
      OBVIOUS
    <3>1. n - 1 \in Chain!Steps /\ n - 1 < n
      BY <1>2 DEF Chain!Steps, Chain!EtoOrchestratorAssumption
    <3>2. ASSUME NEW v \in redone PROVE FALSE
      <4>1. v \in Chain!Steps /\ Begun(v)
        BY <1>1 DEF HistoryTypes, Order
      <4>2. v # n /\ ~(n < v)
        BY <1>2, <1>8, <4>1 DEF Order
      <4>3. v \in 1..(n - 1)
        BY <1>2, <4>1, <4>2 DEF Chain!Steps
      <4> QED
        BY <4>3
    <3> QED
      BY <1>6, <2>1, <3>1, <3>2 DEF Order
  <2>6. InOrder'
    <3> SUFFICES ASSUME NEW s \in Chain!Steps, s > 1, Begun(s)'
                 PROVE  s - 1 \in everDone' \/ \E v \in 1..(s - 1) : v \in redone'
      BY DEF InOrder, Begun, Steps, Chain!Steps
    <3>1. CASE s = n
      BY <1>2, <2>5, <3>1
    <3>2. CASE Begun(s)
      BY <1>2, <3>2 DEF Order, InOrder, Begun, Steps, Chain!Steps
    <3> QED
      BY <2>2, <3>1, <3>2
  <2>7. \A q \in Replicas, v \in Chain!Steps :
          ingest'[q][v] = "unblock" => \A w \in Chain!Steps : w < next'[q][v] => Begun(w)'
    BY <1>5, <2>2
  <2>8. redone' = {} => \A q \in Replicas, v \in Chain!Steps : ~Pending(q, v)'
    <3> SUFFICES ASSUME redone' = {}, NEW q \in Replicas, NEW v \in Chain!Steps, Pending(q, v)'
                 PROVE  FALSE
      OBVIOUS
    <3>1. q = r /\ v = u
      BY <1>2, <1>4, <2>1 DEF Order
    <3> QED
      BY <1>4, <3>1
  <2> QED
    BY <2>3, <2>4, <2>6, <2>7, <2>8 DEF Order
<1> QED
  BY <1>7, <1>8

LEMMA ChainOrder ==
  ASSUME Chain!EtoOrchestratorAssumption, ChainTyped, Order, [Chain!Next]_(Chain!vars),
         NEW r \in Replicas, NEW u \in Chain!Steps,
         Chain!Ingest(r, u) \/ Chain!Lose(r, u) \/ Chain!IngestFails(r, u)
  PROVE  Order'
<1>1. CASE Chain!Complete(r, u) \/ Chain!Unblock(r, u)
  BY <1>1, CompleteOrder, UnblockOrder
<1>2. CASE /\ ~Chain!Complete(r, u) /\ ~Chain!Unblock(r, u)
  <2>1. QueueTypes /\ SagaTypes /\ HistoryTypes
    BY ChainTypes DEF ChainTyped
  <2>2. /\ UNCHANGED <<everDone, redone>>
        /\ \A q \in Replicas, v \in Chain!Steps :
             <<q, v>> # <<r, u>> => ingest'[q][v] = ingest[q][v] /\ next'[q][v] = next[q][v]
    BY <1>2, ChainAlone
  <2>3. UNCHANGED job
    BY <1>2 DEF Chain!Ingest, Chain!Receive, Chain!FindJob, Chain!FindNext, Chain!Lose,
       Chain!IngestFails, Chain!jobVars
  <2>4. \A s \in Chain!Steps : Begun(s)' <=> Begun(s)
    BY <2>3 DEF Begun
  <2>5. ASSUME NEW x, Chain!At(r, u, x) PROVE ingest'[r][u] = x
    BY <2>1, <2>5 DEF Chain!At, SagaTypes
  <2>6. \/ ingest'[r][u] = ingest[r][u] /\ next'[r][u] = next[r][u]
        \/ ingest'[r][u] \notin {"findNext", "unblock"}
        \/ ingest[r][u] = "findNext" /\ Chain!Blocked # {} /\ next'[r][u] = Chain!Min(Chain!Blocked)
    <3>1. CASE Chain!FindNext(r, u)
      BY <2>1, <2>5, <3>1 DEF Chain!FindNext, SagaTypes
    <3>2. CASE ~Chain!FindNext(r, u)
      BY <1>2, <2>5, <3>2 DEF Chain!Ingest, Chain!Receive, Chain!FindJob, Chain!Lose,
         Chain!IngestFails, Chain!ingestVars
    <3> QED
      BY <3>1, <3>2
  <2>7. ASSUME NEW q \in Replicas, NEW v \in Chain!Steps PROVE Pending(q, v)' => Pending(q, v)
    BY <2>2, <2>6, PendingStays DEF Pending
  <2>8. ASSUME NEW q \in Replicas, NEW v \in Chain!Steps, ingest'[q][v] = "unblock",
               NEW w \in Chain!Steps, w < next'[q][v]
        PROVE  Begun(w)
    <3>1. CASE ingest'[q][v] = ingest[q][v] /\ next'[q][v] = next[q][v]
      BY <2>8, <3>1 DEF Order
    <3>2. CASE Chain!Blocked # {} /\ next'[q][v] = Chain!Min(Chain!Blocked)
      <4> DEFINE m == Chain!Min(Chain!Blocked)
      <4>1. m \in Chain!Steps /\ job[m] = "BLOCKED" /\ \A s \in Chain!Blocked : m <= s
        BY <3>2, LowestBlocked DEF Chain!Blocked
      <4> HIDE DEF m
      <4>2. w < m
        BY <2>8, <3>2 DEF m
      <4>3. w \notin Chain!Blocked
        BY <4>1, <4>2 DEF Chain!Steps, Chain!Blocked
      <4>4. ~(m > enqueued) /\ enqueued \in Nat
        BY <2>1, <4>1 DEF QueueTypes
      <4>5. ~(w > enqueued)
        BY <4>1, <4>2, <4>4 DEF Chain!Steps
      <4> QED
        BY <2>1, <4>3, <4>5 DEF QueueTypes, Begun, Chain!Blocked
    <3> QED
      BY <2>2, <2>6, <2>8, <3>1, <3>2
  <2> QED
    BY <2>1, <2>2, <2>4, <2>7, <2>8, OrderKept DEF HistoryTypes
<1> QED
  BY <1>1, <1>2

LEMMA OrderStep ==
  ASSUME Chain!EtoOrchestratorAssumption, ChainTyped, Order, [Chain!Next]_(Chain!vars)
  PROVE  Order'
<1>1. QueueTypes /\ TickTypes /\ SagaTypes /\ HistoryTypes /\ InHandIsBegun
  BY ChainTypes DEF ChainTyped
<1>2. ASSUME NEW r \in Replicas, Chain!Restart(r) PROVE Order'
  <2>1. /\ UNCHANGED <<job, everDone, redone, compensated>>
        /\ \A q \in Replicas, v \in Chain!Steps :
             \/ ingest'[q][v] = ingest[q][v] /\ next'[q][v] = next[q][v]
             \/ ingest'[q][v] = "none"
    BY <1>2, RestartClears
  <2>2. \A s \in Chain!Steps : Begun(s)' <=> Begun(s)
    BY <2>1 DEF Begun
  <2>3. \A q \in Replicas, v \in Chain!Steps : Pending(q, v)' => Pending(q, v)
    BY <2>1 DEF Pending
  <2>4. \A q \in Replicas, v \in Chain!Steps :
          ingest'[q][v] = "unblock" => \A w \in Chain!Steps : w < next'[q][v] => Begun(w)
    BY <2>1 DEF Order
  <2> QED
    BY <1>1, <2>1, <2>2, <2>3, <2>4, OrderKept DEF HistoryTypes
<1>3. ASSUME RestOfNext PROVE Order'
  <2>1. /\ UNCHANGED <<pc, batch, cur, ingest, next, everDone, redone, compensated>>
        /\ \/ UNCHANGED job
           \/ /\ Chain!Enqueue
              /\ job' = [job EXCEPT ![enqueued + 1] = IF enqueued + 1 = 1 THEN "PENDING" ELSE "BLOCKED"]
    BY <1>3, RestMoves
  <2>2. \A q \in Replicas, v \in Chain!Steps : Pending(q, v)' => Pending(q, v)
    BY <2>1, PendingStays
  <2>3. \A q \in Replicas, v \in Chain!Steps :
          ingest'[q][v] = "unblock" => \A w \in Chain!Steps : w < next'[q][v] => Begun(w)
    BY <2>1 DEF Order
  <2>4. CASE \A s \in Chain!Steps : Begun(s)' <=> Begun(s)
    BY <1>1, <2>1, <2>2, <2>3, <2>4, OrderKept DEF HistoryTypes
  <2>5. CASE UNCHANGED job
    <3>1. \A s \in Chain!Steps : Begun(s)' <=> Begun(s)
      BY <2>5 DEF Begun
    <3> QED
      BY <2>4, <3>1
  <2>6. CASE /\ enqueued # 0
             /\ job' = [job EXCEPT ![enqueued + 1] = IF enqueued + 1 = 1 THEN "PENDING" ELSE "BLOCKED"]
    <3>1. enqueued + 1 # 1 /\ enqueued \in Nat
      BY <1>1, <2>6 DEF QueueTypes
    <3>2. \A s \in Chain!Steps : s = enqueued + 1 => job[s] = "absent" /\ job'[s] = "BLOCKED"
      BY <1>1, <2>6, <3>1 DEF QueueTypes, Chain!Steps
    <3>3. \A s \in Chain!Steps : s # enqueued + 1 => job'[s] = job[s]
      BY <1>1, <2>6 DEF QueueTypes
    <3>4. \A s \in Chain!Steps : Begun(s)' <=> Begun(s)
      BY <3>2, <3>3 DEF Begun
    <3> QED
      BY <2>4, <3>4
  <2>7. CASE /\ enqueued = 0
             /\ job' = [job EXCEPT ![enqueued + 1] = IF enqueued + 1 = 1 THEN "PENDING" ELSE "BLOCKED"]
    <3>1. \A s \in Chain!Steps : job[s] = "absent" /\ ~Begun(s) /\ s \in Nat /\ s >= 1
      BY <1>1, <2>7 DEF QueueTypes, Begun, Chain!Steps
    <3>2. everDone = {}
      BY <1>1, <3>1 DEF Order, HistoryTypes
    <3>3. \A q \in Replicas, v \in Chain!Steps : ingest[q][v] \notin {"findNext", "unblock"}
      BY <1>1, <3>1 DEF InHandIsBegun
    <3>4. \A s \in Chain!Steps : Begun(s)' => s = 1
      BY <1>1, <2>7, <3>1 DEF QueueTypes, Begun
    <3>5. InOrder'
      BY <3>1, <3>4 DEF InOrder, Begun, Steps, Chain!Steps
    <3>6. \A q \in Replicas, v \in Chain!Steps : ~Pending(q, v)'
      BY <2>2, <3>3 DEF Pending
    <3>7. \A s, v \in Chain!Steps : v < s /\ Begun(s)' => Begun(v)'
      BY <3>1, <3>4
    <3> QED
      BY <2>1, <3>2, <3>3, <3>5, <3>6, <3>7 DEF Order
  <2> QED
    BY <2>1, <2>5, <2>6, <2>7
<1> QED
  BY <1>2, <1>3, NextIs, TickOrder, ChainOrder

LEMMA OrderInit ==
  ASSUME Chain!EtoOrchestratorAssumption, Chain!Init PROVE Order /\ Knows
<1>1. /\ \A s \in Chain!Steps : job[s] = "absent"
      /\ everDone = {} /\ redone = {} /\ compensated = {} /\ met = {}
      /\ \A t \in Ticks : batch[t] = {} /\ cur[t] = 0
      /\ \A r \in Replicas, u \in Chain!Steps : ingest[r][u] = "none"
  BY DEF Chain!Init
<1>2. \A s \in Chain!Steps : ~Begun(s) /\ s # 0
  BY <1>1 DEF Begun, Chain!Steps
<1>3. Order
  BY <1>1, <1>2 DEF Order, InOrder, Pending, Begun, Steps, Chain!Steps
<1>4. Chain!Shared = {}
  <2>1. \A t \in Ticks, s \in Chain!Steps : ~Chain!TickHas(t, s)
    BY <1>1, <1>2 DEF Chain!TickHas
  <2>2. \A r \in Replicas, u \in Chain!Steps, s \in Chain!Steps : ~Chain!ChainHas(r, u, s)
    BY <1>1 DEF Chain!ChainHas
  <2> QED
    BY <2>1, <2>2 DEF Chain!Shared, Chain!Steps
<1>5. Knows
  BY <1>1, <1>2, <1>4 DEF Knows, Settled, TickKnows, ChainKnows
<1> QED
  BY <1>3, <1>5

\* A step leaves BLOCKED only after the step before it was DONE, unless an earlier one was
\* completed twice: with any number of replicas, overlapping ticks, late completions and faults.
THEOREM StepsInOrder ==
  ASSUME Chain!EtoOrchestratorAssumption PROVE Chain!Safety => []InOrder
<1> DEFINE Inv == ChainTyped /\ Order
<1>1. Chain!Init => Inv
  BY ChainInit, OrderInit
<1>2. Inv /\ [Chain!Next]_(Chain!vars) => Inv'
  BY ChainTypedStep, OrderStep
<1>3. Inv => InOrder
  BY DEF Order
<1> QED
  BY <1>1, <1>2, <1>3, PTL DEF Chain!Safety

-----------------------------------------------------------------------------
(* The chain of jobs implements the pipeline *)

Phases == [s \in Steps |-> Phase(s)]

\* Phase, case by case.
LEMMA PhaseIs ==
  ASSUME NEW s \in Steps
  PROVE  /\ s \in met => Phase(s) = "clashed"
         /\ s \notin met =>
              /\ job[s] \in {"PENDING", "IN_PROGRESS"} => Phase(s) = "running"
              /\ job[s] = "DONE" => Phase(s) = "done"
              /\ job[s] = "FAILED" => Phase(s) = "failed"
              /\ job[s] \notin {"PENDING", "IN_PROGRESS", "DONE", "FAILED"} => Phase(s) = "waiting"
  BY DEF Phase

LEMMA PhaseStays ==
  ASSUME NEW s \in Steps, job'[s] = job[s], met' = met PROVE Phase(s)' = Phase(s)
  BY DEF Phase

\* Who takes nothing new in hand shares nothing new.
LEMMA NothingTaken ==
  ASSUME \A t \in Ticks, s \in Chain!Steps : Chain!TickHas(t, s)' => Chain!TickHas(t, s),
         \A r \in Replicas, u, s \in Chain!Steps : Chain!ChainHas(r, u, s)' => Chain!ChainHas(r, u, s)
  PROVE  Chain!Shared' \subseteq Chain!Shared
<1>1. ASSUME NEW s \in Chain!Steps, NEW t \in Ticks, Chain!TickHas(t, s)',
             \/ \E v \in Ticks \ {t} : Chain!TickHas(v, s)'
             \/ \E r \in Replicas, u \in Chain!Steps : Chain!ChainHas(r, u, s)'
      PROVE  s \in Chain!Shared
  BY <1>1 DEF Chain!Shared, Chain!Steps
<1>2. ASSUME NEW s \in Chain!Steps, NEW r \in Replicas, NEW u \in Chain!Steps, Chain!ChainHas(r, u, s)',
             \E q \in Replicas, v \in Chain!Steps : <<q, v>> # <<r, u>> /\ Chain!ChainHas(q, v, s)'
      PROVE  s \in Chain!Shared
  BY <1>2 DEF Chain!Shared, Chain!Steps
<1> QED
  BY <1>1, <1>2 DEF Chain!Shared, Chain!Steps

\* An update of a job, and a compensation, take nothing in hand.
LEMMA UpdatesTakeNothing ==
  ASSUME ChainTyped, Knows, [Chain!Next]_(Chain!vars), ~UNCHANGED <<job, compensated>>
  PROVE  met' = met
<1>1. \A s \in Chain!Steps : s # 0
  BY DEF Chain!Steps
<1>2. /\ \A t \in Ticks, s \in Chain!Steps : Chain!TickHas(t, s)' => Chain!TickHas(t, s)
      /\ \A r \in Replicas, u, s \in Chain!Steps : Chain!ChainHas(r, u, s)' => Chain!ChainHas(r, u, s)
  <2>1. ASSUME NEW t \in Ticks, Chain!Tick(t) \/ Chain!TickFails(t)
        PROVE  /\ \A v \in Ticks, s \in Chain!Steps : Chain!TickHas(v, s)' => Chain!TickHas(v, s)
               /\ UNCHANGED <<ingest, next>>
    BY <1>1, <2>1, TickAlone DEF Chain!TickHas
  <2>2. ASSUME NEW r \in Replicas, NEW u \in Chain!Steps,
               Chain!Ingest(r, u) \/ Chain!Lose(r, u) \/ Chain!IngestFails(r, u)
        PROVE  /\ UNCHANGED <<batch, cur>>
               /\ \A q \in Replicas, v, s \in Chain!Steps :
                    Chain!ChainHas(q, v, s)' => Chain!ChainHas(q, v, s)
    BY <2>2, ChainAlone DEF Chain!ChainHas
  <2>3. ASSUME RestOfNext PROVE UNCHANGED <<batch, cur, ingest, next>>
    BY <2>3, RestMoves
  <2> QED
    BY <2>1, <2>2, <2>3, NextIs, RestartClears DEF Chain!TickHas, Chain!ChainHas
<1> QED
  BY <1>2, NothingTaken, MetGrows DEF Knows

\* One job that nobody else has in hand moves: the phases of the others stay.
LEMMA OnePhase ==
  ASSUME NEW u \in Steps, Only(u), met' = met
  PROVE  Phases' = [Phases EXCEPT ![u] = Phase(u)']
<1>1. \A s \in Steps : s # u => Phase(s)' = Phase(s)
  BY PhaseStays DEF Only, Steps, Chain!Steps
<1>2. Phases' = [s \in Steps |-> Phase(s)']
  BY DEF Phases, Steps
<1> QED
  BY <1>1, <1>2 DEF Phases

\* The job that is about to begin follows jobs that are done, or one that clashed.
LEMMA BeginsAfter ==
  ASSUME Chain!EtoOrchestratorAssumption, ChainTyped, Knows, Order,
         NEW r \in Replicas, NEW u \in Chain!Steps, NEW s \in Chain!Steps,
         ingest[r][u] = "unblock", s = next[r][u], job[s] = "BLOCKED"
  PROVE  \/ \A w \in 1..(s - 1) : Phases[w] = "done"
         \/ \E w \in 1..(s - 1) : Phases[w] = "clashed"
<1> SUFFICES ASSUME \A w \in 1..(s - 1) : Phases[w] # "clashed", NEW w \in 1..(s - 1)
             PROVE  Phases[w] = "done"
  OBVIOUS
<1>1. NumSteps \in Nat /\ HistoryTypes
  BY ChainTypes DEF Chain!EtoOrchestratorAssumption, ChainTyped
<1>2. \A v \in 1..(s - 1) : v \in Steps /\ v < s /\ v \notin met
  <2> SUFFICES ASSUME NEW v \in 1..(s - 1) PROVE v \in Steps /\ v < s /\ v \notin met
    OBVIOUS
  <2>1. v \in Steps /\ v < s
    BY <1>1 DEF Steps, Chain!Steps
  <2>2. Phase(v) # "clashed"
    BY <2>1 DEF Phases
  <2> QED
    BY <2>1, <2>2, PhaseIs
<1>3. ~Begun(s)
  BY DEF Begun
<1>4. ASSUME NEW v \in redone PROVE FALSE
  <2>1. v \in met /\ v \in Chain!Steps /\ Begun(v)
    BY <1>1 DEF HistoryTypes, Knows, Order
  <2>2. v # s /\ ~(s < v)
    BY <1>3, <2>1 DEF Order
  <2>3. v \in 1..(s - 1)
    BY <1>1, <2>1, <2>2 DEF Chain!Steps
  <2> QED
    BY <1>2, <2>1, <2>3
<1>5. Pending(r, u)
  BY DEF Pending
<1>6. Begun(w)
  BY <1>2 DEF Order, Steps, Chain!Steps
<1>7. w \in everDone
  BY <1>2, <1>4, <1>5, <1>6 DEF Order, Steps, Chain!Steps
<1>8. job[w] = "DONE"
  BY <1>2, <1>7 DEF Knows, Settled, Steps, Chain!Steps
<1> QED
  BY <1>2, <1>8, PhaseIs DEF Phases

LEMMA PipelineStutters ==
  ASSUME Phases' = Phases, compensated' \ met' = compensated \ met PROVE [Pipeline!Next]_(Pipeline!vars)
  BY DEF Pipeline!vars, Phases

LEMMA PipelineNext ==
  ASSUME \/ \E s \in Steps :
              Pipeline!Begin(s) \/ Pipeline!Finish(s) \/ Pipeline!Fail(s) \/ Pipeline!Reverse(s)
         \/ \E S \in SUBSET Steps : Pipeline!Clash(S)
  PROVE  [Pipeline!Next]_(Pipeline!vars)
  BY DEF Pipeline!Next, Pipeline!Steps, Steps

\* A job that moves alone: its phase follows the pipeline.
LEMMA PhaseMoves ==
  ASSUME NEW u \in Steps, Only(u), met' = met, compensated' = compensated, u \notin met,
         \/ job[u] \in {"PENDING", "IN_PROGRESS"} /\ job'[u] \in {"PENDING", "IN_PROGRESS", "FAILED", "DONE"}
         \/ job[u] = "absent" /\ job'[u] = "BLOCKED"
         \/ /\ job[u] \in {"absent", "BLOCKED"} /\ job'[u] = "PENDING"
            /\ \/ \A w \in 1..(u - 1) : Phases[w] = "done"
               \/ \E w \in 1..(u - 1) : Phases[w] = "clashed"
  PROVE  [Pipeline!Next]_(Pipeline!vars)
<1>1. Phases' = [Phases EXCEPT ![u] = Phase(u)'] /\ compensated' \ met' = compensated \ met
  BY OnePhase
<1>2. Phases[u] = Phase(u)
  BY DEF Phases
<1>3. /\ job'[u] \in {"PENDING", "IN_PROGRESS"} => Phase(u)' = "running"
      /\ job'[u] = "DONE" => Phase(u)' = "done"
      /\ job'[u] = "FAILED" => Phase(u)' = "failed"
      /\ job'[u] = "BLOCKED" => Phase(u)' = "waiting"
  BY DEF Phase
<1>4. CASE Phase(u)' = Phase(u)
  <2>1. Phases' = Phases
    BY <1>1, <1>2, <1>4 DEF Phases
  <2> QED
    BY <1>1, <2>1, PipelineStutters
<1>5. CASE Phase(u) = "running" /\ Phase(u)' = "done"
  <2>1. Pipeline!Finish(u)
    BY <1>1, <1>2, <1>5 DEF Pipeline!Finish, Phases
  <2> QED
    BY <2>1, PipelineNext
<1>6. CASE Phase(u) = "running" /\ Phase(u)' = "failed"
  <2>1. Pipeline!Fail(u)
    BY <1>1, <1>2, <1>6 DEF Pipeline!Fail, Phases
  <2> QED
    BY <2>1, PipelineNext
<1>7. CASE /\ Phase(u) = "waiting" /\ Phase(u)' = "running"
           /\ \/ \A w \in 1..(u - 1) : Phases[w] = "done"
              \/ \E w \in 1..(u - 1) : Phases[w] = "clashed"
  <2>1. Pipeline!Begin(u)
    BY <1>1, <1>2, <1>7 DEF Pipeline!Begin, Phases
  <2> QED
    BY <2>1, PipelineNext
<1> QED
  BY <1>3, <1>4, <1>5, <1>6, <1>7, PhaseIs

\* A row that clashes leaves the promise; so does what was compensated for it.
LEMMA PipelineClashes ==
  ASSUME HistoryTypes', met \subseteq met', UNCHANGED <<job, compensated>>
  PROVE  [Pipeline!Next]_(Pipeline!vars)
<1> DEFINE S == met' \ met
<1>1. S \in SUBSET Steps
  BY DEF HistoryTypes, Steps, Chain!Steps
<1>2. \A s \in Steps : Phase(s)' = IF s \in S THEN "clashed" ELSE Phase(s)
  BY DEF Phase
<1>3. Phases' = [s \in Steps |-> IF s \in S THEN "clashed" ELSE Phases[s]]
  <2>1. Phases' = [s \in Steps |-> Phase(s)']
    BY DEF Phases, Steps
  <2> QED
    BY <1>2, <2>1 DEF Phases
<1>4. compensated' \ met' = (compensated \ met) \ S
  OBVIOUS
<1>5. Pipeline!Clash(S)
  BY <1>3, <1>4 DEF Pipeline!Clash, Phases, Pipeline!Steps, Steps
<1> QED
  BY <1>1, <1>5, PipelineNext

\* A compensation that is published: of a job that failed, or that clashed.
LEMMA PipelineReverses ==
  ASSUME ChainTyped, Knows, met' = met, UNCHANGED job, NEW t \in Ticks,
         cur[t] # 0, pc[t] \in {"compensateLate", "compensateFailed"},
         compensated' = compensated \cup {cur[t]}
  PROVE  [Pipeline!Next]_(Pipeline!vars)
<1>1. cur[t] \in Steps
  BY ChainTypes DEF ChainTyped, TickTypes, Steps, Chain!Steps
<1>2. Phases' = Phases
  BY DEF Phases, Phase
<1>3. CASE cur[t] \in met
  BY <1>2, <1>3, PipelineStutters
<1>4. CASE cur[t] \notin met
  <2>1. job[cur[t]] = "FAILED"
    BY <1>1, <1>4 DEF Knows, TickKnows, Steps, Chain!Steps
  <2>2. Phases[cur[t]] = "failed"
    BY <1>1, <1>4, <2>1, PhaseIs DEF Phases
  <2>3. compensated' \ met' = (compensated \ met) \cup {cur[t]}
    BY <1>4
  <2>4. Pipeline!Reverse(cur[t])
    BY <1>2, <2>2, <2>3 DEF Pipeline!Reverse, Phases
  <2> QED
    BY <1>1, <2>4, PipelineNext
<1> QED
  BY <1>3, <1>4

LEMMA PipelineStep ==
  ASSUME Chain!EtoOrchestratorAssumption, ChainTyped, Knows, Order, [Chain!Next]_(Chain!vars)
  PROVE  [Pipeline!Next]_(Pipeline!vars)
<1>1. QueueTypes /\ TickTypes /\ SagaTypes /\ HistoryTypes /\ InHandIsBegun /\ HistoryTypes'
  BY ChainTypes, HistoryTypesStep DEF ChainTyped
<1>2. CASE UNCHANGED <<job, compensated>>
  BY <1>1, <1>2, MetGrows, PipelineClashes DEF Knows
<1>3. ASSUME NEW u \in Steps, Only(u), met' = met, compensated' = compensated,
             job'[u] = job[u] \/ u \in met
      PROVE  [Pipeline!Next]_(Pipeline!vars)
  <2>1. \A s \in Steps : Phase(s)' = Phase(s)
    BY <1>3 DEF Phase, Only, Steps, Chain!Steps
  <2>2. Phases' = Phases
    BY <2>1 DEF Phases, Steps
  <2> QED
    BY <1>3, <2>2, PipelineStutters
<1>4. ASSUME NEW u, Only(u), u \notin Steps, met' = met, compensated' = compensated
      PROVE  [Pipeline!Next]_(Pipeline!vars)
  <2>1. \A s \in Steps : Phase(s)' = Phase(s)
    BY <1>4 DEF Phase, Only, Steps, Chain!Steps
  <2>2. Phases' = Phases
    BY <2>1 DEF Phases, Steps
  <2> QED
    BY <1>4, <2>2, PipelineStutters
<1>5. CASE ~UNCHANGED <<job, compensated>>
  <2>1. met' = met
    BY <1>5, UpdatesTakeNothing
  <2>2. ASSUME NEW t \in Ticks, Chain!Tick(t) \/ Chain!TickFails(t)
        PROVE  [Pipeline!Next]_(Pipeline!vars)
    <3>1. CASE UNCHANGED compensated
      <4>1. PICK u : Only(u)
        BY <2>2, TickAlone
      <4>2. CASE u \in Steps /\ job'[u] # job[u] /\ u \notin met
        <5>1. u \in Chain!Steps /\ TickJob(t, u)
          BY <2>2, <4>2, TickAlone DEF Steps, Chain!Steps
        <5>2. /\ job[u] \in {"PENDING", "IN_PROGRESS"}
              /\ job'[u] \in {"PENDING", "IN_PROGRESS", "FAILED"}
          BY <4>2, <5>1, TickFinds
        <5> QED
          BY <2>1, <3>1, <4>1, <4>2, <5>2, PhaseMoves
      <4> QED
        BY <1>3, <1>4, <2>1, <3>1, <4>1, <4>2
    <3>2. CASE /\ pc[t] \in {"compensateLate", "compensateFailed"}
               /\ UNCHANGED job /\ compensated' = compensated \cup {cur[t]}
      <4>1. cur[t] # 0
        BY <1>1, <3>2 DEF InHandIsBegun
      <4> QED
        BY <2>1, <3>2, <4>1, PipelineReverses
    <3> QED
      BY <2>2, <3>1, <3>2 DEF Chain!Tick, Chain!RecoverFetch, Chain!RecoverFail, Chain!Compensate,
         Chain!Fetch, Chain!Start, Chain!Publish, Chain!Retry, Chain!TickFails, Chain!histories,
         Chain!jobVars
  <2>3. ASSUME NEW r \in Replicas, NEW v \in Chain!Steps,
               Chain!Ingest(r, v) \/ Chain!Lose(r, v) \/ Chain!IngestFails(r, v)
        PROVE  [Pipeline!Next]_(Pipeline!vars)
    <3>1. UNCHANGED compensated /\ \A s \in Chain!Steps : ChainJob(r, v, s)
      BY <2>3, ChainAlone
    <3>2. PICK u : Only(u)
      BY <2>3, ChainAlone
    <3>3. CASE u \in Steps /\ job'[u] # job[u] /\ u \notin met
      <4>1. u \in Chain!Steps
        BY <3>3 DEF Steps, Chain!Steps
      <4>2. \/ job[u] \in Chain!Open /\ job'[u] = "DONE"
            \/ /\ u = next[r][v] /\ ingest[r][v] = "unblock"
               /\ job[u] = "BLOCKED" /\ job'[u] = "PENDING"
        BY <3>1, <3>3, <4>1, ChainFinds
      <4>3. u = next[r][v] /\ ingest[r][v] = "unblock" /\ job[u] = "BLOCKED" =>
              \/ \A w \in 1..(u - 1) : Phases[w] = "done"
              \/ \E w \in 1..(u - 1) : Phases[w] = "clashed"
        BY <4>1, BeginsAfter
      <4> QED
        BY <2>1, <3>1, <3>2, <3>3, <4>2, <4>3, PhaseMoves DEF Chain!Open
    <3> QED
      BY <1>3, <1>4, <2>1, <3>1, <3>2, <3>3
  <2>4. ASSUME RestOfNext PROVE [Pipeline!Next]_(Pipeline!vars)
    <3>1. /\ UNCHANGED compensated
          /\ Chain!Enqueue
          /\ job' = [job EXCEPT ![enqueued + 1] = IF enqueued + 1 = 1 THEN "PENDING" ELSE "BLOCKED"]
      BY <1>5, <2>4, RestMoves
    <3> DEFINE u == enqueued + 1
    <3>2. u \in Steps /\ u \in Chain!Steps /\ u \in Nat
      BY <1>1, <3>1 DEF Chain!Enqueue, QueueTypes, InHandIsBegun, Steps, Chain!Steps,
         Chain!EtoOrchestratorAssumption
    <3>3. job[u] = "absent" /\ job'[u] = IF u = 1 THEN "PENDING" ELSE "BLOCKED"
      BY <1>1, <3>1, <3>2 DEF QueueTypes
    <3>4. Only(u)
      BY <1>1, <3>1 DEF Only, QueueTypes
    <3> HIDE DEF u
    <3>5. u = 1 => \A w \in 1..(u - 1) : Phases[w] = "done"
      OBVIOUS
    <3>6. CASE u \notin met
      BY <2>1, <3>1, <3>2, <3>3, <3>4, <3>5, <3>6, PhaseMoves
    <3> QED
      BY <1>3, <2>1, <3>1, <3>2, <3>4, <3>6
  <2>5. ASSUME NEW r \in Replicas, Chain!Restart(r) PROVE FALSE
    BY <1>5, <2>5, RestartClears
  <2> QED
    BY <2>2, <2>3, <2>4, <2>5, NextIs
<1> QED
  BY <1>2, <1>5

\* A chain implements EtoPipeline: with any number of replicas, overlapping ticks, late
\* completions, retries, losses and restarts, a job that two never had in hand at once is begun
\* after those before it, done or failed once and for good, and compensated only if it failed.
THEOREM ChainIsAPipeline ==
  ASSUME Chain!EtoOrchestratorAssumption PROVE Chain!Safety => ImplementsPipeline
<1> DEFINE Inv == ChainTyped /\ Order /\ Knows
<1>1. Chain!Init => Inv
  BY ChainInit, OrderInit
<1>2. Inv /\ [Chain!Next]_(Chain!vars) => Inv'
  BY ChainTypedStep, OrderStep, KnowsStep
<1>3. Chain!Init => Pipeline!Init
  BY PhaseIs DEF Chain!Init, Pipeline!Init, Steps, Chain!Steps, Pipeline!Steps
<1>4. Inv /\ [Chain!Next]_(Chain!vars) => [Pipeline!Next]_(Pipeline!vars)
  BY PipelineStep
<1> QED
  BY <1>1, <1>2, <1>3, <1>4, PTL DEF Chain!Safety, ImplementsPipeline, Pipeline!Safety
=============================================================================
