------------------------ MODULE ShortageOrdersProofs ------------------------
(***************************************************************************)
(* Proofs about ProcessedEventGuard, about ShortageOrders, which extends   *)
(* it, and about Picking, which extends both: for any number of overlapping*)
(* deliveries, lists, lines and confirmations.                             *)
(***************************************************************************)
EXTENDS Picking, TLAPS

-----------------------------------------------------------------------------
(* The guard around any handler *)

GuardIInv == TypeOK /\ DoneIsRecorded

LEMMA InitGuard == Init => GuardIInv
  BY DEF Init, GuardIInv, TypeOK, DoneIsRecorded, Steps

LEMMA NextGuard == GuardIInv /\ [Next]_vars => GuardIInv'
<1> SUFFICES ASSUME GuardIInv, [Next]_vars PROVE GuardIInv'
  OBVIOUS
<1> USE GuardAssumption DEF GuardIInv, TypeOK, DoneIsRecorded, Goto, Steps
<1>1. ASSUME NEW c \in Calls, Arrive(c) PROVE GuardIInv'
  BY <1>1 DEF Arrive
<1>2. ASSUME NEW c \in Calls, Check(c) PROVE GuardIInv'
  BY <1>2 DEF Check
<1>3. ASSUME NEW c \in Calls, Body(c) PROVE GuardIInv'
  BY <1>3 DEF Body
<1>4. ASSUME NEW c \in Calls, Mark(c) PROVE GuardIInv'
  BY <1>4 DEF Mark, Record
<1>5. CASE UNCHANGED vars
  BY <1>5 DEF vars
<1> QED
  BY <1>1, <1>2, <1>3, <1>4, <1>5 DEF Next

\* A call of the guard that reports success has left its row in the ledger.
THEOREM SuccessIsRecorded == Safety => []DoneIsRecorded
<1>1. GuardIInv => DoneIsRecorded
  BY DEF GuardIInv
<1> QED
  BY <1>1, InitGuard, NextGuard, PTL DEF Safety

\* A call that began after its event was recorded has not run the body and cannot:
\* the ledger only grows, so the check will find the row.
Late(c) ==
  /\ TypeOK
  /\ Key[c] \in ledger
  /\ step[c] \in {"new", "check", "skipped", "threw"}

LEMMA NextLate ==
  ASSUME NEW c \in Calls
  PROVE  Late(c) /\ TypeOK' /\ [Next]_vars => Late(c)'
<1> SUFFICES ASSUME Late(c), TypeOK', [Next]_vars PROVE Late(c)'
  OBVIOUS
<1>1. ledger \subseteq ledger'
  BY DEF Next, vars, Arrive, Check, Body, Mark, Record
<1>2. ASSUME NEW d \in Calls, Arrive(d) \/ Check(d) \/ Body(d) \/ Mark(d)
      PROVE  step'[c] \in {"new", "check", "skipped", "threw"}
  <2>1. CASE d = c
    BY <1>2, <2>1 DEF Late, TypeOK, Arrive, Check, Body, Mark, Goto, WasProcessed
  <2>2. CASE d # c
    BY <1>2, <2>2 DEF Late, TypeOK, Arrive, Check, Body, Mark, Goto
  <2> QED
    BY <2>1, <2>2
<1>3. CASE UNCHANGED vars
  BY <1>3 DEF Late, vars
<1> QED
  BY <1>1, <1>2, <1>3 DEF Next, Late

\* processed-event.ts:127, for every number of calls, overlapping or not: a call
\* that begins after a successful mark never runs the handler's body.
THEOREM MarkedNeverRunsAgain == Safety => RedeliveryIsNoOp
<1>1. ASSUME NEW c \in Calls
      PROVE  Safety => []((step[c] = "new" /\ Key[c] \in ledger) => []~Ran(c))
  <2>1. TypeOK /\ step[c] = "new" /\ Key[c] \in ledger => Late(c)
    BY DEF Late
  <2>2. Late(c) => ~Ran(c)
    BY DEF Late, Ran
  <2>3. GuardIInv => TypeOK
    BY DEF GuardIInv
  <2>4. Late(c) /\ TypeOK' /\ [Next]_vars => Late(c)'
    BY NextLate
  <2> QED
    BY <2>1, <2>2, <2>3, <2>4, InitGuard, NextGuard, PTL DEF Safety
<1> QED
  BY <1>1 DEF RedeliveryIsNoOp

-----------------------------------------------------------------------------
(* The orders for a shortage, through the guard and past it *)

\* Causes a shortage may have to be ordered twice.
Excused(k) == k \in together \/ \E c \in failed : Key[c] = k

\* What a call has ordered so far follows from its position.
OrderedAsFar ==
  /\ \A o \in ordered :
       \/ o[2] = "guarded" /\ step[o[1]] \in {"mark", "done", "unmarked", "fell"}
       \/ o[2] = "fallback" /\ step[o[1]] = "fell"
  /\ \A c \in Calls : step[c] \in {"mark", "done", "unmarked", "fell"} =>
       \E o \in ordered : o[1] = c

FailedIsKnown == \A c \in Calls : step[c] \in {"unmarked", "fell"} => c \in failed

RecordedIsOrdered == \A k \in ledger : \E o \in ordered : Key[o[1]] = k

SkippedIsRecorded == \A c \in Calls : step[c] = "skipped" => Key[c] \in ledger

\* Without a cause, one call at most has passed the check.
OnePasses ==
  \A c, d \in Calls :
    c # d /\ Key[c] = Key[d] /\ ~Excused(Key[c]) =>
      ~(step[c] \in {"run", "mark", "done"} /\ step[d] \in {"run", "mark", "done"})

IInv ==
  /\ ShortageTypeOK /\ DoneIsRecorded
  /\ OrderedAsFar /\ FailedIsKnown /\ RecordedIsOrdered /\ SkippedIsRecorded /\ OnePasses

LEMMA InitIInv == ShortageInit => IInv
  BY GuardAssumption
     DEF ShortageInit, Init, IInv, ShortageTypeOK, DoneIsRecorded, OrderedAsFar, FailedIsKnown,
         RecordedIsOrdered, SkippedIsRecorded, OnePasses, Steps

\* What every step of a call leaves alone.
LEMMA Frame ==
  ASSUME IInv, NEW c \in Calls,
         Receive(c) \/ CheckLedger(c) \/ RunBody(c) \/ MarkLedger(c) \/ FallThrough(c)
  PROVE  /\ \A d \in Calls : d # c => step'[d] = step[d]
         /\ ledger \subseteq ledger' /\ ordered \subseteq ordered'
         /\ failed \subseteq failed' /\ together \subseteq together'
  BY DEF IInv, ShortageTypeOK, Receive, CheckLedger, RunBody, MarkLedger, FallThrough, Arrive,
         Check, Body, Mark, Record, Goto, CreatePo, LedgerFails

LEMMA TypeStep ==
  ASSUME IInv, NEW c \in Calls,
         Receive(c) \/ CheckLedger(c) \/ RunBody(c) \/ MarkLedger(c) \/ FallThrough(c)
  PROVE  ShortageTypeOK'
<1> USE GuardAssumption DEF IInv, ShortageTypeOK, Goto, Steps
<1>1. CASE Receive(c)
  BY <1>1 DEF Receive, Arrive
<1>2. CASE CheckLedger(c)
  BY <1>2 DEF CheckLedger, Check, LedgerFails
<1>3. CASE RunBody(c)
  BY <1>3 DEF RunBody, Body, CreatePo, Ways
<1>4. CASE MarkLedger(c)
  BY <1>4 DEF MarkLedger, Mark, Record, LedgerFails
<1>5. CASE FallThrough(c)
  BY <1>5 DEF FallThrough, CreatePo, Ways
<1> QED
  BY <1>1, <1>2, <1>3, <1>4, <1>5

LEMMA OrderedAsFarStep ==
  ASSUME IInv, NEW c \in Calls,
         Receive(c) \/ CheckLedger(c) \/ RunBody(c) \/ MarkLedger(c) \/ FallThrough(c)
  PROVE  OrderedAsFar' /\ FailedIsKnown'
<1> USE DEF IInv, ShortageTypeOK, OrderedAsFar, FailedIsKnown, Goto, Steps, Ways
<1>1. CASE Receive(c)
  BY <1>1 DEF Receive, Arrive
<1>2. CASE CheckLedger(c)
  BY <1>2 DEF CheckLedger, Check, LedgerFails
<1>3. CASE RunBody(c)
  <2>1. CASE step'[c] = "mark"
    <3>1. ordered' = ordered \cup {<<c, "guarded">>} /\ failed' = failed
      BY <1>3, <2>1 DEF RunBody, CreatePo
    <3>2. step' = [step EXCEPT ![c] = "mark"] /\ step[c] = "run"
      BY <1>3, <2>1 DEF RunBody, Body
    <3>3. <<c, "guarded">>[1] = c /\ <<c, "guarded">>[2] = "guarded"
      OBVIOUS
    <3>4. \A o \in ordered : o[1] \in Calls /\ o[1] # c
      BY <3>2
    <3>5. \A d \in Calls : step'[d] \in {"mark", "done", "unmarked", "fell"} =>
            \E o \in ordered' : o[1] = d
      BY <3>1, <3>2, <3>3
    <3>6. \A o \in ordered' :
            \/ o[2] = "guarded" /\ step'[o[1]] \in {"mark", "done", "unmarked", "fell"}
            \/ o[2] = "fallback" /\ step'[o[1]] = "fell"
      BY <3>1, <3>2, <3>3, <3>4
    <3> QED
      BY <3>1, <3>2, <3>5, <3>6
  <2>2. CASE step'[c] # "mark"
    BY <1>3, <2>2 DEF RunBody, Body
  <2> QED
    BY <2>1, <2>2
<1>4. CASE MarkLedger(c)
  BY <1>4 DEF MarkLedger, Mark, LedgerFails
<1>5. CASE FallThrough(c)
  <2>1. /\ ordered' = ordered \cup {<<c, "fallback">>} /\ failed' = failed /\ c \in failed
        /\ step' = [step EXCEPT ![c] = "fell"] /\ step[c] \in {"threw", "unmarked"}
    BY <1>5 DEF FallThrough, CreatePo, MayFallThrough
  <2>2. <<c, "fallback">>[1] = c /\ <<c, "fallback">>[2] = "fallback"
    OBVIOUS
  <2>3. \A d \in Calls : step'[d] \in {"mark", "done", "unmarked", "fell"} =>
          \E o \in ordered' : o[1] = d
    BY <2>1, <2>2
  <2>4. ASSUME NEW o \in ordered'
        PROVE  \/ o[2] = "guarded" /\ step'[o[1]] \in {"mark", "done", "unmarked", "fell"}
               \/ o[2] = "fallback" /\ step'[o[1]] = "fell"
    <3>1. CASE o \in ordered
      BY <2>1, <3>1
    <3>2. CASE o = <<c, "fallback">>
      BY <2>1, <2>2, <3>2
    <3> QED
      BY <2>1, <3>1, <3>2
  <2> QED
    BY <2>1, <2>3, <2>4
<1> QED
  BY <1>1, <1>2, <1>3, <1>4, <1>5

LEMMA RecordedStep ==
  ASSUME IInv, NEW c \in Calls,
         Receive(c) \/ CheckLedger(c) \/ RunBody(c) \/ MarkLedger(c) \/ FallThrough(c)
  PROVE  DoneIsRecorded' /\ RecordedIsOrdered' /\ SkippedIsRecorded'
<1>1. ledger \subseteq ledger' /\ ordered \subseteq ordered' /\ \A d \in Calls : d # c => step'[d] = step[d]
  BY Frame
<1>2. step'[c] = "done" => Key[c] \in ledger'
  BY GuardAssumption
     DEF IInv, ShortageTypeOK, DoneIsRecorded, Steps, Receive, CheckLedger, RunBody, MarkLedger,
         FallThrough, Arrive, Check, Body, Mark, Record, Goto
<1>3. step'[c] = "skipped" => Key[c] \in ledger'
  BY DEF IInv, ShortageTypeOK, Steps, Receive, CheckLedger, RunBody, MarkLedger, FallThrough,
         Arrive, Check, Body, Mark, Goto, WasProcessed
<1>4. ASSUME NEW k \in ledger', k \notin ledger PROVE \E o \in ordered : Key[o[1]] = k
  BY <1>4 DEF IInv, OrderedAsFar, Receive, CheckLedger, RunBody, MarkLedger, FallThrough,
              Arrive, Check, Body, Mark, Record
<1> QED
  BY <1>1, <1>2, <1>3, <1>4 DEF IInv, DoneIsRecorded, RecordedIsOrdered, SkippedIsRecorded

\* A call that passes the check where another has passed before leaves a cause.
LEMMA OnePassesStep ==
  ASSUME IInv, NEW c \in Calls,
         Receive(c) \/ CheckLedger(c) \/ RunBody(c) \/ MarkLedger(c) \/ FallThrough(c)
  PROVE  OnePasses'
<1> DEFINE Past(d) == step[d] \in {"run", "mark", "done"}
           PastNext(d) == step'[d] \in {"run", "mark", "done"}
<1>1. /\ \A d \in Calls : d # c => step'[d] = step[d]
      /\ failed \subseteq failed' /\ together \subseteq together'
  BY Frame
<1>2. ASSUME NEW d \in Calls, d # c, Key[d] = Key[c], PastNext(c), Past(d), ~Excused(Key[c])'
      PROVE  FALSE
  <2>1. ~Excused(Key[c])
    BY <1>1, <1>2 DEF Excused
  <2>2. ~Past(c)
    BY <1>2, <2>1 DEF IInv, OnePasses
  <2>3. CheckLedger(c) /\ step'[c] = "run"
    BY <1>2, <2>2 DEF IInv, ShortageTypeOK, Receive, CheckLedger, RunBody, MarkLedger,
                      FallThrough, Arrive, Check, Body, Mark, Goto, Steps
  <2>4. Key[c] \notin ledger
    BY <2>3 DEF CheckLedger, Check, Goto, WasProcessed, IInv, ShortageTypeOK
  <2>5. step[d] \in {"run", "mark"}
    BY <1>2, <2>4 DEF IInv, DoneIsRecorded
  <2>6. Key[c] \in together'
    BY <1>2, <2>3, <2>5 DEF CheckLedger, Overlaps
  <2> QED
    BY <1>2, <2>6 DEF Excused
<1>3. ASSUME NEW d \in Calls, NEW e \in Calls, d # e, Key[d] = Key[e], ~Excused(Key[d])',
             PastNext(d), PastNext(e)
      PROVE  FALSE
  <2>1. CASE d = c
    BY <1>1, <1>2, <1>3, <2>1
  <2>2. CASE e = c
    BY <1>1, <1>2, <1>3, <2>2
  <2>3. CASE d # c /\ e # c
    <3>1. ~Excused(Key[d])
      BY <1>1, <1>3 DEF Excused
    <3> QED
      BY <1>1, <1>3, <2>3, <3>1 DEF IInv, OnePasses
  <2> QED
    BY <2>1, <2>2, <2>3
<1> QED
  BY <1>3, GuardAssumption DEF OnePasses, Excused

LEMMA NextIInv == IInv /\ [ShortageNext]_shortageVars => IInv'
<1>1. ASSUME IInv, NEW c \in Calls,
             Receive(c) \/ CheckLedger(c) \/ RunBody(c) \/ MarkLedger(c) \/ FallThrough(c)
      PROVE  IInv'
  BY <1>1, TypeStep, OrderedAsFarStep, RecordedStep, OnePassesStep DEF IInv
<1>2. ASSUME IInv, UNCHANGED shortageVars PROVE IInv'
  BY <1>2 DEF shortageVars, IInv, ShortageTypeOK, DoneIsRecorded, OrderedAsFar, FailedIsKnown,
              RecordedIsOrdered, SkippedIsRecorded, OnePasses, Excused
<1> QED
  BY <1>1, <1>2 DEF ShortageNext

\* No answer without an order, whatever fails and however calls overlap: the ledger
\* never holds a shortage procurement has not ordered.
THEOREM AnswersAreOrdered == ShortageSpec => []AnsweredIsOrdered
<1>1. IInv => AnsweredIsOrdered
  BY DEF IInv, AnsweredIsOrdered, Answered, OrderedAsFar, RecordedIsOrdered, SkippedIsRecorded
<1> QED
  BY <1>1, InitIInv, NextIInv, PTL DEF ShortageSpec

\* A second order for a shortage needs an overlap or a failed ledger call.
THEOREM RepeatsHaveCause == ShortageSpec => []RepeatedOrderHasCause
<1>1. IInv => RepeatedOrderHasCause
  <2> SUFFICES ASSUME IInv, NEW o \in ordered, NEW p \in ordered, o # p,
                      Key[o[1]] = Key[p[1]], ~Excused(Key[o[1]])
               PROVE  FALSE
    BY DEF RepeatedOrderHasCause, Excused
  <2>1. o \in Calls \X Ways /\ p \in Calls \X Ways
    BY DEF IInv, ShortageTypeOK
  <2>2. o[1] \notin failed /\ p[1] \notin failed
    BY DEF Excused
  <2>3. /\ o[2] = "guarded" /\ step[o[1]] \in {"mark", "done"}
        /\ p[2] = "guarded" /\ step[p[1]] \in {"mark", "done"}
    BY <2>1, <2>2 DEF IInv, OrderedAsFar, FailedIsKnown
  <2>4. o[1] # p[1]
    BY <2>1, <2>3
  <2> QED
    BY <2>1, <2>3, <2>4 DEF IInv, OnePasses
<1> QED
  BY <1>1, InitIInv, NextIInv, PTL DEF ShortageSpec

-----------------------------------------------------------------------------
(* Picking *)

\* With pick lists in front of them, deliveries do what ShortageOrders says: what is proved
\* of its specification holds of both services together.
THEOREM PickingKeepsOrders == PickSpec => ShortageSpec
<1>1. PickInit => ShortageInit
  BY DEF PickInit
<1>2. [PickNext]_allVars => [ShortageNext]_shortageVars
  BY DEF PickNext, OrderStep, ShortageNext, allVars
<1> QED
  BY <1>1, <1>2, PTL DEF PickSpec, ShortageSpec

\* A list that is not there has no lines, and nobody confirms under its id.
MadeFirst ==
  /\ \A x \in lines : list[x[1]] # "none"
  /\ \A c \in Confirms : under[c] \in Made \cup {NoList}

\* Two confirmations that count on one list know of each other ...
MetAreCrossed ==
  \A c, d \in Confirms, l \in Lists \cup {NoList} :
    c # d /\ Counting(c, l) /\ Counting(d, l) => c \in crossed

\* ... and the count of one that met nobody is still right.
CountIsRight ==
  \A c \in Confirms : at[c] = "status" /\ c \notin crossed => done[c] = NonePending(c)

PInv == PickTypeOK /\ MadeFirst /\ MetAreCrossed /\ CountIsRight /\ ListFollowsLines

LEMMA InitPInv == PickInit => PInv
  BY PickingAssumption
     DEF PickInit, PInv, PickTypeOK, MadeFirst, MetAreCrossed, CountIsRight, ListFollowsLines,
         Made, Counting, LinesOf, AnyLine

LEMMA PickTypeStep == PInv /\ PickStep => PickTypeOK' /\ MadeFirst'
<1> SUFFICES ASSUME PInv, PickStep PROVE PickTypeOK' /\ MadeFirst'
  OBVIOUS
<1> USE PickingAssumption DEF PInv, PickTypeOK, MadeFirst, Made, AnyLine
<1>1. ASSUME NEW l \in Lists, NEW active \in SUBSET Reservations, CreateList(l, active)
      PROVE  PickTypeOK' /\ MadeFirst'
  BY <1>1 DEF CreateList, callVars
<1>2. ASSUME NEW c \in Confirms, NEW l \in Lists \cup {NoList}, NEW x \in lines,
             NEW quantity \in BOOLEAN, UpdateLine(c, l, x, quantity)
      PROVE  PickTypeOK' /\ MadeFirst'
  BY <1>2 DEF UpdateLine, Made
<1>3. ASSUME NEW c \in Confirms, Count(c) PROVE PickTypeOK' /\ MadeFirst'
  BY <1>3 DEF Count, NonePending
<1>4. ASSUME NEW c \in Confirms, UpdateList(c) PROVE PickTypeOK' /\ MadeFirst'
  <2>1. line[c] \in lines /\ under[c] \in Lists
    BY <1>4 DEF UpdateList
  <2>2. CASE some[c]
    BY <1>4, <2>1, <2>2 DEF UpdateList
  <2>3. CASE ~some[c]
    BY <1>4, <2>1, <2>3 DEF UpdateList, Ends
  <2> QED
    BY <2>2, <2>3
<1>5. ASSUME NEW c \in Confirms, Announce(c) PROVE PickTypeOK' /\ MadeFirst'
  BY <1>5 DEF Announce, Ends
<1>6. ASSUME NEW c \in Confirms, Fails(c) PROVE PickTypeOK' /\ MadeFirst'
  BY <1>6 DEF Fails, Ends
<1>7. ASSUME NEW c \in Confirms, NoSuchList(c) PROVE PickTypeOK' /\ MadeFirst'
  BY <1>7 DEF NoSuchList, Ends
<1> QED
  BY <1>1, <1>2, <1>3, <1>4, <1>5, <1>6, <1>7 DEF PickStep

LEMMA PickCountStep == PInv /\ PickStep => MetAreCrossed' /\ CountIsRight'
<1> SUFFICES ASSUME PInv, PickStep PROVE MetAreCrossed' /\ CountIsRight'
  OBVIOUS
<1> USE DEF PInv, PickTypeOK, AnyLine, MetAreCrossed, CountIsRight, Counting, NonePending, LinesOf
<1>1. ASSUME NEW l \in Lists, NEW active \in SUBSET Reservations, CreateList(l, active)
      PROVE  MetAreCrossed' /\ CountIsRight'
  <2>1. \A c \in Confirms : at[c] = "status" => under[c] # l
    BY <1>1, PickingAssumption DEF CreateList, MadeFirst, Made
  <2>2. \A c \in Confirms : at[c] = "status" => (NonePending(c) <=> NonePending(c)')
    BY <1>1, <2>1 DEF CreateList, callVars
  <2> QED
    BY <1>1, <2>2 DEF CreateList, callVars
<1>2. ASSUME NEW c \in Confirms, NEW l \in Lists \cup {NoList}, NEW x \in lines,
             NEW quantity \in BOOLEAN, UpdateLine(c, l, x, quantity)
      PROVE  MetAreCrossed' /\ CountIsRight'
  BY <1>2 DEF UpdateLine
<1>3. ASSUME NEW c \in Confirms, Count(c) PROVE MetAreCrossed' /\ CountIsRight'
  BY <1>3 DEF Count
<1>4. ASSUME NEW c \in Confirms, UpdateList(c) PROVE MetAreCrossed' /\ CountIsRight'
  BY <1>4 DEF UpdateList, Ends
<1>5. ASSUME NEW c \in Confirms, Announce(c) PROVE MetAreCrossed' /\ CountIsRight'
  BY <1>5 DEF Announce, Ends
<1>6. ASSUME NEW c \in Confirms, Fails(c) PROVE MetAreCrossed' /\ CountIsRight'
  BY <1>6 DEF Fails, Ends
<1>7. ASSUME NEW c \in Confirms, NoSuchList(c) PROVE MetAreCrossed' /\ CountIsRight'
  BY <1>7 DEF NoSuchList, Ends
<1> HIDE DEF PInv, PickTypeOK, AnyLine, MetAreCrossed, CountIsRight, Counting, NonePending, LinesOf
<1> QED
  BY <1>1, <1>2, <1>3, <1>4, <1>5, <1>6, <1>7 DEF PickStep

LEMMA PickListStep == PInv /\ PickStep => ListFollowsLines'
<1> SUFFICES ASSUME PInv, PickStep PROVE ListFollowsLines'
  OBVIOUS
<1> USE DEF PInv, PickTypeOK, AnyLine, ListFollowsLines, Counting, LinesOf
<1>1. ASSUME NEW l \in Lists, NEW active \in SUBSET Reservations, CreateList(l, active)
      PROVE  ListFollowsLines'
  BY <1>1 DEF CreateList, MadeFirst, Made, callVars
<1>2. ASSUME NEW c \in Confirms, NEW l \in Lists \cup {NoList}, NEW x \in lines,
             NEW quantity \in BOOLEAN, UpdateLine(c, l, x, quantity)
      PROVE  ListFollowsLines'
  <2> SUFFICES ASSUME NEW k \in Lists, \A d \in Confirms : ~Counting(d, k)', k \notin unsure',
                      LinesOf(k)' # {}
               PROVE  list'[k] = "COMPLETED" <=> LinesOf(k)' \subseteq picked'
    BY Zenon
  <2>1. k # l /\ k # x[1]
    BY <1>2 DEF UpdateLine
  <2>2. /\ \A d \in Confirms : ~Counting(d, k)
        /\ k \notin unsure /\ UNCHANGED <<list, lines>>
        /\ LinesOf(k) \subseteq picked <=> LinesOf(k) \subseteq picked'
    BY <1>2, <2>1 DEF UpdateLine
  <2> QED
    BY <2>2
<1>3. ASSUME NEW c \in Confirms, Count(c) PROVE ListFollowsLines'
  BY <1>3 DEF Count
<1>4. ASSUME NEW c \in Confirms, UpdateList(c) PROVE ListFollowsLines'
  BY <1>4 DEF UpdateList, Ends, MetAreCrossed, CountIsRight, NonePending
<1>5. ASSUME NEW c \in Confirms, Announce(c) PROVE ListFollowsLines'
  BY <1>5 DEF Announce, Ends
<1>6. ASSUME NEW c \in Confirms, Fails(c) PROVE ListFollowsLines'
  BY <1>6 DEF Fails, Ends
<1>7. ASSUME NEW c \in Confirms, NoSuchList(c) PROVE ListFollowsLines'
  <2>1. \A l \in Lists : \A d \in Confirms : Counting(d, l)' <=> Counting(d, l)
    BY <1>7, PickingAssumption DEF NoSuchList, Ends
  <2> QED
    BY <1>7, <2>1 DEF NoSuchList, Ends
<1> HIDE DEF PInv, PickTypeOK, AnyLine, ListFollowsLines, Counting, LinesOf
<1> QED
  BY <1>1, <1>2, <1>3, <1>4, <1>5, <1>6, <1>7 DEF PickStep

LEMMA NextPInv == PInv /\ [PickNext]_allVars => PInv'
<1>1. ASSUME PInv, UNCHANGED pickVars PROVE PInv'
  BY <1>1 DEF pickVars, callVars, PInv, PickTypeOK, MadeFirst, Made, MetAreCrossed, CountIsRight,
              ListFollowsLines, Counting, LinesOf, NonePending, AnyLine
<1>2. ASSUME PInv, PickStep PROVE PInv'
  BY <1>2, PickTypeStep, PickCountStep, PickListStep DEF PInv
<1> QED
  BY <1>1, <1>2 DEF PickNext, allVars

\* Whatever confirmations cross or fail, a list nobody is at work on is COMPLETED just when
\* its lines are picked, unless its last confirmation crossed another one, did not end, or named another list.
THEOREM ListsFollowLines == PickSpec => []ListFollowsLines
<1>1. PInv => ListFollowsLines
  BY DEF PInv
<1> QED
  BY <1>1, InitPInv, NextPInv, PTL DEF PickSpec
=============================================================================
