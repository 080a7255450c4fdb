-------------------------- MODULE GoodsReceiptProofs --------------------------
(***************************************************************************)
(* Proofs about GoodsReceipt, for any orders, requests, deliveries and     *)
(* faults: its types, what the quantities on both sides add up to, and     *)
(* that every delivery is handled as ProcessedEventGuard prescribes,       *)
(* whatever the body's transaction does.                                   *)
(***************************************************************************)
EXTENDS GoodsReceipt, SumTheorems, SequenceTheorems, TLAPS

\* What the two services keep, apart.
OrderTypes ==
  /\ status \in [Orders -> Statuses]
  /\ received \in [Orders -> Nat]
  /\ request \in [Receipts -> {"new", "read", "done"}]
  /\ snapshot \in [Receipts -> [status : Statuses, received : Nat]]

CallSteps == {"new", "lost", "check", "run", "commit", "mark",
              "skipped", "threw", "unmarked", "done"}

CallTypes == ledger \subseteq Orders /\ step \in [Calls -> CallSteps] /\ faults \in 0..MaxFaults

StockTypes ==
  /\ overlap \in Overlaps /\ itemKnown \in BOOLEAN
  /\ transactions \subseteq Calls \cup Lots /\ givenBack \subseteq Restores
  /\ levelSeen \in [Calls -> [row : Nat, quantity : Nat]]
  /\ quarantine \in Seq(Nat) /\ itemQuantity \in Nat

LEMMA TypeParts == TypeOK <=> OrderTypes /\ CallTypes /\ StockTypes
  BY DEF TypeOK, OrderTypes, CallTypes, StockTypes, CallSteps

LEMMA Quantities == \A c \in Calls : EventQuantity(c[1]) \in Nat /\ EventKey(c) \in Orders
<1>1. \A c \in Calls : c[1] \in Receipts
  BY DEF Calls
<1>2. \A r \in Receipts : EventQuantity(r) \in Nat /\ OrderOf[r] \in Orders
  BY GoodsReceiptAssumption DEF EventQuantity
<1> QED
  BY <1>1, <1>2 DEF EventKey

LEMMA InitTypeOK == Init => TypeOK
<1> SUFFICES ASSUME Init PROVE TypeOK
  OBVIOUS
<1>1. OrderTypes
  BY DEF Init, OrderTypes, Statuses
<1>2. CallTypes
  BY GoodsReceiptAssumption DEF Init, CallTypes, CallSteps
<1>3. quarantine \in Seq(Nat)
  <2>1. <<>> \in Seq(Nat) /\ <<0>> \in Seq(Nat)
    OBVIOUS
  <2>2. QED
    BY <2>1 DEF Init
<1>4. StockTypes
  BY <1>3, GoodsReceiptAssumption DEF Init, StockTypes
<1> QED
  BY <1>1, <1>2, <1>4, TypeParts

\* A commit of the receipt keeps the stock typed, whichever row it read.
LEMMA CommitTypes ==
  ASSUME StockTypes, CallTypes, NEW c \in Calls, ApplyCommits(c)
  PROVE  StockTypes'
<1>1. /\ levelSeen[c].row \in Nat /\ levelSeen[c].quantity \in Nat
      /\ EventQuantity(c[1]) \in Nat
  BY Quantities DEF StockTypes
<1>2. LevelAfter(c) \in Nat /\ ItemAfter(c) \in Nat
  BY <1>1 DEF LevelAfter, ItemAfter, StockTypes
<1>3. Append(quarantine, LevelAfter(c)) \in Seq(Nat)
  BY <1>2 DEF StockTypes
<1>4. [quarantine EXCEPT ![levelSeen[c].row] = LevelAfter(c)] \in Seq(Nat)
  <2>1. quarantine \in [1..Len(quarantine) -> Nat]
    BY DEF StockTypes
  <2>2. [quarantine EXCEPT ![levelSeen[c].row] = LevelAfter(c)] \in [1..Len(quarantine) -> Nat]
    BY <1>2, <2>1
  <2>3. Len(quarantine) \in Nat
    BY DEF StockTypes
  <2>4. QED
    BY <2>2, <2>3, SeqDef
<1>5. quarantine' \in Seq(Nat)
  BY <1>3, <1>4 DEF ApplyCommits, StockTypes
<1> QED
  BY <1>2, <1>5 DEF ApplyCommits, StockTypes

LEMMA NextTypeOK == TypeOK /\ [Next]_vars => TypeOK'
<1> SUFFICES ASSUME OrderTypes, CallTypes, StockTypes, [Next]_vars
             PROVE  OrderTypes' /\ CallTypes' /\ StockTypes'
  BY DEF TypeOK, OrderTypes, CallTypes, StockTypes, CallSteps
<1> USE DEF orderVars, stockVars
<1>1. ASSUME UNCHANGED orderVars PROVE OrderTypes'
  BY <1>1 DEF OrderTypes
<1>2. ASSUME UNCHANGED <<ledger, step, faults>> PROVE CallTypes'
  BY <1>2 DEF CallTypes
<1>3. ASSUME UNCHANGED stockVars PROVE StockTypes'
  BY <1>3 DEF StockTypes
<1>4. ASSUME NEW o \in Orders, NEW decision \in Decisions, Decide(o, decision)
      PROVE  OrderTypes' /\ CallTypes' /\ StockTypes'
  BY <1>2, <1>3, <1>4, GoodsReceiptAssumption DEF Decide, OrderTypes, Statuses
<1>5. ASSUME NEW r \in Receipts, ReceiveRead(r)
      PROVE  OrderTypes' /\ CallTypes' /\ StockTypes'
  BY <1>2, <1>3, <1>5, GoodsReceiptAssumption DEF ReceiveRead, OrderTypes
<1>6. ASSUME NEW r \in Receipts, ReceiveCommit(r)
      PROVE  OrderTypes' /\ CallTypes' /\ StockTypes'
  <2>1. ReceivedTotal(r) \in Nat
    BY GoodsReceiptAssumption DEF ReceivedTotal, OrderTypes
  <2>2. StatusAfter(r, ReceivedTotal(r)) \in Statuses
    BY DEF StatusAfter, OrderTypes, Statuses
  <2>3. OrderTypes'
    BY <1>6, <2>1, <2>2 DEF ReceiveCommit, OrderTypes
  <2>4. QED
    BY <1>2, <1>3, <1>6, <2>3 DEF ReceiveCommit
<1>7. CASE CreateItem
  BY <1>1, <1>2, <1>7 DEF CreateItem, StockTypes
<1>8. ASSUME NEW c \in Calls, Deliver(c) \/ Check(c) \/ Mark(c)
      PROVE  OrderTypes' /\ CallTypes' /\ StockTypes'
  <2>1. CallTypes'
    BY <1>8, Quantities, GoodsReceiptAssumption
    DEF Deliver, Check, Mark, Goto, Fault, CallTypes, CallSteps
  <2>2. QED
    BY <1>1, <1>3, <1>8, <2>1 DEF Deliver, Check, Mark
<1>9. ASSUME NEW c \in Calls, ApplyReads(c)
      PROVE  OrderTypes' /\ CallTypes' /\ StockTypes'
  <2>1. CallTypes'
    BY <1>9, GoodsReceiptAssumption DEF ApplyReads, Goto, Fault, CallTypes, CallSteps
  <2>2. \A row \in LevelRows :
          [row |-> row, quantity |-> IF row = 0 THEN 0 ELSE quarantine[row]]
            \in [row : Nat, quantity : Nat]
    BY DEF LevelRows, StockTypes
  <2>3. StockTypes'
    BY <1>9, <2>2 DEF ApplyReads, StockTypes
  <2>4. QED
    BY <1>1, <1>9, <2>1, <2>3 DEF ApplyReads
<1>10. ASSUME NEW c \in Calls, ApplyCommits(c)
       PROVE  OrderTypes' /\ CallTypes' /\ StockTypes'
  <2>1. CallTypes'
    <3>1. faults' \in 0..MaxFaults
      BY <1>10, GoodsReceiptAssumption DEF ApplyCommits, Fault, CallTypes
    <3>2. Goto(c, "mark") \/ Goto(c, "threw")
      BY <1>10 DEF ApplyCommits
    <3>3. UNCHANGED ledger
      BY <1>10 DEF ApplyCommits
    <3>4. QED
      BY <3>1, <3>2, <3>3 DEF Goto, CallTypes, CallSteps
  <2>2. QED
    BY <1>1, <1>10, <2>1, CommitTypes DEF ApplyCommits
<1>11. CASE UNCHANGED vars
  BY <1>1, <1>2, <1>3, <1>11 DEF vars
<1>12. ASSUME NEW l \in Lots, CreateLot(l)
       PROVE  OrderTypes' /\ CallTypes' /\ StockTypes'
  BY <1>1, <1>2, <1>12 DEF CreateLot, StockTypes
<1>13. ASSUME NEW x \in Restores, RestoreItem(x)
       PROVE  OrderTypes' /\ CallTypes' /\ StockTypes'
  BY <1>1, <1>2, <1>13, GoodsReceiptAssumption DEF RestoreItem, StockTypes
<1> QED
  BY <1>4, <1>5, <1>6, <1>7, <1>8, <1>9, <1>10, <1>11, <1>12, <1>13 DEF Next, Handle

\* Types: in particular receivedQty and the stock quantities are never negative.
THEOREM ReceiptTypeCorrect == Safety => []TypeOK
  BY InitTypeOK, NextTypeOK, PTL DEF Safety

-----------------------------------------------------------------------------
(* The refinement: what happens around a receipt is a call of the guard *)

\* How the guard sees a delivery's step.
Seen(s) == IF s = "lost" THEN "new" ELSE IF s = "commit" THEN "run" ELSE s

\* A step that shows in the guard is the guard's step of that call.
LEMMA NextFollowsGuard ==
  ASSUME TypeOK, [Next]_vars
  PROVE  [Guard!Next]_(Guard!vars)
<1> USE DEF orderVars, stockVars
<1> DEFINE seen(d) ==
      IF step[d] = "lost" THEN "new" ELSE IF step[d] = "commit" THEN "run" ELSE step[d]
           steps == [d \in Calls |-> seen(d)]
<1>1. CallTypes
  BY TypeParts
<1>2. ASSUME UNCHANGED <<step, ledger>> PROVE UNCHANGED Guard!vars
  BY <1>2 DEF Guard!vars
<1>3. ASSUME NEW c \in Calls, NEW s \in CallSteps, Goto(c, s)
      PROVE  steps' = [steps EXCEPT ![c] = Seen(s)]
  BY <1>1, <1>3 DEF Goto, CallTypes, Seen
<1>4. steps \in [Calls -> CallSteps] /\ \A c \in Calls : steps[c] = Seen(step[c])
  BY <1>1 DEF Seen, CallTypes, CallSteps
<1>5. \A s \in {"skipped", "run", "threw", "mark", "done", "unmarked", "check"} :
         s \in CallSteps /\ Seen(s) = s
  BY DEF Seen, CallSteps
<1>6. /\ "lost" \in CallSteps /\ Seen("lost") = "new"
       /\ "commit" \in CallSteps /\ Seen("commit") = "run"
  BY DEF Seen, CallSteps
<1> HIDE DEF steps
<1>7. \A c \in Calls : \A s \in {"skipped", "run", "threw", "mark", "done", "unmarked", "check"} :
         Goto(c, s) => steps' = [steps EXCEPT ![c] = s]
  BY <1>3, <1>5
<1>8. ASSUME UNCHANGED <<steps, ledger>> PROVE UNCHANGED Guard!vars
  BY <1>8 DEF Guard!vars, steps
<1>9. ASSUME NEW c \in Calls, Deliver(c) PROVE Guard!Arrive(c) \/ UNCHANGED Guard!vars
  <2>1. UNCHANGED ledger /\ steps[c] = "new"
    BY <1>4, <1>9 DEF Deliver, Seen
  <2>2. CASE Goto(c, "check")
    BY <1>7, <2>1, <2>2 DEF Guard!Arrive, Guard!Goto, steps
  <2>3. CASE Goto(c, "lost")
    BY <1>3, <1>4, <1>6, <1>8, <2>1, <2>3
  <2>4. QED
    BY <1>9, <2>2, <2>3 DEF Deliver
<1>10. ASSUME NEW c \in Calls, Check(c) PROVE Guard!Check(c)
  <2>1. UNCHANGED ledger /\ steps[c] = "check"
    BY <1>4, <1>10 DEF Check, Seen
  <2>2. QED
    BY <1>10, <1>7, <2>1
    DEF Check, WasProcessed, Guard!Check, Guard!WasProcessed, Guard!Goto, steps
<1>11. ASSUME NEW c \in Calls, ApplyReads(c) PROVE Guard!Body(c) \/ UNCHANGED Guard!vars
  <2>1. UNCHANGED ledger /\ steps[c] = "run"
    BY <1>4, <1>11 DEF ApplyReads, Seen
  <2>2. CASE Goto(c, "commit")
    BY <1>3, <1>4, <1>6, <1>8, <2>1, <2>2
  <2>3. CASE Goto(c, "mark") \/ Goto(c, "threw")
    BY <1>7, <2>1, <2>3 DEF Guard!Body, Guard!Goto, steps
  <2>4. QED
    BY <1>11, <2>2, <2>3 DEF ApplyReads
<1>12. ASSUME NEW c \in Calls, ApplyCommits(c) PROVE Guard!Body(c)
  <2>1. UNCHANGED ledger /\ steps[c] = "run"
    BY <1>4, <1>12 DEF ApplyCommits, Seen
  <2>2. Goto(c, "mark") \/ Goto(c, "threw")
    BY <1>12 DEF ApplyCommits
  <2>3. QED
    BY <1>7, <2>1, <2>2 DEF Guard!Body, Guard!Goto, steps
<1>13. ASSUME NEW c \in Calls, Mark(c) PROVE Guard!Mark(c)
  <2>1. steps[c] = "mark"
    BY <1>4, <1>13 DEF Mark, Seen
  <2>2. QED
    BY <1>13, <1>7, <2>1 DEF Mark, Guard!Mark, Guard!Record, Guard!Goto, steps
<1>14. CASE UNCHANGED vars
  BY <1>2, <1>14 DEF vars
<1>15. ASSUME NEW r \in Receipts, ReceiveRead(r) \/ ReceiveCommit(r) PROVE UNCHANGED Guard!vars
  BY <1>2, <1>15 DEF ReceiveRead, ReceiveCommit
<1>16. ASSUME NEW o \in Orders, NEW d \in Decisions, Decide(o, d) PROVE UNCHANGED Guard!vars
  BY <1>2, <1>16 DEF Decide
<1>17. CASE CreateItem \/ (\E l \in Lots : CreateLot(l)) \/ (\E x \in Restores : RestoreItem(x))
  BY <1>2, <1>17 DEF CreateItem, CreateLot, RestoreItem
<1> QED
  BY <1>9, <1>10, <1>11, <1>12, <1>13, <1>14, <1>15, <1>16, <1>17 DEF Next, Handle, Guard!Next

\* Whatever requests and deliveries overlap and fail, each delivery of a receipt goes
\* through the steps of withProcessedEventGuard and no others.
THEOREM ReceiptsFollowGuard == Safety => ImplementsGuard
<1>1. Init => Guard!Init
  BY DEF Init, Guard!Init
<1>2. TypeOK /\ [Next]_vars => [Guard!Next]_(Guard!vars)
  BY NextFollowsGuard
<1> QED
  BY <1>1, <1>2, InitTypeOK, NextTypeOK, PTL DEF Safety, ImplementsGuard, Guard!Safety

-----------------------------------------------------------------------------
(* The audit of the stock *)

\* A delivery is booked once, by the commit it goes through.
BookedIsPast == IsFiniteSet(booked) /\ \A c \in booked : step[c] \in {"mark", "done", "unmarked"}

\* What compensations gave back is a sum of naturals.
GivenIsFinite == IsFiniteSet(givenBack)

\* Deliveries that do not overlap are handled one at a time, and the row that one of
\* them read is still as it read it.
OneBusy == ~overlap => \A c, d \in Calls : Busy(c) /\ Busy(d) => c = d
LevelIsCurrent ==
  ~overlap => \A c \in Calls : step[c] = "commit" =>
    IF levelSeen[c].row = 0 THEN levelSeen[c].quantity = 0
    ELSE /\ levelSeen[c].row \in DOMAIN quarantine
         /\ quarantine[levelSeen[c].row] = levelSeen[c].quantity

StockInv ==
  BookedIsPast /\ GivenIsFinite /\ ItemQuantityIsAudited /\ OneBusy /\ LevelIsCurrent /\ StockLevelIsAudited

LEMMA TotalAdds ==
  ASSUME IsFiniteSet(booked), booked \subseteq Calls, NEW c \in Calls, c \notin booked
  PROVE  /\ Total(booked) \in Nat
         /\ Total(booked \cup {c}) = Total(booked) + EventQuantity(c[1])
<1> DEFINE f == [d \in Calls |-> EventQuantity(d[1])]
<1>1. \A d \in booked \cup {c} : f[d] \in Nat /\ f[d] \in Int
  BY Quantities
<1>2. f[c] = EventQuantity(c[1])
  OBVIOUS
<1> HIDE DEF f
<1>3. SumFunctionOnSet(f, booked) \in Nat
  BY <1>1, SumType
<1>4. SumFunctionOnSet(f, booked \cup {c}) = SumFunctionOnSet(f, booked) + f[c]
  BY <1>1, SumAdd
<1> QED
  BY <1>2, <1>3, <1>4 DEF Total, f

LEMMA InitStock == Init => StockInv
<1> SUFFICES ASSUME Init PROVE StockInv
  OBVIOUS
<1>1. Total(booked) = 0 /\ SumFunctionOnSet(Restored, givenBack) = 0
  <2>1. booked = {}
    BY DEF Init, booked
  <2> QED
    BY <2>1, SumEmpty, Zenon DEF Init, Total
<1>2. SumFunction(quarantine) = 0
  <2>1. CASE quarantine = <<>>
    <3>1. DOMAIN quarantine = {}
      BY <2>1
    <3> QED
      BY <3>1, SumEmpty, Zenon DEF SumFunction
  <2>2. CASE quarantine = <<0>>
    <3>1. IsFiniteSet(DOMAIN quarantine) /\ \A i \in DOMAIN quarantine : quarantine[i] = 0
      BY <2>2, FS_Singleton
    <3> QED
      BY <3>1, SumZero DEF SumFunction
  <2> QED
    BY <2>1, <2>2 DEF Init
<1>3. BookedIsPast /\ GivenIsFinite
  BY FS_EmptySet DEF Init, BookedIsPast, GivenIsFinite, booked
<1> QED
  BY <1>1, <1>2, <1>3
  DEF Init, StockInv, ItemQuantityIsAudited, OneBusy, Busy, LevelIsCurrent, StockLevelIsAudited

LEMMA LevelSums ==
  ASSUME NEW q \in Seq(Nat)
  PROVE  /\ SumFunction(q) \in Nat
         /\ \A x \in Nat : SumFunction(Append(q, x)) = SumFunction(q) + x
         /\ \A i \in DOMAIN q, x \in Nat :
              SumFunction([q EXCEPT ![i] = x]) = SumFunction(q) + x - q[i]
<1> DEFINE n == Len(q)
<1>1. n \in Nat /\ DOMAIN q = 1..n /\ (\A i \in 1..n : q[i] \in Nat) /\ q \in [1..n -> Int]
  OBVIOUS
<1>2. ASSUME NEW x \in Nat
      PROVE  /\ Append(q, x) \in [1..n + 1 -> Int] /\ Append(q, x)[n + 1] = x
             /\ \A i \in 1..n : Append(q, x)[i] = q[i]
  <2>1. Append(q, x) \in Seq(Nat) /\ Len(Append(q, x)) = n + 1
    BY <1>2
  <2>2. \A i \in 1..n + 1 : Append(q, x)[i] = IF i = n + 1 THEN x ELSE q[i]
    BY <1>2
  <2>3. Append(q, x) \in [1..n + 1 -> Nat]
    BY <2>1, LenProperties
  <2> QED
    BY <1>1, <2>2, <2>3
<1> HIDE DEF n
<1>3. SumFunction(q) \in Nat
  <2>1. IsFiniteSet(1..n)
    BY <1>1, FS_Interval
  <2>2. SumFunctionOnSet(q, 1..n) \in Nat
    BY <1>1, <2>1, SumType
  <2> QED
    BY <1>1, <2>2, Zenon DEF SumFunction
<1>4. \A x \in Nat : SumFunction(Append(q, x)) = SumFunction(q) + x
  BY <1>1, <1>2, SumLonger
<1>5. \A i \in DOMAIN q, x \in Nat : SumFunction([q EXCEPT ![i] = x]) = SumFunction(q) + x - q[i]
  <2> SUFFICES ASSUME NEW i \in DOMAIN q, NEW x \in Nat
               PROVE  SumFunction([q EXCEPT ![i] = x]) = SumFunction(q) + x - q[i]
    OBVIOUS
  <2>1. i \in 1..n /\ x \in Int
    BY <1>1
  <2> QED
    BY <1>1, <2>1, SumEntry, Zenon
<1> QED
  BY <1>3, <1>4, <1>5

\* A commit of the receipt adds as much to the levels as to what is booked, if the row
\* is as it was read.
LEMMA CommitAdds ==
  ASSUME TypeOK, NEW c \in Calls, step[c] = "commit", ~overlap, LevelIsCurrent,
         quarantine' = IF levelSeen[c].row = 0
                       THEN Append(quarantine, LevelAfter(c))
                       ELSE [quarantine EXCEPT ![levelSeen[c].row] = LevelAfter(c)]
  PROVE  SumFunction(quarantine') = SumFunction(quarantine) + EventQuantity(c[1])
<1> DEFINE row == levelSeen[c].row
           seen == levelSeen[c].quantity
<1>1. quarantine \in Seq(Nat) /\ seen \in Nat /\ EventQuantity(c[1]) \in Nat
  BY Quantities, TypeParts DEF StockTypes
<1>2. LevelAfter(c) \in Nat /\ LevelAfter(c) = seen + EventQuantity(c[1])
  BY <1>1 DEF LevelAfter
<1>3. SumFunction(quarantine) \in Nat
  BY <1>1, LevelSums
<1>4. CASE row = 0
  <2>1. quarantine' = Append(quarantine, LevelAfter(c)) /\ seen = 0
    BY <1>4 DEF LevelIsCurrent
  <2>2. SumFunction(quarantine') = SumFunction(quarantine) + LevelAfter(c)
    BY <1>1, <1>2, <2>1, LevelSums
  <2> QED
    BY <1>1, <1>2, <1>3, <2>1, <2>2
<1>5. CASE row # 0
  <2>1. /\ row \in DOMAIN quarantine /\ quarantine[row] = seen
        /\ quarantine' = [quarantine EXCEPT ![row] = LevelAfter(c)]
    BY <1>5 DEF LevelIsCurrent
  <2>2. SumFunction(quarantine') = SumFunction(quarantine) + LevelAfter(c) - quarantine[row]
    <3>1. \A i \in DOMAIN quarantine, x \in Nat :
            SumFunction([quarantine EXCEPT ![i] = x]) = SumFunction(quarantine) + x - quarantine[i]
      BY <1>1, LevelSums, Zenon
    <3>2. SumFunction([quarantine EXCEPT ![row] = LevelAfter(c)])
            = SumFunction(quarantine) + LevelAfter(c) - quarantine[row]
      BY <1>2, <2>1, <3>1, Zenon
    <3> QED
      BY <2>1, <3>2, Zenon
  <2> QED
    BY <1>1, <1>2, <1>3, <2>1, <2>2
<1> QED
  BY <1>4, <1>5

LEMMA NextStock == TypeOK /\ StockInv /\ [Next]_vars => StockInv'
<1> SUFFICES ASSUME TypeOK, StockInv, [Next]_vars PROVE StockInv'
  OBVIOUS
<1> USE DEF orderVars, stockVars
<1>1. OrderTypes /\ CallTypes /\ StockTypes
  BY TypeParts
<1>r. SumFunctionOnSet(Restored, givenBack) \in Nat
  <2>1. \A x \in givenBack : Restored[x] \in Nat
    BY <1>1, GoodsReceiptAssumption DEF StockTypes
  <2> QED
    BY <2>1, SumType DEF StockInv, GivenIsFinite
<1>0. UNCHANGED transactions => UNCHANGED booked
  BY DEF booked
<1>2. ASSUME UNCHANGED <<overlap, quarantine, itemQuantity, transactions, givenBack>>
      PROVE  ItemQuantityIsAudited' /\ StockLevelIsAudited' /\ GivenIsFinite'
  BY <1>0, <1>2 DEF StockInv, ItemQuantityIsAudited, StockLevelIsAudited, GivenIsFinite, Total
<1>3. ASSUME UNCHANGED <<step, stockVars>> \/ CreateItem PROVE StockInv'
  BY <1>0, <1>2, <1>3
  DEF StockInv, BookedIsPast, OneBusy, Busy, LevelIsCurrent, CreateItem
\* A call goes on to a position that is not busy, or was busy before.
<1>4. ASSUME NEW c \in Calls, NEW s \in CallSteps, Goto(c, s), UNCHANGED overlap,
             \/ s \notin {"check", "run", "commit", "mark"} \/ Busy(c)
             \/ overlap \/ \A d \in Calls : ~Busy(d)
      PROVE  OneBusy'
  BY <1>1, <1>4 DEF StockInv, OneBusy, Busy, Goto, CallTypes
<1>5. ASSUME NEW c \in Calls, NEW s \in CallSteps, Goto(c, s), UNCHANGED transactions,
             c \in booked => s \in {"done", "unmarked"}
      PROVE  BookedIsPast'
  BY <1>0, <1>1, <1>5 DEF StockInv, BookedIsPast, Goto, CallTypes, booked
<1>6. ASSUME NEW c \in Calls, NEW s \in CallSteps, Goto(c, s), s # "commit",
             UNCHANGED <<overlap, quarantine, levelSeen>>
      PROVE  LevelIsCurrent'
  BY <1>1, <1>6 DEF StockInv, LevelIsCurrent, Goto, CallTypes
<1>7. ASSUME NEW c \in Calls, Deliver(c) \/ Check(c) \/ Mark(c) PROVE StockInv'
  <2>1. PICK s \in {"check", "lost", "skipped", "run", "threw", "done", "unmarked"} :
          /\ Goto(c, s)
          /\ s = "check" => overlap \/ \A d \in Calls : ~Busy(d)
          /\ s \in {"run", "skipped", "threw"} => step[c] = "check"
          /\ s \in {"check", "lost"} => step[c] = "new"
    BY <1>7 DEF Deliver, Check, Mark
  <2>2. UNCHANGED stockVars
    BY <1>7 DEF Deliver, Check, Mark
  <2>3. s \in CallSteps /\ s # "commit" /\ (c \in booked => s \in {"done", "unmarked"})
    BY <2>1 DEF CallSteps, StockInv, BookedIsPast
  <2>4. OneBusy'
    BY <1>4, <2>1, <2>2, <2>3 DEF Busy
  <2>5. BookedIsPast' /\ LevelIsCurrent'
    BY <1>5, <1>6, <2>1, <2>2, <2>3
  <2> QED
    BY <1>2, <2>2, <2>4, <2>5 DEF StockInv
<1>8. ASSUME NEW c \in Calls, ApplyReads(c) PROVE StockInv'
  <2>1. PICK s \in {"mark", "commit", "threw"} : Goto(c, s) /\ (s # "commit" => UNCHANGED levelSeen)
    BY <1>8 DEF ApplyReads
  <2>2. /\ step[c] = "run" /\ s \in CallSteps /\ c \notin booked
        /\ UNCHANGED <<overlap, quarantine, itemQuantity, transactions, givenBack>>
    BY <1>8, <2>1 DEF ApplyReads, CallSteps, StockInv, BookedIsPast
  <2>3. OneBusy' /\ BookedIsPast'
    BY <1>4, <1>5, <2>1, <2>2 DEF Busy
  <2>4. CASE s # "commit"
    BY <1>2, <1>6, <2>1, <2>2, <2>3, <2>4 DEF StockInv
  <2>5. CASE s = "commit"
    <3>1. PICK row \in LevelRows :
            levelSeen' = [levelSeen EXCEPT ![c] =
              [row |-> row, quantity |-> IF row = 0 THEN 0 ELSE quarantine[row]]]
      BY <1>8, <2>1, <2>5, <1>1 DEF ApplyReads, Goto, CallTypes
    <3>2. row # 0 => row \in DOMAIN quarantine
      BY DEF LevelRows
    <3>3. LevelIsCurrent'
      BY <1>1, <2>1, <2>2, <2>5, <3>1, <3>2
      DEF StockInv, LevelIsCurrent, Goto, CallTypes, StockTypes
    <3> QED
      BY <1>2, <2>2, <2>3, <3>3 DEF StockInv
  <2> QED
    BY <2>4, <2>5
<1>9. ASSUME NEW c \in Calls, ApplyCommits(c) PROVE StockInv'
  <2>1. step[c] = "commit" /\ UNCHANGED <<overlap, levelSeen, givenBack>> /\ c \notin booked
    BY <1>9 DEF ApplyCommits, StockInv, BookedIsPast
  <2>2. CASE Goto(c, "threw") /\ UNCHANGED <<quarantine, itemQuantity, transactions>>
    <3>1. "threw" \in CallSteps
      BY DEF CallSteps
    <3> QED
      BY <1>2, <1>4, <1>5, <1>6, <2>1, <2>2, <3>1 DEF StockInv, Busy
  <2>3. CASE /\ quarantine' = IF levelSeen[c].row = 0
                               THEN Append(quarantine, LevelAfter(c))
                               ELSE [quarantine EXCEPT ![levelSeen[c].row] = LevelAfter(c)]
             /\ itemQuantity' = ItemAfter(c)
             /\ transactions' = transactions \cup {c}
             /\ Goto(c, "mark")
    <3>0. booked' = booked \cup {c} /\ booked \subseteq Calls
      BY <2>3 DEF booked
    <3>1. "mark" \in CallSteps /\ Busy(c)
      BY <2>1 DEF CallSteps, Busy
    <3>2. OneBusy'
      BY <1>4, <2>1, <2>3, <3>1
    <3>3. BookedIsPast' /\ GivenIsFinite'
      BY <1>1, <2>1, <2>3, <3>0, FS_AddElement
      DEF StockInv, BookedIsPast, GivenIsFinite, Goto, CallTypes
    <3>4. Total(booked)' = Total(booked) + EventQuantity(c[1]) /\ Total(booked) \in Nat
      <4>1. Total(booked \cup {c}) = Total(booked) + EventQuantity(c[1]) /\ Total(booked) \in Nat
        BY <2>1, <3>0, TotalAdds DEF StockInv, BookedIsPast
      <4>2. Total(booked)' = Total(booked \cup {c})
        BY <3>0 DEF Total
      <4> QED
        BY <4>1, <4>2
    <3>5. ItemQuantityIsAudited'
      BY <1>r, <2>1, <2>3, <3>4, Quantities DEF StockInv, ItemQuantityIsAudited, ItemAfter
    <3>6. StockLevelIsAudited'
      BY <2>1, <2>3, <3>4, CommitAdds DEF StockInv, StockLevelIsAudited
    <3>7. LevelIsCurrent'
      <4>1. ~overlap => \A d \in Calls \ {c} : step[d] # "commit"
        BY <2>1 DEF StockInv, OneBusy, Busy
      <4> QED
        BY <1>1, <2>1, <2>3, <4>1 DEF LevelIsCurrent, Goto, CallTypes
    <3> QED
      BY <3>2, <3>3, <3>5, <3>6, <3>7 DEF StockInv
  <2> QED
    BY <1>9, <2>2, <2>3 DEF ApplyCommits
<1>10. ASSUME NEW r \in Receipts, ReceiveRead(r) \/ ReceiveCommit(r) PROVE StockInv'
  BY <1>3, <1>10 DEF ReceiveRead, ReceiveCommit
<1>11. ASSUME NEW o \in Orders, NEW d \in Decisions, Decide(o, d) PROVE StockInv'
  BY <1>3, <1>11 DEF Decide
<1>12. CASE UNCHANGED vars
  BY <1>3, <1>12 DEF vars
<1>13. ASSUME NEW l \in Lots, CreateLot(l) PROVE StockInv'
  <2>1. booked' = booked
    BY <1>13, GoodsReceiptAssumption DEF CreateLot, booked
  <2>2. UNCHANGED <<overlap, step, levelSeen, quarantine, itemQuantity, givenBack>>
    BY <1>13 DEF CreateLot
  <2> QED
    BY <2>1, <2>2
    DEF StockInv, BookedIsPast, GivenIsFinite, OneBusy, Busy, LevelIsCurrent,
        ItemQuantityIsAudited, StockLevelIsAudited, Total
<1>14. ASSUME NEW x \in Restores, RestoreItem(x) PROVE StockInv'
  <2>1. /\ UNCHANGED <<overlap, step, levelSeen, quarantine, transactions>>
        /\ itemQuantity' = itemQuantity + Restored[x]
        /\ givenBack' = givenBack \cup {x} /\ x \notin givenBack
    BY <1>14 DEF RestoreItem
  <2>2. GivenIsFinite'
    BY <2>1, FS_AddElement DEF StockInv, GivenIsFinite
  <2>3. SumFunctionOnSet(Restored, givenBack)' = SumFunctionOnSet(Restored, givenBack) + Restored[x]
    <3>1. \A y \in givenBack \cup {x} : Restored[y] \in Int
      BY <1>1, GoodsReceiptAssumption DEF StockTypes
    <3>2. SumFunctionOnSet(Restored, givenBack \cup {x})
            = SumFunctionOnSet(Restored, givenBack) + Restored[x]
      BY <2>1, <3>1, SumAdd DEF StockInv, GivenIsFinite
    <3> QED
      BY <2>1, <3>2
  <2>4. Total(booked)' = Total(booked) /\ Total(booked) + SumFunctionOnSet(Restored, givenBack) = itemQuantity
    BY <1>0, <2>1 DEF StockInv, ItemQuantityIsAudited, Total
  <2>5. Total(booked) \in Nat /\ Restored[x] \in Nat
    <3>1. \A c \in booked : c \in Calls
      BY DEF booked
    <3>2. \A c \in booked : [d \in Calls |-> EventQuantity(d[1])][c] \in Nat
      BY <3>1, Quantities
    <3> QED
      BY <3>2, SumType, GoodsReceiptAssumption DEF StockInv, BookedIsPast, Total
  <2>6. ItemQuantityIsAudited'
    BY <1>r, <2>1, <2>3, <2>4, <2>5 DEF ItemQuantityIsAudited
  <2> QED
    BY <1>0, <2>1, <2>2, <2>4, <2>6
    DEF StockInv, BookedIsPast, OneBusy, Busy, LevelIsCurrent, StockLevelIsAudited
<1> QED
  BY <1>3, <1>7, <1>8, <1>9, <1>10, <1>11, <1>12, <1>13, <1>14 DEF Next, Handle

\* For any number of deliveries and restores, overlapping, failing and repeated:
\* Item.stockQuantity is the sum of the purchase orders' RECEIPT transactions and of
\* what was given back, and no lot's RECEIPT enters it.
THEOREM ItemIsAudited == Safety => []ItemQuantityIsAudited
<1>1. StockInv => ItemQuantityIsAudited
  BY DEF StockInv
<1> QED
  BY <1>1, InitTypeOK, NextTypeOK, InitStock, NextStock, PTL DEF Safety

\* The stock levels add up to the same, in as many rows as there may be, when no two
\* deliveries overlap: then the row that is written is as it was read.
THEOREM LevelIsAudited == Safety => []StockLevelIsAudited
<1>1. StockInv => StockLevelIsAudited
  BY DEF StockInv
<1> QED
  BY <1>1, InitTypeOK, NextTypeOK, InitStock, NextStock, PTL DEF Safety

-----------------------------------------------------------------------------
(* The order: received is written from a row that may be old, but it is never ahead *)
(* of what the completed requests reported                                          *)

Reported(o) == SumFunctionOnSet(Quantity, Done(o))

Behind(o, st, n) == n <= Reported(o) /\ (st = "DELIVERED" => Reported(o) >= Amount[o])

RowsBehind ==
  /\ \A o \in Orders : IsFiniteSet(Done(o)) /\ Behind(o, status[o], received[o])
  /\ \A r \in Receipts : Behind(OrderOf[r], snapshot[r].status, snapshot[r].received)

\* Requests that do not overlap: the one that has read has read what is still there.
OneRead ==
  ~overlap =>
    /\ \A q, r \in Receipts : request[q] = "read" /\ request[r] = "read" => q = r
    /\ \A r \in Receipts : request[r] = "read" => snapshot[r].received = received[OrderOf[r]]
    /\ \A o \in Orders : received[o] = Reported(o)

OrderInv == RowsBehind /\ OneRead

LEMMA ReportedType == TypeOK /\ RowsBehind => \A o \in Orders : Reported(o) \in Nat
<1> SUFFICES ASSUME TypeOK, RowsBehind, NEW o \in Orders PROVE Reported(o) \in Nat
  OBVIOUS
<1>1. IsFiniteSet(Done(o)) /\ \A r \in Done(o) : Quantity[r] \in Nat
  BY GoodsReceiptAssumption DEF RowsBehind, Done
<1> QED
  BY <1>1, SumType DEF Reported

LEMMA InitOrder == Init => OrderInv
<1> SUFFICES ASSUME Init PROVE OrderInv
  OBVIOUS
<1>1. \A o \in Orders : Done(o) = {}
  BY DEF Init, Done
<1>2. \A o \in Orders : IsFiniteSet(Done(o)) /\ Reported(o) = 0
  BY <1>1, SumEmpty, FS_EmptySet, Zenon DEF Reported
<1> QED
  BY <1>2, GoodsReceiptAssumption DEF Init, OrderInv, RowsBehind, Behind, OneRead

\* A request that completes adds what it reported to its own order.
LEMMA CommitReports ==
  ASSUME TypeOK, RowsBehind, NEW r \in Receipts, ReceiveCommit(r)
  PROVE  \A o \in Orders :
           /\ IsFiniteSet(Done(o))'
           /\ Reported(o)' = IF o = OrderOf[r] THEN Reported(o) + Quantity[r] ELSE Reported(o)
<1> SUFFICES ASSUME NEW o \in Orders
             PROVE  /\ IsFiniteSet(Done(o))'
                    /\ Reported(o)' = IF o = OrderOf[r] THEN Reported(o) + Quantity[r]
                                                        ELSE Reported(o)
  OBVIOUS
<1>1. request[r] = "read" /\ request' = [request EXCEPT ![r] = "done"]
  BY DEF ReceiveCommit
<1>2. request \in [Receipts -> {"new", "read", "done"}]
  BY TypeParts DEF OrderTypes
<1>3. IsFiniteSet(Done(o)) /\ \A q \in Done(o) \cup {r} : Quantity[q] \in Int
  BY GoodsReceiptAssumption DEF RowsBehind, Done
<1>4. CASE o # OrderOf[r]
  <2>1. Done(o)' = Done(o)
    BY <1>1, <1>2, <1>4 DEF Done
  <2> QED
    BY <1>3, <1>4, <2>1, Zenon DEF Reported
<1>5. CASE o = OrderOf[r]
  <2>1. Done(o)' = Done(o) \cup {r} /\ r \notin Done(o)
    BY <1>1, <1>2, <1>5 DEF Done
  <2>2. IsFiniteSet(Done(o) \cup {r})
    BY <1>3, FS_AddElement
  <2>3. SumFunctionOnSet(Quantity, Done(o) \cup {r}) = SumFunctionOnSet(Quantity, Done(o)) + Quantity[r]
    BY <1>3, <2>1, SumAdd
  <2> QED
    BY <1>5, <2>1, <2>2, <2>3, Zenon DEF Reported
<1> QED
  BY <1>4, <1>5

LEMMA NextOrder == TypeOK /\ OrderInv /\ [Next]_vars => OrderInv'
<1> SUFFICES ASSUME TypeOK, OrderInv, [Next]_vars PROVE OrderInv'
  OBVIOUS
<1> USE DEF orderVars, stockVars
<1>1. OrderTypes /\ \A o \in Orders : Reported(o) \in Nat
  BY TypeParts, ReportedType DEF OrderInv
<1>2. ASSUME UNCHANGED request PROVE \A o \in Orders : UNCHANGED <<Done(o), Reported(o)>>
  BY <1>2 DEF Done, Reported
<1>3. ASSUME UNCHANGED <<overlap, orderVars>> PROVE OrderInv'
  BY <1>2, <1>3, GoodsReceiptAssumption DEF OrderInv, RowsBehind, Behind, OneRead
<1>4. ASSUME NEW o \in Orders, NEW decision \in Decisions, Decide(o, decision) PROVE OrderInv'
  <2>1. decision # "DELIVERED" /\ UNCHANGED <<overlap, received, request, snapshot>>
    BY <1>4, GoodsReceiptAssumption DEF Decide
  <2> QED
    BY <1>1, <1>2, <1>4, <2>1, GoodsReceiptAssumption
    DEF Decide, OrderInv, RowsBehind, Behind, OneRead, OrderTypes
<1>5. ASSUME NEW r \in Receipts, ReceiveRead(r) PROVE OrderInv'
  <2>1. /\ request[r] = "new" /\ request' = [request EXCEPT ![r] = "read"]
        /\ overlap \/ \A q \in Receipts : request[q] # "read"
        /\ snapshot' = [snapshot EXCEPT ![r] =
              [status |-> status[OrderOf[r]], received |-> received[OrderOf[r]]]]
        /\ UNCHANGED <<overlap, status, received>>
    BY <1>5 DEF ReceiveRead
  <2>2. \A o \in Orders : Done(o)' = Done(o)
    BY <1>1, <2>1 DEF Done, OrderTypes
  <2>3. \A o \in Orders : Reported(o)' = Reported(o)
    BY <2>2 DEF Reported
  <2>4. RowsBehind'
    <3>1. \A o \in Orders : (IsFiniteSet(Done(o)) /\ Behind(o, status[o], received[o]))'
      BY <2>1, <2>2, <2>3 DEF OrderInv, RowsBehind, Behind
    <3>2. ASSUME NEW q \in Receipts
          PROVE  Behind(OrderOf[q], snapshot[q].status, snapshot[q].received)'
      <4>1. OrderOf[q] \in Orders
        BY GoodsReceiptAssumption
      <4>2. \/ snapshot'[q] = snapshot[q]
            \/ snapshot'[q] = [status |-> status[OrderOf[q]], received |-> received[OrderOf[q]]]
        BY <1>1, <2>1 DEF OrderTypes
      <4>3. Behind(OrderOf[q], snapshot'[q].status, snapshot'[q].received)
        BY <4>1, <4>2 DEF OrderInv, RowsBehind
      <4> QED
        BY <2>3, <4>1, <4>3 DEF Behind
    <3> QED
      BY <3>1, <3>2 DEF RowsBehind
  <2>5. OneRead'
    BY <1>1, <2>1, <2>3 DEF OrderInv, OneRead, OrderTypes
  <2> QED
    BY <2>4, <2>5 DEF OrderInv
<1>6. ASSUME NEW r \in Receipts, ReceiveCommit(r) PROVE OrderInv'
  <2> DEFINE o == OrderOf[r]
             total == ReceivedTotal(r)
  <2>1. /\ request[r] = "read" /\ request' = [request EXCEPT ![r] = "done"]
        /\ status' = [status EXCEPT ![o] = StatusAfter(r, total)]
        /\ received' = [received EXCEPT ![o] = total]
        /\ UNCHANGED <<overlap, snapshot>>
    BY <1>6 DEF ReceiveCommit
  <2>2. \A p \in Orders :
          /\ IsFiniteSet(Done(p))'
          /\ Reported(p)' = IF p = o THEN Reported(p) + Quantity[r] ELSE Reported(p)
    BY <1>6, CommitReports DEF OrderInv
  <2>3. /\ o \in Orders /\ Quantity[r] \in Nat /\ Amount \in [Orders -> Nat]
        /\ snapshot[r].received \in Nat /\ total = snapshot[r].received + Quantity[r]
        /\ \A p \in Orders : Reported(p) \in Nat /\ received[p] \in Nat
        /\ \A q \in Receipts : OrderOf[q] \in Orders /\ snapshot[q].received \in Nat
    BY <1>1, GoodsReceiptAssumption DEF OrderTypes, ReceivedTotal
  <2>4. \A p \in Orders : Reported(p)' >= Reported(p)
    BY <2>2, <2>3
  <2>5. Behind(o, snapshot[r].status, snapshot[r].received)
    BY DEF OrderInv, RowsBehind
  <2>6. total <= Reported(o)' /\ (StatusAfter(r, total) = "DELIVERED" => Reported(o)' >= Amount[o])
    BY <2>2, <2>3, <2>5 DEF StatusAfter, Behind
  <2>7. ASSUME NEW p \in Orders PROVE (IsFiniteSet(Done(p)) /\ Behind(p, status[p], received[p]))'
    <3>1. CASE p = o
      BY <1>1, <2>1, <2>2, <2>3, <2>6, <3>1 DEF Behind, OrderTypes
    <3>2. CASE p # o
      BY <1>1, <2>1, <2>2, <2>3, <3>2 DEF OrderInv, RowsBehind, Behind, OrderTypes
    <3> QED
      BY <3>1, <3>2
  <2>8. ASSUME NEW q \in Receipts PROVE Behind(OrderOf[q], snapshot[q].status, snapshot[q].received)'
    <3> DEFINE p == OrderOf[q]
    <3>1. Behind(p, snapshot[q].status, snapshot[q].received) /\ p \in Orders
      BY <2>3 DEF OrderInv, RowsBehind
    <3>2. Reported(p)' >= Reported(p) /\ Reported(p) \in Nat /\ Reported(p)' \in Nat /\ Amount[p] \in Nat
      BY <2>2, <2>3, <2>4, <3>1
    <3>3. snapshot[q].received \in Nat /\ UNCHANGED snapshot
      BY <2>1, <2>3
    <3> QED
      BY <3>1, <3>2, <3>3 DEF Behind
  <2>9. OneRead'
    <3>1. ASSUME ~overlap
          PROVE  /\ \A q \in Receipts : request'[q] # "read"
                 /\ total = Reported(o)'
      BY <1>1, <2>1, <2>2, <2>3, <3>1 DEF OrderInv, OneRead, OrderTypes
    <3> QED
      BY <1>1, <2>1, <2>2, <3>1 DEF OrderInv, OneRead, OrderTypes
  <2> QED
    BY <2>7, <2>8, <2>9 DEF OrderInv, RowsBehind
<1>7. ASSUME NEW c \in Calls, Deliver(c) \/ Handle(c) PROVE OrderInv'
  BY <1>3, <1>7 DEF Deliver, Handle, Check, ApplyReads, ApplyCommits, Mark
<1>8. CASE CreateItem \/ (\E l \in Lots : CreateLot(l)) \/ (\E x \in Restores : RestoreItem(x))
  BY <1>3, <1>8 DEF CreateItem, CreateLot, RestoreItem
<1>9. CASE UNCHANGED vars
  BY <1>3, <1>9 DEF vars
<1> QED
  BY <1>4, <1>5, <1>6, <1>7, <1>8, <1>9 DEF Next

\* However requests overlap and overwrite each other's receivedQty, an order is DELIVERED
\* only when completed requests reported its amount; one after the other, receivedQty
\* is what they reported.
THEOREM DeliveredWasReceived == Safety => []OrderFollowsReceipts
<1>1. TypeOK /\ OrderInv => OrderFollowsReceipts
  BY ReportedType, GoodsReceiptAssumption
  DEF OrderInv, RowsBehind, Behind, OneRead, OrderFollowsReceipts, Reported
<1> QED
  BY <1>1, InitTypeOK, NextTypeOK, InitOrder, NextOrder, PTL DEF Safety
=============================================================================
