----------------------------- MODULE FinanceLedger -----------------------------
(***************************************************************************)
(* The bookings of one project in one accounting month of the finance      *)
(* service, and the four compensations that take them back: labour (WIP),  *)
(* relief of reserved material, purchase commitments and revenue.          *)
(*                                                                         *)
(* Handlers run concurrently, one per message being handled.  A database   *)
(* transaction is READ COMMITTED and locks nothing it reads: its reads and *)
(* its writes are two steps.  Messages of fin-wip-worker are redelivered   *)
(* until they are acked, the others are delivered once; a publisher may    *)
(* send any of them again.                                                 *)
(*                                                                         *)
(* A ProjectCost table is its sum and the number of rows per message;      *)
(* amounts are small numbers.  Left out: the GL account behind             *)
(* mock-wip-account-id, rates, the month itself, other projects.           *)
(***************************************************************************)
EXTENDS Integers, FiniteSets, Functions

CONSTANTS
  Handlers,      \* what may run at the same time
  Admins,        \* people who close and reopen the period
  Production,    \* mes.production.recorded.v1
  TimeEntries,   \* hr.time.entry.recorded.v1
  Releases,      \* inventory.reservation.released.v1, one reservation each
  Orders,        \* proc.purchaseorder.approved.v1
  Invoices,      \* tax.invoice.ksef.sent.v1
  WipReversals,  \* finance.wip.cost.reversed
  MaterialReversals, \* inventory.reservation.restored
  CommitmentReleases,\* finance.commitment.released.v1
  RevenueReversals,  \* finance.revenue.reversed.v1
  Amount,        \* of a forward message; stated by a compensation, or 0
  Overhead,      \* of a production record
  RefersTo,      \* the order or invoice a compensation names
  ByComponent,   \* releases whose reservation has a bomComponentId
  Scenarios,     \* the sets of messages that may be sent together
  MaxRepeats,    \* bound: labour bookings after which redelivery waits for OPEN
  MaxOps,        \* bound: changes of the period
  MaxFaults      \* bound: failed statements, crashes and repeated messages

Compensations == WipReversals \cup MaterialReversals \cup CommitmentReleases
                   \cup RevenueReversals
Bookings == Production \cup TimeEntries \cup Releases \cup Orders \cup Invoices
Messages == Bookings \cup Compensations
Durable  == Production \cup Releases \cup WipReversals
NoMessage == "none"

ASSUME FinanceLedgerAssumption ==
  /\ NoMessage \notin Messages /\ IsFiniteSet(Handlers)
  /\ Production \cap (TimeEntries \cup Releases \cup Orders \cup Invoices \cup Compensations) = {}
  /\ TimeEntries \cap (Releases \cup Orders \cup Invoices \cup Compensations) = {}
  /\ Releases \cap (Orders \cup Invoices \cup Compensations) = {}
  /\ Orders \cap (Invoices \cup Compensations) = {} /\ Invoices \cap Compensations = {}
  /\ WipReversals \cap (MaterialReversals \cup CommitmentReleases \cup RevenueReversals) = {}
  /\ MaterialReversals \cap (CommitmentReleases \cup RevenueReversals) = {}
  /\ CommitmentReleases \cap RevenueReversals = {}
  /\ Amount \in [Messages -> Nat] /\ Overhead \in [Production -> Nat]
  /\ RefersTo \in [CommitmentReleases \cup RevenueReversals -> Orders \cup Invoices]
  /\ \A c \in CommitmentReleases : RefersTo[c] \in Orders
  /\ \A c \in RevenueReversals : RefersTo[c] \in Invoices
  /\ ByComponent \subseteq Releases
  /\ Scenarios \subseteq SUBSET Messages /\ MaxFaults \in Nat /\ MaxOps \in Nat /\ MaxRepeats \in Nat
  /\ \A m \in Bookings : Amount[m] > 0

VARIABLES
  mockAccount,   \* are there accounts with the literal ids the code posts to?
  delivery,      \* what the broker still owes of each message
  at, msg,       \* per handler: position, message
  found,         \* per handler: the amount its transaction read
  period,        \* AccountingPeriod.status
  order,         \* per admin: the status about to be written
  ops,           \* changes of the period so far
  wip,           \* WipAccount of the project
  costs,         \* sum of the ProjectCost rows of the project
  committed,     \* sum of those an order made (MATERIAL, no work order)
  material,      \* sum of the MATERIAL rows of the work order
  booked,        \* per message: how often its effect was committed
  processed,     \* processed_events
  payable, bill, \* per order: Payable.status, ApBill.status
  liability,     \* balance of 201-AP
  receivable, arInvoice, \* per invoice: Receivable.status, ArInvoice.status
  revenue,       \* sum of RevenueRecognition
  reversed,      \* sum debited to 701-REV by compensations
  together,      \* history: messages two handlers were about to book at once
  late,          \* history: handlers that began when the period was not OPEN
  drift,         \* history: why wipBalance and costs may differ
  faults

brokerVars  == <<mockAccount, delivery>>
handlerVars == <<at, msg, found>>
periodVars  == <<period, order, ops>>
wipVars     == <<wip, costs, committed, material>>
apVars      == <<payable, bill, liability>>
arVars      == <<receivable, arInvoice, revenue, reversed>>
histories   == <<together, late, drift>>
vars == <<brokerVars, handlerVars, periodVars, wipVars, booked, processed, apVars, arVars,
          histories, faults>>

NoWip == [open |-> FALSE, balance |-> 0, labour |-> 0, reserved |-> 0]

Places == {"idle", "labour", "overhead", "postWip", "journal", "hours", "relief", "reliefGl",
           "reliefCommit", "period", "orderCost", "reserve", "liability", "payable", "bill",
           "recognise", "arInvoice", "ledger", "lookup", "write", "void", "mark"}

TypeOK ==
  /\ mockAccount \in BOOLEAN
  /\ delivery \in [Messages -> {"never", "ready", "out", "done", "lost"}]
  /\ at \in [Handlers -> Places]
  /\ msg \in [Handlers -> Messages \cup {NoMessage}]
  /\ found \in [Handlers -> Int]
  /\ period \in {"OPEN", "CLOSING", "CLOSED"}
  /\ order \in [Admins -> {"none", "OPEN", "CLOSING", "CLOSED"}]
  /\ ops \in 0..MaxOps
  /\ wip \in [open : BOOLEAN, balance : Int, labour : Int, reserved : Int]
  /\ costs \in Int /\ committed \in Int /\ material \in Int
  /\ booked \in [Messages -> Nat] /\ processed \subseteq Compensations
  /\ payable \in [Orders -> {"none", "PENDING", "CANCELLED"}]
  /\ bill \in [Orders -> {"none", "POSTED", "VOID"}]
  /\ liability \in Int
  /\ receivable \in [Invoices -> {"none", "PENDING", "CANCELLED"}]
  /\ arInvoice \in [Invoices -> {"none", "POSTED", "VOID"}]
  /\ revenue \in Int /\ reversed \in Int
  /\ together \subseteq Compensations \cup Releases /\ late \subseteq Handlers
  /\ drift \subseteq {"partial", "overlap", "clipped"}
  /\ faults \in 0..MaxFaults
  \* A handler is at the positions of its own message only.
  /\ \A h \in Handlers : at[h] # "idle" => msg[h] \in Messages
  /\ \A h \in Handlers : at[h] \in {"ledger", "lookup", "write", "void", "mark"} =>
       msg[h] \in Compensations
  /\ \A h \in Handlers : at[h] \in {"orderCost", "reserve", "liability", "payable", "bill"} =>
       msg[h] \in Orders
  /\ \A h \in Handlers : at[h] \in {"recognise", "arInvoice"} => msg[h] \in Invoices

Init ==
  /\ mockAccount \in BOOLEAN
  /\ \E S \in Scenarios :
       delivery = [m \in Messages |-> IF m \in S THEN "ready" ELSE "never"]
  /\ at = [h \in Handlers |-> "idle"]
  /\ msg = [h \in Handlers |-> NoMessage]
  /\ found = [h \in Handlers |-> 0]
  /\ period = "OPEN"
  /\ order = [a \in Admins |-> "none"] /\ ops = 0
  /\ wip = NoWip /\ costs = 0 /\ committed = 0 /\ material = 0
  /\ booked = [m \in Messages |-> 0] /\ processed = {}
  /\ payable = [o \in Orders |-> "none"] /\ bill = [o \in Orders |-> "none"]
  /\ liability = 0
  /\ receivable = [i \in Invoices |-> "none"] /\ arInvoice = [i \in Invoices |-> "none"]
  /\ revenue = 0 /\ reversed = 0
  /\ together = {} /\ late = {} /\ drift = {}
  /\ faults = 0

Fault == faults < MaxFaults /\ faults' = faults + 1

PostingAllowedUntilClosed == period # "CLOSED"
PostingAllowed == period = "OPEN"

-----------------------------------------------------------------------------
(* Messages and handlers *)

FirstPlace(m) ==
  CASE m \in Production  -> "labour"
    [] m \in TimeEntries -> "hours"
    [] m \in Releases    -> "relief"
    [] OTHER             -> "period"

Take(h, m) ==
  /\ at[h] = "idle" /\ delivery[m] = "ready"
  /\ m \in Production /\ booked[m] >= MaxRepeats => PostingAllowed
  /\ delivery' = [delivery EXCEPT ![m] = "out"]
  /\ at' = [at EXCEPT ![h] = FirstPlace(m)]
  /\ msg' = [msg EXCEPT ![h] = m]
  /\ late' = IF period = "OPEN" THEN late \ {h} ELSE late \cup {h}
  /\ UNCHANGED <<mockAccount, found, periodVars, wipVars, booked, processed, apVars, arVars,
                 together, drift, faults>>

Goto(h, place) == at' = [at EXCEPT ![h] = place] /\ UNCHANGED <<msg, found, delivery>>

Leave(h, state) ==
  /\ at' = [at EXCEPT ![h] = "idle"]
  /\ msg' = [msg EXCEPT ![h] = NoMessage]
  /\ found' = [found EXCEPT ![h] = 0]
  /\ delivery' = [delivery EXCEPT ![msg[h]] = state]

\* The handler returned: the message is acked.
Finish(h) == Leave(h, "done")

\* It threw, or its process died: a durable message comes again, another is lost.
Throw(h) == Leave(h, IF msg[h] \in Durable THEN "ready" ELSE "lost")

Dies(h) ==
  /\ at[h] # "idle" /\ Fault
  /\ Throw(h)
  /\ drift' = IF at[h] \in {"overhead", "postWip"} THEN drift \cup {"partial"} ELSE drift
  /\ UNCHANGED <<mockAccount, periodVars, wipVars, booked, processed, apVars, arVars,
                 together, late>>

\* The ack wait ends early, the ack is lost, or the publisher sends it again.
Repeat(m) ==
  /\ delivery[m] \in {"out", "done", "lost"} /\ Fault
  /\ delivery' = [delivery EXCEPT ![m] = "ready"]
  /\ UNCHANGED <<mockAccount, handlerVars, periodVars, wipVars, booked, processed, apVars,
                 arVars, histories>>

-----------------------------------------------------------------------------
(* The period: each operation reads the status and then writes it by id *)

AdminReads(a, target) ==
  /\ order[a] = "none" /\ ops < MaxOps
  /\ ops' = ops + 1
  /\ IF target = "OPEN" THEN period # "OPEN" ELSE period # "CLOSED"
  /\ order' = [order EXCEPT ![a] = target]
  /\ UNCHANGED <<brokerVars, handlerVars, period, wipVars, booked, processed, apVars, arVars,
                 histories, faults>>

AdminWrites(a) ==
  /\ order[a] # "none"
  /\ period' = order[a]
  /\ order' = [order EXCEPT ![a] = "none"]
  /\ late' = IF order[a] = "OPEN" THEN {} ELSE late
  /\ UNCHANGED <<brokerVars, handlerVars, ops, wipVars, booked, processed, apVars, arVars,
                 together, drift, faults>>

-----------------------------------------------------------------------------
(* Labour of a production record: three statements, errors swallowed; then the *)
(* universal journal, whose refusal throws                                     *)

Labour(h) ==
  /\ at[h] = "labour"
  /\ costs' = costs + Amount[msg[h]]
  /\ Goto(h, "overhead")
  /\ UNCHANGED <<mockAccount, periodVars, wip, committed, material, booked, processed, apVars, arVars,
                 histories, faults>>

BookOverhead(h) ==
  /\ at[h] = "overhead"
  /\ costs' = costs + Overhead[msg[h]]
  /\ Goto(h, "postWip")
  /\ UNCHANGED <<mockAccount, periodVars, wip, committed, material, booked, processed, apVars, arVars,
                 histories, faults>>

AddToWip(amount, labour) ==
  wip' = [wip EXCEPT !.open = TRUE, !.balance = @ + amount, !.labour = @ + labour]

Book(m) == booked' = [booked EXCEPT ![m] = @ + 1]

PostWip(h) ==
  /\ at[h] = "postWip"
  /\ AddToWip(Amount[msg[h]] + Overhead[msg[h]], Amount[msg[h]])
  /\ Book(msg[h])
  /\ Goto(h, "journal")
  /\ UNCHANGED <<mockAccount, periodVars, costs, committed, material, processed, apVars, arVars,
                 histories, faults>>

LabourFails(h) ==
  /\ at[h] \in {"labour", "overhead", "postWip"} /\ Fault
  /\ drift' = IF at[h] = "labour" THEN drift ELSE drift \cup {"partial"}
  /\ Goto(h, "journal")
  /\ UNCHANGED <<mockAccount, periodVars, wipVars, booked, processed, apVars, arVars,
                 together, late>>

Journal(h) ==
  /\ at[h] = "journal"
  /\ IF PostingAllowed THEN Finish(h) ELSE Throw(h)
  /\ UNCHANGED <<mockAccount, periodVars, wipVars, booked, processed, apVars, arVars,
                 histories, faults>>

\* handleTimeEntry: cost and WIP in one transaction, the period is not asked.
BookTimeEntry(h) ==
  /\ at[h] = "hours"
  /\ costs' = costs + Amount[msg[h]]
  /\ AddToWip(Amount[msg[h]], Amount[msg[h]])
  /\ Book(msg[h])
  /\ Finish(h)
  /\ UNCHANGED <<mockAccount, periodVars, committed, material, processed, apVars, arVars,
                 histories, faults>>

-----------------------------------------------------------------------------
(* Relief: rows are looked up by the reservation, and written under its BOM   *)
(* component if it has one; the GL posting is another client's transaction    *)

Relieved(m) == booked[m] > 0 /\ m \notin ByComponent

\* Another handler has looked up the same message and not committed yet.
Meets(h, place) ==
  together' = IF \E g \in Handlers \ {h} : msg[g] = msg[h] /\ at[g] \in place
              THEN together \cup {msg[h]} ELSE together

Relief(h) ==
  /\ at[h] = "relief"
  /\ IF Relieved(msg[h]) THEN Finish(h) /\ UNCHANGED together
     ELSE Goto(h, "reliefGl") /\ Meets(h, {"reliefGl", "reliefCommit"})
  /\ UNCHANGED <<mockAccount, periodVars, wipVars, booked, processed, apVars, arVars,
                 late, drift, faults>>

ReliefGl(h) ==
  /\ at[h] = "reliefGl"
  /\ IF mockAccount THEN Goto(h, "reliefCommit") ELSE Throw(h)
  /\ UNCHANGED <<mockAccount, periodVars, wipVars, booked, processed, apVars, arVars,
                 histories, faults>>

ReliefCommit(h) ==
  LET q == Amount[msg[h]]
  IN /\ at[h] = "reliefCommit"
     /\ costs' = costs + q /\ material' = material + q
     /\ wip' = IF wip.open
               THEN [wip EXCEPT !.balance = @ + q, !.reserved = @ - q]
               ELSE [NoWip EXCEPT !.open = TRUE, !.balance = q]
     /\ Book(msg[h])
     /\ Finish(h)
     /\ UNCHANGED <<mockAccount, periodVars, committed, processed, apVars, arVars, histories,
                    faults>>

-----------------------------------------------------------------------------
(* What asks the period first *)

NextPlace(m) ==
  CASE m \in Orders   -> "orderCost"
    [] m \in Invoices -> "recognise"
    [] OTHER          -> "ledger"

\* A closed period refuses without an error: the message is acked and not done.
CheckPeriod(h) ==
  /\ at[h] = "period"
  /\ IF PostingAllowed THEN Goto(h, NextPlace(msg[h])) ELSE Finish(h)
  /\ UNCHANGED <<mockAccount, periodVars, wipVars, booked, processed, apVars, arVars,
                 histories, faults>>

\* bookProcurementCommitment: a cost row for the order, then its amount reserved on the
\* WIP account.  The row never enters wipBalance, and nothing takes it back; an error of
\* either statement is logged, and the handler goes on to the liability.
CostOfOrder(h) ==
  /\ at[h] = "orderCost"
  /\ \/ /\ costs' = costs + Amount[msg[h]] /\ committed' = committed + Amount[msg[h]]
        /\ Goto(h, "reserve")
        /\ UNCHANGED faults
     \/ Fault /\ Goto(h, "liability") /\ UNCHANGED <<costs, committed>>
  /\ UNCHANGED <<mockAccount, periodVars, wip, material, booked, processed, apVars, arVars,
                 histories>>

ReserveForOrder(h) ==
  /\ at[h] = "reserve"
  /\ \/ wip' = [wip EXCEPT !.open = TRUE, !.reserved = @ + Amount[msg[h]]] /\ UNCHANGED faults
     \/ Fault /\ UNCHANGED wip
  /\ Goto(h, "liability")
  /\ UNCHANGED <<mockAccount, periodVars, costs, committed, material, booked, processed, apVars,
                 arVars, histories>>

\* A CREDIT of RecordTransaction lowers the balance.
PostLiability(h) ==
  /\ at[h] = "liability"
  /\ liability' = liability - Amount[msg[h]]
  /\ Book(msg[h])
  /\ Goto(h, "payable")
  /\ UNCHANGED <<mockAccount, periodVars, wipVars, processed, payable, bill, arVars,
                 histories, faults>>

CreatePayable(h) ==
  /\ at[h] = "payable"
  /\ \/ payable' = [payable EXCEPT ![msg[h]] = "PENDING"] /\ UNCHANGED faults
     \/ Fault /\ UNCHANGED payable
  /\ Goto(h, "bill")
  /\ UNCHANGED <<mockAccount, periodVars, wipVars, booked, processed, bill, liability, arVars,
                 histories>>

\* createApBill asks the period again; its own CREDIT raises the balance.
CreateApBill(h) ==
  /\ at[h] = "bill"
  /\ IF PostingAllowed
     THEN /\ bill' = [bill EXCEPT ![msg[h]] = "POSTED"]
          /\ liability' = liability + Amount[msg[h]]
     ELSE UNCHANGED <<bill, liability>>
  /\ Finish(h)
  /\ UNCHANGED <<mockAccount, periodVars, wipVars, booked, processed, payable, arVars,
                 histories, faults>>

\* handleKsefInvoiceSent: nothing looks for an earlier recognition.
Recognise(h) ==
  /\ at[h] = "recognise"
  /\ \/ /\ revenue' = revenue + Amount[msg[h]]
        /\ receivable' = [receivable EXCEPT ![msg[h]] = "PENDING"]
        /\ Book(msg[h])
        /\ IF mockAccount THEN Goto(h, "arInvoice") ELSE Finish(h)
        /\ UNCHANGED faults
     \/ Fault /\ Finish(h) /\ UNCHANGED <<revenue, receivable, booked>>
  /\ UNCHANGED <<mockAccount, periodVars, wipVars, processed, apVars, arInvoice, reversed,
                 histories>>

CreateArInvoice(h) ==
  /\ at[h] = "arInvoice"
  /\ IF PostingAllowed
     THEN arInvoice' = [arInvoice EXCEPT ![msg[h]] = "POSTED"]
     ELSE UNCHANGED arInvoice
  /\ Finish(h)
  /\ UNCHANGED <<mockAccount, periodVars, wipVars, booked, processed, apVars, receivable,
                 revenue, reversed, histories, faults>>

-----------------------------------------------------------------------------
(* Compensations: ledger, lookup by business key, write, void, mark *)

CheckLedger(h) ==
  /\ at[h] = "ledger"
  /\ \/ msg[h] \in processed /\ Finish(h) /\ UNCHANGED faults
     \/ msg[h] \notin processed /\ Goto(h, "lookup") /\ UNCHANGED faults
     \/ Fault /\ Goto(h, "lookup")
  /\ UNCHANGED <<mockAccount, periodVars, wipVars, booked, processed, apVars, arVars, histories>>

\* The amount to take back, as each handler computes it.
Due(c) ==
  CASE c \in WipReversals       -> wip.balance
    [] c \in MaterialReversals  -> IF material > 0 THEN material ELSE wip.reserved
    [] c \in CommitmentReleases ->
         IF Amount[c] > 0 THEN Amount[c]
         ELSE IF payable[RefersTo[c]] = "PENDING" \/ booked[RefersTo[c]] > 0
              THEN Amount[RefersTo[c]] ELSE 0
    [] OTHER                    -> IF Amount[c] > 0 THEN Amount[c] ELSE revenue

Voids(c) == c \in CommitmentReleases \cup RevenueReversals

DoneBeforeNever(c) == FALSE
DoneBefore(c) == booked[c] > 0

Lookup(h) ==
  LET c == msg[h]
  IN /\ at[h] = "lookup"
     /\ IF DoneBefore(c) \/ Due(c) <= 0
        THEN /\ Goto(h, IF c \in CommitmentReleases \/ (Voids(c) /\ ~DoneBefore(c))
                        THEN "void" ELSE "mark")
             /\ UNCHANGED together
        ELSE /\ at' = [at EXCEPT ![h] = "write"]
             /\ found' = [found EXCEPT ![h] = Due(c)]
             /\ Meets(h, {"write"})
             /\ UNCHANGED <<msg, delivery>>
     /\ UNCHANGED <<mockAccount, periodVars, wipVars, booked, processed, apVars, arVars,
                    late, drift, faults>>

Least(a, b) == IF a < b THEN a ELSE b

\* The transaction's writes: nothing it read is checked again.
ReverseWipUnbooked(amount) ==
  /\ wip' = [NoWip EXCEPT !.open = TRUE]
  /\ drift' = IF wip.balance = amount THEN drift ELSE drift \cup {"overlap"}
  /\ UNCHANGED <<costs, committed, material, apVars, arVars>>
ReverseWip(amount) ==
  /\ wip' = [NoWip EXCEPT !.open = TRUE]
  /\ costs' = costs - amount
  /\ drift' = IF wip.balance = amount THEN drift ELSE drift \cup {"overlap"}
  /\ UNCHANGED <<committed, material, apVars, arVars>>

ReverseMaterial(amount) ==
  /\ costs' = costs - amount
  /\ wip' = IF wip.open
            THEN [wip EXCEPT !.reserved = @ - Least(@, amount),
                             !.balance = @ - Least(@, amount)]
            ELSE wip
  /\ drift' = IF wip.balance >= amount THEN drift ELSE drift \cup {"clipped"}
  /\ UNCHANGED <<committed, material, apVars, arVars>>

ReleaseCommitment(o, amount) ==
  /\ liability' = liability - amount
  /\ payable' = [payable EXCEPT ![o] = IF @ = "PENDING" THEN "CANCELLED" ELSE @]
  /\ wip' = IF wip.reserved > 0
            THEN [wip EXCEPT !.reserved = @ - Least(@, amount)] ELSE wip
  /\ UNCHANGED <<costs, committed, material, bill, arVars, drift>>

\* Every pending receivable of the project is cancelled, whatever the amount.
ReverseRevenue(amount) ==
  /\ reversed' = reversed + amount
  /\ receivable' = [i \in Invoices |-> IF receivable[i] = "PENDING" THEN "CANCELLED"
                                       ELSE receivable[i]]
  /\ UNCHANGED <<wipVars, apVars, arInvoice, revenue, drift>>

Write(h) ==
  LET c == msg[h]
  IN /\ at[h] = "write"
     /\ \/ c \in WipReversals /\ ReverseWip(found[h])
        \/ c \in MaterialReversals /\ ReverseMaterial(found[h])
        \/ c \in CommitmentReleases /\ ReleaseCommitment(RefersTo[c], found[h])
        \/ c \in RevenueReversals /\ ReverseRevenue(found[h])
     /\ Book(c)
     /\ Goto(h, IF Voids(c) THEN "void" ELSE "mark")
     /\ UNCHANGED <<mockAccount, periodVars, processed, together, late, faults>>

\* voidApByOrderRef, voidArByCorrelation; an error is dropped.
Void(h) ==
  LET r == RefersTo[msg[h]]
  IN /\ at[h] = "void"
     /\ \/ /\ r \in Orders
           /\ bill' = [bill EXCEPT ![r] = IF @ = "POSTED" THEN "VOID" ELSE @]
           /\ UNCHANGED <<arInvoice, faults>>
        \/ /\ r \in Invoices
           /\ arInvoice' = [arInvoice EXCEPT ![r] = IF @ = "POSTED" THEN "VOID" ELSE @]
           /\ UNCHANGED <<bill, faults>>
        \/ Fault /\ UNCHANGED <<bill, arInvoice>>
     /\ Goto(h, "mark")
     /\ UNCHANGED <<mockAccount, periodVars, wipVars, booked, processed, payable, liability,
                    receivable, revenue, reversed, histories>>

Mark(h) ==
  /\ at[h] = "mark"
  /\ \/ processed' = processed \cup {msg[h]} /\ UNCHANGED faults
     \/ Fault /\ UNCHANGED processed
  /\ Finish(h)
  /\ UNCHANGED <<mockAccount, periodVars, wipVars, booked, apVars, arVars, histories>>

-----------------------------------------------------------------------------

Step(h) ==
  \/ \E m \in Messages : Take(h, m)
  \/ Labour(h) \/ BookOverhead(h) \/ PostWip(h) \/ Journal(h) \/ BookTimeEntry(h)
  \/ Relief(h) \/ ReliefGl(h) \/ ReliefCommit(h)
  \/ CheckPeriod(h)
  \/ CostOfOrder(h) \/ ReserveForOrder(h) \/ PostLiability(h) \/ CreatePayable(h)
  \/ CreateApBill(h)
  \/ Recognise(h) \/ CreateArInvoice(h)
  \/ CheckLedger(h) \/ Lookup(h) \/ Write(h) \/ Void(h) \/ Mark(h)

Next ==
  \/ \E h \in Handlers : Step(h) \/ LabourFails(h) \/ Dies(h)
  \/ \E m \in Messages : Repeat(m)
  \/ \E a \in Admins : AdminWrites(a) \/ \E s \in {"OPEN", "CLOSING", "CLOSED"} : AdminReads(a, s)

Spec == Init /\ [][Next]_vars

-----------------------------------------------------------------------------
(* Properties *)

\* WipAccount.wipBalance is the sum of the project's ProjectCost rows, but for the rows
\* of its purchase orders, which no booking and no compensation ever brings into the
\* balance, and for rows whose handler is still on its way to the account.  Causes of
\* any other difference: a labour booking that stopped half-way, a reversal that reset
\* a balance other than the one it had read, a material reversal larger than the balance.
InFlight(h) ==
  CASE at[h] = "overhead" -> Amount[msg[h]]
    [] at[h] = "postWip"  -> Amount[msg[h]] + Overhead[msg[h]]
    [] OTHER              -> 0
WipIsAudited ==
  drift = {} =>
    costs = wip.balance + committed + SumFunction([h \in Handlers |-> InFlight(h)])

\* reverse-wip-cost.handler.ts:25, "Idempotent by ProjectCost REVERSAL.reference",
\* and the idempotency check of the relief: a compensation or relief takes effect
\* twice only if two deliveries were between lookup and commit at once, or if the
\* rows of the relief carry another key than the lookup uses.
OnceUnlessTogether ==
  \A m \in Compensations \cup Releases :
    booked[m] > 1 => m \in together \/ m \in ByComponent

\* period-close.service.ts:76, "Hard guard for all money-moving posts": while the
\* period is not OPEN and every handler past its check began after OPEN was left,
\* payables, bills, receivables and revenue stand still, also when begin-close, close
\* and reopen write over each other.  Labour, time entries and reliefs never ask.
PastCheck == {h \in Handlers :
  at[h] \in {"orderCost", "reserve", "liability", "payable", "bill", "recognise", "arInvoice",
             "ledger", "lookup", "write", "void", "mark"}}
FrozenOnceDrained ==
  [][period # "OPEN" /\ PastCheck \subseteq late => UNCHANGED <<apVars, arVars>>]_vars
=============================================================================
