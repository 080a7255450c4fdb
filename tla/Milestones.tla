------------------------------- MODULE Milestones -------------------------------
(***************************************************************************)
(* A payment milestone from the project manager's click to revenue:        *)
(* pm-service announces it, finance marks its billing READY, tax-legal     *)
(* issues the invoice at KSeF, finance recognises the revenue, and crm     *)
(* keeps a copy of the status inside a JSON column of the opportunity.     *)
(*                                                                         *)
(* finance answers finance.payment.milestone.reached.v1 with an outbox row *)
(* of the same type, which comes back to finance and tax-legal: an echo.   *)
(*                                                                         *)
(* One project, whose opportunity is linked.  A letter is one message on   *)
(* its way to one service over core NATS: letters overtake each other and  *)
(* may get lost; a relay may send a row again (OutboxRelay).  The general  *)
(* ledger and the AR invoice that follow the recognition are FinanceLedger *)
(* 's.  KSeF is external; which adapter speaks to it, the sandbox or the     *)
(* production one, is configuration.  Suffixed variants of a definition are faulty.   *)
(***************************************************************************)
EXTENDS MilestonePromises, FiniteSets, Functions

CONSTANTS     \* next to those of MilestonePromises
  Handlers,    \* handlers that may run at the same time
  Bounds       \* what the environment may do: commands per milestone (reaches), echoes
               \* that are followed (echoes), lost or repeated messages and failed calls
               \* (faults), may the period be closed (closes), is the sandbox adapter in use
               \* (sandbox); one of them is chosen at the start

Kinds == {"reached", "sent", "recognized"}
Audience == [kind \in Kinds |->
  CASE kind = "reached" -> {"finance", "tax", "crm"}
    [] kind = "sent" -> {"finance", "crm"}
    [] kind = "recognized" -> {"crm"}]
Letters == UNION {{<<to, kind, m>> : to \in Audience[kind], m \in Codes} : kind \in Kinds}

NoCode == "none"

ASSUME MilestonesAssumption ==
  /\ NoCode \notin Codes
  /\ Bounds \subseteq [reaches : [Codes -> Nat], echoes : Nat, faults : Nat,
                 closes : BOOLEAN, sandbox : BOOLEAN]

VARIABLES     \* next to those of MilestonePromises
  bound,       \* of the environment: fixed
  mail,        \* how many of each letter are on their way
  echoes,      \* per milestone: rows finance wrote of the type it had received
  draft,       \* TaxInvoice rows that are still DRAFT
  announced,   \* per milestone: tax.invoice.ksef.sent.v1 rows
  open,        \* is the accounting period open?
  at, of,      \* per handler: its position, its milestone
  row,         \* per handler: did tax-legal create the invoice row?
  news, copy,  \* per handler: the status crm is to write, the list it read
  broken,      \* history: was a message lost, or a handler cut short?
  faults

counts == <<bound, commands, echoes, again>>
books == <<billing, recognised>>
invoices == <<draft, issued, invented, announced>>
handlerVars == <<at, of, row, news, copy>>
vars == <<mail, counts, books, invoices, open, shown, handlerVars, broken, faults>>

Zero == [m \in Codes |-> 0]
Statuses == {"none", "READY", "INVOICED", "RECOGNIZED"}
Nothing == [m \in Codes |-> "none"]

TypeOK ==
  /\ bound \in Bounds
  /\ mail \in [Letters -> Nat]
  /\ \A m \in Codes : commands[m] \in 0..bound.reaches[m]
  /\ commands \in [Codes -> Nat] /\ echoes \in [Codes -> Nat]
  /\ again \in [Kinds -> [Codes -> Nat]]
  /\ billing \in [Codes -> Statuses]
  /\ draft \in [Codes -> Nat] /\ issued \in [Codes -> Nat] /\ invented \in [Codes -> Nat]
  /\ announced \in [Codes -> Nat] /\ recognised \in [Codes -> Nat]
  /\ open \in BOOLEAN
  /\ shown \in [Codes -> Statuses]
  /\ at \in [Handlers -> {"idle", "draft", "send", "mark", "announce",
                          "invoice", "recognise", "write"}]
  /\ of \in [Handlers -> Codes \cup {NoCode}]
  /\ \A h \in Handlers : at[h] # "idle" => of[h] \in Codes
  /\ row \in [Handlers -> BOOLEAN]
  /\ news \in [Handlers -> Statuses] /\ copy \in [Handlers -> [Codes -> Statuses]]
  /\ broken \in BOOLEAN /\ faults \in 0..bound.faults

Init ==
  /\ bound \in Bounds
  /\ mail = [l \in Letters |-> 0]
  /\ commands = Zero /\ echoes = Zero /\ again = [k \in Kinds |-> Zero]
  /\ billing = Nothing /\ recognised = Zero
  /\ draft = Zero /\ issued = Zero /\ invented = Zero /\ announced = Zero
  /\ open = TRUE
  /\ shown = Nothing
  /\ at = [h \in Handlers |-> "idle"] /\ of = [h \in Handlers |-> NoCode]
  /\ row = [h \in Handlers |-> FALSE]
  /\ news = [h \in Handlers |-> "none"] /\ copy = [h \in Handlers |-> Nothing]
  /\ broken = FALSE /\ faults = 0

Fault == faults < bound.faults /\ faults' = faults + 1

-----------------------------------------------------------------------------
(* Messages *)

Copies(kind, m) == {<<to, kind, m>> : to \in Audience[kind]}
SumOver(f) == SumFunctionOnSet(f, Codes)
Less(l) == [mail EXCEPT ![l] = @ - 1]

\* A row is committed; the relay sends it to everyone who listens.
Posted(kind, m) == [l \in Letters |-> IF l \in Copies(kind, m) THEN mail[l] + 1 ELSE mail[l]]
PostedAfter(l, kind, m) == [Posted(kind, m) EXCEPT ![l] = @ - 1]

Lose(l) ==
  /\ mail[l] > 0 /\ Fault
  /\ mail' = Less(l)
  /\ broken' = TRUE
  /\ UNCHANGED <<counts, books, invoices, open, shown, handlerVars>>

\* A relay publishes a row a second time.
Rows(kind) ==
  CASE kind = "reached" -> commands [] kind = "sent" -> announced [] kind = "recognized" -> recognised

Repeat(kind, m) ==
  /\ Rows(kind)[m] > 0 /\ Fault
  /\ mail' = Posted(kind, m)
  /\ again' = [again EXCEPT ![kind][m] = @ + 1]
  /\ UNCHANGED <<bound, commands, echoes, books, invoices, open, shown, handlerVars, broken>>

-----------------------------------------------------------------------------
(* Handlers *)

\* The letter l is handed to the idle handler h, which begins at place.
Begins(h, l, place) ==
  /\ at[h] = "idle" /\ mail[l] > 0
  /\ at' = [at EXCEPT ![h] = place] /\ of' = [of EXCEPT ![h] = l[3]]

Goto(h, place) == at' = [at EXCEPT ![h] = place] /\ UNCHANGED <<of, row, news, copy>>

Ends(h) ==
  /\ at' = [at EXCEPT ![h] = "idle"] /\ of' = [of EXCEPT ![h] = NoCode]
  /\ row' = [row EXCEPT ![h] = FALSE]
  /\ news' = [news EXCEPT ![h] = "none"] /\ copy' = [copy EXCEPT ![h] = Nothing]

\* The handler throws, or its process dies.  Nobody delivers the letter again.
Throws(h) ==
  /\ at[h] # "idle" /\ Fault
  /\ Ends(h)
  /\ broken' = TRUE
  /\ UNCHANGED <<mail, counts, books, invoices, open, shown>>

-----------------------------------------------------------------------------
(* pm-service and finance *)

\* ReachProjectMilestone asks for the project, not for an earlier announcement.
Reach(m) ==
  /\ commands[m] < bound.reaches[m]
  /\ commands' = [commands EXCEPT ![m] = @ + 1]
  /\ mail' = Posted("reached", m)
  /\ UNCHANGED <<bound, echoes, again, books, invoices, open, shown, handlerVars, broken, faults>>

\* The upsert and the new outbox row of the same type, in one transaction.
MilestoneReached(m) ==
  LET l == <<"finance", "reached", m>>
  IN /\ mail[l] > 0
     /\ billing' = [billing EXCEPT ![m] = "READY"]
     /\ \/ /\ SumOver(echoes) < bound.echoes
           /\ mail' = PostedAfter(l, "reached", m)
           /\ echoes' = [echoes EXCEPT ![m] = @ + 1]
        \/ /\ SumOver(echoes) = bound.echoes
           /\ mail' = Less(l) /\ UNCHANGED echoes
     /\ UNCHANGED <<bound, commands, again, recognised, invoices, open, shown, handlerVars, broken, faults>>

\* assertOpenForPosting; a closed period refuses the invoice for good.
InvoiceSent(h, m) ==
  LET l == <<"finance", "sent", m>>
  IN /\ IF open THEN Begins(h, l, "invoice")
        ELSE mail[l] > 0 /\ UNCHANGED <<at, of>>
     /\ mail' = Less(l)
     /\ UNCHANGED <<counts, books, invoices, open, shown, row, news, copy, broken, faults>>

\* updateMany: a billing that does not exist is not created.
Mark(m, status) == [billing EXCEPT ![m] = IF @ = "none" THEN @ ELSE status]

MarkInvoiced(h) ==
  /\ at[h] = "invoice"
  /\ billing' = Mark(of[h], "INVOICED")
  /\ Goto(h, "recognise")
  /\ UNCHANGED <<mail, counts, recognised, invoices, open, shown, broken, faults>>

\* RevenueRecognition, Receivable, status and event in one transaction.
RevenueMissing(m) == recognised
RevenueBooked(m) == [recognised EXCEPT ![m] = @ + 1]

Recognise(h) ==
  LET m == of[h]
  IN /\ at[h] = "recognise"
     /\ recognised' = RevenueBooked(m)
     /\ billing' = Mark(m, "RECOGNIZED")
     /\ mail' = Posted("recognized", m)
     /\ Ends(h)
     /\ UNCHANGED <<counts, invoices, open, shown, broken, faults>>

\* PeriodClose, FinanceLedger's; here it only closes.
ClosePeriod ==
  /\ bound.closes /\ open
  /\ open' = FALSE
  /\ UNCHANGED <<mail, counts, books, invoices, shown, handlerVars, broken, faults>>

-----------------------------------------------------------------------------
(* tax-legal *)

BeginInvoice(h, m) ==
  LET l == <<"tax", "reached", m>>
  IN /\ Begins(h, l, "draft")
     /\ mail' = Less(l)
     /\ UNCHANGED <<counts, books, invoices, open, shown, row, news, copy, broken, faults>>

\* A row that cannot be created is done without.
CreateDraft(h) ==
  /\ at[h] = "draft"
  /\ at' = [at EXCEPT ![h] = "send"]
  /\ \/ /\ draft' = [draft EXCEPT ![of[h]] = @ + 1]
        /\ row' = [row EXCEPT ![h] = TRUE]
        /\ UNCHANGED faults
     \/ Fault /\ UNCHANGED <<draft, row>>
  /\ UNCHANGED <<mail, counts, books, issued, invented, announced, open, shown, of, news, copy, broken>>

\* KSeF answers, or times out on an invoice that it has issued (Throws: on one it has not).
AfterSendLost(h) == row[h]
AfterSend(h) == TRUE

KsefIssues(h) ==
  /\ issued' = [issued EXCEPT ![of[h]] = @ + 1]
  /\ UNCHANGED invented
  /\ \/ /\ IF AfterSend(h) THEN Goto(h, "mark") ELSE Ends(h)
        /\ UNCHANGED <<broken, faults>>
     \/ Fault /\ Ends(h) /\ broken' = TRUE

\* The sandbox adapter without a URL, or without an answer, makes a reference up.  (When
\* KSeF has issued the invoice and only the answer is lost, that is KsefIssues.)
ReferenceMadeUp(h) ==
  /\ bound.sandbox
  /\ invented' = [invented EXCEPT ![of[h]] = @ + 1]
  /\ Goto(h, "mark")
  /\ UNCHANGED <<issued, broken, faults>>

SendInvoice(h) ==
  /\ at[h] = "send"
  /\ KsefIssues(h) \/ ReferenceMadeUp(h)
  /\ UNCHANGED <<mail, counts, books, draft, announced, open, shown>>

\* A row that cannot be updated stays DRAFT.
DraftLess(h) == IF row[h] THEN [draft EXCEPT ![of[h]] = @ - 1] ELSE draft

MarkSent(h) ==
  /\ at[h] = "mark"
  /\ \/ draft' = DraftLess(h) /\ UNCHANGED faults
     \/ row[h] /\ Fault /\ UNCHANGED draft
  /\ Goto(h, "announce")
  /\ UNCHANGED <<mail, counts, books, issued, invented, announced, open, shown, broken>>

\* An outbox row that cannot be written is done without, too.
Announce(h) ==
  LET m == of[h]
  IN /\ at[h] = "announce"
     /\ \/ /\ announced' = [announced EXCEPT ![m] = @ + 1]
           /\ mail' = Posted("sent", m)
           /\ UNCHANGED <<broken, faults>>
        \/ Fault /\ broken' = TRUE /\ UNCHANGED <<announced, mail>>
     /\ Ends(h)
     /\ UNCHANGED <<counts, books, draft, issued, invented, open, shown>>

-----------------------------------------------------------------------------
(* crm: syncOpportunityMilestones *)

StatusOf(kind) ==
  CASE kind = "reached" -> "READY" [] kind = "sent" -> "INVOICED" [] kind = "recognized" -> "RECOGNIZED"

CrmReceives(h, kind, m) ==
  LET l == <<"crm", kind, m>>
  IN /\ Begins(h, l, "write")
     /\ mail' = Less(l)
     /\ news' = [news EXCEPT ![h] = StatusOf(kind)]
     /\ copy' = [copy EXCEPT ![h] = shown]
     /\ UNCHANGED <<counts, books, invoices, open, shown, row, broken, faults>>

\* The whole list is written back, as it was read but for one milestone.
ListAfter(h) == [copy[h] EXCEPT ![of[h]] = news[h]]

CrmWrites(h) ==
  /\ at[h] = "write"
  /\ shown' = ListAfter(h)
  /\ Ends(h)
  /\ UNCHANGED <<mail, counts, books, invoices, open, broken, faults>>

-----------------------------------------------------------------------------

Step(h) ==
  \/ \E m \in Codes : InvoiceSent(h, m) \/ BeginInvoice(h, m)
  \/ \E kind \in Kinds, m \in Codes : CrmReceives(h, kind, m)
  \/ MarkInvoiced(h) \/ Recognise(h)
  \/ CreateDraft(h) \/ SendInvoice(h) \/ MarkSent(h) \/ Announce(h)
  \/ CrmWrites(h)

Next ==
  \/ \E l \in Letters : Lose(l)
  \/ \E kind \in Kinds, m \in Codes : Repeat(kind, m)
  \/ \E m \in Codes : Reach(m) \/ MilestoneReached(m)
  \/ \E h \in Handlers : Step(h) \/ Throws(h)
  \/ ClosePeriod

Safety == Init /\ [][Next]_vars

\* What arrived is handled.
Spec == Safety /\ \A h \in Handlers : WF_vars(Step(h))

-----------------------------------------------------------------------------
(* Further properties; what is promised about safety is in MilestonePromises *)

\* docs/EVENTS/finance.revenue.recognized.v1.md, "milestone -> invoice -> revenue": a
\* milestone that was announced is invoiced and its revenue recognised, unless a message
\* or a handler is lost on the way or the period was closed.
EveryReachRecognised ==
  \A m \in Codes : commands[m] > 0 ~> recognised[m] > 0 \/ broken \/ ~open

\* docs/EVENTS/finance.payment.milestone.reached.v1.md, "Emitowany przez: pm-service", and
\* its description, the trigger for issuing the invoice: as many invoices as commands,
\* repeated messages aside.  It does not hold: finance emits the event, too.
InvoicedOnce ==
  \A m \in Codes : issued[m] <= commands[m] + again["reached"][m]
=============================================================================
