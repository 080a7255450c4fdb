--------------------------- MODULE MilestonePromises ---------------------------
(***************************************************************************)
(* What Milestones promises, over the part of its state that the promise   *)
(* is about: the statuses finance and crm show, and what happened.         *)
(***************************************************************************)
EXTENDS Naturals

CONSTANT Codes  \* milestones: FAT, SAT, SHIPMENT, FINAL

VARIABLES
  commands,    \* per milestone: ReachProjectMilestone commands
  again,       \* per kind and milestone: repetitions by a relay
  billing,     \* MilestoneBilling.status
  issued,      \* per milestone: invoices KSeF has
  invented,    \* per milestone: references the sandbox adapter made up, KSeF having no invoice
  recognised,  \* RevenueRecognition rows, each with a Receivable
  shown        \* statuses in Opportunity.paymentMilestones

\* What tax-legal takes for an invoice.
invoiced == [m \in Codes |-> issued[m] + invented[m]]

\* What finance and crm say of a milestone has happened, in whatever order, how often
\* and out of how old a list they were told: an INVOICED one has its invoice at KSeF (or
\* a reference that the sandbox adapter made up), a RECOGNIZED one its revenue; and there
\* is no more revenue than there are invoices and repeated announcements.
StatusIsEarned ==
  \A m \in Codes :
    /\ "READY" \in {billing[m], shown[m]} => commands[m] > 0
    /\ "INVOICED" \in {billing[m], shown[m]} => invoiced[m] > 0
    /\ "RECOGNIZED" \in {billing[m], shown[m]} => recognised[m] > 0
    /\ recognised[m] <= invoiced[m] + again["sent"][m]
=============================================================================
