---------------------------- MODULE ShortageOrders ----------------------------
(***************************************************************************)
(* Purchase orders that procurement creates for inv.stock.out.v1           *)
(* (proc-service inv-integration.controller.ts handleOutOfStock) behind    *)
(* withProcessedEventGuard.  The caller catches errors whose text mentions *)
(* processedEvent and creates the order without the ledger; Prisma names   *)
(* the model in the text of every error of a call, so that a ledger call   *)
(* that fails for any reason may be taken for a missing table.             *)
(*                                                                         *)
(* The key of an event is item, project and quantity.  Left out: the MRP   *)
(* stock projection, what becomes of an order later (GoodsReceipt).        *)
(***************************************************************************)
EXTENDS ProcessedEventGuard

VARIABLES
  ordered,   \* calls and the order each created: in the guard's body, or past it
  failed,    \* calls whose ledger call failed
  together   \* history: events a call checked while another was between check and mark

shortageVars == <<ledger, step, ordered, failed, together>>

Ways == {"guarded", "fallback"}

ShortageTypeOK ==
  /\ ledger \subseteq Keys /\ together \subseteq Keys /\ failed \subseteq Calls
  /\ step \in [Calls -> Steps \cup {"fell"}]
  /\ ordered \subseteq Calls \X Ways

ShortageInit == Init /\ ordered = {} /\ failed = {} /\ together = {}

Receive(c) == Arrive(c) /\ UNCHANGED <<ordered, failed, together>>

\* createPo: order and outbox row in one transaction.
CreatePo(c, way) == ordered' = ordered \cup {<<c, way>>}

LedgerFails(c, outcome) ==
  failed' = IF step'[c] = outcome THEN failed \cup {c} ELSE failed

\* Another call of the same event has checked and not marked.
Overlaps(c) == \E d \in Calls \ {c} : Key[d] = Key[c] /\ step[d] \in {"run", "mark"}

CheckLedger(c) ==
  /\ Check(c)
  /\ LedgerFails(c, "threw")
  /\ together' = IF step'[c] = "run" /\ Overlaps(c) THEN together \cup {Key[c]} ELSE together
  /\ UNCHANGED ordered

RunBodySwallowed(c) ==
  /\ Body(c)
  /\ IF step'[c] = "mark" THEN CreatePo(c, "guarded") \/ UNCHANGED ordered
                          ELSE UNCHANGED ordered
  /\ UNCHANGED <<failed, together>>
RunBody(c) ==
  /\ Body(c)
  /\ IF step'[c] = "mark" THEN CreatePo(c, "guarded") ELSE UNCHANGED ordered
  /\ UNCHANGED <<failed, together>>

MarkLedger(c) ==
  /\ Mark(c)
  /\ LedgerFails(c, "unmarked")
  /\ UNCHANGED <<ordered, together>>

\* The catch block: an error of the body is thrown on.
MayFallThroughAlways(c) == step[c] \in {"threw", "unmarked"}
MayFallThrough(c) == step[c] \in {"threw", "unmarked"} /\ c \in failed

FallThrough(c) ==
  /\ MayFallThrough(c)
  /\ CreatePo(c, "fallback")
  /\ Goto(c, "fell")
  /\ UNCHANGED <<ledger, failed, together>>

ShortageNext ==
  \E c \in Calls :
    Receive(c) \/ CheckLedger(c) \/ RunBody(c) \/ MarkLedger(c) \/ FallThrough(c)

ShortageSpec == ShortageInit /\ [][ShortageNext]_shortageVars

-----------------------------------------------------------------------------
(* Properties *)

\* A call that answered without an error, be it by skipping the event, by the guard or
\* past it, leaves an order for its shortage: no recorded event is without its order.
Answered(c) == step[c] \in {"skipped", "done", "fell"}
AnsweredIsOrdered ==
  \A c \in Calls : Answered(c) => \E o \in ordered : Key[o[1]] = Key[c]

\* inv-integration.controller.ts:74, "fall through once", and processed-event.ts:125,
\* "Run fn at most once": a shortage is ordered twice only if two calls overlapped
\* between check and mark, or a ledger call failed, before or after the order.
RepeatedOrderHasCause ==
  \A o, p \in ordered :
    o # p /\ Key[o[1]] = Key[p[1]] =>
      Key[o[1]] \in together \/ \E c \in failed : Key[c] = Key[o[1]]
=============================================================================
