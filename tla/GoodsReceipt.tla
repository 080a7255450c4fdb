----------------------------- MODULE GoodsReceipt -----------------------------
(***************************************************************************)
(* From the goods receipt in procurement to the stock in inventory:        *)
(* PATCH /orders/:id/receive updates the purchase order and its outbox in  *)
(* one transaction (proc-service receive-material.handler.ts), the event   *)
(* proc.material.received.v1 reaches every inventory replica over core     *)
(* NATS, and each books it behind withProcessedEventGuard (inv-service     *)
(* proc-integration.controller.ts).  The relay in between is OutboxRelay.  *)
(*                                                                         *)
(* One SKU.  A transaction is READ COMMITTED: what it read may be stale    *)
(* when it writes.  Suffixed variants of a definition are faulty ones.     *)
(*                                                                         *)
(* Item.stockQuantity has a second writer, restoreStock of the saga's      *)
(* compensation, and RECEIPT transactions have one, createLot; both are    *)
(* here for these two columns only.  What they and others do to the        *)
(* StockLevel rows is InventoryStock's: here these are the rows as         *)
(* receipts leave them.  Left out: ADJUST transactions, the seed endpoint  *)
(* that creates an SKU of its own with a quantity of 10.                   *)
(***************************************************************************)
EXTENDS Naturals, Sequences, FiniteSets, Functions

CONSTANTS
  Orders,     \* purchase orders for the SKU
  Amount,     \* quantity ordered, per order
  Receipts,   \* receive requests
  OrderOf,    \* the order a request is about
  Quantity,   \* the quantity it reports; 0 when the body has none
  Copies,     \* deliveries per event: one per replica, more when a relay repeats it
  Decisions,  \* bound: which of APPROVED and REJECTED an order may get
  KnownSku,   \* does inventory know the SKU from the start?
  Lots,       \* POST lots for the SKU
  Restores,   \* reservations that a compensation restores
  Restored,   \* quantity of each
  Overlaps,   \* the values overlap may have
  MaxFaults   \* bound: failed database calls and lost messages

Calls == Receipts \X (1..Copies)

ASSUME GoodsReceiptAssumption ==
  /\ Amount \in [Orders -> Nat \ {0}]
  /\ OrderOf \in [Receipts -> Orders] /\ Quantity \in [Receipts -> Nat]
  /\ Copies \in Nat \ {0} /\ MaxFaults \in Nat
  /\ Decisions \subseteq {"APPROVED", "REJECTED"}
  /\ KnownSku \in BOOLEAN /\ Overlaps \subseteq BOOLEAN
  /\ Lots \cap Calls = {} /\ Restored \in [Restores -> Nat \ {0}]

VARIABLES
  overlap,             \* may requests overlap, and may deliveries?
  status, received,    \* per order: columns of PurchaseOrder
  request, snapshot,   \* per request: new, read, done; the row it read
  itemKnown,           \* has inventory an Item for the SKU?
  ledger,              \* ProcessedEvent keys of consumer inv-proc-material-received
  step,                \* per delivery: the guard's steps, commit (inside the
                       \* transaction), and lost
  levelSeen,           \* per delivery: the StockLevel row its transaction read, 0 if
                       \* there was none, and its quantity
  quarantine,          \* StockLevel.quantity of the rows for QUARANTINE
  itemQuantity,        \* Item.stockQuantity
  transactions,        \* StockTransactions of type RECEIPT: of deliveries (referenceType
                       \* PURCHASE_ORDER, with a Lot each) and of lots (LOT)
  givenBack,           \* history: restores that incremented Item.stockQuantity
  faults

orderVars == <<status, received, request, snapshot>>
stockVars == <<overlap, itemKnown, levelSeen, quarantine, itemQuantity, transactions, givenBack>>
vars == <<orderVars, ledger, step, stockVars, faults>>

\* The deliveries that are booked.
booked == transactions \cap Calls

Statuses == {"PENDING_APPROVAL", "APPROVED", "REJECTED", "PARTIALLY_DELIVERED", "DELIVERED"}

Init ==
  /\ overlap \in Overlaps
  /\ status = [o \in Orders |-> "PENDING_APPROVAL"]
  /\ received = [o \in Orders |-> 0]
  /\ request = [r \in Receipts |-> "new"]
  /\ snapshot = [r \in Receipts |-> [status |-> "PENDING_APPROVAL", received |-> 0]]
  /\ itemKnown = KnownSku
  /\ ledger = {} /\ transactions = {} /\ givenBack = {}
  /\ step = [c \in Calls |-> "new"]
  /\ levelSeen = [c \in Calls |-> [row |-> 0, quantity |-> 0]]
  /\ quarantine \in {<<>>, <<0>>} /\ itemQuantity = 0
  /\ faults = 0

Fault == faults < MaxFaults /\ faults' = faults + 1

-----------------------------------------------------------------------------
(* Procurement *)

\* The event's quantity: a request without one counts as the whole order.
EventQuantity(r) == IF Quantity[r] = 0 THEN Amount[OrderOf[r]] ELSE Quantity[r]

\* Approval and rejection look at no earlier status.
Decide(o, decision) ==
  /\ status[o] # decision
  /\ status' = [status EXCEPT ![o] = decision]
  /\ UNCHANGED <<received, request, snapshot, ledger, step, stockVars, faults>>

ReceiveRead(r) ==
  LET o == OrderOf[r]
  IN /\ request[r] = "new"
     /\ overlap \/ \A q \in Receipts : request[q] # "read"
     /\ snapshot' = [snapshot EXCEPT ![r] = [status |-> status[o], received |-> received[o]]]
     /\ request' = [request EXCEPT ![r] = "read"]
     /\ UNCHANGED <<status, received, ledger, step, stockVars, faults>>

StatusAfterLoose(r, total) == IF total > 0 THEN "DELIVERED" ELSE snapshot[r].status
StatusAfter(r, total) ==
  IF total >= Amount[OrderOf[r]] THEN "DELIVERED"
  ELSE IF total > 0 THEN "PARTIALLY_DELIVERED"
  ELSE snapshot[r].status

ReceivedTotal(r) == snapshot[r].received + Quantity[r]

ReceiveCommit(r) ==
  LET o == OrderOf[r]
  IN /\ request[r] = "read"
     /\ status' = [status EXCEPT ![o] = StatusAfter(r, ReceivedTotal(r))]
     /\ received' = [received EXCEPT ![o] = ReceivedTotal(r)]
     /\ request' = [request EXCEPT ![r] = "done"]
     /\ UNCHANGED <<snapshot, ledger, step, stockVars, faults>>

-----------------------------------------------------------------------------
(* Inventory *)

\* The payload has neither eventId nor correlationId: the key is the order's id.
EventKey(c) == OrderOf[c[1]]

Busy(c) == step[c] \in {"check", "run", "commit", "mark"}
Goto(c, next) == step' = [step EXCEPT ![c] = next]

CreateItem ==
  /\ ~itemKnown
  /\ itemKnown' = TRUE
  /\ UNCHANGED <<overlap, orderVars, ledger, step, levelSeen, quarantine, itemQuantity,
                 transactions, givenBack, faults>>

Deliver(c) ==
  /\ step[c] = "new" /\ request[c[1]] = "done"
  /\ \/ (overlap \/ \A d \in Calls : ~Busy(d)) /\ Goto(c, "check") /\ UNCHANGED faults
     \/ Fault /\ Goto(c, "lost")
  /\ UNCHANGED <<orderVars, ledger, stockVars>>

CheckNever(c) == FALSE
WasProcessed(c) == EventKey(c) \in ledger

Check(c) ==
  /\ step[c] = "check"
  /\ \/ WasProcessed(c) /\ Goto(c, "skipped") /\ UNCHANGED faults
     \/ ~WasProcessed(c) /\ Goto(c, "run") /\ UNCHANGED faults
     \/ Fault /\ Goto(c, "threw")
  /\ UNCHANGED <<orderVars, ledger, stockVars>>

\* findFirst names no order, and no constraint keeps the row unique.
LevelRows == IF quarantine = <<>> THEN {0} ELSE DOMAIN quarantine

\* applyGoodsReceipt up to the read of the stock level.  An unknown SKU is a
\* normal return: the event will be marked.
ApplyReads(c) ==
  /\ step[c] = "run"
  /\ \/ ~itemKnown /\ Goto(c, "mark") /\ UNCHANGED <<levelSeen, faults>>
     \/ /\ itemKnown
        /\ \E row \in LevelRows :
             levelSeen' = [levelSeen EXCEPT ![c] =
               [row |-> row, quantity |-> IF row = 0 THEN 0 ELSE quarantine[row]]]
        /\ Goto(c, "commit") /\ UNCHANGED faults
     \/ Fault /\ Goto(c, "threw") /\ UNCHANGED levelSeen
  /\ UNCHANGED <<overlap, orderVars, ledger, itemKnown, quarantine, itemQuantity,
                 transactions, givenBack>>

ItemAfterStale(c) == levelSeen[c].quantity + EventQuantity(c[1])
ItemAfter(c) == itemQuantity + EventQuantity(c[1])

LevelAfterReset(c) == EventQuantity(c[1])
LevelAfter(c) == levelSeen[c].quantity + EventQuantity(c[1])

\* The rest of the transaction: StockLevel is created or written from what was read,
\* Item.stockQuantity by an atomic increment.
ApplyCommits(c) ==
  /\ step[c] = "commit"
  /\ \/ /\ quarantine' = IF levelSeen[c].row = 0
                          THEN Append(quarantine, LevelAfter(c))
                          ELSE [quarantine EXCEPT ![levelSeen[c].row] = LevelAfter(c)]
        /\ itemQuantity' = ItemAfter(c)
        /\ transactions' = transactions \cup {c}
        /\ Goto(c, "mark") /\ UNCHANGED faults
     \/ Fault /\ Goto(c, "threw") /\ UNCHANGED <<quarantine, itemQuantity, transactions>>
  /\ UNCHANGED <<overlap, orderVars, ledger, itemKnown, levelSeen, givenBack>>

Mark(c) ==
  /\ step[c] = "mark"
  /\ \/ ledger' = ledger \cup {EventKey(c)} /\ Goto(c, "done") /\ UNCHANGED faults
     \/ Fault /\ Goto(c, "unmarked") /\ UNCHANGED ledger
  /\ UNCHANGED <<orderVars, stockVars>>

-----------------------------------------------------------------------------
(* The other writers of the two columns *)

\* createLot writes a RECEIPT, and leaves Item.stockQuantity alone.
CreateLot(l) ==
  /\ itemKnown /\ l \notin transactions
  /\ transactions' = transactions \cup {l}
  /\ UNCHANGED <<overlap, orderVars, ledger, step, itemKnown, levelSeen, quarantine, itemQuantity,
                 givenBack, faults>>

\* restoreStock increments Item.stockQuantity, and writes no RECEIPT.
RestoreItem(x) ==
  /\ itemKnown /\ x \notin givenBack
  /\ itemQuantity' = itemQuantity + Restored[x]
  /\ givenBack' = givenBack \cup {x}
  /\ UNCHANGED <<overlap, orderVars, ledger, step, itemKnown, levelSeen, quarantine, transactions,
                 faults>>

-----------------------------------------------------------------------------

Handle(c) == Check(c) \/ ApplyReads(c) \/ ApplyCommits(c) \/ Mark(c)

Next ==
  \/ \E o \in Orders, decision \in Decisions : Decide(o, decision)
  \/ \E r \in Receipts : ReceiveRead(r) \/ ReceiveCommit(r)
  \/ CreateItem
  \/ \E l \in Lots : CreateLot(l)
  \/ \E x \in Restores : RestoreItem(x)
  \/ \E c \in Calls : Deliver(c) \/ Handle(c)

\* The relay delivers what is committed (OutboxRelay!EveryRowSettles) and a handler
\* that was called runs on.
Fairness ==
  \A c \in Calls : WF_vars(Deliver(c)) /\ WF_vars(Handle(c))

Safety == Init /\ [][Next]_vars
Spec   == Safety /\ Fairness

-----------------------------------------------------------------------------
(* Properties *)

Total(S) == SumFunctionOnSet([c \in Calls |-> EventQuantity(c[1])], S)
Done(o) == {r \in Receipts : OrderOf[r] = o /\ request[r] = "done"}

TypeOK ==
  /\ overlap \in Overlaps
  /\ status \in [Orders -> Statuses]
  /\ received \in [Orders -> Nat]
  /\ request \in [Receipts -> {"new", "read", "done"}]
  /\ snapshot \in [Receipts -> [status : Statuses, received : Nat]]
  /\ itemKnown \in BOOLEAN
  /\ ledger \subseteq Orders
  /\ transactions \subseteq Calls \cup Lots /\ givenBack \subseteq Restores
  /\ step \in [Calls -> {"new", "lost", "check", "run", "commit", "mark",
                         "skipped", "threw", "unmarked", "done"}]
  /\ levelSeen \in [Calls -> [row : Nat, quantity : Nat]]
  /\ quarantine \in Seq(Nat) /\ itemQuantity \in Nat
  /\ faults \in 0..MaxFaults

\* Item.stockQuantity is the sum of the RECEIPT transactions of purchase orders and of
\* what compensations gave back, however the two writers and failing deliveries
\* overlap.  It is not the sum of all RECEIPT transactions: those of lots are not in it.
ItemQuantityIsAudited ==
  itemQuantity = Total(booked) + SumFunctionOnSet(Restored, givenBack)

\* docs/EVENTS/proc.material.received.v1.md, "Increases StockLevel for SKU": while
\* deliveries do not overlap, they leave the booked quantities in the stock levels.
StockLevelIsAudited ==
  ~overlap => SumFunction(quarantine) = Total(booked)

\* A DELIVERED order has at least its amount in completed receive requests, even
\* when requests overlap and overwrite each other's receivedQty; and one request after
\* the other, receivedQty is the sum of what they reported.
OrderFollowsReceipts ==
  \A o \in Orders :
    LET sum == SumFunctionOnSet(Quantity, Done(o))
    IN /\ status[o] = "DELIVERED" => sum >= Amount[o]
       /\ ~overlap => received[o] = sum

\* proc.material.received.v1, "quantity: Received units": the events of an order
\* add up to its receivedQty.  It does not hold when a request states no quantity.
EventsMatchOrder ==
  \A o \in Orders :
    received[o] = SumFunctionOnSet([r \in Receipts |-> EventQuantity(r)], Done(o))

\* Each delivery is handled as the guard prescribes.
Guard == INSTANCE ProcessedEventGuard WITH
  Keys <- Orders,
  Key  <- [c \in Calls |-> EventKey(c)],
  step <- [c \in Calls |-> IF step[c] = "lost" THEN "new"
                           ELSE IF step[c] = "commit" THEN "run" ELSE step[c]]
ImplementsGuard == Guard!Safety

\* Every committed receipt is booked by some delivery.
EveryReceiptBooked ==
  \A r \in Receipts : request[r] = "done" ~> \E c \in booked : c[1] = r
=============================================================================
