---------------------------- MODULE InventoryStock ----------------------------
(***************************************************************************)
(* The stock of one item in inv-service and the reservations on it: BOM    *)
(* releases and material requests reserve and lower a stock level,         *)
(* production releases the reservations of its work order, compensation    *)
(* restores them, and adjustments, lots and passed inspections write the   *)
(* same stock levels.                                                      *)
(*                                                                         *)
(* A call is one delivery or request; a message delivered twice is two     *)
(* calls.  A call reads, then writes: transactions are READ COMMITTED and  *)
(* lock nothing they read.  A reservation is named by the call that makes  *)
(* it.  findFirst and stockLevels[0] name no order: any row may be found.  *)
(* Left out: lots of reservations (no caller passes one), the limit of 20  *)
(* restored at a time, stock transactions, genealogy, Item.stockQuantity   *)
(* (receipts and restores increment it: GoodsReceipt!RestoreItem).         *)
(***************************************************************************)
EXTENDS Integers, Sequences, FiniteSets, FiniteSetsExt

CONSTANTS
  Requests,   \* pm.material.requested.v1: reservations without a work order
  Components, \* lines of plm.bom.released.v2: reservations of the work order
  Produced,   \* mes.production.recorded.v1 of the work order
  Restores,   \* inventory.reservation.restored, mes.production.reversed
  Adjusts,    \* POST stock/adjust and POST lots
  Passes,     \* quality.inspection.passed.v1
  Quantity,   \* of a request, component, adjustment or inspected receipt
  FirstRows,  \* the StockLevel rows there may be at first; only adjustments make one negative
  Scenarios,  \* the sets of calls that may come together
  MaxFaults   \* bound: failed statements and crashes

Reserving == Requests \cup Components
Sized == Reserving \cup Adjusts \cup Passes
Calls == Sized \cup Produced \cup Restores

Locations == {"MAIN", "QUARANTINE", "none"}
Row == [location : Locations, quantity : Int]

ASSUME InventoryStockAssumption ==
  /\ Quantity \in [Sized -> Int]
  /\ \A c \in Reserving \cup Passes : Quantity[c] > 0
  /\ IsFiniteSet(Calls) /\ Sized \cap (Produced \cup Restores) = {} /\ Produced \cap Restores = {}
  /\ Reserving \cap (Adjusts \cup Passes) = {} /\ Adjusts \cap Passes = {}
  /\ Requests \cap Components = {}
  /\ FirstRows \subseteq Seq([location : Locations, quantity : Nat])
  /\ Scenarios \subseteq SUBSET Calls /\ MaxFaults \in Nat

VARIABLES
  rows,        \* StockLevel
  status,      \* per reservation: none, ACTIVE, RELEASED
  shortage,    \* per request: missingQuantity of its inv.stock.out.v1, or 0
  at,          \* per call: its position
  seen,        \* per call: the row it read (0: none) and its quantity
  todo,        \* per call: reservations it read and has not yet updated
  current,     \* per call: reservations it updated and still gives stock back for
  supply,      \* history: stock at first, put in by adjustments, given back
  written,     \* history: stock that adjustments wrote off
  took,        \* history, per reservation: what it took from the level
  released, revived, given, \* history, per reservation: how often it was released, made
               \* active again, given back to the level
  raced,       \* history: reservations two calls were about to update
  swallowed,   \* history: reservations whose update failed without notice
  drift,       \* history: why levels and bookings may differ
  faults

callVars == <<at, seen, todo, current>>
resVars  == <<status, shortage, took, released, revived, given>>
stock    == <<rows, supply, written, drift>>
vars == <<callVars, resVars, stock, raced, swallowed, faults>>

TypeOK ==
  /\ rows \in Seq(Row)
  /\ status \in [Reserving -> {"none", "ACTIVE", "RELEASED"}]
  /\ shortage \in [Requests -> Nat]
  /\ at \in [Calls -> {"absent", "new", "write", "release", "restore", "give", "main",
                       "mainWrite", "done"}]
  /\ seen \in [Calls -> [row : Nat, quantity : Int]]
  /\ \A c \in Calls : seen[c].row \in 0..Len(rows)
  /\ todo \in [Calls -> SUBSET Reserving] /\ current \in [Calls -> SUBSET Reserving]
  /\ supply \in Int /\ written \in Nat
  /\ took \in [Reserving -> Int]
  /\ released \in [Reserving -> Nat] /\ revived \in [Reserving -> Nat]
  /\ given \in [Reserving -> Nat]
  /\ raced \subseteq Reserving /\ swallowed \subseteq Reserving
  /\ drift \subseteq {"stale", "half", "forgiven"}
  /\ faults \in 0..MaxFaults

Levels == SumFunction([i \in DOMAIN rows |-> rows[i].quantity])

Init ==
  /\ rows \in FirstRows
  /\ status = [r \in Reserving |-> "none"]
  /\ shortage = [c \in Requests |-> 0]
  /\ \E S \in Scenarios : at = [c \in Calls |-> IF c \in S THEN "new" ELSE "absent"]
  /\ seen = [c \in Calls |-> [row |-> 0, quantity |-> 0]]
  /\ todo = [c \in Calls |-> {}] /\ current = [c \in Calls |-> {}]
  /\ supply = Levels /\ written = 0
  /\ took = [r \in Reserving |-> 0]
  /\ released = [r \in Reserving |-> 0] /\ revived = [r \in Reserving |-> 0]
  /\ given = [r \in Reserving |-> 0]
  /\ raced = {} /\ swallowed = {} /\ drift = {}
  /\ faults = 0

Fault == faults < MaxFaults /\ faults' = faults + 1

Goto(c, place) == at' = [at EXCEPT ![c] = place]

\* The statement or the transaction fails, or the process dies.
Throws(c) ==
  /\ at[c] \notin {"absent", "done"} /\ Fault
  /\ Goto(c, "done")
  /\ todo' = [todo EXCEPT ![c] = {}] /\ current' = [current EXCEPT ![c] = {}]
  /\ drift' = IF at[c] \in {"main", "mainWrite"} THEN drift \cup {"half"} ELSE drift
  /\ UNCHANGED <<seen, resVars, rows, supply, written, raced, swallowed>>

-----------------------------------------------------------------------------
(* Stock levels *)

Found(places) == {i \in DOMAIN rows : rows[i].location \in places}

\* findFirst, and what the call will write from.
Reads(c, places) ==
  IF Found(places) = {} THEN seen' = [seen EXCEPT ![c] = [row |-> 0, quantity |-> 0]]
  ELSE \E i \in Found(places) :
         seen' = [seen EXCEPT ![c] = [row |-> i, quantity |-> rows[i].quantity]]

\* An absolute value computed from what was read.
Stale(c) == seen[c].row # 0 /\ rows[seen[c].row].quantity # seen[c].quantity
Writes(c, quantity) == rows' = [rows EXCEPT ![seen[c].row].quantity = quantity]
Creates(location, quantity) ==
  rows' = Append(rows, [location |-> location, quantity |-> quantity])

-----------------------------------------------------------------------------
(* CreateReservation and ReserveMaterial *)

ReserveReads(c) ==
  /\ c \in Reserving /\ at[c] = "new"
  /\ Reads(c, Locations)
  /\ Goto(c, "write")
  /\ UNCHANGED <<todo, current, resVars, stock, raced, swallowed, faults>>

\* What a request lacks of the row it read.
MissingOfAnyStock(c) == IF seen[c].quantity > 0 THEN 0 ELSE Quantity[c]
Missing(c) ==
  IF seen[c].row # 0 /\ seen[c].quantity >= Quantity[c] THEN 0
  ELSE IF seen[c].row # 0 /\ seen[c].quantity > 0 THEN Quantity[c] - seen[c].quantity
  ELSE Quantity[c]

\* A request that found no item or no stock level reserves nothing.
ReserveWrites(c) ==
  LET rest == Max({0, seen[c].quantity - Quantity[c]})
      reserves == c \in Components \/ seen[c].row # 0
  IN /\ c \in Reserving /\ at[c] = "write"
     /\ status' = [status EXCEPT ![c] = IF reserves THEN "ACTIVE" ELSE @]
     /\ shortage' = IF c \in Requests THEN [shortage EXCEPT ![c] = Missing(c)] ELSE shortage
     /\ IF seen[c].row = 0 THEN UNCHANGED <<rows, took, drift>>
        ELSE /\ Writes(c, rest)
             /\ took' = [took EXCEPT ![c] = seen[c].quantity - rest]
             /\ drift' = drift \cup {x \in {"stale"} : Stale(c)}
                               \cup {x \in {"forgiven"} : seen[c].quantity < 0}
     /\ Goto(c, "done")
     /\ UNCHANGED <<seen, todo, current, released, revived, given, supply, written, raced, swallowed,
                    faults>>

-----------------------------------------------------------------------------
(* AdjustStock and createLot *)

AdjustReads(c) ==
  /\ c \in Adjusts /\ at[c] = "new"
  /\ Reads(c, Locations)
  /\ Goto(c, "write")
  /\ UNCHANGED <<todo, current, resVars, stock, raced, swallowed, faults>>

AdjustWrites(c) ==
  /\ c \in Adjusts /\ at[c] = "write"
  /\ IF seen[c].row = 0 THEN Creates("none", Quantity[c])
                        ELSE Writes(c, seen[c].quantity + Quantity[c])
  /\ IF Quantity[c] > 0
     THEN supply' = supply + Quantity[c] /\ UNCHANGED written
     ELSE written' = written - Quantity[c] /\ UNCHANGED supply
  /\ drift' = drift \cup {x \in {"stale"} : Stale(c)}
  /\ Goto(c, "done")
  /\ UNCHANGED <<seen, todo, current, resVars, raced, swallowed, faults>>

-----------------------------------------------------------------------------
(* handleInspectionPassed: four statements, no transaction *)

PassReads(c) ==
  /\ c \in Passes /\ at[c] = "new"
  /\ Reads(c, {"QUARANTINE"})
  /\ Goto(c, "write")
  /\ UNCHANGED <<todo, current, resVars, stock, raced, swallowed, faults>>

Enough(c) == seen[c].row # 0 /\ seen[c].quantity >= Quantity[c]

PassTakes(c) ==
  /\ c \in Passes /\ at[c] = "write"
  /\ IF Enough(c)
     THEN /\ Writes(c, seen[c].quantity - Quantity[c])
          /\ drift' = drift \cup {x \in {"stale"} : Stale(c)}
          /\ Goto(c, "main")
     ELSE Goto(c, "done") /\ UNCHANGED <<rows, drift>>
  /\ UNCHANGED <<seen, todo, current, resVars, supply, written, raced, swallowed, faults>>

PassReadsMain(c) ==
  /\ at[c] = "main"
  /\ Reads(c, {"MAIN"})
  /\ Goto(c, "mainWrite")
  /\ UNCHANGED <<todo, current, resVars, stock, raced, swallowed, faults>>

PassWritesMain(c) ==
  /\ at[c] = "mainWrite"
  /\ IF seen[c].row = 0 THEN Creates("MAIN", Quantity[c])
                        ELSE Writes(c, seen[c].quantity + Quantity[c])
  /\ drift' = drift \cup {x \in {"stale"} : Stale(c)}
  /\ Goto(c, "done")
  /\ UNCHANGED <<seen, todo, current, resVars, supply, written, raced, swallowed, faults>>

-----------------------------------------------------------------------------
(* handleProductionRecorded, handleReservationRestored, handleProductionReversed *)

In(state) == {r \in Components : status[r] = state}

\* The call will update these by id, whatever their status is by then.
Claims(c, S) ==
  /\ todo' = [todo EXCEPT ![c] = S]
  /\ raced' = raced \cup (S \cap UNION {todo[d] : d \in Calls \ {c}})

\* The event may name the components it consumed; a failing query finds nothing.
ReleaseReads(c) ==
  /\ c \in Produced /\ at[c] = "new"
  /\ \/ \E S \in SUBSET In("ACTIVE") :
          /\ Claims(c, S)
          /\ Goto(c, IF S = {} THEN "done" ELSE "release")
          /\ UNCHANGED faults
     \/ Fault /\ Goto(c, "done") /\ UNCHANGED <<todo, raced>>
  /\ UNCHANGED <<seen, current, resVars, stock, swallowed>>

\* One transaction; stock is not given back, the material is used.
ReleaseWrites(c) ==
  /\ at[c] = "release"
  /\ status' = [r \in Reserving |-> IF r \in todo[c] THEN "RELEASED" ELSE status[r]]
  /\ released' = [r \in Reserving |-> IF r \in todo[c] THEN released[r] + 1 ELSE released[r]]
  /\ todo' = [todo EXCEPT ![c] = {}]
  /\ Goto(c, "done")
  /\ UNCHANGED <<seen, current, shortage, took, revived, given, stock, raced, swallowed, faults>>

ToRestoreAny == In("ACTIVE") \cup In("RELEASED")
ToRestore == In("RELEASED")

RestoreReads(c) ==
  /\ c \in Restores /\ at[c] = "new"
  /\ \/ /\ Claims(c, ToRestore)
        /\ Goto(c, IF ToRestore = {} THEN "done" ELSE "restore")
        /\ UNCHANGED faults
     \/ Fault /\ Goto(c, "done") /\ UNCHANGED <<todo, raced>>
  /\ UNCHANGED <<seen, current, resVars, stock, swallowed>>

\* One reservation after the other, every error dropped: it becomes active ...
RestoreUpdates(c) ==
  /\ at[c] = "restore"
  /\ \E r \in todo[c] :
       /\ \/ /\ status' = [status EXCEPT ![r] = "ACTIVE"]
             /\ revived' = [revived EXCEPT ![r] = @ + 1]
             /\ UNCHANGED <<swallowed, faults>>
          \/ /\ Fault /\ swallowed' = swallowed \cup {r}
             /\ UNCHANGED <<status, revived>>
       /\ todo' = [todo EXCEPT ![c] = @ \ {r}]
       /\ current' = [current EXCEPT ![c] = {r}]
  /\ Goto(c, "give")
  /\ UNCHANGED <<seen, shortage, took, released, given, stock, raced>>

\* ... and its whole quantity goes back to the item, and to a level, by increments.
GiveReset(i, r) == rows' = [rows EXCEPT ![i].quantity = Quantity[r]]
Give(i, r) == rows' = [rows EXCEPT ![i].quantity = @ + Quantity[r]]

RestoreGives(c) ==
  /\ at[c] = "give"
  /\ \E r \in current[c] :
       \/ \E i \in DOMAIN rows :
            /\ Give(i, r)
            /\ given' = [given EXCEPT ![r] = @ + 1]
            /\ supply' = supply + Quantity[r]
            /\ UNCHANGED faults
       \/ rows = <<>> /\ UNCHANGED <<rows, given, supply, faults>>
       \/ Fault /\ UNCHANGED <<rows, given, supply>>
  /\ current' = [current EXCEPT ![c] = {}]
  /\ Goto(c, IF todo[c] = {} THEN "done" ELSE "restore")
  /\ UNCHANGED <<seen, todo, status, shortage, took, released, revived, written, drift, raced,
                 swallowed>>

-----------------------------------------------------------------------------

Next ==
  \E c \in Calls :
    \/ ReserveReads(c) \/ ReserveWrites(c)
    \/ AdjustReads(c) \/ AdjustWrites(c)
    \/ PassReads(c) \/ PassTakes(c) \/ PassReadsMain(c) \/ PassWritesMain(c)
    \/ ReleaseReads(c) \/ ReleaseWrites(c)
    \/ RestoreReads(c) \/ RestoreUpdates(c) \/ RestoreGives(c)
    \/ Throws(c)

Spec == Init /\ [][Next]_vars

-----------------------------------------------------------------------------
(* Properties *)

Taken == SumFunction(took)

\* Quantity that inspections have taken from quarantine and not yet put on MAIN.
Moving == SumFunctionOnSet(Quantity, {c \in Passes : at[c] \in {"main", "mainWrite"}})

\* create-reservation.handler.ts:43, "reduce available stock level": the levels are what
\* came in less what reservations took and adjustments wrote off, but for stock being
\* moved, unless a call wrote a level it had read before another changed it or an
\* inspection stopped half-way.
LevelsAreAudited ==
  drift \cap {"stale", "half"} = {} => Levels = supply - written - Taken - Moving

\* reserve-material.handler.ts:61: what requests reserve beyond the shortage they
\* announce, and components take, there was in stock, unless calls overlapped or a
\* reservation lifted a negative level to zero.
Allocated ==
  SumFunctionOnSet([c \in Requests |-> Quantity[c] - shortage[c]],
                   {c \in Requests : status[c] # "none"})
    + SumFunctionOnSet(took, Components)
AllocatedIsCovered == drift = {} => Allocated <= supply

\* A reservation that no two calls were about to update at once is released and
\* restored in turn, and its quantity given back once per release at most unless
\* the update that should make it active again failed unnoticed.
RestoresFollowReleases ==
  \A r \in Reserving \ raced :
    /\ released[r] = revived[r] + (IF status[r] = "RELEASED" THEN 1 ELSE 0)
    /\ given[r] > released[r] => r \in swallowed
=============================================================================
