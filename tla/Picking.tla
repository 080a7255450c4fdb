-------------------------------- MODULE Picking --------------------------------
(***************************************************************************)
(* Pick lists of inv-service (wms.controller.ts), composed with what       *)
(* procurement does about them: a confirmed pick is announced under        *)
(* inv.stock.out.v1, the subject of a shortage.  A confirmation is four    *)
(* statements without a transaction: the line, the count of pending lines, *)
(* the status of the list, the outbox row.  It is called with the id of a  *)
(* list and the id of a line, and does not ask if the line is on the list. *)
(*                                                                         *)
(* Left out: bins and warehouses, the limit of 20 lines, the stock         *)
(* transaction, whose error is dropped, and that a list is made for one    *)
(* project.  A reservation that is picked keeps its status.                *)
(***************************************************************************)
EXTENDS ShortageOrders

CONSTANTS
  Lists,         \* pick lists that may be made
  Reservations,  \* of InventoryStock, which makes, releases and restores them
  Confirms,      \* calls of confirmPick that may run at the same time
  Origin,        \* what a delivery's event was written for: a pick, or a shortage
  MaxConfirms,   \* bound: confirmations
  MaxFaults      \* bound: those that fail or die halfway

Shortage == "shortage"
NoList == "no list"  \* an id no list has

ASSUME PickingAssumption ==
  /\ Shortage \notin Reservations /\ NoList \notin Lists
  /\ Origin \in [Calls -> Reservations \cup {Shortage}]
  /\ MaxConfirms \in Nat /\ MaxFaults \in Nat

VARIABLES
  list,      \* PickList.status
  lines,     \* PickLine: the list and the reservation
  picked,    \* lines that are PICKED, not PENDING
  at,        \* per confirmation: its position
  under,     \* per confirmation: the list it was called with
  line,      \* per confirmation: the line it was called with
  some,      \* per confirmation: is its pickedQty above 0?
  done,      \* per confirmation: has it counted no pending line?
  told,      \* reservations for whose pick an outbox row was written
  crossed,   \* history: confirmations that met another one on the same list
  unsure,    \* history: lists whose last confirmation was crossed or did not end, or
             \* named another list
  confirms, faults

callVars == <<at, under, line, some, done>>
pickVars == <<list, lines, picked, callVars, told, crossed, unsure, confirms, faults>>
allVars == <<shortageVars, pickVars>>

AnyLine == Lists \X Reservations

PickTypeOK ==
  /\ told \subseteq Reservations
  /\ list \in [Lists -> {"none", "OPEN", "IN_PROGRESS", "COMPLETED"}]
  /\ lines \subseteq AnyLine /\ picked \subseteq lines
  /\ at \in [Confirms -> {"idle", "count", "status", "announce"}]
  /\ line \in [Confirms -> AnyLine \cup {<<>>}]
  /\ under \in [Confirms -> Lists \cup {NoList}]
  /\ \A c \in Confirms : at[c] # "idle" => line[c] \in lines
  /\ some \in [Confirms -> BOOLEAN] /\ done \in [Confirms -> BOOLEAN]
  /\ crossed \subseteq Confirms /\ unsure \subseteq Lists
  /\ confirms \in 0..MaxConfirms /\ faults \in 0..MaxFaults

PickInit ==
  /\ ShortageInit
  /\ list = [l \in Lists |-> "none"] /\ lines = {} /\ picked = {}
  /\ at = [c \in Confirms |-> "idle"]
  /\ under = [c \in Confirms |-> NoList] /\ line = [c \in Confirms |-> <<>>]
  /\ some = [c \in Confirms |-> FALSE] /\ done = [c \in Confirms |-> FALSE]
  /\ told = {} /\ crossed = {} /\ unsure = {}
  /\ confirms = 0 /\ faults = 0

-----------------------------------------------------------------------------
(* Lists *)

\* createPickList: a line for each reservation that is ACTIVE, on another list or not.
CreateList(l, active) ==
  /\ list[l] = "none"
  /\ list' = [list EXCEPT ![l] = "OPEN"]
  /\ lines' = lines \cup {<<l, r>> : r \in active}
  /\ UNCHANGED <<picked, callVars, told, crossed, unsure, confirms, faults>>

-----------------------------------------------------------------------------
(* confirmPick *)

LinesOf(l) == {x \in lines : x[1] = l}
Counting(c, l) == at[c] \in {"count", "status"} /\ under[c] = l
Made == {l \in Lists : list[l] # "none"}

Ends(c) ==
  /\ at' = [at EXCEPT ![c] = "idle"]
  /\ under' = [under EXCEPT ![c] = NoList] /\ line' = [line EXCEPT ![c] = <<>>]
  /\ some' = [some EXCEPT ![c] = FALSE] /\ done' = [done EXCEPT ![c] = FALSE]
  /\ crossed' = crossed \ {c}

\* The line is PICKED or, with a quantity of 0, PENDING again, whatever it was, and
\* whichever list the caller names.
UpdateLine(c, l, x, quantity) ==
  /\ at[c] = "idle"
  /\ l \in Made \cup {NoList} /\ x \in lines
  /\ confirms < MaxConfirms /\ confirms' = confirms + 1
  /\ picked' = IF quantity THEN picked \cup {x} ELSE picked \ {x}
  /\ at' = [at EXCEPT ![c] = "count"]
  /\ under' = [under EXCEPT ![c] = l] /\ line' = [line EXCEPT ![c] = x]
  /\ some' = [some EXCEPT ![c] = quantity]
  /\ LET others == {d \in Confirms : Counting(d, l) \/ Counting(d, x[1])}
     IN crossed' = IF others = {} THEN crossed ELSE crossed \cup others \cup {c}
  /\ unsure' = IF x[1] = l THEN unsure ELSE unsure \cup {x[1]}
  /\ UNCHANGED <<list, lines, done, told, faults>>

NonePendingBut(c) == LinesOf(under[c]) \subseteq picked \cup {line[c]}
NonePending(c) == LinesOf(under[c]) \subseteq picked

Count(c) ==
  /\ at[c] = "count"
  /\ at' = [at EXCEPT ![c] = "status"]
  /\ done' = [done EXCEPT ![c] = NonePending(c)]
  /\ UNCHANGED <<list, lines, picked, under, line, some, told, crossed, unsure, confirms,
                 faults>>

\* The status is written by id, from the count.
UpdateList(c) ==
  LET l == under[c]
  IN /\ at[c] = "status"
     /\ l \in Lists
     /\ list' = [list EXCEPT ![l] = IF done[c] THEN "COMPLETED" ELSE "IN_PROGRESS"]
     /\ unsure' = IF c \in crossed THEN unsure \cup {l} ELSE unsure \ {l}
     /\ IF some[c]
        THEN /\ at' = [at EXCEPT ![c] = "announce"]
             /\ crossed' = crossed \ {c}
             /\ UNCHANGED <<under, line, some, done>>
        ELSE Ends(c)
     /\ UNCHANGED <<lines, picked, told, confirms, faults>>

\* No list has the id: the update throws.  The line stays as it was written.
NoSuchList(c) ==
  /\ at[c] = "status" /\ under[c] = NoList
  /\ Ends(c)
  /\ UNCHANGED <<list, lines, picked, told, unsure, confirms, faults>>

Announce(c) ==
  /\ at[c] = "announce"
  /\ told' = told \cup {line[c][2]}
  /\ Ends(c)
  /\ UNCHANGED <<list, lines, picked, unsure, confirms, faults>>

\* A statement fails, or the process dies: what was written stays.
Fails(c) ==
  /\ at[c] # "idle"
  /\ faults < MaxFaults /\ faults' = faults + 1
  /\ unsure' = IF at[c] \in {"count", "status"} THEN unsure \cup ({under[c]} \cap Lists)
               ELSE unsure
  /\ Ends(c)
  /\ UNCHANGED <<list, lines, picked, told, confirms>>

PickStep ==
  \/ \E l \in Lists, active \in SUBSET Reservations : CreateList(l, active)
  \/ \E c \in Confirms :
       \/ \E l \in Lists \cup {NoList}, x \in lines, quantity \in BOOLEAN :
            UpdateLine(c, l, x, quantity)
       \/ Count(c) \/ UpdateList(c) \/ NoSuchList(c) \/ Announce(c) \/ Fails(c)

-----------------------------------------------------------------------------
(* Both services *)

\* A pick's event reaches procurement, once or more often, when its row was written.
\* Genuine shortages come from reservations of other material at any time.
Announced(c) == Origin[c] = Shortage \/ Origin[c] \in told

OrderStep(c) ==
  \/ Announced(c) /\ Receive(c)
  \/ CheckLedger(c) \/ RunBody(c) \/ MarkLedger(c) \/ FallThrough(c)

PickNext ==
  \/ PickStep /\ UNCHANGED shortageVars
  \/ \E c \in Calls : OrderStep(c) /\ UNCHANGED pickVars

PickSpec == PickInit /\ [][PickNext]_allVars

-----------------------------------------------------------------------------
(* Properties *)

\* A pick list with lines is COMPLETED just when none of them is pending, as soon as no
\* confirmation is at work on it (one without lines may be either).  Only confirmations
\* that crossed, one that failed between its line and the list, or one that named another
\* list than its line's leave it wrong, and the next one sets it right.
ListFollowsLines ==
  \A l \in Lists :
    (\A c \in Confirms : ~Counting(c, l)) /\ l \notin unsure /\ LinesOf(l) # {} =>
      (list[l] = "COMPLETED" <=> LinesOf(l) \subseteq picked)

\* docs/EVENTS/inv.stock.out.v1.md:23, "Emitted when reservation cannot be fully satisfied
\* (SHORTAGE), when SKU is unknown, or when no StockLevel exists": procurement orders what
\* is short.  It does not hold: wms.controller.ts:146 announces each pick that way.
OrderedWasShort == \A o \in ordered : Origin[o[1]] = Shortage
=============================================================================
