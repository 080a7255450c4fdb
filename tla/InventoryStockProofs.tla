------------------------- MODULE InventoryStockProofs -------------------------
(***************************************************************************)
(* For any calls, reservations, stock levels and faults: a reservation no  *)
(* two calls were about to update is released and restored in turn, and is *)
(* given back once per release unless an update failed unnoticed; the      *)
(* levels are what bookings make of them; what requests reserve beyond     *)
(* their shortages was in stock.                                           *)
(***************************************************************************)
EXTENDS InventoryStock, SumTheorems

Positions == {"absent", "new", "write", "release", "restore", "give", "main", "mainWrite", "done"}

Typed ==
  /\ at \in [Calls -> Positions]
  /\ status \in [Reserving -> {"none", "ACTIVE", "RELEASED"}]
  /\ todo \in [Calls -> SUBSET Reserving] /\ current \in [Calls -> SUBSET Reserving]
  /\ released \in [Reserving -> Nat] /\ revived \in [Reserving -> Nat]
  /\ given \in [Reserving -> Nat]

\* What a call holds, it holds at the positions that use it, and it holds reservations
\* that were made; one that its call has not written yet was not.
Working ==
  /\ \A c \in Calls : todo[c] # {} => at[c] \in {"release", "restore", "give"}
  /\ \A c \in Calls : current[c] # {} => at[c] = "give"
  /\ \A c \in Calls : \A r \in todo[c] : status[r] # "none"
  /\ \A r \in Reserving : at[r] \in {"new", "write"} => status[r] = "none"

\* But for the raced ones, a reservation is on one call's list, and still has the status
\* under which that call found it.
Held ==
  \A r \in Reserving \ raced : \A c \in Calls : r \in todo[c] =>
    /\ status[r] = IF at[c] = "release" THEN "ACTIVE" ELSE "RELEASED"
    /\ \A d \in Calls \ {c} : r \notin todo[d]

InTurn ==
  \A r \in Reserving \ raced :
    released[r] = revived[r] + (IF status[r] = "RELEASED" THEN 1 ELSE 0)

\* Each restore gives back at most once: what was given back, and what calls are about to
\* give back, was made active again before.
Givers(r) == {c \in Calls : r \in current[c]}
GivenOnce ==
  \A r \in Reserving \ swallowed : given[r] + Cardinality(Givers(r)) <= revived[r]

IInv == Typed /\ Working /\ Held /\ InTurn /\ GivenOnce

LEMMA Reservations == Reserving \subseteq Calls /\ Components \subseteq Reserving
  BY DEF Reserving, Calls, Sized

LEMMA GiversFinite ==
  ASSUME NEW r PROVE IsFiniteSet(Givers(r)) /\ Cardinality(Givers(r)) \in Nat
<1>1. Givers(r) \subseteq Calls
  BY DEF Givers
<1> QED
  BY <1>1, InventoryStockAssumption, FS_Subset, FS_CardinalityType

LEMMA InitIInv == Init => IInv
<1> SUFFICES ASSUME Init PROVE IInv
  OBVIOUS
<1>1. Typed
  BY DEF Init, Typed, Positions
<1>2. Working /\ Held /\ InTurn
  BY Reservations DEF Init, Working, Held, InTurn
<1>3. \A r \in Reserving : Givers(r) = {}
  BY DEF Init, Givers
<1>4. GivenOnce
  <2>1. \A r \in Reserving : Cardinality(Givers(r)) = 0
    BY <1>3, FS_EmptySet
  <2>2. QED
    BY <2>1 DEF Init, GivenOnce
<1> QED
  BY <1>1, <1>2, <1>4 DEF IInv

\* No call begins or stops to give back: fewer givers, the same counts.
LEMMA FewerGivers ==
  ASSUME GivenOnce, UNCHANGED <<given, revived>>, Typed, swallowed \subseteq swallowed',
         \A c \in Calls : current'[c] \subseteq current[c]
  PROVE  GivenOnce'
<1> SUFFICES ASSUME NEW r \in Reserving \ swallowed'
             PROVE  given'[r] + Cardinality(Givers(r)') <= revived'[r]
  BY DEF GivenOnce
<1>1. Givers(r)' \subseteq Givers(r)
  BY DEF Givers
<1>2. Cardinality(Givers(r)') <= Cardinality(Givers(r)) /\ Cardinality(Givers(r)') \in Nat
  BY <1>1, GiversFinite, FS_Subset, FS_CardinalityType
<1>3. given[r] + Cardinality(Givers(r)) <= revived[r]
  BY DEF GivenOnce
<1> QED
  BY <1>2, <1>3, GiversFinite DEF Typed

\* A call that neither holds nor updates reservations.
LEMMA Elsewhere ==
  ASSUME IInv, NEW c \in Calls, NEW p \in Positions \ {"release", "restore", "give"},
         at' = [at EXCEPT ![c] = p],
         todo[c] = {}, current[c] = {},
         p \in {"new", "write"} => at[c] \in {"new", "write"},
         UNCHANGED <<todo, current, status, released, revived, given, raced, swallowed>>
  PROVE  IInv'
<1>1. Typed'
  BY DEF IInv, Typed
<1>2. Working'
  BY Reservations DEF IInv, Typed, Working
<1>3. Held'
  BY DEF IInv, Typed, Working, Held
<1>4. InTurn'
  BY DEF IInv, InTurn
<1>5. GivenOnce'
  BY FewerGivers DEF IInv
<1> QED
  BY <1>1, <1>2, <1>3, <1>4, <1>5 DEF IInv

LEMMA NextIInv == IInv /\ [Next]_vars => IInv'
<1> SUFFICES ASSUME IInv, [Next]_vars PROVE IInv'
  OBVIOUS
<1> USE Reservations DEF callVars, resVars, stock
<1>1. \A c \in Calls : /\ at[c] \in Positions
                       /\ at[c] \notin {"release", "restore", "give"} => todo[c] = {}
                       /\ at[c] # "give" => current[c] = {}
  BY DEF IInv, Typed, Working
<1>2. ASSUME NEW c \in Calls,
             \/ ReserveReads(c) \/ AdjustReads(c) \/ AdjustWrites(c)
             \/ PassReads(c) \/ PassTakes(c) \/ PassReadsMain(c) \/ PassWritesMain(c)
      PROVE  IInv'
  <2>1. PICK p \in Positions \ {"release", "restore", "give"} :
          /\ at' = [at EXCEPT ![c] = p]
          /\ p \in {"new", "write"} => at[c] \in {"new", "write"}
    BY <1>2 DEF ReserveReads, AdjustReads, AdjustWrites, PassReads, PassTakes, PassReadsMain,
                PassWritesMain, Goto, Positions
  <2>2. /\ todo[c] = {} /\ current[c] = {}
        /\ UNCHANGED <<todo, current, status, released, revived, given, raced, swallowed>>
    BY <1>1, <1>2 DEF ReserveReads, AdjustReads, AdjustWrites, PassReads, PassTakes,
                      PassReadsMain, PassWritesMain
  <2>3. QED
    BY <2>1, <2>2, Elsewhere
<1>3. ASSUME NEW c \in Calls, ReserveWrites(c) PROVE IInv'
  <2>1. /\ at' = [at EXCEPT ![c] = "done"] /\ todo[c] = {} /\ current[c] = {}
        /\ UNCHANGED <<todo, current, released, revived, given, raced, swallowed>>
        /\ c \in Reserving /\ status[c] = "none"
        /\ \E st \in {"ACTIVE", "none"} : status' = [status EXCEPT ![c] = st]
    BY <1>1, <1>3 DEF ReserveWrites, Goto, IInv, Working
  <2>2. Typed'
    BY <2>1 DEF IInv, Typed, Positions
  <2>3. Working'
    BY <2>1 DEF IInv, Typed, Working
  <2>4. Held'
    BY <2>1 DEF IInv, Typed, Working, Held
  <2>5. InTurn'
    BY <2>1 DEF IInv, Typed, InTurn
  <2>6. GivenOnce'
    BY <2>1, FewerGivers DEF IInv
  <2>7. QED
    BY <2>2, <2>3, <2>4, <2>5, <2>6 DEF IInv
<1>4. ASSUME NEW c \in Calls, Throws(c) PROVE IInv'
  <2>1. /\ at' = [at EXCEPT ![c] = "done"]
        /\ todo' = [todo EXCEPT ![c] = {}] /\ current' = [current EXCEPT ![c] = {}]
        /\ UNCHANGED <<status, released, revived, given, raced, swallowed>>
    BY <1>4 DEF Throws, Goto
  <2>2. Typed'
    BY <2>1 DEF IInv, Typed, Positions
  <2>3. Working'
    BY <2>1 DEF IInv, Typed, Working
  <2>4. Held'
    BY <2>1 DEF IInv, Typed, Held
  <2>5. InTurn'
    BY <2>1 DEF IInv, InTurn
  <2>6. \A d \in Calls : current'[d] \subseteq current[d]
    BY <2>1 DEF IInv, Typed
  <2>7. GivenOnce'
    BY <2>1, <2>6, FewerGivers DEF IInv
  <2>8. QED
    BY <2>2, <2>3, <2>4, <2>5, <2>7 DEF IInv
\* A list is taken: whatever is on another list, too, is raced from now on.
<1>5. ASSUME NEW c \in Calls, ReleaseReads(c) \/ RestoreReads(c) PROVE IInv'
  <2>1. /\ todo[c] = {} /\ current[c] = {} /\ at[c] = "new"
        /\ UNCHANGED <<current, status, released, revived, given, swallowed>>
    BY <1>1, <1>5 DEF ReleaseReads, RestoreReads
  <2>2. CASE Goto(c, "done") /\ UNCHANGED <<todo, raced>>
    BY <2>1, <2>2, Elsewhere DEF Goto, Positions
  <2>3. ASSUME NEW S, Claims(c, S), NEW p \in {"release", "restore"},
               S \subseteq In(IF p = "release" THEN "ACTIVE" ELSE "RELEASED"),
               Goto(c, IF S = {} THEN "done" ELSE p)
        PROVE  IInv'
    <3>1. /\ S \subseteq Reserving
          /\ \A r \in S : status[r] = IF p = "release" THEN "ACTIVE" ELSE "RELEASED"
      BY <2>3 DEF In
    <3>2. Typed'
      BY <2>1, <2>3, <3>1 DEF IInv, Typed, Positions, Claims, Goto
    <3>3. Working'
      BY <2>1, <2>3, <3>1 DEF IInv, Typed, Working, Claims, Goto
    <3>4. Held'
      BY <2>1, <2>3, <3>1 DEF IInv, Typed, Held, Claims, Goto
    <3>5. InTurn'
      BY <2>1, <2>3 DEF IInv, InTurn, Claims
    <3>6. GivenOnce'
      BY <2>1, FewerGivers DEF IInv
    <3>7. QED
      BY <3>2, <3>3, <3>4, <3>5, <3>6 DEF IInv
  <2>4. CASE ReleaseReads(c)
    BY <2>2, <2>3, <2>4 DEF ReleaseReads
  <2>5. CASE RestoreReads(c)
    BY <2>2, <2>3, <2>5 DEF RestoreReads, ToRestore
  <2>6. QED
    BY <1>5, <2>4, <2>5
<1>6. ASSUME NEW c \in Calls, ReleaseWrites(c) PROVE IInv'
  <2>1. /\ at[c] = "release" /\ at' = [at EXCEPT ![c] = "done"]
        /\ todo' = [todo EXCEPT ![c] = {}]
        /\ status' = [r \in Reserving |-> IF r \in todo[c] THEN "RELEASED" ELSE status[r]]
        /\ released' = [r \in Reserving |-> IF r \in todo[c] THEN released[r] + 1 ELSE released[r]]
        /\ UNCHANGED <<current, revived, given, raced, swallowed>>
    BY <1>6 DEF ReleaseWrites, Goto
  <2>2. Typed'
    BY <2>1 DEF IInv, Typed, Positions
  <2>3. Working'
    BY <2>1 DEF IInv, Typed, Working
  <2>4. Held'
    BY <2>1 DEF IInv, Typed, Held
  <2>5. InTurn'
    BY <2>1 DEF IInv, Typed, Held, InTurn
  <2>6. GivenOnce'
    BY <2>1, FewerGivers DEF IInv
  <2>7. QED
    BY <2>2, <2>3, <2>4, <2>5, <2>6 DEF IInv
<1>7. ASSUME NEW c \in Calls, RestoreUpdates(c) PROVE IInv'
  <2>1. PICK q \in todo[c] :
          /\ \/ /\ status' = [status EXCEPT ![q] = "ACTIVE"]
                /\ revived' = [revived EXCEPT ![q] = @ + 1]
                /\ UNCHANGED swallowed
             \/ swallowed' = swallowed \cup {q} /\ UNCHANGED <<status, revived>>
          /\ todo' = [todo EXCEPT ![c] = @ \ {q}]
          /\ current' = [current EXCEPT ![c] = {q}]
    BY <1>7 DEF RestoreUpdates
  <2>2. /\ at[c] = "restore" /\ at' = [at EXCEPT ![c] = "give"] /\ current[c] = {}
        /\ q \in Reserving
        /\ UNCHANGED <<released, given, raced>>
    BY <1>1, <1>7 DEF RestoreUpdates, Goto, IInv, Typed
  <2>3. Typed'
    BY <2>1, <2>2 DEF IInv, Typed, Positions
  <2>4. Working'
    BY <2>1, <2>2 DEF IInv, Typed, Working
  <2>5. Held'
    BY <2>1, <2>2 DEF IInv, Typed, Held
  <2>6. InTurn'
    BY <2>1, <2>2 DEF IInv, Typed, Held, InTurn
  <2>7. ASSUME NEW r \in Reserving \ swallowed'
        PROVE  given'[r] + Cardinality(Givers(r)') <= revived'[r]
    <3>1. given[r] + Cardinality(Givers(r)) <= revived[r]
      BY <2>1, <2>7 DEF IInv, GivenOnce
    <3>2. CASE r = q
      <4>1. Givers(r)' = Givers(r) \cup {c}
        BY <2>1, <2>2, <3>2 DEF IInv, Typed, Givers
      <4>2. c \notin Givers(r)
        BY <2>2 DEF Givers
      <4>3. Cardinality(Givers(r)') = Cardinality(Givers(r)) + 1
        BY <4>1, <4>2, GiversFinite, FS_AddElement
      <4>4. revived'[r] = revived[r] + 1
        BY <2>1, <2>2, <2>7, <3>2 DEF IInv, Typed
      <4>5. QED
        BY <2>2, <3>1, <4>3, <4>4, GiversFinite DEF IInv, Typed
    <3>3. CASE r # q
      <4>1. Givers(r)' = Givers(r)
        BY <2>1, <2>2, <3>3 DEF IInv, Typed, Givers
      <4>2. revived'[r] = revived[r]
        BY <2>1, <3>3 DEF IInv, Typed
      <4>3. QED
        BY <2>2, <3>1, <4>1, <4>2
    <3>4. QED
      BY <3>2, <3>3
  <2>8. QED
    BY <2>3, <2>4, <2>5, <2>6, <2>7 DEF IInv, GivenOnce
<1>8. ASSUME NEW c \in Calls, RestoreGives(c) PROVE IInv'
  <2>1. PICK q \in current[c] :
          \/ given' = [given EXCEPT ![q] = @ + 1]
          \/ UNCHANGED given
    BY <1>8 DEF RestoreGives
  <2>2. /\ at[c] = "give" /\ at' = [at EXCEPT ![c] = IF todo[c] = {} THEN "done" ELSE "restore"]
        /\ current' = [current EXCEPT ![c] = {}]
        /\ UNCHANGED <<todo, status, released, revived, raced, swallowed>>
    BY <1>8 DEF RestoreGives, Goto
  <2>3. Typed'
    BY <2>1, <2>2 DEF IInv, Typed, Positions
  <2>4. Working'
    BY <2>2 DEF IInv, Typed, Working
  <2>5. Held'
    BY <2>2 DEF IInv, Typed, Held
  <2>6. InTurn'
    BY <2>2 DEF IInv, InTurn
  <2>7. ASSUME NEW r \in Reserving \ swallowed'
        PROVE  given'[r] + Cardinality(Givers(r)') <= revived'[r]
    <3>1. given[r] + Cardinality(Givers(r)) <= revived[r]
      BY <2>2, <2>7 DEF IInv, GivenOnce
    <3>2. Givers(r)' = Givers(r) \ {c}
      BY <2>2 DEF IInv, Typed, Givers
    <3>3. CASE r \in current[c]
      <4>1. c \in Givers(r)
        BY <3>3 DEF Givers
      <4>2. Cardinality(Givers(r)') = Cardinality(Givers(r)) - 1
        BY <3>2, <4>1, GiversFinite, FS_RemoveElement
      <4>3. given'[r] \in {given[r], given[r] + 1}
        BY <2>1 DEF IInv, Typed
      <4>4. QED
        BY <2>2, <3>1, <4>2, <4>3, GiversFinite DEF IInv, Typed
    <3>4. CASE r \notin current[c]
      <4>1. Givers(r)' = Givers(r) /\ given'[r] = given[r]
        BY <2>1, <3>2, <3>4 DEF IInv, Typed, Givers
      <4>2. QED
        BY <2>2, <3>1, <4>1
    <3>5. QED
      BY <3>3, <3>4
  <2>8. QED
    BY <2>3, <2>4, <2>5, <2>6, <2>7 DEF IInv, GivenOnce
<1>9. CASE UNCHANGED vars
  <2>1. Typed' /\ Working' /\ Held' /\ InTurn'
    BY <1>9 DEF vars, IInv, Typed, Working, Held, InTurn
  <2>2. GivenOnce'
    BY <1>9, FewerGivers DEF vars, IInv
  <2>3. QED
    BY <2>1, <2>2 DEF IInv
<1> QED
  BY <1>2, <1>3, <1>4, <1>5, <1>6, <1>7, <1>8, <1>9 DEF Next

\* RestoresFollowReleases for any calls: alternation, and one return per release.
THEOREM RestoresAlternate == Spec => []RestoresFollowReleases
<1>1. ASSUME IInv PROVE RestoresFollowReleases
  <2>1. ASSUME NEW r \in Reserving \ raced
        PROVE  /\ released[r] = revived[r] + (IF status[r] = "RELEASED" THEN 1 ELSE 0)
               /\ given[r] > released[r] => r \in swallowed
    <3>1. released[r] = revived[r] + (IF status[r] = "RELEASED" THEN 1 ELSE 0)
      BY <1>1 DEF IInv, InTurn
    <3>2. r \notin swallowed => given[r] <= revived[r]
      BY <1>1, GiversFinite DEF IInv, Typed, GivenOnce
    <3>3. QED
      BY <1>1, <3>1, <3>2 DEF IInv, Typed
  <2>2. QED
    BY <2>1 DEF RestoresFollowReleases
<1> QED
  BY <1>1, InitIInv, NextIInv, PTL DEF Spec

-----------------------------------------------------------------------------
(* What the levels add up to *)

\* The rest of the type invariant.
Counted ==
  /\ rows \in Seq(Row)
  /\ shortage \in [Requests -> Nat]
  /\ seen \in [Calls -> [row : Nat, quantity : Int]]
  /\ \A c \in Calls : seen[c].row \in 0..Len(rows)
  /\ supply \in Int /\ written \in Nat
  /\ took \in [Reserving -> Int]
  /\ raced \subseteq Reserving /\ swallowed \subseteq Reserving
  /\ drift \subseteq {"stale", "half", "forgiven"}
  /\ faults \in 0..MaxFaults

Carrying == {"main", "mainWrite"}
Carriers == {c \in Passes : at[c] \in Carrying}

\* Only an inspection carries stock; a reservation takes nothing before it is written.
Placed ==
  /\ \A c \in Calls : at[c] \in Carrying => c \in Passes
  /\ \A r \in Reserving : at[r] \in {"new", "write"} => took[r] = 0

\* A request takes what it reserves beyond the shortage it announces.
AsAnnounced ==
  drift = {} => \A c \in Requests :
    took[c] = IF status[c] = "none" THEN 0 ELSE Quantity[c] - shortage[c]

\* Levels below zero come from adjustments only: without what they wrote off, the levels
\* would hold at least the stock of those above zero.
Pos(quantity) == IF quantity > 0 THEN quantity ELSE 0
InStock == SumFunction([i \in DOMAIN rows |-> Pos(rows[i].quantity)])
NoDebt == drift = {} => InStock <= Levels + written

Audited == Placed /\ AsAnnounced /\ LevelsAreAudited /\ NoDebt

LEMMA TypeParts == TypeOK <=> Typed /\ Counted
  BY DEF TypeOK, Typed, Counted, Positions

LEMMA Quantities ==
  /\ \A c \in Sized : Quantity[c] \in Int
  /\ \A c \in Reserving \cup Passes : c \in Sized /\ Quantity[c] \in Nat /\ Quantity[c] > 0
  BY InventoryStockAssumption DEF Sized

LEMMA FiniteCalls ==
  /\ IsFiniteSet(Reserving) /\ IsFiniteSet(Requests) /\ IsFiniteSet(Components)
  /\ IsFiniteSet(Passes)
  BY InventoryStockAssumption, FS_Subset DEF Calls, Sized, Reserving

LEMMA RowsAreRows ==
  ASSUME NEW s \in Seq(Row)
  PROVE  /\ Len(s) \in Nat /\ DOMAIN s = 1..Len(s) /\ IsFiniteSet(DOMAIN s)
         /\ \A i \in 1..Len(s) : s[i] \in Row /\ s[i].quantity \in Int
<1>1. Len(s) \in Nat /\ DOMAIN s = 1..Len(s) /\ \A i \in 1..Len(s) : s[i] \in Row
  OBVIOUS
<1>2. \A row \in Row : row.quantity \in Int
  BY DEF Row
<1>3. IsFiniteSet(1..Len(s))
  BY <1>1, FS_Interval
<1> QED
  BY <1>1, <1>2, <1>3

\* The sums are numbers; the last two are not negative.
LEMMA SumsAreNumbers ==
  ASSUME rows \in Seq(Row), took \in [Reserving -> Int]
  PROVE  Levels \in Int /\ Taken \in Int /\ Moving \in Nat /\ InStock \in Nat
<1>1. IsFiniteSet(DOMAIN rows) /\ \A i \in DOMAIN rows : rows[i].quantity \in Int
  BY RowsAreRows
<1> DEFINE L == [i \in DOMAIN rows |-> rows[i].quantity]
           P == [i \in DOMAIN rows |-> Pos(rows[i].quantity)]
<1>2. DOMAIN L = DOMAIN rows /\ \A i \in DOMAIN rows : L[i] \in Int
  BY <1>1
<1>3. DOMAIN P = DOMAIN rows /\ \A i \in DOMAIN rows : P[i] \in Nat
  BY <1>1 DEF Pos
<1>4. DOMAIN took = Reserving /\ \A r \in Reserving : took[r] \in Int
  OBVIOUS
<1>5. Carriers \subseteq Passes /\ IsFiniteSet(Carriers)
  BY FiniteCalls, FS_Subset DEF Carriers
<1>6. \A c \in Carriers : Quantity[c] \in Nat
  BY <1>5, Quantities
<1> HIDE DEF L, P
<1>7. SumFunctionOnSet(L, DOMAIN L) \in Int
  BY <1>1, <1>2, SumType
<1>8. SumFunctionOnSet(P, DOMAIN P) \in Nat
  BY <1>1, <1>3, SumType
<1>9. SumFunctionOnSet(took, DOMAIN took) \in Int
  BY <1>4, FiniteCalls, SumType
<1>10. SumFunctionOnSet(Quantity, Carriers) \in Nat
  BY <1>5, <1>6, SumType
<1>11. Levels \in Int
  BY <1>7, Zenon DEF Levels, SumFunction, L
<1>12. InStock \in Nat
  BY <1>8, Zenon DEF InStock, SumFunction, P
<1>13. Taken \in Int
  BY <1>9, Zenon DEF Taken, SumFunction
<1>14. Moving \in Nat
  BY <1>10, Zenon DEF Moving, Carriers, Carrying
<1> QED
  BY <1>11, <1>12, <1>13, <1>14

Numbers == Levels \in Int /\ Taken \in Int /\ Moving \in Nat /\ InStock \in Nat

LEMMA NumbersAfter == Counted' => Numbers'
<1>1. Counted => Numbers
  BY SumsAreNumbers DEF Counted, Numbers
<1> QED
  BY <1>1, PTL

\* A level is set to x.
LEMMA LevelIsSet ==
  ASSUME rows \in Seq(Row), NEW i \in 1..Len(rows), NEW x \in Int,
         rows' = [rows EXCEPT ![i].quantity = x]
  PROVE  /\ rows' \in Seq(Row) /\ Len(rows') = Len(rows)
         /\ Levels' = Levels + x - rows[i].quantity
         /\ InStock' = InStock + Pos(x) - Pos(rows[i].quantity)
<1> DEFINE n == Len(rows)
           L == [j \in DOMAIN rows |-> rows[j].quantity]
           P == [j \in DOMAIN rows |-> Pos(rows[j].quantity)]
<1>1. /\ n \in Nat /\ DOMAIN rows = 1..n
      /\ \A j \in 1..n : rows[j] \in Row /\ rows[j].quantity \in Int
  BY RowsAreRows
<1>2. rows' = [rows EXCEPT ![i] = [rows[i] EXCEPT !.quantity = x]]
  OBVIOUS
<1>3. [rows[i] EXCEPT !.quantity = x] \in Row
  BY <1>1 DEF Row
<1>4. rows' \in Seq(Row) /\ Len(rows') = n /\ DOMAIN rows' = 1..n
  BY <1>1, <1>2, <1>3
<1>5. /\ \A j \in (1..n) \ {i} : rows'[j] = rows[j]
      /\ rows'[i].quantity = x
  BY <1>1, <1>2
<1>6. L \in [1..n -> Int] /\ P \in [1..n -> Int] /\ Pos(x) \in Int
  BY <1>1 DEF Pos
<1>7. [j \in DOMAIN rows' |-> rows'[j].quantity] = [L EXCEPT ![i] = x]
  BY <1>1, <1>4, <1>5
<1>8. [j \in DOMAIN rows' |-> Pos(rows'[j].quantity)] = [P EXCEPT ![i] = Pos(x)]
  <2>1. \A j \in (1..n) \ {i} : Pos(rows'[j].quantity) = Pos(rows[j].quantity)
    BY <1>5, Zenon
  <2>2. Pos(rows'[i].quantity) = Pos(x)
    BY <1>5, Zenon
  <2> QED
    BY <1>1, <1>4, <2>1, <2>2
<1>9. L[i] = rows[i].quantity /\ P[i] = Pos(rows[i].quantity)
  BY <1>1
<1>10. Levels = SumFunction(L) /\ InStock = SumFunction(P)
  BY Zenon DEF Levels, InStock
<1>11. Levels' = SumFunction([L EXCEPT ![i] = x])
  BY <1>7, Zenon DEF Levels
<1>12. InStock' = SumFunction([P EXCEPT ![i] = Pos(x)])
  BY <1>8, Zenon DEF InStock
<1> HIDE DEF L, P, n
<1>13. i \in 1..n
  BY DEF n
<1>14. SumFunction([L EXCEPT ![i] = x]) = SumFunction(L) + x - L[i]
  BY <1>1, <1>6, <1>13, SumEntry
<1>15. SumFunction([P EXCEPT ![i] = Pos(x)]) = SumFunction(P) + Pos(x) - P[i]
  BY <1>1, <1>6, <1>13, SumEntry
<1>16. Levels' = Levels + x - rows[i].quantity
  BY <1>9, <1>10, <1>11, <1>14, Zenon
<1>17. InStock' = InStock + Pos(x) - Pos(rows[i].quantity)
  BY <1>9, <1>10, <1>12, <1>15, Zenon
<1> QED
  BY <1>4, <1>16, <1>17 DEF n

\* A level is created with x.
LEMMA LevelIsCreated ==
  ASSUME rows \in Seq(Row), NEW location \in Locations, NEW x \in Int,
         Creates(location, x)
  PROVE  /\ rows' \in Seq(Row) /\ Len(rows') = Len(rows) + 1
         /\ Levels' = Levels + x /\ InStock' = InStock + Pos(x)
<1> DEFINE n == Len(rows)
           L == [j \in DOMAIN rows |-> rows[j].quantity]
           P == [j \in DOMAIN rows |-> Pos(rows[j].quantity)]
           M == [j \in DOMAIN rows' |-> rows'[j].quantity]
           Q == [j \in DOMAIN rows' |-> Pos(rows'[j].quantity)]
           r == [location |-> location, quantity |-> x]
<1>1. /\ n \in Nat /\ DOMAIN rows = 1..n
      /\ \A j \in 1..n : rows[j] \in Row /\ rows[j].quantity \in Int
  BY RowsAreRows
<1>2. r \in Row /\ r.quantity = x
  BY DEF Row
<1> HIDE DEF r
<1>3. rows' = Append(rows, r)
  BY DEF Creates, r
<1>4. rows' \in Seq(Row) /\ Len(rows') = n + 1 /\ DOMAIN rows' = 1..(n + 1)
  BY <1>1, <1>2, <1>3
<1>5. (\A j \in 1..n : rows'[j] = rows[j]) /\ rows'[n + 1] = r
  BY <1>1, <1>2, <1>3
<1>6. L \in [1..n -> Int] /\ P \in [1..n -> Int]
  BY <1>1 DEF Pos
<1>7. \A j \in 1..(n + 1) : rows'[j].quantity \in Int
  BY <1>4, RowsAreRows
<1>8. M \in [1..n + 1 -> Int] /\ Q \in [1..n + 1 -> Int]
  BY <1>4, <1>7 DEF Pos
<1>9. /\ \A j \in 1..n : M[j] = L[j] /\ Q[j] = Pos(rows[j].quantity)
      /\ \A j \in 1..n : P[j] = Pos(rows[j].quantity)
      /\ M[n + 1] = x /\ Q[n + 1] = Pos(x)
  BY <1>1, <1>2, <1>4, <1>5
<1>10. Levels = SumFunction(L) /\ InStock = SumFunction(P)
  BY Zenon DEF Levels, InStock
<1>11. Levels' = SumFunction(M) /\ InStock' = SumFunction(Q)
  BY Zenon DEF Levels, InStock
<1> HIDE DEF L, P, M, Q, n
<1>12. SumFunction(M) = SumFunction(L) + M[n + 1]
  BY <1>1, <1>6, <1>8, <1>9, SumLonger
<1>13. SumFunction(Q) = SumFunction(P) + Q[n + 1]
  BY <1>1, <1>6, <1>8, <1>9, SumLonger
<1>14. Levels' = Levels + x
  BY <1>9, <1>10, <1>11, <1>12, Zenon
<1>15. InStock' = InStock + Pos(x)
  BY <1>9, <1>10, <1>11, <1>13, Zenon
<1> QED
  BY <1>4, <1>14, <1>15 DEF n

\* A call carries stock, or no longer does.
LEMMA CarriersChange ==
  ASSUME at \in [Calls -> Positions], NEW c \in Calls, NEW p,
         at' = [at EXCEPT ![c] = p]
  PROVE  /\ c \notin Passes \/ (p \in Carrying <=> at[c] \in Carrying) => Moving' = Moving
         /\ c \in Passes /\ p \in Carrying /\ at[c] \notin Carrying
            => Moving' = Moving + Quantity[c]
         /\ c \in Passes /\ p \notin Carrying /\ at[c] \in Carrying
            => Moving' = Moving - Quantity[c]
<1> DEFINE C == Carriers
           D == Carriers'
<1>1. Moving = SumFunctionOnSet(Quantity, C) /\ Moving' = SumFunctionOnSet(Quantity, D)
  BY Zenon DEF Moving, Carriers, Carrying
<1>2. Passes \subseteq Calls
  BY DEF Calls, Sized
<1>3. /\ c \notin Passes \/ (p \in Carrying <=> at[c] \in Carrying) => D = C
      /\ c \in Passes /\ p \in Carrying /\ at[c] \notin Carrying => D = C \cup {c} /\ c \notin C
      /\ c \in Passes /\ p \notin Carrying /\ at[c] \in Carrying => D = C \ {c} /\ c \in C
  BY <1>2 DEF Carriers
<1>4. C \subseteq Passes /\ IsFiniteSet(C)
  BY FiniteCalls, FS_Subset DEF Carriers
<1> HIDE DEF C, D
<1>5. CASE c \notin Passes \/ (p \in Carrying <=> at[c] \in Carrying)
  <2>1. Moving' = Moving
    BY <1>1, <1>3, <1>5, Zenon
  <2> QED
    BY <1>5, <2>1
<1>6. CASE c \in Passes /\ p \in Carrying /\ at[c] \notin Carrying
  <2>1. \A y \in C \cup {c} : Quantity[y] \in Int
    BY <1>4, <1>6, Quantities
  <2>2. SumFunctionOnSet(Quantity, C \cup {c}) = SumFunctionOnSet(Quantity, C) + Quantity[c]
    BY <1>3, <1>4, <1>6, <2>1, SumAdd
  <2>3. Moving' = Moving + Quantity[c]
    BY <1>1, <1>3, <1>6, <2>2, Zenon
  <2> QED
    BY <1>6, <2>3
<1>7. CASE c \in Passes /\ p \notin Carrying /\ at[c] \in Carrying
  <2>1. \A y \in C : Quantity[y] \in Int
    BY <1>4, Quantities
  <2>2. SumFunctionOnSet(Quantity, C) = Quantity[c] + SumFunctionOnSet(Quantity, C \ {c})
    BY <1>3, <1>4, <1>7, <2>1, SumRemove
  <2>3. SumFunctionOnSet(Quantity, C \ {c}) \in Int
    BY <1>4, <2>1, SumType, FS_RemoveElement
  <2>4. Moving = Quantity[c] + Moving' /\ Moving' \in Int
    BY <1>1, <1>3, <1>7, <2>2, <2>3, Zenon
  <2>5. Quantity[c] \in Int
    BY <1>7, Quantities
  <2> QED
    BY <1>7, <2>4, <2>5
<1> QED
  BY <1>5, <1>6, <1>7

\* A reservation takes x.
LEMMA OneTakes ==
  ASSUME took \in [Reserving -> Int], NEW c \in Reserving, NEW x \in Int,
         took' = [took EXCEPT ![c] = x]
  PROVE  Taken' = Taken + x - took[c]
<1> DEFINE f == took
           g == took'
<1>1. /\ DOMAIN f = Reserving /\ DOMAIN g = Reserving
      /\ \A y \in Reserving : f[y] \in Int /\ g[y] \in Int
      /\ \A y \in Reserving \ {c} : f[y] = g[y]
      /\ g[c] = x /\ f[c] = took[c]
  OBVIOUS
<1>2. Taken = SumFunction(f) /\ Taken' = SumFunction(g)
  BY DEF Taken
<1> HIDE DEF f, g
<1>3. SumFunctionOnSet(g, Reserving) = SumFunctionOnSet(f, Reserving) + g[c] - f[c]
  <2>1. IsFiniteSet(Reserving)
    BY FiniteCalls
  <2>2. \A y \in Reserving : f[y] \in Int /\ g[y] \in Int
    BY <1>1
  <2>3. \A y \in Reserving \ {c} : f[y] = g[y]
    BY <1>1
  <2> QED
    BY <2>1, <2>2, <2>3, SumUpdate
<1>4. Taken = SumFunctionOnSet(f, Reserving) /\ Taken' = SumFunctionOnSet(g, Reserving)
  BY <1>1, <1>2, Zenon DEF SumFunction
<1> QED
  BY <1>1, <1>3, <1>4, Zenon

LEMMA MaxOfZero == \A a \in Int : Max({0, a}) = IF a > 0 THEN a ELSE 0
<1> SUFFICES ASSUME NEW a \in Int PROVE Max({0, a}) = IF a > 0 THEN a ELSE 0
  OBVIOUS
<1> DEFINE m == IF a > 0 THEN a ELSE 0
<1>1. m \in {0, a} /\ \A y \in {0, a} : m >= y
  OBVIOUS
<1>2. \A x \in {0, a} : (\A y \in {0, a} : x >= y) => x = m
  OBVIOUS
<1> HIDE DEF m
<1>3. (CHOOSE x \in {0, a} : \A y \in {0, a} : x >= y) = m
  BY <1>1, <1>2
<1> QED
  BY <1>3 DEF Max, m

LEMMA InitAudited == Init => Counted /\ Audited
<1> SUFFICES ASSUME Init PROVE Counted /\ Audited
  OBVIOUS
<1>1. /\ rows \in Seq(Row)
      /\ \A i \in DOMAIN rows : rows[i].quantity \in Nat
  <2> DEFINE Filled == [location : Locations, quantity : Nat]
  <2>1. rows \in Seq(Filled)
    BY InventoryStockAssumption DEF Init
  <2>2. \A row \in Filled : row \in Row /\ row.quantity \in Nat
    BY DEF Row
  <2> HIDE DEF Filled
  <2>3. /\ DOMAIN rows = 1..Len(rows) /\ Len(rows) \in Nat
        /\ \A i \in 1..Len(rows) : rows[i] \in Filled
    BY <2>1
  <2>4. rows \in [1..Len(rows) -> Row]
    BY <2>1, <2>2, <2>3
  <2> QED
    BY <2>2, <2>3, <2>4
<1>2. took = [r \in Reserving |-> 0] /\ took \in [Reserving -> Int]
  BY DEF Init
<1>3. Levels \in Int /\ supply = Levels /\ written = 0
  BY <1>1, <1>2, SumsAreNumbers DEF Init
<1>4. Counted
  BY <1>1, <1>2, <1>3, InventoryStockAssumption DEF Init, Counted
<1>5. \A c \in Calls : at[c] \in {"new", "absent"}
  BY DEF Init
<1>6. Placed
  BY <1>2, <1>5 DEF Placed, Carrying
<1>7. AsAnnounced
  BY <1>2 DEF Init, AsAnnounced, Reserving
<1>8. Taken = 0
  <2>1. DOMAIN took = Reserving /\ \A r \in Reserving : took[r] = 0
    BY <1>2
  <2>2. SumFunctionOnSet(took, Reserving) = 0
    BY <2>1, FiniteCalls, SumZero
  <2> QED
    BY <2>1, <2>2, Zenon DEF Taken, SumFunction
<1>9. Moving = 0
  <2>1. {c \in Passes : at[c] \in {"main", "mainWrite"}} = {}
    BY <1>5 DEF Calls, Sized
  <2> QED
    BY <2>1, SumEmpty, Zenon DEF Moving
<1>10. InStock = Levels
  <2>2. \A i \in DOMAIN rows : Pos(rows[i].quantity) = rows[i].quantity
    BY <1>1 DEF Pos
  <2>3. [i \in DOMAIN rows |-> Pos(rows[i].quantity)] = [i \in DOMAIN rows |-> rows[i].quantity]
    BY <2>2
  <2> QED
    BY <2>3, Zenon DEF InStock, Levels
<1>11. LevelsAreAudited /\ NoDebt
  BY <1>3, <1>8, <1>9, <1>10 DEF LevelsAreAudited, NoDebt
<1> QED
  BY <1>4, <1>6, <1>7, <1>11 DEF Audited

\* A call that carries stock as before and writes no level.
LEMMA NothingWritten ==
  ASSUME IInv, Counted, Audited, NEW c \in Calls, NEW p \in Positions,
         at' = [at EXCEPT ![c] = p],
         c \in Passes => (p \in Carrying <=> at[c] \in Carrying),
         p \in Carrying => c \in Passes,
         p \in {"new", "write"} => at[c] \in {"new", "write"},
         UNCHANGED <<rows, supply, written, drift, took>>,
         \A r \in Requests : /\ status'[r] = "none" <=> status[r] = "none"
                             /\ status[r] # "none" => shortage'[r] = shortage[r]
  PROVE  Audited'
<1>1. at \in [Calls -> Positions]
  BY DEF IInv, Typed
<1>2. Placed'
  BY <1>1, Reservations DEF Audited, Placed
<1>3. AsAnnounced'
  BY DEF Audited, AsAnnounced, Counted
<1>4. Moving' = Moving
  BY <1>1, CarriersChange
<1>5. Levels' = Levels /\ InStock' = InStock /\ Taken' = Taken
  BY Zenon DEF Levels, InStock, Taken
<1>6. LevelsAreAudited' /\ NoDebt'
  BY <1>4, <1>5 DEF Audited, LevelsAreAudited, NoDebt
<1> QED
  BY <1>2, <1>3, <1>6 DEF Audited

\* The row a call has read is still there.
LEMMA SeenRow ==
  ASSUME Counted, NEW c \in Calls, seen[c].row # 0
  PROVE  /\ seen[c].row \in 1..Len(rows) /\ seen[c].quantity \in Int
         /\ rows[seen[c].row].quantity \in Int
<1>1. seen[c].row \in 0..Len(rows) /\ seen[c].quantity \in Int /\ rows \in Seq(Row)
  BY DEF Counted
<1>2. Len(rows) \in Nat
  BY <1>1, RowsAreRows
<1>3. seen[c].row \in 1..Len(rows)
  BY <1>1, <1>2
<1> QED
  BY <1>1, <1>3, RowsAreRows

\* Rows are not deleted: the other tables are what they were.
LEMMA StillCounted ==
  ASSUME Counted, rows' \in Seq(Row), Len(rows') >= Len(rows),
         shortage' \in [Requests -> Nat], took' \in [Reserving -> Int],
         supply' \in Int, written' \in Nat,
         raced' \subseteq Reserving, swallowed' \subseteq Reserving,
         drift' \subseteq {"stale", "half", "forgiven"}, faults' \in 0..MaxFaults,
         UNCHANGED seen
  PROVE  Counted'
<1>1. Len(rows) \in Nat /\ Len(rows') \in Nat
  BY RowsAreRows DEF Counted
<1>2. \A c \in Calls : seen'[c].row \in 0..Len(rows')
  BY <1>1 DEF Counted
<1> QED
  BY <1>2 DEF Counted

LEMMA ReadsCounted ==
  ASSUME Counted, NEW c \in Calls, NEW places, Reads(c, places),
         UNCHANGED <<resVars, stock, raced, swallowed, faults>>
  PROVE  Counted'
<1>1. rows \in Seq(Row) /\ Len(rows) \in Nat /\ DOMAIN rows = 1..Len(rows)
  BY RowsAreRows DEF Counted
<1>2. PICK v \in [row : Nat, quantity : Int] :
        v.row \in 0..Len(rows) /\ seen' = [seen EXCEPT ![c] = v]
  <2>1. CASE Found(places) = {}
    <3> DEFINE v == [row |-> 0, quantity |-> 0]
    <3>1. seen' = [seen EXCEPT ![c] = v]
      BY <2>1 DEF Reads
    <3>2. v \in [row : Nat, quantity : Int] /\ v.row \in 0..Len(rows)
      BY <1>1
    <3> QED
      BY <3>1, <3>2, Zenon
  <2>2. CASE Found(places) # {}
    <3>1. PICK j \in Found(places) :
            seen' = [seen EXCEPT ![c] = [row |-> j, quantity |-> rows[j].quantity]]
      BY <2>2 DEF Reads
    <3>2. j \in 1..Len(rows) /\ rows[j].quantity \in Int
      BY <1>1, <3>1, RowsAreRows DEF Found
    <3> DEFINE v == [row |-> j, quantity |-> rows[j].quantity]
    <3>3. v \in [row : Nat, quantity : Int] /\ v.row \in 0..Len(rows)
      BY <1>1, <3>2
    <3> QED
      BY <3>1, <3>3, Zenon
  <2> QED
    BY <2>1, <2>2
<1>3. UNCHANGED rows
  BY DEF stock
<1>4. seen' \in [Calls -> [row : Nat, quantity : Int]]
  BY <1>2 DEF Counted
<1>5. \A d \in Calls : seen'[d].row \in 0..Len(rows')
  BY <1>2, <1>3 DEF Counted
<1> QED
  BY <1>4, <1>5 DEF Counted, resVars, stock

\* Each level written, and what the other tables say of it.

LEMMA ReserveWritesAudited ==
  ASSUME IInv, Counted, Audited, NEW c \in Calls, ReserveWrites(c)
  PROVE  Counted' /\ Audited'
<1> DEFINE q == seen[c].quantity
           i == seen[c].row
           rest == Max({0, q - Quantity[c]})
<1>1. /\ c \in Reserving /\ at[c] = "write" /\ status[c] = "none" /\ took[c] = 0
      /\ c \in Calls /\ c \notin Passes
  BY InventoryStockAssumption, Reservations
     DEF ReserveWrites, IInv, Working, Audited, Placed
<1>2. /\ Quantity[c] \in Nat /\ Quantity[c] > 0 /\ q \in Int
      /\ c \in Requests => Missing(c) \in Nat
  <2>1. Quantity[c] \in Nat /\ Quantity[c] > 0
    BY <1>1, Quantities
  <2>2. q \in Int
    BY <1>1 DEF Counted
  <2> QED
    BY <2>1, <2>2 DEF Missing
<1>3. /\ at' = [at EXCEPT ![c] = "done"]
      /\ shortage' = IF c \in Requests THEN [shortage EXCEPT ![c] = Missing(c)] ELSE shortage
      /\ UNCHANGED <<seen, supply, written, raced, swallowed, faults>>
  BY DEF ReserveWrites, Goto
<1>4. shortage' \in [Requests -> Nat]
  BY <1>2, <1>3 DEF Counted
<1>5. CASE i = 0
  <2>1. UNCHANGED <<rows, took, drift>>
    BY <1>5 DEF ReserveWrites
  <2>2. c \in Requests => status' = status
    <3>1. c \in Requests => c \notin Components
      BY InventoryStockAssumption
    <3>2. c \in Requests => status' = [status EXCEPT ![c] = @]
      BY <1>5, <3>1 DEF ReserveWrites
    <3> QED
      BY <3>2 DEF IInv, Typed
  <2>3. c \notin Requests => shortage' = shortage /\ \A r \in Requests : status'[r] = status[r]
    BY <1>3 DEF ReserveWrites
  <2>4. Counted'
    BY <1>3, <1>4, <2>1, StillCounted, RowsAreRows DEF Counted
  <2>5. /\ at' = [at EXCEPT ![c] = "done"] /\ "done" \in Positions /\ "done" \notin Carrying
        /\ c \notin Passes /\ "done" \notin {"new", "write"}
        /\ UNCHANGED <<rows, supply, written, drift, took>>
    BY <1>1, <1>3, <2>1 DEF Positions, Carrying
  <2>6. \A r \in Requests : /\ status'[r] = "none" <=> status[r] = "none"
                            /\ status[r] # "none" => shortage'[r] = shortage[r]
    <3>1. CASE c \in Requests
      BY <1>1, <1>3, <2>2, <3>1 DEF Counted
    <3>2. CASE c \notin Requests
      BY <2>3, <3>2
    <3> QED
      BY <3>1, <3>2
  <2>7. Audited'
    <3> DEFINE p == "done"
    <3>1. /\ at' = [at EXCEPT ![c] = p] /\ p \in Positions
          /\ c \in Passes => (p \in Carrying <=> at[c] \in Carrying)
          /\ p \in Carrying => c \in Passes
          /\ p \in {"new", "write"} => at[c] \in {"new", "write"}
      BY <2>5
    <3> HIDE DEF p
    <3> QED
      BY <2>5, <2>6, <3>1, NothingWritten
  <2> QED
    BY <2>4, <2>7
<1>6. CASE i # 0
  <2>1. /\ rows' = [rows EXCEPT ![i].quantity = rest]
        /\ took' = [took EXCEPT ![c] = q - rest]
        /\ drift' = drift \cup {x \in {"stale"} : Stale(c)}
                          \cup {x \in {"forgiven"} : q < 0}
        /\ status' = [status EXCEPT ![c] = "ACTIVE"]
    BY <1>6 DEF ReserveWrites, Writes
  <2>2. rest = (IF q > Quantity[c] THEN q - Quantity[c] ELSE 0) /\ rest \in Nat
    BY <1>2, MaxOfZero
  <2>3. i \in 1..Len(rows) /\ rows[i].quantity \in Int /\ rows \in Seq(Row)
    BY <1>6, SeenRow DEF Counted
  <2>4. Stale(c) <=> rows[i].quantity # q
    BY <1>6 DEF Stale
  <2>5. c \in Requests => Missing(c) = IF q >= Quantity[c] THEN 0
                                       ELSE IF q > 0 THEN Quantity[c] - q ELSE Quantity[c]
    BY <1>6 DEF Missing
  <2> HIDE DEF rest, q, i
  <2>6. /\ rows' \in Seq(Row) /\ Len(rows') = Len(rows)
        /\ Levels' = Levels + rest - rows[i].quantity
        /\ InStock' = InStock + Pos(rest) - Pos(rows[i].quantity)
    <3>1. rest \in Int /\ rows' = [rows EXCEPT ![i].quantity = rest]
      BY <2>1, <2>2
    <3> QED
      BY <2>3, <3>1, LevelIsSet, Zenon
  <2>7. took' \in [Reserving -> Int] /\ Taken' = Taken + (q - rest)
    <3>1. took \in [Reserving -> Int] /\ q - rest \in Int
      BY <1>2, <2>2 DEF Counted
    <3>2. Taken' = Taken + (q - rest) - took[c] /\ Taken \in Int
      BY <1>1, <2>1, <2>3, <3>1, OneTakes, SumsAreNumbers
    <3> QED
      BY <1>1, <2>1, <3>1, <3>2
  <2>8. Moving' = Moving
    BY <1>1, <1>3, CarriersChange DEF IInv, Typed
  <2>9. /\ Levels \in Int /\ Taken \in Int /\ Moving \in Nat /\ InStock \in Nat
        /\ supply \in Int /\ written \in Nat /\ supply' = supply /\ written' = written
        /\ q \in Int /\ rest \in Int
    BY <1>2, <1>3, <2>2, SumsAreNumbers DEF Counted
  <2>10. drift' \subseteq {"stale", "half", "forgiven"}
    BY <2>1 DEF Counted
  <2>11. Counted'
    <3>1. Len(rows') >= Len(rows)
      BY <2>3, <2>6, RowsAreRows
    <3>2. supply' \in Int /\ written' \in Nat /\ faults' \in 0..MaxFaults
          /\ raced' \subseteq Reserving /\ swallowed' \subseteq Reserving
      BY <1>3 DEF Counted
    <3> QED
      BY <1>3, <1>4, <2>6, <2>7, <2>10, <3>1, <3>2, StillCounted
  <2>12. Placed'
    BY <1>1, <1>3, <2>1, Reservations DEF Audited, Placed, IInv, Typed, Carrying, Counted
  <2>13. drift' = {} => drift = {} /\ rows[i].quantity = q /\ q >= 0
    BY <1>2, <2>1, <2>4
  <2>14. drift' \cap {"stale", "half"} = {}
           => drift \cap {"stale", "half"} = {} /\ rows[i].quantity = q
    BY <2>1, <2>4
  <2>15. AsAnnounced'
    <3>1. ASSUME drift' = {}, NEW r \in Requests
          PROVE  took'[r] = IF status'[r] = "none" THEN 0 ELSE Quantity[r] - shortage'[r]
      <4>1. CASE r = c
        <5>1. /\ took'[c] = q - rest /\ status'[c] = "ACTIVE" /\ shortage'[c] = Missing(c)
              /\ c \in Requests
          BY <1>1, <1>3, <2>1, <3>1, <4>1 DEF Counted, IInv, Typed
        <5>2. q - rest = Quantity[c] - Missing(c)
          BY <1>2, <2>2, <2>5, <2>13, <3>1, <5>1
        <5> QED
          BY <4>1, <5>1, <5>2
      <4>2. CASE r # c
        <5>1. took'[r] = took[r] /\ status'[r] = status[r] /\ shortage'[r] = shortage[r]
          BY <1>1, <1>3, <2>1, <4>2, <3>1 DEF Counted, IInv, Typed, Reserving
        <5> QED
          BY <2>13, <3>1, <5>1 DEF Audited, AsAnnounced
      <4> QED
        BY <4>1, <4>2
    <3> QED
      BY <3>1 DEF AsAnnounced
  <2>16. LevelsAreAudited'
    <3>1. ASSUME drift' \cap {"stale", "half"} = {}
          PROVE  Levels' = supply' - written' - Taken' - Moving'
      <4>1. Levels = supply - written - Taken - Moving /\ rows[i].quantity = q
        BY <2>14, <3>1 DEF Audited, LevelsAreAudited
      <4> QED
        BY <2>6, <2>7, <2>8, <2>9, <4>1
    <3> QED
      BY <3>1 DEF LevelsAreAudited
  <2>17. NoDebt'
    <3>1. ASSUME drift' = {} PROVE InStock' <= Levels' + written'
      <4>1. InStock <= Levels + written /\ rows[i].quantity = q /\ q >= 0
        BY <2>13, <3>1 DEF Audited, NoDebt
      <4>2. Pos(rest) = rest /\ Pos(rows[i].quantity) = q
        BY <1>2, <2>2, <4>1 DEF Pos
      <4> QED
        BY <2>6, <2>9, <4>1, <4>2
    <3> QED
      BY <3>1 DEF NoDebt
  <2> QED
    BY <2>11, <2>12, <2>15, <2>16, <2>17 DEF Audited
<1> QED
  BY <1>5, <1>6

\* The levels change by d, unless the write is stale, and the books by as much.
LEMMA BooksMove ==
  ASSUME Counted, Counted', Audited, UNCHANGED took, drift \subseteq drift', NEW d \in Int,
         drift' \cap {"stale", "half"} = {} =>
           Levels' = Levels + d /\ d = supply' - supply - (written' - written) - (Moving' - Moving)
  PROVE  LevelsAreAudited'
<1> SUFFICES ASSUME drift' \cap {"stale", "half"} = {}
             PROVE  Levels' = supply' - written' - Taken' - Moving'
  BY DEF LevelsAreAudited
<1>1. Numbers /\ Numbers'
  BY SumsAreNumbers, NumbersAfter DEF Counted, Numbers
<1>2. /\ Taken \in Int /\ Levels \in Int /\ Moving \in Int /\ Levels' \in Int /\ Moving' \in Int
      /\ supply \in Int /\ written \in Int /\ supply' \in Int /\ written' \in Int
  BY <1>1 DEF Numbers, Counted
<1>3. Taken' = Taken
  BY Zenon DEF Taken
<1>4. Levels = supply - written - Taken - Moving
  BY DEF Audited, LevelsAreAudited
<1>5. Levels' = Levels + d /\ d = supply' - supply - (written' - written) - (Moving' - Moving)
  OBVIOUS
<1> QED
  BY <1>2, <1>3, <1>4, <1>5

\* Stock is put in, or what is written off is.
LEMMA NoDebtMade ==
  ASSUME Counted, Counted', Audited, drift \subseteq drift', NEW d \in Int,
         drift' = {} => Levels' = Levels + d /\ InStock' <= InStock + d + written' - written
  PROVE  NoDebt'
<1> SUFFICES ASSUME drift' = {} PROVE InStock' <= Levels' + written'
  BY DEF NoDebt
<1>1. Numbers /\ Numbers'
  BY SumsAreNumbers, NumbersAfter DEF Counted, Numbers
<1>2. /\ Levels \in Int /\ InStock \in Int /\ Levels' \in Int /\ InStock' \in Int
      /\ written \in Int /\ written' \in Int
  BY <1>1 DEF Numbers, Counted
<1>3. InStock <= Levels + written
  BY DEF Audited, NoDebt
<1>4. PICK l \in Int, n \in Int, w \in Int : l = Levels /\ n = InStock /\ w = written
  BY <1>2
<1>5. PICK l1 \in Int, n1 \in Int, w1 \in Int : l1 = Levels' /\ n1 = InStock' /\ w1 = written'
  BY <1>2
<1>6. n <= l + w /\ l1 = l + d /\ n1 <= n + d + w1 - w
  BY <1>3, <1>4, <1>5, Zenon
<1>7. n1 <= l1 + w1
  BY <1>6
<1> QED
  BY <1>5, <1>7, Zenon

\* The same, where nothing is reserved.
LEMMA LevelsMove ==
  ASSUME IInv, Counted, Audited, NEW c \in Calls, NEW p \in Positions,
         at' = [at EXCEPT ![c] = p], p \notin {"new", "write"}, p \in Carrying => c \in Passes,
         UNCHANGED <<shortage, status, took, seen, raced, swallowed>>,
         supply' \in Int, written' \in Nat, faults' \in 0..MaxFaults,
         drift \subseteq drift', drift' \subseteq {"stale", "half", "forgiven"},
         NEW d \in Int, rows' \in Seq(Row), Len(rows') >= Len(rows),
         drift' \cap {"stale", "half"} = {} =>
           Levels' = Levels + d /\ d = supply' - supply - (written' - written) - (Moving' - Moving),
         drift' = {} => InStock' <= InStock + d + written' - written
  PROVE  Counted' /\ Audited'
<1>1. Counted'
  <2>1. /\ shortage' \in [Requests -> Nat] /\ took' \in [Reserving -> Int]
        /\ raced' \subseteq Reserving /\ swallowed' \subseteq Reserving
    BY DEF Counted
  <2> QED
    BY <2>1, StillCounted
<1>2. Placed'
  BY Reservations DEF Audited, Placed, IInv, Typed
<1>3. AsAnnounced'
  <2>1. drift' = {} => drift = {}
    OBVIOUS
  <2> QED
    BY <2>1 DEF Audited, AsAnnounced
<1>4. LevelsAreAudited' /\ NoDebt'
  BY <1>1, BooksMove, NoDebtMade
<1> QED
  BY <1>1, <1>2, <1>3, <1>4 DEF Audited

\* A level is raised or lowered, or created.
LEMMA WriteOrCreate ==
  ASSUME Counted, NEW c \in Calls, NEW location \in Locations, NEW q \in Int,
         IF seen[c].row = 0 THEN Creates(location, q) ELSE Writes(c, seen[c].quantity + q)
  PROVE  /\ rows' \in Seq(Row) /\ Len(rows') >= Len(rows)
         /\ ~ Stale(c) => /\ Levels' = Levels + q
                          /\ InStock' <= InStock + (IF q > 0 THEN q ELSE 0)
<1>1. rows \in Seq(Row) /\ Len(rows) \in Nat
  BY RowsAreRows DEF Counted
<1>2. InStock \in Int /\ Levels \in Int
  BY SumsAreNumbers DEF Counted
<1>3. CASE seen[c].row = 0
  <2>1. Creates(location, q)
    BY <1>3
  <2>2. /\ rows' \in Seq(Row) /\ Len(rows') = Len(rows) + 1
        /\ Levels' = Levels + q /\ InStock' = InStock + Pos(q)
    BY <1>1, <2>1, LevelIsCreated
  <2>3. Pos(q) = IF q > 0 THEN q ELSE 0
    BY DEF Pos
  <2> QED
    BY <1>1, <1>2, <2>2, <2>3
<1>4. CASE seen[c].row # 0
  <2> DEFINE i == seen[c].row
             x == seen[c].quantity + q
  <2>1. /\ i \in 1..Len(rows) /\ seen[c].quantity \in Int /\ rows[i].quantity \in Int
        /\ x \in Int
    BY <1>4, SeenRow
  <2>2. rows' = [rows EXCEPT ![i].quantity = x]
    BY <1>4 DEF Writes
  <2>3. ~ Stale(c) => x = rows[i].quantity + q
    BY <1>4 DEF Stale
  <2> HIDE DEF i, x
  <2>4. /\ rows' \in Seq(Row) /\ Len(rows') = Len(rows)
        /\ Levels' = Levels + x - rows[i].quantity
        /\ InStock' = InStock + Pos(x) - Pos(rows[i].quantity)
    BY <1>1, <2>1, <2>2, LevelIsSet
  <2>5. ~ Stale(c) => Pos(x) - Pos(rows[i].quantity) <= (IF q > 0 THEN q ELSE 0)
    BY <2>1, <2>3 DEF Pos
  <2>6. Pos(x) \in Int /\ Pos(rows[i].quantity) \in Int
    BY <2>1 DEF Pos
  <2> QED
    BY <1>1, <1>2, <2>1, <2>3, <2>4, <2>5, <2>6
<1> QED
  BY <1>3, <1>4

LEMMA AdjustWritesAudited ==
  ASSUME IInv, Counted, Audited, NEW c \in Calls, AdjustWrites(c)
  PROVE  Counted' /\ Audited'
<1> DEFINE q == Quantity[c]
<1>1. /\ q \in Int /\ c \notin Passes
  BY Quantities, InventoryStockAssumption DEF AdjustWrites, Sized
<1>2. /\ at' = [at EXCEPT ![c] = "done"] /\ "done" \in Positions
      /\ "done" \notin Carrying /\ "done" \notin {"new", "write"}
  BY DEF AdjustWrites, Goto, Positions, Carrying
<1>3. UNCHANGED <<shortage, status, took, seen, raced, swallowed, faults>>
  BY DEF AdjustWrites, resVars
<1>4. /\ drift' = drift \cup {x \in {"stale"} : Stale(c)}
      /\ IF seen[c].row = 0 THEN Creates("none", q) ELSE Writes(c, seen[c].quantity + q)
  BY DEF AdjustWrites
<1>5. /\ drift \subseteq drift' /\ drift' \subseteq {"stale", "half", "forgiven"}
      /\ drift' \cap {"stale", "half"} = {} => ~ Stale(c)
      /\ drift' = {} => ~ Stale(c)
  BY <1>4 DEF Counted
<1>6. /\ rows' \in Seq(Row) /\ Len(rows') >= Len(rows)
      /\ ~ Stale(c) => /\ Levels' = Levels + q
                       /\ InStock' <= InStock + (IF q > 0 THEN q ELSE 0)
  BY <1>1, <1>4, WriteOrCreate DEF Locations
<1>7. Moving' = Moving
  BY <1>1, <1>2, CarriersChange DEF IInv, Typed
<1>8. /\ supply \in Int /\ written \in Nat /\ faults \in 0..MaxFaults
      /\ Moving \in Int /\ InStock \in Int
  BY SumsAreNumbers DEF Counted
<1>9. \/ q > 0 /\ supply' = supply + q /\ written' = written
      \/ ~ (q > 0) /\ supply' = supply /\ written' = written - q
  BY DEF AdjustWrites
<1>10. faults' \in 0..MaxFaults
  BY <1>3, <1>8
<1> HIDE DEF q
<1>11. /\ supply' \in Int /\ written' \in Nat
       /\ q = supply' - supply - (written' - written) - (Moving' - Moving)
       /\ (IF q > 0 THEN q ELSE 0) = q + written' - written
  BY <1>1, <1>7, <1>8, <1>9
<1>12. ~ Stale(c) => InStock' <= InStock + q + written' - written
  <2>1. InStock + (q + written' - written) = InStock + q + written' - written
    BY <1>1, <1>8, <1>11
  <2> QED
    BY <1>6, <1>11, <2>1, Zenon
<1> QED
  BY <1>1, <1>2, <1>3, <1>5, <1>6, <1>10, <1>11, <1>12, LevelsMove

LEMMA PassTakesAudited ==
  ASSUME IInv, Counted, Audited, NEW c \in Calls, PassTakes(c)
  PROVE  Counted' /\ Audited'
<1>1. /\ c \in Passes /\ at[c] = "write" /\ c \notin Reserving
      /\ Quantity[c] \in Nat /\ Quantity[c] > 0
  BY Quantities, InventoryStockAssumption DEF PassTakes
<1>2. UNCHANGED <<seen, resVars, supply, written, raced, swallowed, faults>>
  BY DEF PassTakes
<1>3. CASE ~ Enough(c)
  <2>1. at' = [at EXCEPT ![c] = "done"] /\ UNCHANGED <<rows, drift>>
    BY <1>3 DEF PassTakes, Goto
  <2>2. Counted'
    BY <1>2, <2>1 DEF Counted, resVars
  <2>3. /\ "done" \in Positions /\ "done" \notin Carrying /\ "done" \notin {"new", "write"}
        /\ at[c] \notin Carrying
    BY <1>1 DEF Positions, Carrying
  <2>4. UNCHANGED <<rows, supply, written, drift, took>> /\ UNCHANGED <<status, shortage>>
    BY <1>2, <2>1 DEF resVars
  <2>5. Audited'
    BY <2>1, <2>3, <2>4, NothingWritten
  <2> QED
    BY <2>2, <2>5
<1>4. CASE Enough(c)
  <2> DEFINE i == seen[c].row
             q == seen[c].quantity
             x == q - Quantity[c]
             d == 0 - Quantity[c]
  <2>1. /\ at' = [at EXCEPT ![c] = "main"]
        /\ rows' = [rows EXCEPT ![i].quantity = x]
        /\ drift' = drift \cup {y \in {"stale"} : Stale(c)}
    BY <1>4 DEF PassTakes, Goto, Writes
  <2>2. /\ "main" \in Positions /\ "main" \in Carrying /\ "main" \notin {"new", "write"}
        /\ at[c] \notin Carrying
    BY <1>1 DEF Positions, Carrying
  <2>3. /\ i \in 1..Len(rows) /\ q \in Int /\ rows[i].quantity \in Int
        /\ rows \in Seq(Row) /\ q >= Quantity[c] /\ i # 0
    BY <1>4, SeenRow DEF Enough, Counted
  <2>4. x \in Int /\ x >= 0 /\ d \in Int /\ q > 0
    BY <1>1, <2>3
  <2>5. ~ Stale(c) => rows[i].quantity = q
    BY <2>3 DEF Stale
  <2>6. /\ drift \subseteq drift' /\ drift' \subseteq {"stale", "half", "forgiven"}
        /\ drift' \cap {"stale", "half"} = {} => ~ Stale(c)
        /\ drift' = {} => ~ Stale(c)
    BY <2>1 DEF Counted
  <2>7. x = q + d
    BY <1>1, <2>3
  <2>8. Moving' = Moving + Quantity[c]
    BY <1>1, <2>1, <2>2, CarriersChange DEF IInv, Typed
  <2> HIDE DEF i, q, x
  <2>9. /\ rows' \in Seq(Row) /\ Len(rows') = Len(rows)
        /\ Levels' = Levels + x - rows[i].quantity
        /\ InStock' = InStock + Pos(x) - Pos(rows[i].quantity)
    BY <2>1, <2>3, <2>4, LevelIsSet
  <2>10. /\ Levels \in Int /\ Moving \in Int /\ InStock \in Int /\ Len(rows) \in Nat
         /\ supply \in Int /\ written \in Nat /\ faults \in 0..MaxFaults
    BY SumsAreNumbers, RowsAreRows DEF Counted
  <2>11. UNCHANGED <<shortage, status, took, seen, raced, swallowed, supply, written, faults>>
    BY <1>2 DEF resVars
  <2>12. ~ Stale(c) => Levels' = Levels + d
    BY <2>3, <2>4, <2>5, <2>7, <2>9, <2>10
  <2>13. d = supply' - supply - (written' - written) - (Moving' - Moving)
    BY <1>1, <2>4, <2>8, <2>10, <2>11
  <2>14. ~ Stale(c) => InStock' <= InStock + d + written' - written
    <3>1. ~ Stale(c) => Pos(x) = x /\ Pos(rows[i].quantity) = q
      BY <2>3, <2>4, <2>5 DEF Pos
    <3>2. ~ Stale(c) => InStock' = InStock + x - q
      BY <2>9, <3>1, Zenon
    <3>3. InStock + x - q = InStock + d + written' - written
      BY <1>1, <2>3, <2>4, <2>7, <2>10, <2>11
    <3>4. InStock + x - q \in Int
      BY <2>3, <2>4, <2>10
    <3> QED
      BY <3>2, <3>3, <3>4
  <2>15. Len(rows') >= Len(rows)
    BY <2>9, <2>10
  <2>16. supply' \in Int /\ written' \in Nat /\ faults' \in 0..MaxFaults
    BY <2>10, <2>11
  <2> HIDE DEF d
  <2> QED
    BY <1>1, <2>1, <2>2, <2>4, <2>6, <2>9, <2>11, <2>12, <2>13, <2>14, <2>15, <2>16, LevelsMove
<1> QED
  BY <1>3, <1>4

LEMMA PassWritesMainAudited ==
  ASSUME IInv, Counted, Audited, NEW c \in Calls, PassWritesMain(c)
  PROVE  Counted' /\ Audited'
<1> DEFINE q == Quantity[c]
<1>1. at[c] = "mainWrite" /\ c \in Passes /\ q \in Nat /\ q > 0
  BY Quantities DEF PassWritesMain, Audited, Placed, Carrying
<1>2. /\ at' = [at EXCEPT ![c] = "done"] /\ "done" \in Positions
      /\ "done" \notin Carrying /\ "done" \notin {"new", "write"} /\ at[c] \in Carrying
  BY <1>1 DEF PassWritesMain, Goto, Positions, Carrying
<1>3. UNCHANGED <<shortage, status, took, seen, raced, swallowed, supply, written, faults>>
  BY DEF PassWritesMain, resVars
<1>4. /\ drift' = drift \cup {x \in {"stale"} : Stale(c)}
      /\ IF seen[c].row = 0 THEN Creates("MAIN", q) ELSE Writes(c, seen[c].quantity + q)
  BY DEF PassWritesMain
<1>5. /\ drift \subseteq drift' /\ drift' \subseteq {"stale", "half", "forgiven"}
      /\ drift' \cap {"stale", "half"} = {} => ~ Stale(c)
      /\ drift' = {} => ~ Stale(c)
  BY <1>4 DEF Counted
<1>6. Moving' = Moving - q
  BY <1>1, <1>2, CarriersChange DEF IInv, Typed
<1> HIDE DEF q
<1>7. /\ rows' \in Seq(Row) /\ Len(rows') >= Len(rows)
      /\ ~ Stale(c) => /\ Levels' = Levels + q
                       /\ InStock' <= InStock + (IF q > 0 THEN q ELSE 0)
  BY <1>1, <1>4, WriteOrCreate DEF Locations
<1>8. /\ supply \in Int /\ written \in Nat /\ faults \in 0..MaxFaults
      /\ Moving \in Int /\ InStock \in Int
  BY SumsAreNumbers DEF Counted
<1>9. /\ supply' \in Int /\ written' \in Nat /\ faults' \in 0..MaxFaults /\ q \in Int
      /\ q = supply' - supply - (written' - written) - (Moving' - Moving)
      /\ InStock + (IF q > 0 THEN q ELSE 0) = InStock + q + written' - written
  BY <1>1, <1>3, <1>6, <1>8
<1>10. ~ Stale(c) => InStock' <= InStock + q + written' - written
  BY <1>7, <1>9, Zenon
<1> QED
  BY <1>2, <1>3, <1>5, <1>7, <1>9, <1>10, LevelsMove

LEMMA RestoreGivesAudited ==
  ASSUME IInv, Counted, Audited, NEW c \in Calls, RestoreGives(c)
  PROVE  Counted' /\ Audited'
<1> DEFINE p == IF todo[c] = {} THEN "done" ELSE "restore"
<1>1. /\ at' = [at EXCEPT ![c] = p] /\ p \in Positions /\ p \notin Carrying
      /\ p \notin {"new", "write"} /\ at[c] \notin Carrying
  BY DEF RestoreGives, Goto, Positions, Carrying
<1>2. UNCHANGED <<shortage, status, took, seen, raced, swallowed, written, drift>>
  BY DEF RestoreGives
<1>3. /\ drift \subseteq drift' /\ drift' \subseteq {"stale", "half", "forgiven"}
      /\ rows \in Seq(Row) /\ Len(rows) \in Nat /\ DOMAIN rows = 1..Len(rows)
      /\ supply \in Int /\ written \in Nat /\ faults \in 0..MaxFaults
      /\ Levels \in Int /\ Moving \in Int /\ InStock \in Int
  BY <1>2, SumsAreNumbers, RowsAreRows DEF Counted
<1> HIDE DEF p
<1>4. Moving' = Moving
  BY <1>1, CarriersChange DEF IInv, Typed
<1>5. CASE UNCHANGED <<rows, supply>> /\ faults' \in 0..MaxFaults
  <2>1. Levels' = Levels /\ InStock' = InStock
    BY <1>5, Zenon DEF Levels, InStock
  <2> DEFINE d == 0
  <2>2. /\ d \in Int /\ supply' \in Int /\ written' \in Nat
        /\ Levels' = Levels + d /\ d = supply' - supply - (written' - written) - (Moving' - Moving)
        /\ InStock' <= InStock + d + written' - written
        /\ rows' \in Seq(Row) /\ Len(rows') >= Len(rows)
    BY <1>2, <1>3, <1>4, <1>5, <2>1
  <2> HIDE DEF d
  <2> QED
    BY <1>1, <1>2, <1>3, <1>5, <2>2, LevelsMove
<1>6. ASSUME NEW r \in current[c], NEW i \in DOMAIN rows, Give(i, r),
             supply' = supply + Quantity[r], UNCHANGED faults
      PROVE  Counted' /\ Audited'
  <2> DEFINE d == Quantity[r]
             x == rows[i].quantity + d
  <2>1. r \in Reserving /\ d \in Nat /\ d > 0
    <3>1. r \in Reserving
      BY DEF IInv, Typed
    <3> QED
      BY <3>1, Quantities
  <2>2. i \in 1..Len(rows) /\ rows[i].quantity \in Int
    BY <1>3, RowsAreRows
  <2>3. rows' = [rows EXCEPT ![i].quantity = x] /\ x \in Int
    BY <1>6, <2>1, <2>2 DEF Give
  <2>4. /\ supply' = supply + d /\ faults' = faults /\ x = rows[i].quantity + d
    BY <1>6
  <2> HIDE DEF x, d
  <2>5. /\ rows' \in Seq(Row) /\ Len(rows') = Len(rows)
        /\ Levels' = Levels + x - rows[i].quantity
        /\ InStock' = InStock + Pos(x) - Pos(rows[i].quantity)
    BY <1>3, <2>2, <2>3, LevelIsSet
  <2>6. /\ Levels' = Levels + d
        /\ d = supply' - supply - (written' - written) - (Moving' - Moving)
        /\ supply' \in Int /\ written' \in Nat /\ faults' \in 0..MaxFaults
        /\ Len(rows') >= Len(rows) /\ d \in Int
    BY <1>2, <1>3, <1>4, <2>1, <2>2, <2>4, <2>5
  <2>7. InStock' <= InStock + d + written' - written
    <3>1. Pos(x) - Pos(rows[i].quantity) <= d /\ Pos(x) \in Int /\ Pos(rows[i].quantity) \in Int
      BY <2>1, <2>2, <2>4 DEF Pos
    <3>2. InStock + d + written' - written = InStock + d
      BY <1>2, <1>3, <2>6
    <3>3. PICK n \in Int, a \in Int, b \in Int :
            n = InStock /\ a = Pos(x) /\ b = Pos(rows[i].quantity)
      BY <1>3, <3>1
    <3>4. a - b <= d /\ InStock' = n + a - b
      BY <2>5, <3>1, <3>3, Zenon
    <3>5. InStock' <= n + d
      BY <2>6, <3>4
    <3> QED
      BY <3>2, <3>3, <3>5, Zenon
  <2> QED
    BY <1>1, <1>2, <1>3, <2>5, <2>6, <2>7, LevelsMove
<1>7. \/ \E r \in current[c] : \E i \in DOMAIN rows :
           Give(i, r) /\ supply' = supply + Quantity[r] /\ UNCHANGED faults
      \/ UNCHANGED <<rows, supply>> /\ (UNCHANGED faults \/ Fault)
  BY DEF RestoreGives
<1>8. (UNCHANGED faults \/ Fault) => faults' \in 0..MaxFaults
  BY <1>3, InventoryStockAssumption DEF Fault
<1> QED
  BY <1>5, <1>6, <1>7, <1>8

LEMMA ThrowsAudited ==
  ASSUME IInv, Counted, Audited, NEW c \in Calls, Throws(c)
  PROVE  Counted' /\ Audited'
<1>1. /\ at' = [at EXCEPT ![c] = "done"] /\ at[c] \in Positions
      /\ "done" \in Positions /\ "done" \notin Carrying /\ "done" \notin {"new", "write"}
      /\ UNCHANGED <<seen, resVars, rows, supply, written, raced, swallowed>>
      /\ drift' = IF at[c] \in Carrying THEN drift \cup {"half"} ELSE drift
      /\ faults' \in 0..MaxFaults
  BY InventoryStockAssumption DEF Throws, Goto, Positions, Carrying, Fault, Counted, IInv, Typed
<1>2. Counted'
  BY <1>1 DEF Counted, resVars
<1>3. UNCHANGED <<rows, supply, written, took, status, shortage>>
  BY <1>1 DEF resVars
<1>4. CASE at[c] \notin Carrying
  <2>1. UNCHANGED drift
    BY <1>1, <1>4
  <2>2. Audited'
    BY <1>1, <1>3, <1>4, <2>1, NothingWritten
  <2> QED
    BY <1>2, <2>2
<1>5. CASE at[c] \in Carrying
  <2>1. drift' # {} /\ drift' \cap {"stale", "half"} # {}
    BY <1>1, <1>5
  <2>2. AsAnnounced' /\ LevelsAreAudited' /\ NoDebt'
    BY <2>1 DEF AsAnnounced, LevelsAreAudited, NoDebt
  <2>3. Placed'
    BY <1>1, <1>3, Reservations DEF Audited, Placed, IInv, Typed
  <2> QED
    BY <1>2, <2>2, <2>3 DEF Audited
<1> QED
  BY <1>4, <1>5

\* Calls that read, and calls that only change reservations.
LEMMA ReadsAudited ==
  ASSUME IInv, Counted, Audited, NEW c \in Calls,
         \/ ReserveReads(c) \/ AdjustReads(c) \/ PassReads(c) \/ PassReadsMain(c)
  PROVE  Counted' /\ Audited'
<1>1. /\ \E places : Reads(c, places)
      /\ UNCHANGED <<resVars, stock, raced, swallowed, faults>>
  BY DEF ReserveReads, AdjustReads, PassReads, PassReadsMain
<1>2. Counted'
  BY <1>1, ReadsCounted
<1>3. PICK p \in Positions :
        /\ at' = [at EXCEPT ![c] = p]
        /\ p \in Carrying <=> at[c] \in Carrying
        /\ p \in {"new", "write"} => at[c] \in {"new", "write"}
  BY DEF ReserveReads, AdjustReads, PassReads, PassReadsMain, Goto, Positions, Carrying
<1>4. p \in Carrying => c \in Passes
  BY <1>3 DEF Audited, Placed
<1>5. UNCHANGED <<rows, supply, written, drift, took>> /\ UNCHANGED <<status, shortage>>
  BY <1>1 DEF resVars, stock
<1>6. Audited'
  BY <1>3, <1>4, <1>5, NothingWritten
<1> QED
  BY <1>2, <1>6

LEMMA ReservationsAudited ==
  ASSUME IInv, Counted, Audited, NEW c \in Calls,
         \/ ReleaseReads(c) \/ ReleaseWrites(c) \/ RestoreReads(c) \/ RestoreUpdates(c)
  PROVE  Counted' /\ Audited'
<1>1. /\ UNCHANGED <<seen, shortage, took, stock>>
      /\ UNCHANGED faults \/ Fault
  BY DEF ReleaseReads, ReleaseWrites, RestoreReads, RestoreUpdates, resVars
<1>2. faults' \in 0..MaxFaults
  BY <1>1, InventoryStockAssumption DEF Counted, Fault
<1>3. raced' \subseteq Reserving
  <2>1. \A S : S \subseteq Reserving /\ Claims(c, S) => raced' \subseteq Reserving
    BY DEF Claims, Counted
  <2>2. CASE UNCHANGED raced
    BY <2>2 DEF Counted
  <2>3. CASE ReleaseReads(c)
    BY <2>1, <2>2, <2>3, Reservations DEF ReleaseReads, In
  <2>4. CASE RestoreReads(c)
    BY <2>1, <2>2, <2>4, Reservations DEF RestoreReads, ToRestore, In
  <2> QED
    BY <2>2, <2>3, <2>4 DEF ReleaseWrites, RestoreUpdates
<1>4. swallowed' \subseteq Reserving
  BY DEF ReleaseReads, ReleaseWrites, RestoreReads, RestoreUpdates, Counted, IInv, Typed
<1>5. Counted'
  BY <1>1, <1>2, <1>3, <1>4 DEF Counted, stock
<1>6. PICK p \in Positions :
        /\ at' = [at EXCEPT ![c] = p] /\ p \notin Carrying /\ p \notin {"new", "write"}
  BY DEF ReleaseReads, ReleaseWrites, RestoreReads, RestoreUpdates, Goto, Positions, Carrying
<1>7. at[c] \notin Carrying
  BY DEF ReleaseReads, ReleaseWrites, RestoreReads, RestoreUpdates, Carrying
<1>8. \A r \in Requests : status'[r] = "none" <=> status[r] = "none"
  <2>1. CASE UNCHANGED status
    BY <2>1
  <2>2. CASE ReleaseWrites(c)
    BY <2>2 DEF ReleaseWrites, IInv, Working, Reserving
  <2>3. CASE RestoreUpdates(c)
    <3>1. PICK q \in todo[c] : UNCHANGED status \/ status' = [status EXCEPT ![q] = "ACTIVE"]
      BY <2>3 DEF RestoreUpdates
    <3>2. q \in Reserving /\ status[q] # "none"
      BY <3>1 DEF IInv, Typed, Working
    <3>3. status \in [Reserving -> {"none", "ACTIVE", "RELEASED"}]
      BY DEF IInv, Typed
    <3> QED
      BY <3>1, <3>2, <3>3 DEF Reserving
  <2> QED
    BY <2>1, <2>2, <2>3 DEF ReleaseReads, RestoreReads, resVars
<1>9. UNCHANGED <<rows, supply, written, drift, took>> /\ UNCHANGED shortage
  BY <1>1 DEF stock
<1>10. Audited'
  BY <1>6, <1>7, <1>8, <1>9, NothingWritten
<1> QED
  BY <1>5, <1>10

LEMMA NextAudited == IInv /\ Counted /\ Audited /\ [Next]_vars => Counted' /\ Audited'
<1> SUFFICES ASSUME IInv, Counted, Audited, [Next]_vars PROVE Counted' /\ Audited'
  OBVIOUS
<1>1. CASE UNCHANGED vars
  <2>1. Counted'
    BY <1>1 DEF vars, callVars, resVars, stock, Counted
  <2>2. /\ UNCHANGED <<at, rows, took, status, shortage>>
        /\ UNCHANGED <<supply, written, drift>>
    BY <1>1 DEF vars, callVars, resVars, stock
  <2>3. Placed' /\ AsAnnounced'
    BY <2>2 DEF Audited, Placed, AsAnnounced
  <2>4. Levels' = Levels /\ InStock' = InStock /\ Taken' = Taken /\ Moving' = Moving
    BY <2>2, Zenon DEF Levels, InStock, Taken, Moving
  <2>5. LevelsAreAudited' /\ NoDebt'
    BY <2>2, <2>4 DEF Audited, LevelsAreAudited, NoDebt
  <2> QED
    BY <2>1, <2>3, <2>5 DEF Audited
<1>2. CASE Next
  <2>1. PICK c \in Calls :
          \/ ReserveReads(c) \/ ReserveWrites(c)
          \/ AdjustReads(c) \/ AdjustWrites(c)
          \/ PassReads(c) \/ PassTakes(c) \/ PassReadsMain(c) \/ PassWritesMain(c)
          \/ ReleaseReads(c) \/ ReleaseWrites(c)
          \/ RestoreReads(c) \/ RestoreUpdates(c) \/ RestoreGives(c)
          \/ Throws(c)
    BY <1>2 DEF Next
  <2> QED
    BY <2>1, ReserveWritesAudited, AdjustWritesAudited, PassTakesAudited, PassWritesMainAudited,
       RestoreGivesAudited, ThrowsAudited, ReadsAudited, ReservationsAudited
<1> QED
  BY <1>1, <1>2

\* Requests and components take, together, what is allocated to them.
LEMMA AllocatedIsTaken ==
  ASSUME IInv, Counted, Audited, drift = {}
  PROVE  Allocated = Taken
<1> DEFINE Made == {c \in Requests : status[c] # "none"}
           Rest == Requests \ Made
           asked == [c \in Requests |-> Quantity[c] - shortage[c]]
<1>1. /\ Made \subseteq Requests /\ Rest \subseteq Requests
      /\ Made \cap Rest = {} /\ Made \cup Rest = Requests
  OBVIOUS
<1>2. /\ \A c \in Made : took[c] = asked[c]
      /\ \A c \in Rest : took[c] = 0
  BY DEF Audited, AsAnnounced
<1>3. /\ Requests \cap Components = {} /\ Requests \cup Components = Reserving
      /\ took \in [Reserving -> Int] /\ DOMAIN took = Reserving
  BY InventoryStockAssumption DEF Reserving, Counted
<1>4. Allocated = SumFunctionOnSet(asked, Made) + SumFunctionOnSet(took, Components)
  BY Zenon DEF Allocated
<1> HIDE DEF Made, Rest, asked
<1>5. IsFiniteSet(Made) /\ IsFiniteSet(Rest)
  BY <1>1, FiniteCalls, FS_Subset
<1>6. /\ \A c \in Made \cup Rest : took[c] \in Int
      /\ \A c \in Requests \cup Components : took[c] \in Int
  BY <1>1, <1>3 DEF Reserving
<1>7. SumFunctionOnSet(took, Made \cup Rest)
        = SumFunctionOnSet(took, Made) + SumFunctionOnSet(took, Rest)
  BY <1>1, <1>5, <1>6, SumUnion
<1>8. SumFunctionOnSet(took, Rest) = 0
  BY <1>2, <1>5, SumZero
<1>9. SumFunctionOnSet(took, Made) = SumFunctionOnSet(asked, Made)
  BY <1>2, <1>5, SumSame
<1>10. SumFunctionOnSet(took, Requests \cup Components)
         = SumFunctionOnSet(took, Requests) + SumFunctionOnSet(took, Components)
  BY <1>3, <1>6, FiniteCalls, SumUnion
<1>11. /\ Taken = SumFunctionOnSet(took, Requests \cup Components)
       /\ SumFunctionOnSet(took, Requests) = SumFunctionOnSet(took, Made \cup Rest)
  BY <1>1, <1>3, Zenon DEF Taken, SumFunction
<1>12. SumFunctionOnSet(took, Made) \in Int
  BY <1>5, <1>6, SumType
<1> QED
  BY <1>4, <1>7, <1>8, <1>9, <1>10, <1>11, <1>12

\* For any calls: rows, bookings and histories have their types.
THEOREM InventoryTypeCorrect == Spec => []TypeOK
<1>1. IInv /\ Counted => TypeOK
  BY TypeParts DEF IInv
<1> QED
  BY <1>1, InitIInv, NextIInv, InitAudited, NextAudited, PTL DEF Spec

\* LevelsAreAudited for any calls and rows: but for stale writes and half-done
\* inspections, the levels are what came in less what was taken, moved or written off.
THEOREM LevelsAddUp == Spec => []LevelsAreAudited
<1>1. Audited => LevelsAreAudited
  BY DEF Audited
<1> QED
  BY <1>1, InitIInv, NextIInv, InitAudited, NextAudited, PTL DEF Spec

\* AllocatedIsCovered for any calls and rows none of which is negative at first:
\* reservations of one call after the other never promise more than was in stock.
THEOREM AllocatedWasInStock == Spec => []AllocatedIsCovered
<1>1. ASSUME IInv, Counted, Audited PROVE AllocatedIsCovered
  <2> SUFFICES ASSUME drift = {} PROVE Allocated <= supply
    BY DEF AllocatedIsCovered
  <2>1. Allocated = Taken
    BY <1>1, AllocatedIsTaken
  <2>2. /\ Levels = supply - written - Taken - Moving
        /\ InStock <= Levels + written
    BY <1>1 DEF Audited, LevelsAreAudited, NoDebt
  <2>3. /\ Levels \in Int /\ Taken \in Int /\ Moving \in Nat /\ InStock \in Nat
        /\ supply \in Int /\ written \in Int
    BY <1>1, SumsAreNumbers DEF Counted
  <2>4. PICK l \in Int, t \in Int, m \in Nat, n \in Nat, s \in Int, w \in Int :
          /\ l = Levels /\ t = Taken /\ m = Moving /\ n = InStock /\ s = supply /\ w = written
    BY <2>3
  <2>5. l = s - w - t - m /\ n <= l + w
    BY <2>2, <2>4, Zenon
  <2>6. t <= s
    BY <2>5
  <2> QED
    BY <2>1, <2>4, <2>6, Zenon
<1> QED
  BY <1>1, InitIInv, NextIInv, InitAudited, NextAudited, PTL DEF Spec
=============================================================================
