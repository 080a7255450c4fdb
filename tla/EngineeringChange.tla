--------------------------- MODULE EngineeringChange ---------------------------
(***************************************************************************)
(* plm-service: versions of a bill of materials (BOM), the components in   *)
(* them, their release with a snapshot of the whole tree, and the          *)
(* engineering change orders (ECO) whose approval releases a version       *)
(* again.  REST calls run at the same time; a call may fail or die between *)
(* two statements.  Rows are never deleted.                                *)
(*                                                                         *)
(* The snapshot is read row by row, the deepest open rows first, while     *)
(* other calls add components and release sub-assemblies; nothing keeps a  *)
(* tree from containing itself, and MaxDepth (8 in the code) ends the walk.*)
(* Left out: what comes between looking up the newest released version of  *)
(* a child and reading its rows, two queries that are one step of the walk *)
(* here.  The events stay in the outbox: sending them is OutboxRelay's.    *)
(* Suffixed variants of a definition are faulty.                           *)
(***************************************************************************)
EXTENDS Naturals, FiniteSets, Relation

CONSTANTS
  Items,
  Versions,     \* BomVersion rows that may be created
  ItemOf,       \* the item a version belongs to
  Age,          \* the order in which versions are created: createdAt
  Ecos,
  Calls,        \* calls that may run at the same time
  MaxDepth,
  Bounds        \* what the environment may do: rows (components written), draws (versions
                \* of the legacy endpoint), faults, links, directs (releases without an
                \* order), orders (their creation) and approvals, on top of the versions
                \* that are there (given); one of them is chosen at the start

NoVersion == "none"
NoEco == "none"

ASSUME EngineeringChangeAssumption ==
  /\ NoVersion \notin Versions /\ NoEco \notin Ecos
  /\ ItemOf \in [Versions -> Items] /\ Age \in [Versions -> Nat]
  /\ MaxDepth \in Nat
  /\ Bounds \subseteq [rows : Nat, draws : Nat, faults : Nat, links : Nat, directs : Nat,
                 orders : Nat, approvals : Nat, given : SUBSET Versions]

VARIABLES
  bound,       \* of the environment: fixed
  made,        \* versions that exist
  released,    \* versions whose status is RELEASED; the others are DRAFT
  rows,        \* BomComponent rows
  sub,         \* BomComponent.subBomVersionId
  eco,         \* EngineeringChangeOrder.status
  affects,     \* the version the order names; nobody asks whether it exists
  at,          \* per call: its position
  doing,       \* per call: the order it approves
  target,      \* per call: the version, or the child item and version, it works on
  todo, lines, \* per release: rows not yet looked into, with their level and their link as
               \* they were read; the lines so far
  last,        \* per version: the snapshot in the newest plm.bom.released.v2
  announced,   \* per order: plm.eco.approved.v1 rows
  since,       \* history: the rows of the order's version when it was first announced
  unfinished,  \* history: per order, announced approvals that released nothing, or died
  together,    \* history: orders two approvals were at at once
  crossed,     \* history: versions two releases were at at once
  spent        \* what of the bounds is used

tree == <<made, released, rows, sub>>
orders == <<eco, affects, announced, since, unfinished>>
callVars == <<at, doing, target, todo, lines>>
history == <<together, crossed>>
vars == <<bound, tree, orders, callVars, last, history, spent>>

Budgets == {"rows", "draws", "faults", "links", "directs", "orders", "approvals"}
Statuses == {"none", "PENDING", "APPROVED", "IMPLEMENTED", "REJECTED"}

TypeOK ==
  /\ bound \in Bounds
  /\ made \subseteq Versions /\ released \subseteq made
  /\ rows \subseteq made \X Items \X (1..bound.rows)
  /\ DOMAIN sub = rows
  /\ \A x \in rows : sub[x] # NoVersion => sub[x] \in made /\ ItemOf[sub[x]] = x[2]
  /\ eco \in [Ecos -> Statuses] /\ affects \in [Ecos -> Versions \cup {NoVersion}]
  /\ at \in [Calls -> {"idle", "approve", "release", "walk", "finish", "failed", "add", "draw"}]
  /\ doing \in [Calls -> Ecos \cup {NoEco}]
  /\ \A c \in Calls : at[c] \in {"approve", "finish", "failed"} => doing[c] \in Ecos
  /\ \A c \in Calls : /\ todo[c] \subseteq rows \X (0..MaxDepth) \X (made \cup {NoVersion})
                        /\ lines[c] \subseteq rows
  /\ last \in [Versions -> SUBSET rows]
  /\ announced \in [Ecos -> Nat] /\ unfinished \in [Ecos -> Nat]
  /\ since \in [Ecos -> SUBSET rows]
  /\ together \subseteq Ecos /\ crossed \subseteq Versions
  /\ \A b \in Budgets : spent[b] \in 0..bound[b]

Init ==
  /\ bound \in Bounds
  /\ made = bound.given /\ released = {} /\ rows = {} /\ sub = [x \in {} |-> NoVersion]
  /\ eco = [e \in Ecos |-> "none"] /\ affects = [e \in Ecos |-> NoVersion]
  /\ at = [c \in Calls |-> "idle"] /\ doing = [c \in Calls |-> NoEco]
  /\ target = [c \in Calls |-> <<>>]
  /\ todo = [c \in Calls |-> {}] /\ lines = [c \in Calls |-> {}]
  /\ last = [v \in Versions |-> {}]
  /\ announced = [e \in Ecos |-> 0] /\ unfinished = [e \in Ecos |-> 0]
  /\ since = [e \in Ecos |-> {}]
  /\ together = {} /\ crossed = {}
  /\ spent = [b \in Budgets |-> 0]

Spend(b) == spent[b] < bound[b] /\ spent' = [spent EXCEPT ![b] = @ + 1]

RowsOf(v) == {x \in rows : x[1] = v}

-----------------------------------------------------------------------------
(* Versions and their components *)

\* The rows of one version are numbered, so that two of them may name the same item.
NewRow(v, i) == <<v, i, 1 + Cardinality(RowsOf(v))>>

Written(v, i) ==
  /\ rows' = rows \cup {NewRow(v, i)}
  /\ sub' = [x \in rows' |-> IF x \in rows THEN sub[x] ELSE NoVersion]

OldestFirst(v) == \A w \in Versions : Age[w] < Age[v] => w \in made

CreateVersion(v) ==
  /\ v \notin made /\ OldestFirst(v)
  /\ made' = made \cup {v}
  /\ UNCHANGED <<bound, released, rows, sub, orders, callVars, last, history, spent>>

\* The legacy endpoint: a version and its components, one insert at a time and unchecked.
DrawBegin(c, v) ==
  /\ at[c] = "idle"
  /\ v \notin made /\ OldestFirst(v) /\ Spend("draws")
  /\ made' = made \cup {v}
  /\ at' = [at EXCEPT ![c] = "draw"] /\ target' = [target EXCEPT ![c] = <<v>>]
  /\ UNCHANGED <<bound, released, rows, sub, orders, doing, todo, lines, last, history>>

DrawRow(c, i) ==
  /\ at[c] = "draw" /\ Spend("rows")
  /\ Written(target[c][1], i)
  /\ UNCHANGED <<bound, made, released, orders, callVars, last, history>>

\* findFirst, and then create.
Taken(v, i) == \E x \in RowsOf(v) : x[2] = i

AddBegin(c, v, i) ==
  /\ at[c] = "idle" /\ Spend("rows")
  /\ v \in made /\ ~Taken(v, i)
  /\ at' = [at EXCEPT ![c] = "add"] /\ target' = [target EXCEPT ![c] = <<v, i>>]
  /\ UNCHANGED <<bound, tree, orders, doing, todo, lines, last, history>>

Ends(c) ==
  /\ at' = [at EXCEPT ![c] = "idle"] /\ doing' = [doing EXCEPT ![c] = NoEco]
  /\ target' = [target EXCEPT ![c] = <<>>]
  /\ todo' = [todo EXCEPT ![c] = {}] /\ lines' = [lines EXCEPT ![c] = {}]

Add(c) ==
  /\ at[c] = "add"
  /\ Written(target[c][1], target[c][2])
  /\ Ends(c)
  /\ UNCHANGED <<bound, made, released, orders, last, history, spent>>

\* A component is tied to one version of its child item.
Fits(x, w) == w \in made /\ ItemOf[w] = x[2]

LinkSub(x, w) ==
  /\ x \in rows /\ Fits(x, w)
  /\ sub[x] # w /\ Spend("links")
  /\ sub' = [sub EXCEPT ![x] = w]
  /\ UNCHANGED <<bound, made, released, rows, orders, callVars, last, history>>

-----------------------------------------------------------------------------
(* ReleaseBomVersion *)

\* The rows of a version as a release reads them, at one level of the tree.
Read(v, n) == {<<x, n, sub[x]>> : x \in RowsOf(v)}

\* The version and its rows are read; a version that does not exist is an error.
Reads(c, v) ==
  /\ v \in made
  /\ at' = [at EXCEPT ![c] = "walk"] /\ target' = [target EXCEPT ![c] = <<v>>]
  /\ todo' = [todo EXCEPT ![c] = Read(v, 0)]
  /\ crossed' = IF \E d \in Calls : at[d] = "walk" /\ target[d] = <<v>>
                THEN crossed \cup {v} ELSE crossed

ReleaseDirectly(c, v) ==
  /\ at[c] = "idle" /\ Spend("directs")
  /\ Reads(c, v)
  /\ UNCHANGED <<bound, tree, orders, doing, lines, last, together>>

\* Of a child item without a link, the newest released version.
Newest(i) == {v \in released : ItemOf[v] = i /\ \A w \in released : ItemOf[w] = i => Age[w] <= Age[v]}
SubOf(p) == IF p[3] # NoVersion THEN {p[3]} ELSE Newest(p[1][2])

\* Rows one level down, none below MaxDepth.
BelowSameLevel(p) == UNION {Read(v, p[2]) : v \in SubOf(p)}
Below(p) == IF p[2] = MaxDepth THEN {} ELSE UNION {Read(v, p[2] + 1) : v \in SubOf(p)}

\* An assembly is a line like a part that has no rows of its own.
LinesWithoutAssemblies(c, p) == IF SubOf(p) = {} THEN lines[c] \cup {p[1]} ELSE lines[c]
LinesWith(c, p) == lines[c] \cup {p[1]}

Walk(c) ==
  /\ at[c] = "walk"
  /\ \E p \in todo[c] :
       /\ \A q \in todo[c] : q[2] <= p[2]
       /\ lines' = [lines EXCEPT ![c] = LinesWith(c, p)]
       /\ todo' = [todo EXCEPT ![c] = (@ \ {p}) \cup Below(p)]
  /\ UNCHANGED <<bound, tree, orders, at, doing, target, last, history, spent>>

\* The status and the event, in one transaction.
Publish(c) ==
  LET v == target[c][1]
  IN /\ at[c] = "walk" /\ todo[c] = {}
     /\ released' = released \cup {v}
     /\ last' = [last EXCEPT ![v] = lines[c]]
     /\ IF doing[c] = NoEco THEN Ends(c)
        ELSE /\ at' = [at EXCEPT ![c] = "finish"]
             /\ lines' = [lines EXCEPT ![c] = {}] /\ UNCHANGED <<doing, target, todo>>
     /\ UNCHANGED <<bound, made, rows, sub, orders, history, spent>>

-----------------------------------------------------------------------------
(* Change orders *)

CreateEco(e, v) ==
  /\ eco[e] = "none" /\ Spend("orders")
  /\ affects' = [affects EXCEPT ![e] = v]
  /\ eco' = [eco EXCEPT ![e] = "PENDING"]
  /\ UNCHANGED <<bound, tree, announced, since, unfinished, callVars, last, history>>

\* An order that is IMPLEMENTED answers at once.  Nothing sets REJECTED.
ApprovableAlways(e) == eco[e] # "none"
Approvable(e) == eco[e] \notin {"none", "REJECTED", "IMPLEMENTED"}

\* A second approval is let in by what it read, whoever else is at the order.
ApproveBegin(c, e) ==
  /\ at[c] = "idle" /\ Approvable(e)
  /\ Spend("approvals")
  /\ together' = IF \E d \in Calls : doing[d] = e THEN together \cup {e} ELSE together
  /\ at' = [at EXCEPT ![c] = "approve"] /\ doing' = [doing EXCEPT ![c] = e]
  /\ UNCHANGED <<bound, tree, orders, target, todo, lines, last, crossed>>

\* APPROVED and the event, in one transaction.  Without rereleaseBoms that is all.
Approve(c, again) ==
  LET e == doing[c]
  IN /\ at[c] = "approve"
     /\ eco' = [eco EXCEPT ![e] = "APPROVED"]
     /\ announced' = [announced EXCEPT ![e] = @ + 1]
     /\ since' = IF announced[e] = 0 THEN [since EXCEPT ![e] = RowsOf(affects[e])] ELSE since
     /\ IF again
        THEN /\ at' = [at EXCEPT ![c] = IF affects[e] = NoVersion THEN "failed" ELSE "release"]
             /\ UNCHANGED <<doing, target, todo, lines, unfinished>>
        ELSE Ends(c) /\ unfinished' = [unfinished EXCEPT ![e] = @ + 1]
     /\ UNCHANGED <<bound, tree, affects, last, history, spent>>

ReleaseAgain(c) ==
  /\ at[c] = "release"
  /\ Reads(c, affects[doing[c]])
  /\ UNCHANGED <<bound, tree, orders, doing, lines, last, together, spent>>

\* A release that fails is only logged; one that was called directly answers with the error.
ReleaseFails(c) ==
  /\ \/ at[c] = "release" /\ affects[doing[c]] \notin made /\ UNCHANGED spent
     \/ at[c] \in {"release", "walk"} /\ Spend("faults")
  /\ IF doing[c] = NoEco THEN Ends(c)
     ELSE /\ at' = [at EXCEPT ![c] = "failed"]
          /\ todo' = [todo EXCEPT ![c] = {}] /\ lines' = [lines EXCEPT ![c] = {}]
          /\ UNCHANGED <<doing, target>>
  /\ UNCHANGED <<bound, tree, orders, last, history>>

\* The status the order gets, whatever it is by now.
OutcomeBlind(c) == "IMPLEMENTED"
OutcomeShy(c) == "APPROVED"
Outcome(c) == IF at[c] = "finish" THEN "IMPLEMENTED" ELSE "APPROVED"

Finish(c) ==
  LET e == doing[c]
  IN /\ at[c] \in {"finish", "failed"}
     /\ eco' = [eco EXCEPT ![e] = Outcome(c)]
     /\ unfinished' = IF at[c] = "failed" THEN [unfinished EXCEPT ![e] = @ + 1] ELSE unfinished
     /\ Ends(c)
     /\ UNCHANGED <<bound, tree, affects, announced, since, last, history, spent>>

\* The process dies, or the database fails outside the try block.
Dies(c) ==
  /\ at[c] # "idle" /\ Spend("faults")
  /\ unfinished' = IF at[c] \notin {"idle", "approve"} /\ doing[c] # NoEco
                   THEN [unfinished EXCEPT ![doing[c]] = @ + 1] ELSE unfinished
  /\ Ends(c)
  /\ UNCHANGED <<bound, tree, eco, affects, announced, since, last, history>>

DrawEnd(c) ==
  /\ at[c] = "draw"
  /\ Ends(c)
  /\ UNCHANGED <<bound, tree, orders, last, history, spent>>

-----------------------------------------------------------------------------

\* What a call that was let in does next, without a fault.
Step(c) ==
  \/ Add(c) \/ DrawEnd(c)
  \/ \E again \in BOOLEAN : Approve(c, again)
  \/ ReleaseAgain(c) \/ Walk(c) \/ Publish(c) \/ Finish(c)

Next ==
  \/ \E v \in Versions : CreateVersion(v)
  \/ \E x \in rows, w \in Versions : LinkSub(x, w)
  \/ \E e \in Ecos, v \in Versions \cup {NoVersion} : CreateEco(e, v)
  \/ \E c \in Calls :
       \/ \E v \in Versions : DrawBegin(c, v) \/ ReleaseDirectly(c, v)
       \/ \E i \in Items : DrawRow(c, i)
       \/ \E v \in Versions, i \in Items : AddBegin(c, v, i)
       \/ \E e \in Ecos : ApproveBegin(c, e)
       \/ Step(c) \/ ReleaseFails(c) \/ Dies(c)

Safety == Init /\ [][Next]_vars

\* A call that runs goes on running.
Spec == Safety /\ \A c \in Calls : WF_vars(Step(c) \/ ReleaseFails(c))

-----------------------------------------------------------------------------
(* Properties *)

\* An order is IMPLEMENTED only when its version was released and the newest snapshot
\* has every component that was there when the order was first approved, although the
\* tree is read row by row while others write, and failures of the release are only
\* logged (approve-eco.handler.ts:81-91).  Two releases that cross may publish the
\* older reading last.
ImplementedWasReleased ==
  \A e \in Ecos : eco[e] = "IMPLEMENTED" =>
    LET v == affects[e]
    IN v \in released /\ (since[e] \subseteq last[v] \/ v \in crossed)

\* A component that consumers were told of is told of by every later snapshot, whatever
\* becomes of the sub-assemblies below it; releases that cross aside.
SnapshotsGrow ==
  [][\A v \in Versions :
       last[v] \cap RowsOf(v) \subseteq last'[v] \/ v \in crossed]_vars

\* IMPLEMENTED is the end of an order; only an approval that was let in before may set
\* it back to APPROVED (approve-eco.handler.ts:65 and :95 look at nothing).
ImplementedIsFinal ==
  [][\A e \in Ecos : eco[e] = "IMPLEMENTED" => eco'[e] = "IMPLEMENTED" \/ e \in together]_vars

\* plm.eco.approved.v1 is written again only after an approval that released nothing or
\* died, or next to another one.
AnnouncedOnce ==
  \A e \in Ecos : announced[e] <= 1 + unfinished[e] \/ e \in together

\* A release ends, whatever the tree looks like: a version may be a part of itself.
EveryCallEnds ==
  \A c \in Calls : at[c] # "idle" ~> at[c] = "idle"

\* docs/MODULES/01-plm/DOMAIN-MODEL.md:36, "BOM nie moze miec cykli (sprawdzane przy
\* dodawaniu komponentu)": no item is a part of itself.  It does not hold: adding a
\* component looks for a double one only.
NoCycles ==
  LET parts == {<<ItemOf[x[1]], x[2]>> : x \in rows}
  IN IsIrreflexive(TransitiveClosure([p \in Items \X Items |-> p \in parts], Items), Items)

\* docs/MODULES/01-plm/DOMAIN-MODEL.md:37, "Po RELEASE wersji BOM, zmiany tylko przez
\* ECO": a released version gets no component while no order names it.  It does not
\* hold: nobody looks at the status.
FrozenOnceReleased ==
  [][\A v \in released : (\E x \in rows' \ rows : x[1] = v) =>
       \E e \in Ecos : eco[e] # "none" /\ affects[e] = v]_vars
=============================================================================
