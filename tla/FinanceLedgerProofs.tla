------------------------- MODULE FinanceLedgerProofs -------------------------
(* Proofs about FinanceLedger, for any messages, handlers, admins and faults. *)
EXTENDS FinanceLedger, SumTheorems

\* Between its lookup and its commit a handler will book whatever it found before.
Committing == {"reliefGl", "reliefCommit", "write"}

\* Effects that a lookup is there to keep from being repeated.
Guarded == (Compensations \cup Releases) \ ByComponent

\* A handler is at the places of its own message only.
Fits(place, m) ==
  /\ place # "idle" => m \in Messages
  /\ place \in {"labour", "overhead", "postWip", "journal"} => m \in Production
  /\ place = "hours" => m \in TimeEntries
  /\ place \in {"relief", "reliefGl", "reliefCommit"} => m \in Releases
  /\ place = "period" => m \in Orders \cup Invoices \cup Compensations
  /\ place \in {"orderCost", "reserve", "liability", "payable", "bill"} => m \in Orders
  /\ place \in {"recognise", "arInvoice"} => m \in Invoices
  /\ place \in {"ledger", "lookup", "write", "void", "mark"} => m \in Compensations

Placed ==
  /\ at \in [Handlers -> Places]
  /\ msg \in [Handlers -> Messages \cup {NoMessage}]
  /\ booked \in [Messages -> Nat]
  /\ \A h \in Handlers : Fits(at[h], msg[h])

\* A handler about to commit is the first to do so, and alone with its message, unless
\* the history says otherwise.
Alone ==
  \A h \in Handlers :
    at[h] \in Committing /\ msg[h] \in Guarded \ together =>
      /\ booked[msg[h]] = 0
      /\ \A g \in Handlers \ {h} : msg[g] = msg[h] => at[g] \notin Committing

Once == \A m \in Guarded \ together : booked[m] <= 1

IInv == Placed /\ Alone /\ Once

LEMMA Disjoint ==
  /\ (Production \cup TimeEntries \cup Orders \cup Invoices) \cap Guarded = {}
  /\ Guarded \subseteq Messages
  /\ Compensations \cap Releases = {}
  BY FinanceLedgerAssumption DEF Guarded, Compensations, Messages, Bookings

LEMMA InitIInv == Init => IInv
  BY FinanceLedgerAssumption, Disjoint DEF Init, IInv, Placed, Alone, Once, Fits, Places, Committing

\* A handler that goes on, or leaves, without entering the stretch between lookup and
\* commit: it books nothing, or what no lookup guards, or what it was about to commit.
LEMMA GoesOn ==
  ASSUME IInv, NEW h \in Handlers, NEW p \in Places \ Committing,
         NEW k \in Messages \cup {NoMessage}, Fits(p, k),
         at' = [at EXCEPT ![h] = p], msg' = [msg EXCEPT ![h] = k],
         UNCHANGED together,
         \/ UNCHANGED booked
         \/ /\ booked' = [booked EXCEPT ![msg[h]] = @ + 1]
            /\ msg[h] \in Messages
            /\ msg[h] \in Guarded => at[h] \in Committing
  PROVE  IInv'
<1> USE Disjoint
<1>1. Placed'
  BY DEF IInv, Placed, Fits
<1>2. Once'
  BY DEF IInv, Placed, Alone, Once
<1>3. Alone'
  BY DEF IInv, Placed, Alone
<1>4. QED
  BY <1>1, <1>2, <1>3 DEF IInv

\* A handler that enters that stretch, or goes on inside it.
LEMMA Enters ==
  ASSUME IInv, NEW h \in Handlers, NEW p \in Committing, Fits(p, msg[h]),
         at' = [at EXCEPT ![h] = p], UNCHANGED <<msg, booked>>,
         together \subseteq together',
         \/ at[h] \in Committing
         \/ msg[h] \notin Guarded
         \/ /\ booked[msg[h]] = 0
            /\ \A g \in Handlers \ {h} :
                 msg[g] = msg[h] /\ at[g] \in Committing => msg[h] \in together'
  PROVE  IInv'
<1> USE Disjoint
<1>1. Placed'
  BY DEF IInv, Placed, Committing, Places
<1>2. Once'
  BY DEF IInv, Once
<1>3. Alone'
  BY DEF IInv, Placed, Alone
<1>4. QED
  BY <1>1, <1>2, <1>3 DEF IInv

LEMMA NextIInv == IInv /\ [Next]_vars => IInv'
<1> SUFFICES ASSUME IInv, [Next]_vars PROVE IInv'
  OBVIOUS
<1>1. \A h \in Handlers : /\ at[h] \in Places /\ msg[h] \in Messages \cup {NoMessage}
                          /\ Fits(at[h], msg[h])
  BY DEF IInv, Placed
<1>2. ASSUME NEW h \in Handlers, UNCHANGED <<msg, together>>,
             NEW p \in Places \ Committing, Fits(p, msg[h]), at' = [at EXCEPT ![h] = p],
             \/ UNCHANGED booked
             \/ /\ booked' = [booked EXCEPT ![msg[h]] = @ + 1]
                /\ msg[h] \in Messages
                /\ msg[h] \in Guarded => at[h] \in Committing
      PROVE  IInv'
  <2>1. msg' = [msg EXCEPT ![h] = msg[h]]
    BY <1>2 DEF IInv, Placed
  <2>2. QED
    BY <1>1, <1>2, <2>1, GoesOn
<1>3. ASSUME NEW h \in Handlers, UNCHANGED together,
             at' = [at EXCEPT ![h] = "idle"], msg' = [msg EXCEPT ![h] = NoMessage],
             \/ UNCHANGED booked
             \/ /\ booked' = [booked EXCEPT ![msg[h]] = @ + 1]
                /\ msg[h] \in Messages
                /\ msg[h] \in Guarded => at[h] \in Committing
      PROVE  IInv'
  <2>1. Fits("idle", NoMessage) /\ "idle" \in Places \ Committing
    BY DEF Fits, Places, Committing
  <2>2. QED
    BY <1>3, <2>1, GoesOn
<1>4. ASSUME NEW h \in Handlers, Step(h) PROVE IInv'
  <2>1. ASSUME NEW m \in Messages, Take(h, m) PROVE IInv'
    <3>1. FirstPlace(m) \in Places \ Committing /\ Fits(FirstPlace(m), m)
      BY FinanceLedgerAssumption
      DEF FirstPlace, Fits, Places, Committing, Messages, Bookings
    <3>2. QED
      BY <2>1, <3>1, GoesOn DEF Take
  <2>2. CASE Labour(h)
    <3>1. Fits("overhead", msg[h]) /\ "overhead" \in Places \ Committing
      BY <1>1, <2>2 DEF Labour, Fits, Places, Committing
    <3>2. QED
      BY <1>2, <2>2, <3>1 DEF Labour, Goto, histories
  <2>3. CASE BookOverhead(h)
    <3>1. Fits("postWip", msg[h]) /\ "postWip" \in Places \ Committing
      BY <1>1, <2>3 DEF BookOverhead, Fits, Places, Committing
    <3>2. QED
      BY <1>2, <2>3, <3>1 DEF BookOverhead, Goto, histories
  <2>4. CASE PostWip(h)
    <3>1. Fits("journal", msg[h]) /\ "journal" \in Places \ Committing
      BY <1>1, <2>4 DEF PostWip, Fits, Places, Committing
    <3>2. msg[h] \in Messages \ Guarded
      BY <1>1, <2>4, Disjoint DEF PostWip, Fits
    <3>3. QED
      BY <1>2, <2>4, <3>1, <3>2 DEF PostWip, Goto, Book, histories
  <2>5. CASE Journal(h)
    BY <1>3, <2>5 DEF Journal, Finish, Throw, Leave, histories
  <2>6. CASE BookTimeEntry(h)
    <3>1. msg[h] \in Messages \ Guarded
      BY <1>1, <2>6, Disjoint DEF BookTimeEntry, Fits
    <3>2. QED
      BY <1>3, <2>6, <3>1 DEF BookTimeEntry, Finish, Leave, Book, histories
  <2>7. CASE Relief(h)
    <3>1. CASE Relieved(msg[h])
      BY <1>3, <2>7, <3>1 DEF Relief, Finish, Leave
    <3>2. CASE ~Relieved(msg[h])
      <4>1. Fits("reliefGl", msg[h]) /\ "reliefGl" \in Committing
        BY <1>1, <2>7 DEF Relief, Fits, Committing
      <4>2. msg[h] \in Guarded => booked[msg[h]] = 0
        BY <2>7, <3>2, Disjoint DEF Relief, Relieved, Guarded, IInv, Placed
      <4>3. together \subseteq together'
        BY <2>7, <3>2 DEF Relief, Meets
      <4>4. \A g \in Handlers \ {h} :
              msg[g] = msg[h] /\ at[g] \in Committing => msg[h] \in together'
        <5>1. \A g \in Handlers \ {h} :
                msg[g] = msg[h] /\ at[g] \in Committing => at[g] \in {"reliefGl", "reliefCommit"}
          BY <1>1, <2>7, Disjoint DEF Relief, Fits, Committing
        <5>2. QED
          BY <2>7, <3>2, <5>1 DEF Relief, Meets
      <4>5. QED
        BY <2>7, <3>2, <4>1, <4>2, <4>3, <4>4, Enters DEF Relief, Goto
    <3>3. QED
      BY <3>1, <3>2
  <2>8. CASE ReliefGl(h)
    <3>1. CASE mockAccount
      <4>1. Fits("reliefCommit", msg[h]) /\ "reliefCommit" \in Committing /\ at[h] \in Committing
        BY <1>1, <2>8 DEF ReliefGl, Fits, Committing
      <4>2. QED
        BY <2>8, <3>1, <4>1, Enters DEF ReliefGl, Goto, histories
    <3>2. CASE ~mockAccount
      BY <1>3, <2>8, <3>2 DEF ReliefGl, Throw, Leave, histories
    <3>3. QED
      BY <3>1, <3>2
  <2>9. CASE ReliefCommit(h)
    <3>1. msg[h] \in Messages /\ at[h] \in Committing
      BY <1>1, <2>9 DEF ReliefCommit, Fits, Committing
    <3>2. QED
      BY <1>3, <2>9, <3>1 DEF ReliefCommit, Finish, Leave, Book, histories
  <2>10. CASE CheckPeriod(h)
    <3>1. Fits(NextPlace(msg[h]), msg[h]) /\ NextPlace(msg[h]) \in Places \ Committing
      BY <1>1, <2>10, FinanceLedgerAssumption DEF CheckPeriod, NextPlace, Fits, Places, Committing
    <3>2. QED
      BY <1>2, <1>3, <2>10, <3>1 DEF CheckPeriod, Goto, Finish, Leave, histories
  <2>11. CASE CostOfOrder(h)
    <3>1. PICK p \in {"reserve", "liability"} : Goto(h, p)
      BY <2>11, Zenon DEF CostOfOrder
    <3>2. Fits(p, msg[h]) /\ p \in Places \ Committing
      BY <1>1, <2>11, <3>1 DEF CostOfOrder, Fits, Places, Committing
    <3>3. UNCHANGED <<msg, booked, together>> /\ at' = [at EXCEPT ![h] = p]
      BY <2>11, <3>1 DEF CostOfOrder, Goto, histories
    <3>4. QED
      BY <1>2, <3>2, <3>3
  <2>11a. CASE ReserveForOrder(h)
    <3>1. Fits("liability", msg[h]) /\ "liability" \in Places \ Committing
      BY <1>1, <2>11a DEF ReserveForOrder, Fits, Places, Committing
    <3>2. QED
      BY <1>2, <2>11a, <3>1 DEF ReserveForOrder, Goto, histories
  <2>12. CASE PostLiability(h)
    <3>1. Fits("payable", msg[h]) /\ "payable" \in Places \ Committing
      BY <1>1, <2>12 DEF PostLiability, Fits, Places, Committing
    <3>2. msg[h] \in Messages \ Guarded
      BY <1>1, <2>12, Disjoint DEF PostLiability, Fits
    <3>3. QED
      BY <1>2, <2>12, <3>1, <3>2 DEF PostLiability, Goto, Book, histories
  <2>13. CASE CreatePayable(h)
    <3>1. Fits("bill", msg[h]) /\ "bill" \in Places \ Committing
      BY <1>1, <2>13 DEF CreatePayable, Fits, Places, Committing
    <3>2. QED
      BY <1>2, <2>13, <3>1 DEF CreatePayable, Goto, histories
  <2>14. CASE CreateApBill(h)
    BY <1>3, <2>14 DEF CreateApBill, Finish, Throw, Leave, histories
  <2>15. CASE Recognise(h)
    <3>1. Fits("arInvoice", msg[h]) /\ "arInvoice" \in Places \ Committing
      BY <1>1, <2>15 DEF Recognise, Fits, Places, Committing
    <3>2. msg[h] \in Messages \ Guarded
      BY <1>1, <2>15, Disjoint DEF Recognise, Fits
    <3>3. CASE at' = [at EXCEPT ![h] = "arInvoice"] /\ UNCHANGED msg
      BY <1>2, <2>15, <3>1, <3>2, <3>3 DEF Recognise, Book, histories
    <3>4. CASE Finish(h)
      BY <1>3, <2>15, <3>2, <3>4 DEF Recognise, Book, Finish, Leave, histories
    <3>5. QED
      BY <2>15, <3>3, <3>4 DEF Recognise, Goto
  <2>16. CASE CreateArInvoice(h)
    BY <1>3, <2>16 DEF CreateArInvoice, Finish, Throw, Leave, histories
  <2>17. CASE CheckLedger(h)
    <3>1. Fits("lookup", msg[h]) /\ "lookup" \in Places \ Committing
      BY <1>1, <2>17 DEF CheckLedger, Fits, Places, Committing
    <3>2. QED
      BY <1>2, <1>3, <2>17, <3>1 DEF CheckLedger, Goto, Finish, Leave, histories
  <2>18. CASE Lookup(h)
    <3>1. msg[h] \in Compensations
      BY <1>1, <2>18 DEF Lookup, Fits
    <3>2. CASE DoneBefore(msg[h]) \/ Due(msg[h]) <= 0
      <4>1. PICK p \in {"void", "mark"} : Goto(h, p)
        BY <2>18, <3>2, Zenon DEF Lookup
      <4>2. Fits(p, msg[h]) /\ p \in Places \ Committing
        BY <3>1 DEF Fits, Places, Committing, Messages
      <4>3. QED
        BY <1>2, <2>18, <3>2, <4>1, <4>2 DEF Lookup, Goto
    <3>3. CASE ~(DoneBefore(msg[h]) \/ Due(msg[h]) <= 0)
      <4>1. Fits("write", msg[h]) /\ "write" \in Committing
        BY <3>1 DEF Fits, Committing, Messages
      <4>2. booked[msg[h]] = 0
        BY <3>1, <3>3 DEF DoneBefore, IInv, Placed, Messages
      <4>3. at' = [at EXCEPT ![h] = "write"] /\ Meets(h, {"write"}) /\ UNCHANGED <<msg, booked>>
        BY <2>18, <3>3 DEF Lookup
      <4>4. together \subseteq together'
        BY <4>3 DEF Meets
      <4>5. \A g \in Handlers \ {h} :
              msg[g] = msg[h] /\ at[g] \in Committing => msg[h] \in together'
        <5>1. \A g \in Handlers \ {h} :
                msg[g] = msg[h] /\ at[g] \in Committing => at[g] = "write"
          BY <1>1, <3>1, Disjoint DEF Fits, Committing
        <5>2. QED
          BY <4>3, <5>1 DEF Meets
      <4>6. QED
        BY <4>1, <4>2, <4>3, <4>4, <4>5, Enters
    <3>4. QED
      BY <3>2, <3>3
  <2>19. CASE Write(h)
    <3>1. msg[h] \in Messages /\ at[h] \in Committing
      BY <1>1, <2>19 DEF Write, Fits, Committing
    <3>2. PICK p \in {"void", "mark"} : Goto(h, p)
      BY <2>19, Zenon DEF Write
    <3>3. Fits(p, msg[h]) /\ p \in Places \ Committing
      BY <1>1, <2>19, <3>2 DEF Write, Fits, Places, Committing
    <3>4. QED
      BY <1>2, <2>19, <3>1, <3>2, <3>3 DEF Write, Goto, Book
  <2>20. CASE Void(h)
    <3>1. Fits("mark", msg[h]) /\ "mark" \in Places \ Committing
      BY <1>1, <2>20 DEF Void, Fits, Places, Committing
    <3>2. QED
      BY <1>2, <2>20, <3>1 DEF Void, Goto, histories
  <2>21. CASE Mark(h)
    BY <1>3, <2>21 DEF Mark, Finish, Throw, Leave, histories
  <2>22. QED
    BY <1>4, <2>1, <2>2, <2>3, <2>4, <2>5, <2>6, <2>7, <2>8, <2>9, <2>10, <2>11, <2>11a, <2>12, <2>13,
       <2>14, <2>15, <2>16, <2>17, <2>18, <2>19, <2>20, <2>21 DEF Step
<1>5. ASSUME NEW h \in Handlers, LabourFails(h) PROVE IInv'
  <2>1. Fits("journal", msg[h]) /\ "journal" \in Places \ Committing
    BY <1>1, <1>5 DEF LabourFails, Fits, Places, Committing
  <2>2. QED
    BY <1>2, <1>5, <2>1 DEF LabourFails, Goto
<1>6. ASSUME NEW h \in Handlers, Dies(h) PROVE IInv'
  BY <1>3, <1>6 DEF Dies, Throw, Leave
<1>7. ASSUME UNCHANGED <<at, msg, booked, together>> PROVE IInv'
  BY <1>7 DEF IInv, Placed, Alone, Once
<1>8. ASSUME NEW m \in Messages, Repeat(m) PROVE IInv'
  BY <1>7, <1>8 DEF Repeat, handlerVars, histories
<1>9. ASSUME NEW a \in Admins, AdminWrites(a) PROVE IInv'
  BY <1>7, <1>9 DEF AdminWrites, handlerVars
<1>10. ASSUME NEW a \in Admins, NEW s \in {"OPEN", "CLOSING", "CLOSED"}, AdminReads(a, s)
       PROVE  IInv'
  BY <1>7, <1>10 DEF AdminReads, handlerVars, histories
<1>11. CASE UNCHANGED vars
  BY <1>7, <1>11 DEF vars, handlerVars, histories
<1> QED
  BY <1>4, <1>5, <1>6, <1>8, <1>9, <1>10, <1>11 DEF Next

\* The inductive invariant holds in every reachable state.
THEOREM Invariance == Spec => []IInv
  BY InitIInv, NextIInv, PTL DEF Spec

\* A compensation or a relief takes effect twice only if two deliveries of it were
\* between lookup and commit at once, or its rows carry another key than the lookup.
THEOREM TwiceNeedsTogether == Spec => []OnceUnlessTogether
<1>1. IInv => OnceUnlessTogether
  BY Disjoint DEF IInv, Once, OnceUnlessTogether, Placed, Guarded, Messages
<1>2. QED
  BY <1>1, Invariance, PTL

-----------------------------------------------------------------------------
(* The closing of the period *)

\* A handler that began when the period was not OPEN has not passed the check, and the
\* period has not been OPEN since.
Shut ==
  /\ late \subseteq Handlers
  /\ late # {} => period # "OPEN"
  /\ late \cap PastCheck = {}

\* Only the check itself lets a handler pass it, and only while the period is OPEN.
LEMMA PassingTheCheck ==
  ASSUME Placed, NEW h \in Handlers, Step(h) \/ LabourFails(h) \/ Dies(h)
  PROVE  /\ PastCheck' \subseteq PastCheck \/ period = "OPEN"
         /\ UNCHANGED period
         /\ late' \subseteq late \cup {h}
         /\ h \in late' \ late => period # "OPEN" /\ h \notin PastCheck'
<1> USE DEF Placed, PastCheck, Goto, Finish, Throw, Leave, histories, periodVars
<1>1. CASE \E m \in Messages : Take(h, m)
  <2>1. PICK m \in Messages : Take(h, m)
    BY <1>1
  <2>2. FirstPlace(m) \in {"labour", "hours", "relief", "period"}
    BY DEF FirstPlace
  <2>3. QED
    BY <2>1, <2>2 DEF Take
<1>2. CASE Labour(h) \/ BookOverhead(h) \/ PostWip(h) \/ Journal(h) \/ BookTimeEntry(h)
  BY <1>2 DEF Labour, BookOverhead, PostWip, Journal, BookTimeEntry
<1>3. CASE Relief(h) \/ ReliefGl(h) \/ ReliefCommit(h)
  BY <1>3 DEF Relief, ReliefGl, ReliefCommit
<1>4. CASE CheckPeriod(h)
  BY <1>4 DEF CheckPeriod, PostingAllowed
<1>5. CASE \/ CostOfOrder(h) \/ ReserveForOrder(h) \/ PostLiability(h) \/ CreatePayable(h)
           \/ CreateApBill(h)
  BY <1>5 DEF CostOfOrder, ReserveForOrder, PostLiability, CreatePayable, CreateApBill
<1>6. CASE Recognise(h) \/ CreateArInvoice(h)
  BY <1>6 DEF Recognise, CreateArInvoice
<1>7. CASE CheckLedger(h) \/ Lookup(h) \/ Write(h)
  BY <1>7 DEF CheckLedger, Lookup, Write
<1>8. CASE Void(h) \/ Mark(h)
  BY <1>8 DEF Void, Mark
<1>9. CASE LabourFails(h) \/ Dies(h)
  BY <1>9 DEF LabourFails, Dies
<1>10. QED
  BY <1>1, <1>2, <1>3, <1>4, <1>5, <1>6, <1>7, <1>8, <1>9 DEF Step

LEMMA ShutStays == Placed /\ Shut /\ [Next]_vars => Shut'
<1> SUFFICES ASSUME Placed, Shut, [Next]_vars PROVE Shut'
  OBVIOUS
<1>1. ASSUME NEW h \in Handlers, Step(h) \/ LabourFails(h) \/ Dies(h) PROVE Shut'
  BY <1>1, PassingTheCheck DEF Shut
<1>2. ASSUME UNCHANGED <<at, period, late>> PROVE Shut'
  BY <1>2 DEF Shut, PastCheck
<1>3. ASSUME NEW m \in Messages, Repeat(m) PROVE Shut'
  BY <1>2, <1>3 DEF Repeat, handlerVars, periodVars, histories
<1>4. ASSUME NEW a \in Admins, AdminWrites(a) PROVE Shut'
  BY <1>4 DEF AdminWrites, handlerVars, Shut, PastCheck
<1>5. ASSUME NEW a \in Admins, NEW s \in {"OPEN", "CLOSING", "CLOSED"}, AdminReads(a, s)
      PROVE  Shut'
  BY <1>2, <1>5 DEF AdminReads, handlerVars, histories
<1>6. CASE UNCHANGED vars
  BY <1>2, <1>6 DEF vars, handlerVars, periodVars, histories
<1>7. QED
  BY <1>1, <1>3, <1>4, <1>5, <1>6 DEF Next

LEMMA OnlyPastTheCheck ==
  ASSUME [Next]_vars, PastCheck = {} PROVE UNCHANGED <<apVars, arVars>>
<1> USE DEF PastCheck
<1>1. ASSUME NEW h \in Handlers, Step(h) PROVE UNCHANGED <<apVars, arVars>>
  <2>1. at[h] \notin {"orderCost", "reserve", "liability", "payable", "bill", "recognise",
                      "arInvoice", "ledger", "lookup", "write", "void", "mark"}
    OBVIOUS
  <2>2. CASE \E m \in Messages : Take(h, m)
    BY <2>2 DEF Take
  <2>3. CASE Labour(h) \/ BookOverhead(h) \/ PostWip(h) \/ Journal(h) \/ BookTimeEntry(h)
    BY <2>3 DEF Labour, BookOverhead, PostWip, Journal, BookTimeEntry
  <2>4. CASE Relief(h) \/ ReliefGl(h) \/ ReliefCommit(h) \/ CheckPeriod(h)
    BY <2>4 DEF Relief, ReliefGl, ReliefCommit, CheckPeriod
  <2>5. QED
    BY <1>1, <2>1, <2>2, <2>3, <2>4
    DEF Step, CostOfOrder, ReserveForOrder, PostLiability, CreatePayable, CreateApBill, Recognise,
        CreateArInvoice, CheckLedger, Lookup, Write, Void, Mark
<1>2. ASSUME NEW h \in Handlers, LabourFails(h) \/ Dies(h) PROVE UNCHANGED <<apVars, arVars>>
  BY <1>2 DEF LabourFails, Dies
<1>3. ASSUME NEW m \in Messages, Repeat(m) PROVE UNCHANGED <<apVars, arVars>>
  BY <1>3 DEF Repeat
<1>4. ASSUME NEW a \in Admins,
             AdminWrites(a) \/ \E s \in {"OPEN", "CLOSING", "CLOSED"} : AdminReads(a, s)
      PROVE  UNCHANGED <<apVars, arVars>>
  BY <1>4 DEF AdminWrites, AdminReads
<1>5. CASE UNCHANGED vars
  BY <1>5 DEF vars
<1>6. QED
  BY <1>1, <1>2, <1>3, <1>4, <1>5 DEF Next

\* Once the handlers that had asked are through, a period that is not OPEN is closed for
\* payables, bills, receivables and revenue, however the admins' operations interleave.
THEOREM ClosedIsFrozen == Spec => FrozenOnceDrained
<1>1. Init => Shut
  BY DEF Init, Shut, PastCheck
<1>2. Shut /\ [Next]_vars =>
        [period # "OPEN" /\ PastCheck \subseteq late => UNCHANGED <<apVars, arVars>>]_vars
  <2>1. ASSUME Shut, [Next]_vars, PastCheck \subseteq late PROVE UNCHANGED <<apVars, arVars>>
    BY <2>1, OnlyPastTheCheck DEF Shut
  <2>2. QED
    BY <2>1
<1>3. IInv => Placed
  BY DEF IInv
<1>4. Spec => []Shut
  BY <1>1, <1>3, ShutStays, Invariance, PTL DEF Spec
<1>5. QED
  BY <1>2, <1>4, PTL DEF Spec, FrozenOnceDrained

-----------------------------------------------------------------------------
(* Types *)

Wips == [open : BOOLEAN, balance : Int, labour : Int, reserved : Int]

\* What the books hold, apart from where the handlers are.
BookTypes ==
  /\ mockAccount \in BOOLEAN
  /\ delivery \in [Messages -> {"never", "ready", "out", "done", "lost"}]
  /\ found \in [Handlers -> Int]
  /\ period \in {"OPEN", "CLOSING", "CLOSED"}
  /\ order \in [Admins -> {"none", "OPEN", "CLOSING", "CLOSED"}]
  /\ ops \in 0..MaxOps
  /\ wip \in Wips
  /\ costs \in Int /\ committed \in Int /\ material \in Int
  /\ processed \subseteq Compensations
  /\ payable \in [Orders -> {"none", "PENDING", "CANCELLED"}]
  /\ bill \in [Orders -> {"none", "POSTED", "VOID"}]
  /\ liability \in Int
  /\ receivable \in [Invoices -> {"none", "PENDING", "CANCELLED"}]
  /\ arInvoice \in [Invoices -> {"none", "POSTED", "VOID"}]
  /\ revenue \in Int /\ reversed \in Int
  /\ together \subseteq Compensations \cup Releases /\ late \subseteq Handlers
  /\ drift \subseteq {"partial", "overlap", "clipped"}
  /\ faults \in 0..MaxFaults

LEMMA TypeParts == Placed /\ BookTypes => TypeOK
  BY FinanceLedgerAssumption DEF Placed, BookTypes, Wips, TypeOK, Fits

\* A handler that stops keeps the types of what it held.
LEMMA LeaveTypes ==
  ASSUME Placed, BookTypes, NEW h \in Handlers, at[h] # "idle",
         NEW state \in {"ready", "done", "lost"}, Leave(h, state)
  PROVE  /\ delivery' \in [Messages -> {"never", "ready", "out", "done", "lost"}]
         /\ found' \in [Handlers -> Int]
  BY DEF Placed, Fits, BookTypes, Leave

LEMMA FaultTypes == ASSUME faults \in 0..MaxFaults, Fault PROVE faults' \in 0..MaxFaults
  BY FinanceLedgerAssumption DEF Fault

\* The WIP account after a step that sets any of its fields.
LEMMA WipMade ==
  ASSUME NEW o \in BOOLEAN, NEW x \in Int, NEW y \in Int, NEW z \in Int
  PROVE  [open |-> o, balance |-> x, labour |-> y, reserved |-> z] \in Wips
  BY DEF Wips

\* An open account; a cleared one; the one there is at first.
LEMMA WipOpened ==
  ASSUME NEW x \in Int, NEW y \in Int, NEW z \in Int
  PROVE  [open |-> TRUE, balance |-> x, labour |-> y, reserved |-> z] \in Wips
  BY WipMade

LEMMA WipCleared ==
  ASSUME NEW x \in Int
  PROVE  [open |-> TRUE, balance |-> x, labour |-> 0, reserved |-> 0] \in Wips
<1>1. 0 \in Int
  OBVIOUS
<1> QED
  BY <1>1, WipOpened, Zenon

LEMMA NoWipTypes == NoWip \in Wips
<1>1. 0 \in Int
  OBVIOUS
<1> QED
  BY <1>1, WipMade, Zenon DEF NoWip

LEMMA WipFields ==
  ASSUME wip \in Wips
  PROVE  /\ wip.open \in BOOLEAN
         /\ wip.balance \in Int /\ wip.labour \in Int /\ wip.reserved \in Int
  BY DEF Wips

LEMMA Added ==
  ASSUME wip \in Wips, NEW amount \in Int, NEW labour \in Int, AddToWip(amount, labour)
  PROVE  wip' \in Wips
<1>1. wip' = [open |-> TRUE, balance |-> wip.balance + amount, labour |-> wip.labour + labour,
              reserved |-> wip.reserved]
  BY DEF AddToWip, Wips
<1>2. wip.balance + amount \in Int /\ wip.labour + labour \in Int /\ wip.reserved \in Int
  BY WipFields
<1> QED
  BY <1>1, <1>2, WipMade

LEMMA DueIsNumber ==
  ASSUME BookTypes, NEW c \in Compensations PROVE Due(c) \in Int
<1>1. wip.balance \in Int /\ wip.reserved \in Int /\ material \in Int /\ revenue \in Int
  BY WipFields DEF BookTypes
<1>2. Amount[c] \in Nat /\ (c \in CommitmentReleases => Amount[RefersTo[c]] \in Nat)
  BY FinanceLedgerAssumption DEF Messages, Bookings
<1> QED
  BY <1>1, <1>2 DEF Due

LEMMA NextBookTypes == Placed /\ BookTypes /\ [Next]_vars => BookTypes'
<1> SUFFICES ASSUME Placed, BookTypes, [Next]_vars PROVE BookTypes'
  OBVIOUS
<1> USE FinanceLedgerAssumption
<1>1. \A h \in Handlers : Fits(at[h], msg[h])
  BY DEF Placed
<1>2. /\ \A m \in Messages : Amount[m] \in Nat
      /\ \A m \in Production : Overhead[m] \in Nat
      /\ Messages = Bookings \cup Compensations
  BY DEF Messages
<1>w. /\ wip \in Wips /\ wip.open \in BOOLEAN
      /\ wip.balance \in Int /\ wip.labour \in Int /\ wip.reserved \in Int
      /\ costs \in Int /\ committed \in Int /\ material \in Int
  BY WipFields DEF BookTypes
<1>3. ASSUME NEW h \in Handlers, NEW m \in Messages, Take(h, m) PROVE BookTypes'
  BY <1>3 DEF Take, BookTypes, periodVars, wipVars, apVars, arVars
<1>4. ASSUME NEW h \in Handlers, Labour(h) \/ BookOverhead(h) \/ PostWip(h) PROVE BookTypes'
  <2>1. msg[h] \in Production /\ Amount[msg[h]] \in Nat /\ Overhead[msg[h]] \in Nat
    BY <1>1, <1>2, <1>4 DEF Labour, BookOverhead, PostWip, Fits, Bookings
  <2>2. CASE Labour(h) \/ BookOverhead(h)
    <3>1. costs' \in Int
      BY <1>w, <2>1, <2>2 DEF Labour, BookOverhead
    <3>2. UNCHANGED <<mockAccount, delivery, found, periodVars, wip, committed, material, processed,
                      apVars, arVars, histories, faults>>
      BY <2>2 DEF Labour, BookOverhead, Goto
    <3> QED
      BY <3>1, <3>2 DEF BookTypes, periodVars, apVars, arVars, histories
  <2>3. CASE PostWip(h)
    <3>1. wip' \in Wips
      BY <2>1, <2>3, Added DEF PostWip, BookTypes
    <3> QED
      BY <2>3, <3>1 DEF PostWip, Goto, BookTypes, periodVars, apVars, arVars, histories
  <2> QED
    BY <1>4, <2>2, <2>3
<1>5. ASSUME NEW h \in Handlers, LabourFails(h) PROVE BookTypes'
  <2>1. UNCHANGED <<mockAccount, delivery, found, periodVars, wipVars, processed, apVars, arVars,
                    together, late>>
    BY <1>5 DEF LabourFails, Goto
  <2>2. faults' \in 0..MaxFaults /\ drift' \subseteq {"partial", "overlap", "clipped"}
    BY <1>5, FaultTypes DEF LabourFails, BookTypes
  <2> QED
    BY <2>1, <2>2 DEF BookTypes, periodVars, wipVars, apVars, arVars
<1>6. ASSUME NEW h \in Handlers, Journal(h) \/ ReliefGl(h) PROVE BookTypes'
  <2>1. UNCHANGED <<mockAccount, periodVars, wipVars, processed, apVars, arVars, histories, faults>>
    BY <1>6 DEF Journal, ReliefGl
  <2>2. /\ delivery' \in [Messages -> {"never", "ready", "out", "done", "lost"}]
        /\ found' \in [Handlers -> Int]
    BY <1>6, LeaveTypes DEF Journal, ReliefGl, Goto, Finish, Throw, BookTypes
  <2> QED
    BY <2>1, <2>2 DEF BookTypes, periodVars, wipVars, apVars, arVars, histories
<1>7. ASSUME NEW h \in Handlers, BookTimeEntry(h) PROVE BookTypes'
  <2>1. Amount[msg[h]] \in Nat
    BY <1>1, <1>2, <1>7 DEF BookTimeEntry, Fits, Bookings
  <2>2. wip' \in Wips
    BY <1>w, <1>7, <2>1, Added DEF BookTimeEntry
  <2>3. costs' \in Int
    BY <1>w, <1>7, <2>1 DEF BookTimeEntry
  <2> QED
    BY <1>7, <2>2, <2>3, LeaveTypes
    DEF BookTimeEntry, Finish, BookTypes, periodVars, apVars, arVars, histories
<1>8. ASSUME NEW h \in Handlers, Relief(h) PROVE BookTypes'
  <2>1. msg[h] \in Releases
    BY <1>1, <1>8 DEF Relief, Fits
  <2> QED
    BY <1>8, <2>1, LeaveTypes
    DEF Relief, Meets, Goto, Finish, BookTypes, periodVars, wipVars, apVars, arVars
<1>9. ASSUME NEW h \in Handlers, ReliefCommit(h) PROVE BookTypes'
  <2>1. Amount[msg[h]] \in Nat
    BY <1>1, <1>2, <1>9 DEF ReliefCommit, Fits, Bookings
  <2>2. /\ wip.balance + Amount[msg[h]] \in Int /\ wip.reserved - Amount[msg[h]] \in Int
        /\ costs' \in Int /\ material' \in Int /\ Amount[msg[h]] \in Int
    BY <1>w, <1>9, <2>1 DEF ReliefCommit
  <2>3. wip.open => wip' \in Wips
    <3> HAVE wip.open
    <3>1. wip' = [open |-> wip.open, balance |-> wip.balance + Amount[msg[h]],
                  labour |-> wip.labour, reserved |-> wip.reserved - Amount[msg[h]]]
      BY <1>w, <1>9 DEF ReliefCommit, Wips
    <3> QED
      BY <1>w, <2>2, <3>1, WipMade
  <2>4. ~wip.open => wip' \in Wips
    <3> HAVE ~wip.open
    <3>1. wip' = [open |-> TRUE, balance |-> Amount[msg[h]], labour |-> 0, reserved |-> 0]
      BY <1>9 DEF ReliefCommit, NoWip
    <3> QED
      BY <2>2, <3>1, WipCleared
  <2> QED
    BY <1>9, <2>2, <2>3, <2>4, LeaveTypes
    DEF ReliefCommit, Finish, BookTypes, periodVars, apVars, arVars, histories
<1>10. ASSUME NEW h \in Handlers, CheckPeriod(h) PROVE BookTypes'
  BY <1>10, LeaveTypes
  DEF CheckPeriod, Goto, Finish, BookTypes, periodVars, wipVars, apVars, arVars, histories
<1>11. ASSUME NEW h \in Handlers,
              \/ CostOfOrder(h) \/ ReserveForOrder(h) \/ PostLiability(h)
              \/ CreatePayable(h) \/ CreateApBill(h)
       PROVE  BookTypes'
  <2>1. msg[h] \in Orders /\ Amount[msg[h]] \in Nat
    BY <1>1, <1>2, <1>11
    DEF CostOfOrder, ReserveForOrder, PostLiability, CreatePayable, CreateApBill, Fits, Bookings
  <2>1a. CASE CostOfOrder(h)
    <3>1. costs' \in Int /\ committed' \in Int
      BY <1>w, <2>1, <2>1a DEF CostOfOrder
    <3>2. UNCHANGED <<mockAccount, delivery, found, periodVars, wip, material, processed, apVars,
                      arVars, histories>>
      BY <2>1a DEF CostOfOrder, Goto
    <3>3. faults' \in 0..MaxFaults
      BY <2>1a, FaultTypes DEF CostOfOrder, BookTypes
    <3> QED
      BY <3>1, <3>2, <3>3 DEF BookTypes, periodVars, apVars, arVars, histories
  <2>2. CASE ReserveForOrder(h)
    <3>1. wip.reserved + Amount[msg[h]] \in Int
      BY <1>w, <2>1
    <3>2. wip' = wip \/ wip' = [open |-> TRUE, balance |-> wip.balance, labour |-> wip.labour,
                               reserved |-> wip.reserved + Amount[msg[h]]]
      BY <1>w, <2>2 DEF ReserveForOrder, Wips
    <3>3. wip' \in Wips
      <4>1. [open |-> TRUE, balance |-> wip.balance, labour |-> wip.labour,
             reserved |-> wip.reserved + Amount[msg[h]]] \in Wips
        BY <1>w, <3>1, WipOpened
      <4> QED
        BY <1>w, <3>2, <4>1
    <3> QED
      BY <2>2, <3>3, FaultTypes
      DEF ReserveForOrder, Goto, BookTypes, periodVars, apVars, arVars, histories
  <2>3. CASE PostLiability(h)
    BY <2>1, <2>3 DEF PostLiability, Goto, BookTypes, periodVars, wipVars, arVars, histories
  <2>4. CASE CreatePayable(h)
    BY <2>1, <2>4, FaultTypes
    DEF CreatePayable, Goto, BookTypes, periodVars, wipVars, arVars, histories
  <2>5. CASE CreateApBill(h)
    BY <2>1, <2>5, LeaveTypes
    DEF CreateApBill, Finish, BookTypes, periodVars, wipVars, arVars, histories
  <2> QED
    BY <1>11, <2>1a, <2>2, <2>3, <2>4, <2>5
<1>12. ASSUME NEW h \in Handlers, Recognise(h) \/ CreateArInvoice(h) PROVE BookTypes'
  <2>1. msg[h] \in Invoices /\ Amount[msg[h]] \in Nat
    BY <1>1, <1>2, <1>12 DEF Recognise, CreateArInvoice, Fits, Bookings
  <2>2. CASE Recognise(h)
    BY <2>1, <2>2, FaultTypes, LeaveTypes
    DEF Recognise, Goto, Finish, BookTypes, periodVars, wipVars, apVars, histories
  <2>3. CASE CreateArInvoice(h)
    BY <2>1, <2>3, LeaveTypes
    DEF CreateArInvoice, Finish, BookTypes, periodVars, wipVars, apVars, histories
  <2> QED
    BY <1>12, <2>2, <2>3
<1>13. ASSUME NEW h \in Handlers, CheckLedger(h) PROVE BookTypes'
  BY <1>13, FaultTypes, LeaveTypes
  DEF CheckLedger, Goto, Finish, BookTypes, periodVars, wipVars, apVars, arVars, histories
<1>14. ASSUME NEW h \in Handlers, Lookup(h) PROVE BookTypes'
  <2>1. msg[h] \in Compensations
    BY <1>1, <1>14 DEF Lookup, Fits
  <2>2. Due(msg[h]) \in Int
    BY <2>1, DueIsNumber
  <2>3. /\ found' \in [Handlers -> Int] /\ UNCHANGED delivery
        /\ together' \subseteq Compensations \cup Releases
    <3>1. CASE DoneBefore(msg[h]) \/ Due(msg[h]) <= 0
      BY <1>14, <3>1 DEF Lookup, Goto, BookTypes
    <3>2. CASE ~(DoneBefore(msg[h]) \/ Due(msg[h]) <= 0)
      BY <1>14, <2>1, <2>2, <3>2 DEF Lookup, Meets, BookTypes
    <3> QED
      BY <3>1, <3>2
  <2> QED
    BY <1>14, <2>3 DEF Lookup, BookTypes, periodVars, wipVars, apVars, arVars
<1>15. ASSUME NEW h \in Handlers, Write(h) PROVE BookTypes'
  <2>1. msg[h] \in Compensations /\ found[h] \in Int
    BY <1>1, <1>15 DEF Write, Fits, BookTypes
  <2>2. UNCHANGED <<delivery, found, mockAccount, periodVars, processed, together, late, faults>>
    BY <1>15 DEF Write, Goto
  <2>3. \A a, b \in Int : Least(a, b) \in Int
    BY DEF Least
  <2>4. CASE ReverseWip(found[h])
    <3>1. wip' = [open |-> TRUE, balance |-> 0, labour |-> 0, reserved |-> 0]
      BY <2>4 DEF ReverseWip, NoWip
    <3>2. wip' \in Wips
      <4>1. 0 \in Int
        OBVIOUS
      <4> QED
        BY <3>1, <4>1, WipCleared, Zenon
    <3>3. costs' \in Int
      BY <1>w, <2>1, <2>4 DEF ReverseWip
    <3> QED
      BY <2>2, <2>4, <3>2, <3>3 DEF ReverseWip, BookTypes, periodVars, apVars, arVars
  <2>5. CASE ReverseMaterial(found[h])
    <3>1. /\ wip.balance - Least(wip.balance, found[h]) \in Int
          /\ wip.reserved - Least(wip.reserved, found[h]) \in Int
          /\ costs' \in Int
      BY <1>w, <2>1, <2>3, <2>5 DEF ReverseMaterial
    <3>2. wip' = wip \/ wip' = [open |-> wip.open,
                               balance |-> wip.balance - Least(wip.balance, found[h]),
                               labour |-> wip.labour,
                               reserved |-> wip.reserved - Least(wip.reserved, found[h])]
      BY <1>w, <2>5 DEF ReverseMaterial, Wips
    <3>3. wip' \in Wips
      BY <1>w, <3>1, <3>2, WipMade
    <3> QED
      BY <2>2, <2>5, <3>1, <3>3 DEF ReverseMaterial, BookTypes, periodVars, apVars, arVars
  <2>6. CASE msg[h] \in CommitmentReleases /\ ReleaseCommitment(RefersTo[msg[h]], found[h])
    <3>1. /\ wip.reserved - Least(wip.reserved, found[h]) \in Int
          /\ liability' \in Int
      BY <1>w, <2>1, <2>3, <2>6 DEF ReleaseCommitment, BookTypes
    <3>2. wip' = wip \/ wip' = [open |-> wip.open, balance |-> wip.balance, labour |-> wip.labour,
                               reserved |-> wip.reserved - Least(wip.reserved, found[h])]
      BY <1>w, <2>6 DEF ReleaseCommitment, Wips
    <3>3. wip' \in Wips
      BY <1>w, <3>1, <3>2, WipMade
    <3> QED
      BY <2>2, <2>6, <3>1, <3>3 DEF ReleaseCommitment, BookTypes, periodVars, arVars
  <2>7. CASE ReverseRevenue(found[h])
    BY <2>1, <2>2, <2>7 DEF ReverseRevenue, BookTypes, periodVars, wipVars, apVars
  <2> QED
    BY <1>15, <2>4, <2>5, <2>6, <2>7 DEF Write
<1>16. ASSUME NEW h \in Handlers, Void(h) PROVE BookTypes'
  BY <1>16, FaultTypes DEF Void, Goto, BookTypes, periodVars, wipVars, histories
<1>17. ASSUME NEW h \in Handlers, Mark(h) PROVE BookTypes'
  <2>1. msg[h] \in Compensations
    BY <1>1, <1>17 DEF Mark, Fits
  <2> QED
    BY <1>17, <2>1, FaultTypes, LeaveTypes
    DEF Mark, Finish, BookTypes, periodVars, wipVars, apVars, arVars, histories
<1>18. ASSUME NEW h \in Handlers, Dies(h) PROVE BookTypes'
  <2>1. UNCHANGED <<mockAccount, periodVars, wipVars, processed, apVars, arVars, together, late>>
    BY <1>18 DEF Dies
  <2>2. /\ faults' \in 0..MaxFaults /\ drift' \subseteq {"partial", "overlap", "clipped"}
        /\ delivery' \in [Messages -> {"never", "ready", "out", "done", "lost"}]
        /\ found' \in [Handlers -> Int]
    BY <1>18, FaultTypes, LeaveTypes DEF Dies, Throw, BookTypes
  <2> QED
    BY <2>1, <2>2 DEF BookTypes, periodVars, wipVars, apVars, arVars
<1>19. ASSUME NEW m \in Messages, Repeat(m) PROVE BookTypes'
  BY <1>19, FaultTypes
  DEF Repeat, handlerVars, BookTypes, periodVars, wipVars, apVars, arVars, histories
<1>20. ASSUME NEW a \in Admins, AdminWrites(a) PROVE BookTypes'
  BY <1>20 DEF AdminWrites, BookTypes, brokerVars, handlerVars, wipVars, apVars, arVars
<1>21. ASSUME NEW a \in Admins, NEW s \in {"OPEN", "CLOSING", "CLOSED"}, AdminReads(a, s)
       PROVE  BookTypes'
  BY <1>21 DEF AdminReads, BookTypes, brokerVars, handlerVars, wipVars, apVars, arVars, histories
<1>22. CASE UNCHANGED vars
  BY <1>22
  DEF vars, BookTypes, brokerVars, handlerVars, periodVars, wipVars, apVars, arVars, histories
<1> QED
  BY <1>3, <1>4, <1>5, <1>6, <1>7, <1>8, <1>9, <1>10, <1>11, <1>12, <1>13, <1>14, <1>15, <1>16,
     <1>17, <1>18, <1>19, <1>20, <1>21, <1>22 DEF Next, Step

\* Types: whoever is at a place of a compensation has a compensation in hand, and every
\* amount stays a number, for any messages, handlers, admins and faults.
THEOREM LedgerTypeCorrect == Spec => []TypeOK
<1>1. Init => BookTypes
  BY FinanceLedgerAssumption, NoWipTypes DEF Init, BookTypes
<1>2. IInv => Placed
  BY DEF IInv
<1>3. Spec => []Placed
  BY <1>2, Invariance, PTL
<1>4. Spec => []BookTypes
  BY <1>1, <1>3, NextBookTypes, PTL DEF Spec
<1> QED
  BY <1>3, <1>4, TypeParts, PTL

-----------------------------------------------------------------------------
(* The WIP account and its cost rows *)

Flying == SumFunction([h \in Handlers |-> InFlight(h)])

\* A compensation that writes has found something to take back; before the first
\* booking there is no account to hold a balance.
Owed == \A h \in Handlers : at[h] = "write" => found[h] > 0
Opened == ~ wip.open => wip.balance = 0
Audited == Owed /\ Opened /\ WipIsAudited

FlightsCounted == \A h \in Handlers : InFlight(h) \in Int

LEMMA FlightTypes == Placed => FlightsCounted
<1> SUFFICES ASSUME Placed, NEW h \in Handlers PROVE InFlight(h) \in Int
  BY DEF FlightsCounted
<1>1. at[h] \in {"overhead", "postWip"} => msg[h] \in Production
  BY DEF Placed, Fits
<1>2. \A m \in Production : Amount[m] \in Int /\ Overhead[m] \in Int
  BY FinanceLedgerAssumption DEF Messages, Bookings
<1> QED
  BY <1>1, <1>2 DEF InFlight

LEMMA FlightTypesAfter == Placed' => FlightsCounted'
  BY FlightTypes, PTL

\* One handler moves.
LEMMA OneFlies ==
  ASSUME Placed, Placed', NEW h \in Handlers,
         \A g \in Handlers \ {h} : at'[g] = at[g] /\ msg'[g] = msg[g]
  PROVE  /\ Flying \in Int /\ Flying' \in Int
         /\ InFlight(h) \in Int /\ InFlight(h)' \in Int
         /\ Flying' = Flying + InFlight(h)' - InFlight(h)
<1> DEFINE f == [g \in Handlers |-> InFlight(g)]
           e == [g \in Handlers |-> InFlight(g)']
<1>1. \A g \in Handlers : InFlight(g) \in Int /\ InFlight(g)' \in Int
  BY FlightTypes, FlightTypesAfter DEF FlightsCounted
<1>2. \A g \in Handlers \ {h} : InFlight(g)' = InFlight(g)
  BY DEF InFlight
<1>3. /\ DOMAIN f = Handlers /\ DOMAIN e = Handlers
      /\ \A g \in Handlers : f[g] \in Int /\ e[g] \in Int
      /\ \A g \in Handlers \ {h} : f[g] = e[g]
      /\ f[h] = InFlight(h) /\ e[h] = InFlight(h)'
  BY <1>1, <1>2
<1>4. Flying = SumFunction(f) /\ Flying' = SumFunction(e)
  BY DEF Flying
<1> HIDE DEF f, e
<1>5. IsFiniteSet(Handlers)
  BY FinanceLedgerAssumption
<1>6. \A g \in Handlers : f[g] \in Int /\ e[g] \in Int
  BY <1>3
<1>7. SumFunctionOnSet(e, Handlers) = SumFunctionOnSet(f, Handlers) + e[h] - f[h]
  BY <1>3, <1>5, <1>6, SumUpdate
<1>8. SumFunctionOnSet(e, Handlers) \in Int /\ SumFunctionOnSet(f, Handlers) \in Int
  BY <1>5, <1>6, SumType
<1>9. Flying = SumFunctionOnSet(f, Handlers) /\ Flying' = SumFunctionOnSet(e, Handlers)
  BY <1>3, <1>4, Zenon DEF SumFunction
<1> QED
  BY <1>1, <1>3, <1>7, <1>8, <1>9, Zenon

\* The rows and the account change by the same, but for what is on its way.
LEMMA BothChange ==
  ASSUME Placed, Placed', BookTypes, BookTypes', WipIsAudited, NEW h \in Handlers,
         \A g \in Handlers \ {h} : at'[g] = at[g] /\ msg'[g] = msg[g],
         drift \subseteq drift',
         drift' = {} =>
           costs' - costs = wip'.balance - wip.balance + committed' - committed
                              + InFlight(h)' - InFlight(h)
  PROVE  WipIsAudited'
<1> SUFFICES ASSUME drift' = {} PROVE costs' = wip'.balance + committed' + Flying'
  BY DEF WipIsAudited, Flying
<1>1. costs = wip.balance + committed + Flying
  BY DEF WipIsAudited, Flying
<1>2. /\ Flying \in Int /\ Flying' \in Int
      /\ InFlight(h) \in Int /\ InFlight(h)' \in Int
      /\ Flying' = Flying + InFlight(h)' - InFlight(h)
  BY OneFlies
<1>3. /\ costs \in Int /\ costs' \in Int /\ wip \in Wips /\ wip' \in Wips
      /\ committed \in Int /\ committed' \in Int
  BY DEF BookTypes
<1>4. wip.balance \in Int /\ wip'.balance \in Int
  BY <1>3 DEF Wips
<1>5. costs' - costs = wip'.balance - wip.balance + committed' - committed
                         + InFlight(h)' - InFlight(h)
  OBVIOUS
<1> DEFINE base == wip.balance + committed
           base2 == wip'.balance + committed'
           flown == InFlight(h)' - InFlight(h)
<1>6. base \in Int /\ base2 \in Int /\ costs = base + Flying
  BY <1>1, <1>3, <1>4
<1>7. flown \in Int /\ Flying' = Flying + flown
  BY <1>2
<1>8. costs' - costs = base2 - base + flown
  BY <1>2, <1>3, <1>4, <1>5
<1> HIDE DEF base, base2, flown
<1>9. costs' = base2 + Flying'
  <2>1. costs \in Int /\ costs' \in Int
    BY <1>3
  <2>2. costs' = costs + (base2 - base + flown)
    BY <1>6, <1>7, <1>8, <2>1
  <2>3. /\ costs = base + Flying /\ base \in Int /\ base2 \in Int
        /\ Flying \in Int /\ Flying' \in Int
    BY <1>2, <1>6
  <2>4. Flying' = Flying + flown /\ flown \in Int
    BY <1>7
  <2>5. costs' = (base + Flying) + (base2 - base + flown)
    BY <2>2, <2>3
  <2>6. costs' = base2 + (Flying + flown)
    BY <2>3, <2>4, <2>5
  <2> QED
    BY <2>4, <2>6
<1> QED
  BY <1>9, Zenon DEF base2

\* The case of every step but an order's: no order's row is written.
LEMMA RowsAndAccount ==
  ASSUME Placed, Placed', BookTypes, BookTypes', WipIsAudited, NEW h \in Handlers,
         \A g \in Handlers \ {h} : at'[g] = at[g] /\ msg'[g] = msg[g],
         drift \subseteq drift', UNCHANGED committed,
         drift' = {} => costs' - costs = wip'.balance - wip.balance + InFlight(h)' - InFlight(h)
  PROVE  WipIsAudited'
<1>1. committed \in Int /\ wip.balance \in Int /\ wip'.balance \in Int
  BY DEF BookTypes, Wips
<1>2. InFlight(h) \in Int /\ InFlight(h)' \in Int
  BY OneFlies
<1>3. drift' = {} => costs' - costs = wip'.balance - wip.balance + committed' - committed
                                        + InFlight(h)' - InFlight(h)
  BY <1>1, <1>2
<1> QED
  BY <1>3, BothChange

LEMMA OneMoves ==
  ASSUME Placed, BookTypes, NEW h \in Handlers, Step(h) \/ LabourFails(h) \/ Dies(h)
  PROVE  \A g \in Handlers \ {h} : at'[g] = at[g] /\ msg'[g] = msg[g] /\ found'[g] = found[g]
<1>t. /\ at \in [Handlers -> Places] /\ msg \in [Handlers -> Messages \cup {NoMessage}]
      /\ found \in [Handlers -> Int]
  BY DEF Placed, BookTypes
<1>g. ASSUME NEW p, Goto(h, p)
      PROVE  \A g \in Handlers \ {h} : at'[g] = at[g] /\ msg'[g] = msg[g] /\ found'[g] = found[g]
  BY <1>t, <1>g DEF Goto
<1>l. ASSUME NEW state, Leave(h, state)
      PROVE  \A g \in Handlers \ {h} : at'[g] = at[g] /\ msg'[g] = msg[g] /\ found'[g] = found[g]
  BY <1>t, <1>l DEF Leave
<1>1. CASE \E m \in Messages : Take(h, m)
  BY <1>t, <1>1 DEF Take
<1>2. CASE Labour(h) \/ BookOverhead(h) \/ PostWip(h) \/ Journal(h) \/ BookTimeEntry(h)
  BY <1>g, <1>l, <1>2, Zenon
  DEF Labour, BookOverhead, PostWip, Journal, BookTimeEntry, Finish, Throw
<1>3. CASE Relief(h) \/ ReliefGl(h) \/ ReliefCommit(h) \/ CheckPeriod(h)
  BY <1>g, <1>l, <1>3, Zenon DEF Relief, ReliefGl, ReliefCommit, CheckPeriod, Finish, Throw
<1>4. CASE \/ CostOfOrder(h) \/ ReserveForOrder(h) \/ PostLiability(h) \/ CreatePayable(h)
           \/ CreateApBill(h)
  BY <1>g, <1>l, <1>4, Zenon
  DEF CostOfOrder, ReserveForOrder, PostLiability, CreatePayable, CreateApBill, Finish
<1>5. CASE Recognise(h) \/ CreateArInvoice(h)
  BY <1>g, <1>l, <1>5, Zenon DEF Recognise, CreateArInvoice, Finish
<1>6. CASE Lookup(h)
  <2>1. CASE DoneBefore(msg[h]) \/ Due(msg[h]) <= 0
    BY <1>g, <1>6, <2>1, Zenon DEF Lookup
  <2>2. CASE ~ (DoneBefore(msg[h]) \/ Due(msg[h]) <= 0)
    <3>1. /\ at' = [at EXCEPT ![h] = "write"] /\ UNCHANGED msg
          /\ found' = [found EXCEPT ![h] = Due(msg[h])]
      BY <1>6, <2>2, Zenon DEF Lookup
    <3> QED
      BY <1>t, <3>1
  <2> QED
    BY <2>1, <2>2
<1>7. CASE CheckLedger(h) \/ Write(h) \/ Void(h) \/ Mark(h)
  BY <1>g, <1>l, <1>7, Zenon DEF CheckLedger, Write, Void, Mark, Finish
<1>8. CASE LabourFails(h) \/ Dies(h)
  BY <1>g, <1>l, <1>8, Zenon DEF LabourFails, Dies, Throw
<1> QED
  BY <1>1, <1>2, <1>3, <1>4, <1>5, <1>6, <1>7, <1>8 DEF Step

\* A step in no stretch between cost rows and the account leaves both as they are.
LEMMA Untouched ==
  ASSUME Placed, Placed', BookTypes, BookTypes', WipIsAudited, NEW h \in Handlers,
         \A g \in Handlers \ {h} : at'[g] = at[g] /\ msg'[g] = msg[g],
         at[h] \notin {"overhead", "postWip"}, at'[h] \notin {"overhead", "postWip"},
         UNCHANGED <<costs, committed>>, wip'.balance = wip.balance, drift \subseteq drift'
  PROVE  WipIsAudited'
<1>1. InFlight(h) = 0 /\ InFlight(h)' = 0
  BY DEF InFlight
<1>2. costs \in Int /\ wip.balance \in Int
  BY WipFields DEF BookTypes
<1>3. costs' - costs = wip'.balance - wip.balance + InFlight(h)' - InFlight(h)
  BY <1>1, <1>2
<1> QED
  BY <1>3, RowsAndAccount

\* An open account stays open; only a lookup leads to a write.
LEMMA OpenedStays ==
  ASSUME Placed, BookTypes, Opened, NEW h \in Handlers, Step(h) \/ LabourFails(h) \/ Dies(h)
  PROVE  Opened'
<1>1. wip = [open |-> wip.open, balance |-> wip.balance, labour |-> wip.labour,
             reserved |-> wip.reserved]
  BY DEF BookTypes, Wips
<1>2. CASE UNCHANGED wip
  BY <1>2 DEF Opened
<1>3. CASE \/ Labour(h) \/ BookOverhead(h) \/ Journal(h) \/ Relief(h) \/ ReliefGl(h)
           \/ CheckPeriod(h) \/ CostOfOrder(h)
  BY <1>2, <1>3 DEF Labour, BookOverhead, Journal, Relief, ReliefGl, CheckPeriod, CostOfOrder,
                    wipVars
<1>4. CASE PostWip(h) \/ BookTimeEntry(h) \/ ReserveForOrder(h)
  BY <1>1, <1>2, <1>4 DEF PostWip, BookTimeEntry, ReserveForOrder, AddToWip, Opened
<1>5. CASE ReliefCommit(h)
  BY <1>1, <1>5 DEF ReliefCommit, NoWip, Opened
<1>6. CASE Write(h)
  <2>1. CASE ReverseWip(found[h])
    BY <2>1 DEF ReverseWip, NoWip, Opened
  <2>2. CASE ReverseMaterial(found[h])
    <3>1. CASE wip.open
      <4>1. wip'.open = wip.open
        BY <1>1, <2>2, <3>1 DEF ReverseMaterial
      <4> QED
        BY <3>1, <4>1 DEF Opened
    <3>2. CASE ~ wip.open
      BY <1>2, <2>2, <3>2 DEF ReverseMaterial
    <3> QED
      BY <3>1, <3>2
  <2>3. CASE ReleaseCommitment(RefersTo[msg[h]], found[h])
    BY <1>1, <2>3 DEF ReleaseCommitment, Opened
  <2>4. CASE ReverseRevenue(found[h])
    BY <1>2, <2>4 DEF ReverseRevenue, wipVars
  <2> QED
    BY <1>6, <2>1, <2>2, <2>3, <2>4 DEF Write
<1>7. CASE (\E m \in Messages : Take(h, m)) \/ LabourFails(h) \/ Dies(h)
  BY <1>2, <1>7 DEF Take, LabourFails, Dies, wipVars
<1>8. CASE \/ PostLiability(h) \/ CreatePayable(h) \/ CreateApBill(h) \/ Recognise(h)
           \/ CreateArInvoice(h) \/ CheckLedger(h) \/ Lookup(h) \/ Void(h) \/ Mark(h)
  BY <1>2, <1>8 DEF PostLiability, CreatePayable, CreateApBill, Recognise, CreateArInvoice,
                    CheckLedger, Lookup, Void, Mark, wipVars
<1> QED
  BY <1>3, <1>4, <1>5, <1>6, <1>7, <1>8 DEF Step

LEMMA OwedStays ==
  ASSUME Placed, BookTypes, Owed, NEW h \in Handlers, Step(h) \/ LabourFails(h) \/ Dies(h)
  PROVE  Owed'
<1>t. at \in [Handlers -> Places] /\ found \in [Handlers -> Int]
  BY DEF Placed, BookTypes
<1>o. ASSUME at'[h] = "write" => found'[h] > 0 PROVE Owed'
  BY <1>o, OneMoves DEF Owed
<1>g. ASSUME NEW p, p # "write", Goto(h, p) PROVE Owed'
  BY <1>g, <1>o, <1>t DEF Goto
<1>l. ASSUME NEW state, Leave(h, state) PROVE Owed'
  BY <1>l, <1>o, <1>t DEF Leave
<1>1. CASE \E m \in Messages : Take(h, m)
  <2>1. PICK m \in Messages : Take(h, m)
    BY <1>1
  <2>2. at'[h] = FirstPlace(m) /\ FirstPlace(m) # "write"
    BY <1>t, <2>1 DEF Take, FirstPlace
  <2> QED
    BY <1>o, <2>2
<1>2. CASE Labour(h) \/ BookOverhead(h) \/ PostWip(h) \/ Journal(h) \/ BookTimeEntry(h)
  BY <1>g, <1>l, <1>2 DEF Labour, BookOverhead, PostWip, Journal, BookTimeEntry, Finish, Throw
<1>3. CASE Relief(h) \/ ReliefGl(h) \/ ReliefCommit(h)
  BY <1>g, <1>l, <1>3 DEF Relief, ReliefGl, ReliefCommit, Finish, Throw
<1>4. CASE CheckPeriod(h)
  <2>1. NextPlace(msg[h]) # "write"
    BY DEF NextPlace
  <2> QED
    BY <1>g, <1>l, <1>4, <2>1, Zenon DEF CheckPeriod, Finish
<1>5. CASE \/ CostOfOrder(h) \/ ReserveForOrder(h) \/ PostLiability(h) \/ CreatePayable(h)
           \/ CreateApBill(h)
  BY <1>g, <1>l, <1>5 DEF CostOfOrder, ReserveForOrder, PostLiability, CreatePayable, CreateApBill, Finish
<1>6. CASE Recognise(h) \/ CreateArInvoice(h)
  BY <1>g, <1>l, <1>6 DEF Recognise, CreateArInvoice, Finish
<1>7. CASE Lookup(h)
  <2>1. CASE DoneBefore(msg[h]) \/ Due(msg[h]) <= 0
    <3>1. PICK p \in {"void", "mark"} : Goto(h, p)
      BY <1>7, <2>1, Zenon DEF Lookup
    <3> QED
      BY <1>g, <3>1
  <2>2. CASE ~ (DoneBefore(msg[h]) \/ Due(msg[h]) <= 0)
    <3>1. msg[h] \in Compensations
      BY <1>7 DEF Lookup, Placed, Fits
    <3>2. Due(msg[h]) \in Int
      BY <3>1, DueIsNumber
    <3>3. found' = [found EXCEPT ![h] = Due(msg[h])]
      BY <1>7, <2>2, Zenon DEF Lookup
    <3>4. found'[h] = Due(msg[h]) /\ Due(msg[h]) > 0
      BY <1>t, <2>2, <3>2, <3>3
    <3> QED
      BY <1>o, <3>4, Zenon
  <2> QED
    BY <2>1, <2>2
<1>8. CASE Write(h)
  <2>1. PICK p \in {"void", "mark"} : Goto(h, p)
    BY <1>8, Zenon DEF Write
  <2> QED
    BY <1>g, <2>1
<1>9. CASE CheckLedger(h) \/ Void(h) \/ Mark(h)
  BY <1>g, <1>l, <1>9 DEF CheckLedger, Void, Mark, Finish
<1>10. CASE LabourFails(h) \/ Dies(h)
  BY <1>g, <1>l, <1>10 DEF LabourFails, Dies, Throw
<1> QED
  BY <1>1, <1>2, <1>3, <1>4, <1>5, <1>6, <1>7, <1>8, <1>9, <1>10 DEF Step

\* What a compensation writes: the rows and the account go down by the same, or the
\* history says why not.
LEMMA WriteAudited ==
  ASSUME Placed, Placed', BookTypes, BookTypes', Audited, NEW h \in Handlers, Write(h)
  PROVE  WipIsAudited'
<1>1. \A g \in Handlers \ {h} : at'[g] = at[g] /\ msg'[g] = msg[g]
  BY OneMoves DEF Step
<1>2. at[h] = "write" /\ at'[h] \in {"void", "mark"}
  <2>1. PICK p \in {"void", "mark"} : Goto(h, p)
    BY Zenon DEF Write
  <2> QED
    BY <2>1 DEF Write, Goto, Placed
<1>3. found[h] \in Int /\ found[h] > 0
  BY <1>2 DEF BookTypes, Audited, Owed
<1>4. /\ wip = [open |-> wip.open, balance |-> wip.balance, labour |-> wip.labour,
                reserved |-> wip.reserved]
      /\ wip.balance \in Int /\ wip.reserved \in Int /\ costs \in Int
  BY WipFields DEF BookTypes, Wips
<1>5. InFlight(h) = 0 /\ InFlight(h)' = 0
  BY <1>2 DEF InFlight
<1>c. UNCHANGED committed
  BY DEF Write, ReverseWip, ReverseMaterial, ReleaseCommitment, ReverseRevenue, wipVars
<1> DEFINE amount == found[h]
<1>6. ASSUME drift \subseteq drift', costs' = costs - amount,
             drift' = {} => wip'.balance = wip.balance - amount
      PROVE  WipIsAudited'
  <2>1. drift' = {} => costs' - costs = wip'.balance - wip.balance + InFlight(h)' - InFlight(h)
    BY <1>3, <1>4, <1>5, <1>6
  <2> QED
    BY <1>1, <1>6, <1>c, <2>1, RowsAndAccount DEF Audited
<1>7. CASE ReverseWip(amount)
  <2>1. /\ costs' = costs - amount /\ wip'.balance = 0
        /\ drift' = IF wip.balance = amount THEN drift ELSE drift \cup {"overlap"}
    BY <1>7 DEF ReverseWip, NoWip
  <2>2. drift \subseteq drift' /\ (drift' = {} => wip.balance = amount)
    BY <2>1
  <2>3. drift' = {} => wip'.balance = wip.balance - amount
    BY <1>3, <1>4, <2>1, <2>2
  <2> HIDE DEF amount
  <2> QED
    BY <1>6, <2>1, <2>2, <2>3
<1>8. CASE ReverseMaterial(amount)
  <2>1. /\ costs' = costs - amount
        /\ drift' = IF wip.balance >= amount THEN drift ELSE drift \cup {"clipped"}
    BY <1>8 DEF ReverseMaterial
  <2>2. drift \subseteq drift' /\ (drift' = {} => wip.balance >= amount)
    BY <2>1
  <2>3. wip.open /\ wip.balance >= amount => wip'.balance = wip.balance - amount
    <3>1. wip.open => wip'.balance = wip.balance - Least(wip.balance, amount)
      BY <1>4, <1>8 DEF ReverseMaterial
    <3>2. wip.balance >= amount => Least(wip.balance, amount) = amount
      BY <1>3, <1>4 DEF Least
    <3> QED
      BY <3>1, <3>2, Zenon
  <2>4. wip.balance >= amount => wip.open
    BY <1>3, <1>4 DEF Audited, Opened
  <2> HIDE DEF amount
  <2> QED
    BY <1>6, <2>1, <2>2, <2>3, <2>4
<1>9. CASE ReleaseCommitment(RefersTo[msg[h]], amount)
  <2>1. UNCHANGED costs /\ wip'.balance = wip.balance /\ drift \subseteq drift'
    BY <1>4, <1>9 DEF ReleaseCommitment
  <2> QED
    BY <1>1, <1>2, <1>c, <2>1, Untouched DEF Audited
<1>10. CASE ReverseRevenue(amount)
  <2>1. UNCHANGED costs /\ wip'.balance = wip.balance /\ drift \subseteq drift'
    BY <1>10 DEF ReverseRevenue, wipVars
  <2> QED
    BY <1>1, <1>2, <1>c, <2>1, Untouched DEF Audited
<1> QED
  BY <1>7, <1>8, <1>9, <1>10 DEF Write

\* What a booking writes.
LEMMA BookingAudited ==
  ASSUME Placed, Placed', BookTypes, BookTypes', Audited, NEW h \in Handlers,
         \/ Labour(h) \/ BookOverhead(h) \/ PostWip(h) \/ BookTimeEntry(h) \/ ReliefCommit(h)
  PROVE  WipIsAudited'
<1>1. \A g \in Handlers \ {h} : at'[g] = at[g] /\ msg'[g] = msg[g]
  BY OneMoves DEF Step
<1>2. /\ wip = [open |-> wip.open, balance |-> wip.balance, labour |-> wip.labour,
                reserved |-> wip.reserved]
      /\ wip.balance \in Int /\ costs \in Int
  BY WipFields DEF BookTypes, Wips
<1>3. Amount[msg[h]] \in Int /\ (msg[h] \in Production => Overhead[msg[h]] \in Int)
  <2>1. msg[h] \in Messages
    BY DEF Placed, Fits, Labour, BookOverhead, PostWip, BookTimeEntry, ReliefCommit
  <2> QED
    BY <2>1, FinanceLedgerAssumption
<1>4. at \in [Handlers -> Places] /\ UNCHANGED <<committed, drift>>
  BY DEF Placed, Labour, BookOverhead, PostWip, BookTimeEntry, ReliefCommit, histories
<1> DEFINE a == Amount[msg[h]]
           o == Overhead[msg[h]]
<1>5. CASE Labour(h)
  <2>1. /\ at[h] = "labour" /\ at'[h] = "overhead" /\ msg'[h] = msg[h]
        /\ costs' = costs + a /\ wip' = wip
    BY <1>4, <1>5 DEF Labour, Goto
  <2>2. InFlight(h) = 0 /\ InFlight(h)' = a
    BY <2>1 DEF InFlight
  <2>3. costs' - costs = wip'.balance - wip.balance + InFlight(h)' - InFlight(h)
    BY <1>2, <1>3, <2>1, <2>2
  <2> QED
    BY <1>1, <1>4, <2>3, RowsAndAccount DEF Audited
<1>6. CASE BookOverhead(h)
  <2>1. /\ at[h] = "overhead" /\ at'[h] = "postWip" /\ msg'[h] = msg[h]
        /\ costs' = costs + o /\ wip' = wip /\ msg[h] \in Production
    BY <1>4, <1>6 DEF BookOverhead, Goto, Placed, Fits
  <2>2. InFlight(h) = a /\ InFlight(h)' = a + o
    BY <2>1 DEF InFlight
  <2>3. costs' - costs = wip'.balance - wip.balance + InFlight(h)' - InFlight(h)
    BY <1>2, <1>3, <2>1, <2>2
  <2> QED
    BY <1>1, <1>4, <2>3, RowsAndAccount DEF Audited
<1>7. CASE PostWip(h)
  <2>1. /\ at[h] = "postWip" /\ at'[h] = "journal" /\ msg[h] \in Production
        /\ costs' = costs /\ wip'.balance = wip.balance + (a + o)
    BY <1>2, <1>4, <1>7 DEF PostWip, Goto, AddToWip, Placed, Fits
  <2>2. InFlight(h) = a + o /\ InFlight(h)' = 0
    BY <2>1 DEF InFlight
  <2>3. costs' - costs = wip'.balance - wip.balance + InFlight(h)' - InFlight(h)
    BY <1>2, <1>3, <2>1, <2>2
  <2> QED
    BY <1>1, <1>4, <2>3, RowsAndAccount DEF Audited
<1>8. CASE BookTimeEntry(h)
  <2>1. /\ at[h] = "hours" /\ at'[h] = "idle"
        /\ costs' = costs + a /\ wip'.balance = wip.balance + a
    BY <1>2, <1>4, <1>8 DEF BookTimeEntry, Finish, Leave, AddToWip
  <2>2. InFlight(h) = 0 /\ InFlight(h)' = 0
    BY <2>1 DEF InFlight
  <2>3. costs' - costs = wip'.balance - wip.balance + InFlight(h)' - InFlight(h)
    BY <1>2, <1>3, <2>1, <2>2
  <2> QED
    BY <1>1, <1>4, <2>3, RowsAndAccount DEF Audited
<1>9. CASE ReliefCommit(h)
  <2>1. /\ at[h] = "reliefCommit" /\ at'[h] = "idle" /\ costs' = costs + a
        /\ wip' = IF wip.open
                  THEN [wip EXCEPT !.balance = @ + a, !.reserved = @ - a]
                  ELSE [NoWip EXCEPT !.open = TRUE, !.balance = a]
    BY <1>4, <1>9 DEF ReliefCommit, Finish, Leave
  <2>2. wip'.balance = wip.balance + a
    <3>1. CASE wip.open
      BY <1>2, <2>1, <3>1
    <3>2. CASE ~ wip.open
      <4>1. wip'.balance = a /\ wip.balance = 0
        BY <2>1, <3>2 DEF NoWip, Audited, Opened
      <4> QED
        BY <1>3, <4>1
    <3> QED
      BY <3>1, <3>2
  <2>3. InFlight(h) = 0 /\ InFlight(h)' = 0
    BY <2>1 DEF InFlight
  <2>4. costs' - costs = wip'.balance - wip.balance + InFlight(h)' - InFlight(h)
    BY <1>2, <1>3, <2>1, <2>2, <2>3
  <2> QED
    BY <1>1, <1>4, <2>4, RowsAndAccount DEF Audited
<1> QED
  BY <1>5, <1>6, <1>7, <1>8, <1>9

\* An order's row is in the sum of the rows and in the sum of the orders' rows.
LEMMA OrderAudited ==
  ASSUME Placed, Placed', BookTypes, BookTypes', Audited, NEW h \in Handlers, CostOfOrder(h)
  PROVE  WipIsAudited'
<1>1. \A g \in Handlers \ {h} : at'[g] = at[g] /\ msg'[g] = msg[g]
  BY OneMoves DEF Step
<1>2. /\ costs \in Int /\ committed \in Int /\ wip.balance \in Int /\ wip' = wip
      /\ drift' = drift
  BY WipFields DEF BookTypes, CostOfOrder, histories
<1>3. Amount[msg[h]] \in Int
  BY FinanceLedgerAssumption DEF Placed, Fits, CostOfOrder, Messages, Bookings
<1>4. InFlight(h) = 0 /\ InFlight(h)' = 0
  <2>1. PICK p \in {"reserve", "liability"} : Goto(h, p)
    BY Zenon DEF CostOfOrder
  <2> QED
    BY <2>1 DEF CostOfOrder, Goto, Placed, InFlight
<1>5. costs' - costs = committed' - committed
  BY <1>2, <1>3 DEF CostOfOrder
<1>6. costs' - costs = wip'.balance - wip.balance + committed' - committed
                         + InFlight(h)' - InFlight(h)
  <2>1. committed' \in Int
    BY DEF BookTypes
  <2> QED
    BY <1>2, <1>4, <1>5, <2>1
<1> QED
  BY <1>1, <1>2, <1>6, BothChange DEF Audited

\* Steps that book no cost; those that give up between the rows and the account.
LEMMA OthersAudited ==
  ASSUME Placed, Placed', BookTypes, BookTypes', Audited, NEW h \in Handlers,
         \/ \E m \in Messages : Take(h, m)
         \/ Journal(h) \/ Relief(h) \/ ReliefGl(h) \/ CheckPeriod(h)
         \/ ReserveForOrder(h) \/ PostLiability(h) \/ CreatePayable(h) \/ CreateApBill(h)
         \/ Recognise(h) \/ CreateArInvoice(h)
         \/ CheckLedger(h) \/ Lookup(h) \/ Void(h) \/ Mark(h)
         \/ LabourFails(h) \/ Dies(h)
  PROVE  WipIsAudited'
<1>1. \A g \in Handlers \ {h} : at'[g] = at[g] /\ msg'[g] = msg[g]
  BY OneMoves DEF Step
<1>2. UNCHANGED <<costs, committed>>
  BY DEF Take, Journal, Relief, ReliefGl, CheckPeriod, ReserveForOrder, PostLiability,
         CreatePayable, CreateApBill, Recognise, CreateArInvoice, CheckLedger, Lookup, Void, Mark,
         LabourFails, Dies, wipVars
<1>3. wip'.balance = wip.balance
  <2>1. CASE ReserveForOrder(h)
    BY <2>1 DEF ReserveForOrder, BookTypes, Wips
  <2>2. CASE ~ ReserveForOrder(h)
    BY <2>2 DEF Take, Journal, Relief, ReliefGl, CheckPeriod, PostLiability,
                CreatePayable, CreateApBill, Recognise, CreateArInvoice, CheckLedger, Lookup,
                Void, Mark, LabourFails, Dies, wipVars
  <2> QED
    BY <2>1, <2>2
<1>4. drift \subseteq drift'
  BY DEF Take, Journal, Relief, ReliefGl, CheckPeriod, ReserveForOrder, PostLiability,
         CreatePayable, CreateApBill, Recognise, CreateArInvoice, CheckLedger, Lookup, Void, Mark,
         LabourFails, Dies, histories
<1>5. CASE at[h] \in {"overhead", "postWip"}
  <2>1. drift' # {}
    BY <1>5 DEF Take, Journal, Relief, ReliefGl, CheckPeriod, ReserveForOrder, PostLiability,
                CreatePayable, CreateApBill, Recognise, CreateArInvoice, CheckLedger, Lookup,
                Void, Mark, LabourFails, Dies
  <2> QED
    BY <2>1 DEF WipIsAudited
<1>6. CASE at[h] \notin {"overhead", "postWip"}
  <2>1. at'[h] \notin {"overhead", "postWip"}
    <3>t. at \in [Handlers -> Places]
      BY DEF Placed
    <3>g. ASSUME NEW p, p \notin {"overhead", "postWip"}, Goto(h, p)
          PROVE  at'[h] \notin {"overhead", "postWip"}
      BY <3>g, <3>t DEF Goto
    <3>l. ASSUME NEW state, Leave(h, state) PROVE at'[h] \notin {"overhead", "postWip"}
      BY <3>l, <3>t DEF Leave
    <3>1. CASE \E m \in Messages : Take(h, m)
      <4>1. PICK m \in Messages : Take(h, m)
        BY <3>1
      <4> QED
        BY <3>t, <4>1 DEF Take, FirstPlace
    <3>2. CASE Journal(h) \/ Relief(h) \/ ReliefGl(h)
      BY <3>2, <3>g, <3>l DEF Journal, Relief, ReliefGl, Finish, Throw
    <3>3. CASE CheckPeriod(h)
      <4>1. NextPlace(msg[h]) \notin {"overhead", "postWip"}
        BY DEF NextPlace
      <4> QED
        BY <3>3, <3>g, <3>l, <4>1, Zenon DEF CheckPeriod, Finish
    <3>4. CASE ReserveForOrder(h) \/ PostLiability(h) \/ CreatePayable(h) \/ CreateApBill(h)
      BY <3>4, <3>g, <3>l DEF ReserveForOrder, PostLiability, CreatePayable, CreateApBill, Finish
    <3>5. CASE Recognise(h) \/ CreateArInvoice(h)
      BY <3>5, <3>g, <3>l DEF Recognise, CreateArInvoice, Finish
    <3>6. CASE Lookup(h)
      <4>1. CASE at' = [at EXCEPT ![h] = "write"]
        BY <3>t, <4>1
      <4>2. CASE \E p \in {"void", "mark"} : Goto(h, p)
        BY <3>g, <4>2
      <4> QED
        BY <3>6, <4>1, <4>2, Zenon DEF Lookup
    <3>7. CASE CheckLedger(h) \/ Void(h) \/ Mark(h)
      BY <3>7, <3>g, <3>l DEF CheckLedger, Void, Mark, Finish
    <3>8. CASE LabourFails(h) \/ Dies(h)
      BY <3>8, <3>g, <3>l DEF LabourFails, Dies, Throw
    <3> QED
      BY <3>1, <3>2, <3>3, <3>4, <3>5, <3>6, <3>7, <3>8
  <2> QED
    BY <1>1, <1>2, <1>3, <1>4, <1>6, <2>1, Untouched DEF Audited
<1> QED
  BY <1>5, <1>6

LEMMA NextAudited ==
  IInv /\ IInv' /\ BookTypes /\ BookTypes' /\ Audited /\ [Next]_vars => Audited'
<1> SUFFICES ASSUME IInv, IInv', BookTypes, BookTypes', Audited, [Next]_vars PROVE Audited'
  OBVIOUS
<1>p. Placed /\ Placed'
  BY DEF IInv
<1>1. ASSUME NEW h \in Handlers, Step(h) \/ LabourFails(h) \/ Dies(h) PROVE Audited'
  <2>1. Owed' /\ Opened'
    BY <1>1, <1>p, OwedStays, OpenedStays DEF Audited
  <2>2. WipIsAudited'
    BY <1>1, <1>p, WriteAudited, BookingAudited, OrderAudited, OthersAudited DEF Step
  <2> QED
    BY <2>1, <2>2 DEF Audited
<1>2. ASSUME UNCHANGED <<at, msg, found, wip, costs, committed, drift>> PROVE Audited'
  <2>1. Flying' = Flying
    <3>1. \A h \in Handlers : InFlight(h)' = InFlight(h)
      BY <1>2 DEF InFlight
    <3>2. [h \in Handlers |-> InFlight(h)]' = [h \in Handlers |-> InFlight(h)]
      BY <3>1
    <3> QED
      BY <3>2, Zenon DEF Flying
  <2>2. WipIsAudited'
    BY <1>2, <2>1 DEF Audited, WipIsAudited, Flying
  <2> QED
    BY <1>2, <2>2 DEF Audited, Owed, Opened
<1>3. ASSUME NEW m \in Messages, Repeat(m) PROVE Audited'
  BY <1>2, <1>3 DEF Repeat, handlerVars, wipVars, histories
<1>4. ASSUME NEW a \in Admins, AdminWrites(a) PROVE Audited'
  BY <1>2, <1>4 DEF AdminWrites, handlerVars, wipVars
<1>5. ASSUME NEW a \in Admins, NEW s \in {"OPEN", "CLOSING", "CLOSED"}, AdminReads(a, s)
      PROVE  Audited'
  BY <1>2, <1>5 DEF AdminReads, handlerVars, wipVars, histories
<1>6. CASE UNCHANGED vars
  BY <1>2, <1>6 DEF vars, handlerVars, wipVars, histories
<1> QED
  BY <1>1, <1>3, <1>4, <1>5, <1>6 DEF Next

\* WipIsAudited for any messages, handlers, admins and faults: whatever the order of
\* bookings and compensations, the account is the sum of the project's cost rows, but for
\* the rows of purchase orders, rows on their way, and the three causes of drift.
THEOREM WipAddsUp == Spec => []WipIsAudited
<1>1. Init => Audited
  <2> SUFFICES ASSUME Init PROVE Audited
    OBVIOUS
  <2>1. Owed /\ Opened /\ wip.balance = 0 /\ costs = 0 /\ committed = 0
    BY DEF Init, NoWip, Owed, Opened
  <2>2. Flying = 0
    <3> DEFINE f == [h \in Handlers |-> InFlight(h)]
    <3>1. DOMAIN f = Handlers /\ \A h \in Handlers : f[h] = 0
      BY DEF Init, InFlight
    <3>2. Flying = SumFunction(f)
      BY DEF Flying
    <3> HIDE DEF f
    <3>3. SumFunctionOnSet(f, Handlers) = 0
      BY <3>1, FinanceLedgerAssumption, SumZero
    <3> QED
      BY <3>1, <3>2, <3>3, Zenon DEF SumFunction
  <2>3. WipIsAudited
    BY <2>1, <2>2 DEF WipIsAudited, Flying
  <2> QED
    BY <2>1, <2>3 DEF Audited
<1>2. Init => BookTypes
  BY FinanceLedgerAssumption, NoWipTypes DEF Init, BookTypes
<1>3. IInv => Placed
  BY DEF IInv
<1>4. Audited => WipIsAudited
  BY DEF Audited
<1> QED
  BY <1>1, <1>2, <1>3, <1>4, NextBookTypes, NextAudited, Invariance, PTL DEF Spec
=============================================================================
