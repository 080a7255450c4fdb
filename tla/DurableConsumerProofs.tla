------------------------ MODULE DurableConsumerProofs ------------------------
(***************************************************************************)
(* Proofs about DurableConsumer, for every set of messages and replicas:   *)
(* type correctness, that an ack means the handler committed every part,   *)
(* that an ack is final unless an outdated durable is replaced, and that   *)
(* a part is committed twice only for a disturbed message.                 *)
(***************************************************************************)
EXTENDS DurableConsumer, TLAPS

Needed == Parts \ Swallowed

\* What a worker knows at each position of the loop: the parts before the one in
\* hand are committed, all of them when it is about to ack.
Progress ==
  \A w \in Workers :
    /\ pc[w] \in {"handling", "ack"} => cur[w] \in Messages
    /\ pc[w] = "handling" =>
         \A k \in Needed : k < part[w] => effects[cur[w]][k] >= 1
    /\ pc[w] = "ack" => \A k \in Needed : effects[cur[w]][k] >= 1

IInv == TypeOK /\ AckedWasHandled /\ Progress

\* Commit keeps the type of the counters and never lowers one.
LEMMA CommitGrows ==
  ASSUME effects \in [Messages -> [Parts -> 0..2]],
         NEW m \in Messages, NEW ks, Commit(m, ks)
  PROVE  /\ effects' \in [Messages -> [Parts -> 0..2]]
         /\ \A n \in Messages, k \in Parts : effects[n][k] >= 1 => effects'[n][k] >= 1
         /\ \A k \in Parts : k \in ks => effects'[m][k] >= 1
<1> DEFINE new == [k \in Parts |-> IF k \in ks /\ effects[m][k] < 2
                                   THEN effects[m][k] + 1 ELSE effects[m][k]]
<1>1. effects' = [effects EXCEPT ![m] = new]
  BY DEF Commit
<1>2. effects[m] \in [Parts -> 0..2]
  OBVIOUS
<1>3. \A k \in Parts : new[k] \in 0..2
  BY <1>2
<1>4. new \in [Parts -> 0..2]
  BY <1>3
<1>5. \A k \in Parts : effects[m][k] >= 1 => new[k] >= 1
  BY <1>2
<1>6. \A k \in Parts : k \in ks => new[k] >= 1
  BY <1>2
<1>7. effects'[m] = new /\ \A n \in Messages : n # m => effects'[n] = effects[n]
  BY <1>1
<1> HIDE DEF new
<1>8. effects' \in [Messages -> [Parts -> 0..2]]
  BY <1>1, <1>4
<1> QED
  BY <1>5, <1>6, <1>7, <1>8

\* An ack acknowledges at most the message it is about; a nak acknowledges nothing.
LEMMA Answers ==
  ASSUME delivery \in [Messages -> {"none", "new", "out", "again", "acked"}],
         NEW m \in Messages
  PROVE  /\ Acknowledge(m) =>
              /\ delivery' \in [Messages -> {"none", "new", "out", "again", "acked"}]
              /\ \A n \in Messages : n # m => delivery'[n] = delivery[n]
              /\ delivery[m] = "acked" => delivery'[m] = "acked"
         /\ Nak(m) =>
              /\ delivery' \in [Messages -> {"none", "new", "out", "again", "acked"}]
              /\ \A n \in Messages : delivery'[n] = "acked" <=> delivery[n] = "acked"
  BY DEF Acknowledge, Nak

\* Going on to the next part keeps a worker's position well typed.
LEMMA NextPartTypes ==
  ASSUME TypeOK, NEW w \in Workers, NextPart(w)
  PROVE  /\ pc' \in [Workers -> {"off", "dead", "loop", "handling", "ack"}]
         /\ part' \in [Workers -> Parts]
         /\ \A v \in Workers : v # w => pc'[v] = pc[v] /\ part'[v] = part[v]
         /\ cur' = cur /\ hand' = hand /\ aborted' = aborted
<1>1. CASE part[w] < NumParts
  <2>1. part' = [part EXCEPT ![w] = part[w] + 1] /\ pc' = pc
    BY <1>1 DEF NextPart, MoreParts
  <2>2. part[w] + 1 \in Parts
    BY <1>1, DurableConsumerAssumption DEF TypeOK, Parts
  <2> QED
    BY <2>1, <2>2 DEF TypeOK, NextPart
<1>2. CASE ~(part[w] < NumParts)
  BY <1>2 DEF NextPart, MoreParts, TypeOK
<1> QED
  BY <1>1, <1>2

LEMMA InitIInv == Init => IInv
  BY DurableConsumerAssumption
  DEF Init, IInv, TypeOK, AckedWasHandled, Progress, Parts, Needed

LEMMA NextIInv == IInv /\ [Next]_vars => IInv'
<1> SUFFICES ASSUME IInv, [Next]_vars PROVE IInv'
  OBVIOUS
<1> USE DurableConsumerAssumption
<1>t. TypeOK /\ AckedWasHandled /\ Progress
  BY DEF IInv
<1>1. ASSUME NEW m \in Messages, Publish(m) PROVE IInv'
  BY <1>t, <1>1 DEF Publish, IInv, TypeOK, AckedWasHandled, Progress, workerVars, Needed
<1>2. ASSUME NEW m \in Messages, CoreHandle(m) PROVE IInv'
  <2>1. /\ effects' \in [Messages -> [Parts -> 0..2]]
        /\ \A n \in Messages, k \in Parts : effects[n][k] >= 1 => effects'[n][k] >= 1
    BY <1>t, <1>2, CommitGrows DEF CoreHandle, TypeOK
  <2>2. TypeOK'
    BY <1>t, <1>2, <2>1 DEF CoreHandle, TypeOK, brokerVars, workerVars, Fault
  <2>3. AckedWasHandled'
    BY <1>t, <1>2, <2>1 DEF CoreHandle, AckedWasHandled, brokerVars
  <2>4. Progress'
    BY <1>t, <1>2, <2>1 DEF CoreHandle, Progress, workerVars, Needed
  <2> QED
    BY <2>2, <2>3, <2>4 DEF IInv
<1>3. ASSUME NEW m \in Messages, AckWaitEnds(m) PROVE IInv'
  <2>1. /\ delivery' \in [Messages -> {"none", "new", "out", "again", "acked"}]
        /\ \A n \in Messages : delivery'[n] = "acked" => delivery[n] = "acked"
    BY <1>t, <1>3 DEF AckWaitEnds, TypeOK
  <2>2. TypeOK'
    BY <1>t, <1>3, <2>1 DEF AckWaitEnds, TypeOK, workerVars, Fault
  <2> QED
    BY <1>t, <1>3, <2>1, <2>2
    DEF AckWaitEnds, IInv, AckedWasHandled, Progress, workerVars, Needed
<1>4. CASE BootstrapDelete
  BY <1>t, <1>4
  DEF BootstrapDelete, IInv, TypeOK, AckedWasHandled, Progress, workerVars, Needed
<1>5. CASE BootstrapAdd
  BY <1>t, <1>5
  DEF BootstrapAdd, FirstDelivery, IInv, TypeOK, AckedWasHandled, Progress, workerVars, Needed, Fault
<1>6. ASSUME NEW w \in Workers, Start(w) PROVE IInv'
  BY <1>t, <1>6
  DEF Start, IInv, TypeOK, AckedWasHandled, Progress, brokerVars, Needed
<1>7. ASSUME NEW w \in Workers, Fetch(w) PROVE IInv'
  <2> PICK S \in SUBSET {m \in Messages : delivery[m] \in {"new", "again"}} :
        /\ delivery' = [m \in Messages |-> IF m \in S THEN "out" ELSE delivery[m]]
        /\ hand' = [hand EXCEPT ![w] = S]
    BY <1>7 DEF Fetch
  <2>1. TypeOK'
    BY <1>t, <1>7 DEF Fetch, TypeOK
  <2>2. \A n \in Messages : delivery'[n] = "acked" => delivery[n] = "acked"
    OBVIOUS
  <2> QED
    BY <1>t, <1>7, <2>1, <2>2 DEF Fetch, IInv, AckedWasHandled, Progress, Needed
<1>8. ASSUME NEW w \in Workers, FetchFails(w) PROVE IInv'
  BY <1>t, <1>8
  DEF FetchFails, IInv, TypeOK, AckedWasHandled, Progress, brokerVars, Needed, Fault
<1>9. ASSUME NEW w \in Workers, Take(w) PROVE IInv'
  <2> PICK m \in hand[w] :
        /\ cur' = [cur EXCEPT ![w] = m]
        /\ hand' = [hand EXCEPT ![w] = @ \ {m}]
    BY <1>9 DEF Take
  <2>1. m \in Messages
    BY <1>t DEF TypeOK
  <2>2. TypeOK'
    BY <1>t, <1>9, <2>1 DEF Take, TypeOK, brokerVars, Parts
  <2>3. \A k \in Needed : ~(k < 1)
    BY DEF Needed, Parts
  <2> QED
    BY <1>t, <1>9, <2>1, <2>2, <2>3
    DEF Take, IInv, TypeOK, AckedWasHandled, Progress, brokerVars
<1>10. ASSUME NEW w \in Workers, PartSucceeds(w) PROVE IInv'
  <2>1. cur[w] \in Messages
    BY <1>t, <1>10 DEF PartSucceeds, Progress
  <2>2. /\ effects' \in [Messages -> [Parts -> 0..2]]
        /\ \A n \in Messages, k \in Parts : effects[n][k] >= 1 => effects'[n][k] >= 1
        /\ effects'[cur[w]][part[w]] >= 1
    BY <1>t, <1>10, <2>1, CommitGrows DEF PartSucceeds, TypeOK
  <2>3. TypeOK'
    BY <1>t, <1>10, <2>2, NextPartTypes DEF PartSucceeds, TypeOK, brokerVars
  <2>4. AckedWasHandled'
    BY <1>t, <1>10, <2>2 DEF PartSucceeds, AckedWasHandled, brokerVars
  <2>5. Progress'
    <3> SUFFICES ASSUME NEW v \in Workers
                 PROVE  /\ pc'[v] \in {"handling", "ack"} => cur'[v] \in Messages
                        /\ pc'[v] = "handling" => \A k \in Needed :
                             k < part'[v] => effects'[cur'[v]][k] >= 1
                        /\ pc'[v] = "ack" => \A k \in Needed : effects'[cur'[v]][k] >= 1
      BY DEF Progress
    <3>1. CASE v = w
      <4>1. \A k \in Needed : k <= part[w] => effects'[cur[w]][k] >= 1
        <5> SUFFICES ASSUME NEW k \in Needed, k <= part[w]
                     PROVE  effects'[cur[w]][k] >= 1
          OBVIOUS
        <5>1. CASE k = part[w]
          BY <5>1, <2>2
        <5>2. CASE k # part[w]
          <6>1. k \in Parts /\ k < part[w]
            BY <1>t, <5>2 DEF Needed, TypeOK, Parts
          <6>2. effects[cur[w]][k] >= 1
            BY <1>t, <1>10, <6>1 DEF Progress, PartSucceeds
          <6> QED
            BY <2>1, <2>2, <6>1, <6>2
        <5> QED
          BY <5>1, <5>2
      <4>2. part[w] \in Parts /\ cur' = cur /\ Needed \subseteq Parts
        BY <1>t, <1>10 DEF TypeOK, PartSucceeds, NextPart, Needed
      <4>3. CASE part[w] < NumParts
        <5>1. pc'[w] = "handling" /\ part'[w] = part[w] + 1
          BY <1>t, <1>10, <4>3 DEF TypeOK, PartSucceeds, NextPart, MoreParts
        <5>2. \A k \in Needed : k < part[w] + 1 => k <= part[w]
          BY <4>2 DEF Parts
        <5> QED
          BY <3>1, <2>1, <4>1, <4>2, <5>1, <5>2
      <4>4. CASE ~(part[w] < NumParts)
        <5>1. pc'[w] = "ack"
          BY <1>t, <1>10, <4>4 DEF TypeOK, PartSucceeds, NextPart, MoreParts
        <5>2. \A k \in Needed : k <= part[w]
          BY <4>2, <4>4, DurableConsumerAssumption DEF Parts
        <5> QED
          BY <3>1, <2>1, <4>1, <4>2, <5>1, <5>2
      <4> QED
        BY <4>3, <4>4
    <3>2. CASE v # w
      <4>1. pc'[v] = pc[v] /\ part'[v] = part[v] /\ cur'[v] = cur[v]
        BY <1>t, <1>10, <3>2 DEF TypeOK, PartSucceeds, NextPart
      <4> QED
        BY <1>t, <2>2, <4>1 DEF Progress, Needed
    <3> QED
      BY <3>1, <3>2
  <2> QED
    BY <2>3, <2>4, <2>5 DEF IInv
<1>11. ASSUME NEW w \in Workers, PartSwallowed(w) PROVE IInv'
  <2>1. TypeOK'
    BY <1>t, <1>11, NextPartTypes DEF PartSwallowed, TypeOK, brokerVars, Fault
  <2>2. AckedWasHandled'
    BY <1>t, <1>11 DEF PartSwallowed, AckedWasHandled, brokerVars
  <2>3. \A k \in Needed : k # part[w]
    BY <1>11 DEF PartSwallowed, Needed
  <2>4. Progress'
    <3> SUFFICES ASSUME NEW v \in Workers
                 PROVE  /\ pc'[v] \in {"handling", "ack"} => cur'[v] \in Messages
                        /\ pc'[v] = "handling" => \A k \in Needed :
                             k < part'[v] => effects'[cur'[v]][k] >= 1
                        /\ pc'[v] = "ack" => \A k \in Needed : effects'[cur'[v]][k] >= 1
      BY DEF Progress
    <3>1. CASE v = w
      <4>1. part[w] \in Parts /\ cur' = cur /\ effects' = effects /\ Needed \subseteq Parts
        BY <1>t, <1>11 DEF TypeOK, PartSwallowed, NextPart, Needed
      <4>2. cur[w] \in Messages /\ \A k \in Needed : k < part[w] => effects[cur[w]][k] >= 1
        BY <1>t, <1>11 DEF PartSwallowed, Progress
      <4>3. CASE part[w] < NumParts
        <5>1. pc'[w] = "handling" /\ part'[w] = part[w] + 1
          BY <1>t, <1>11, <4>3 DEF TypeOK, PartSwallowed, NextPart, MoreParts
        <5> QED
          BY <3>1, <2>3, <4>1, <4>2, <5>1 DEF Parts
      <4>4. CASE ~(part[w] < NumParts)
        <5>1. pc'[w] = "ack"
          BY <1>t, <1>11, <4>4 DEF TypeOK, PartSwallowed, NextPart, MoreParts
        <5>2. \A k \in Needed : k < part[w]
          BY <2>3, <4>1, <4>4, DurableConsumerAssumption DEF Parts
        <5> QED
          BY <3>1, <4>1, <4>2, <5>1, <5>2
      <4> QED
        BY <4>3, <4>4
    <3>2. CASE v # w
      <4>1. pc'[v] = pc[v] /\ part'[v] = part[v] /\ cur'[v] = cur[v]
        BY <1>t, <1>11, <3>2 DEF TypeOK, PartSwallowed, NextPart
      <4> QED
        BY <1>t, <1>11, <4>1 DEF Progress, PartSwallowed
    <3> QED
      BY <3>1, <3>2
  <2> QED
    BY <2>1, <2>2, <2>4 DEF IInv
<1>12. ASSUME NEW w \in Workers, HandlerThrows(w) PROVE IInv'
  <2>1. cur[w] \in Messages
    BY <1>t, <1>12 DEF HandlerThrows, Progress
  <2>2. /\ delivery' \in [Messages -> {"none", "new", "out", "again", "acked"}]
        /\ \A n \in Messages : delivery'[n] = "acked" => delivery[n] = "acked"
    BY <1>t, <1>12, <2>1, Answers DEF HandlerThrows, AnswerToError, TypeOK
  <2>3. TypeOK'
    BY <1>t, <1>12, <2>1, <2>2 DEF HandlerThrows, Finished, TypeOK, Parts, Fault
  <2> QED
    BY <1>t, <1>12, <2>2, <2>3
    DEF HandlerThrows, Finished, IInv, TypeOK, AckedWasHandled, Progress
<1>13. ASSUME NEW w \in Workers, Ack(w) PROVE IInv'
  <2>1. cur[w] \in Messages /\ \A k \in Needed : effects[cur[w]][k] >= 1
    BY <1>t, <1>13 DEF Ack, Progress
  <2>2. /\ delivery' \in [Messages -> {"none", "new", "out", "again", "acked"}]
        /\ \A n \in Messages : n # cur[w] => delivery'[n] = delivery[n]
    BY <1>t, <1>13, <2>1, Answers DEF Ack, AnswerToSuccess, TypeOK
  <2>3. TypeOK'
    BY <1>t, <1>13, <2>1, <2>2 DEF Ack, Finished, TypeOK, Parts, Fault
  <2>4. AckedWasHandled'
    BY <1>t, <1>13, <2>1, <2>2 DEF Ack, AckedWasHandled, Needed
  <2>5. Progress'
    BY <1>t, <1>13 DEF Ack, Finished, TypeOK, Progress
  <2> QED
    BY <2>3, <2>4, <2>5 DEF IInv
<1>14. ASSUME NEW w \in Workers, Return(w) PROVE IInv'
  <2>1. /\ delivery' \in [Messages -> {"none", "new", "out", "again", "acked"}]
        /\ \A n \in Messages : delivery'[n] = "acked" => delivery[n] = "acked"
    BY <1>t, <1>14, Answers DEF Return, TypeOK
  <2>2. TypeOK'
    BY <1>t, <1>14, <2>1 DEF Return, LetGo, TypeOK, Parts
  <2> QED
    BY <1>t, <1>14, <2>1, <2>2
    DEF Return, LetGo, IInv, TypeOK, AckedWasHandled, Progress
<1>15. ASSUME NEW w \in Workers, Shutdown(w) PROVE IInv'
  BY <1>t, <1>15
  DEF Shutdown, IInv, TypeOK, AckedWasHandled, Progress, brokerVars, Needed, Fault
<1>16. ASSUME NEW w \in Workers, Crash(w) PROVE IInv'
  <2>1. TypeOK'
    BY <1>t, <1>16 DEF Crash, LetGo, TypeOK, Parts, brokerVars, Fault
  <2> QED
    BY <1>t, <1>16, <2>1
    DEF Crash, LetGo, IInv, TypeOK, AckedWasHandled, Progress, brokerVars
<1>17. ASSUME NEW w \in Workers, LoopBreaks(w) PROVE IInv'
  <2>1. TypeOK'
    BY <1>t, <1>17 DEF LoopBreaks, LetGo, TypeOK, Parts, brokerVars, Fault
  <2> QED
    BY <1>t, <1>17, <2>1
    DEF LoopBreaks, LetGo, IInv, TypeOK, AckedWasHandled, Progress, brokerVars
<1>18. CASE UNCHANGED vars
  BY <1>t, <1>18
  DEF vars, brokerVars, workerVars, IInv, TypeOK, AckedWasHandled, Progress, Needed
<1> QED
  BY <1>1, <1>2, <1>3, <1>4, <1>5, <1>6, <1>7, <1>8, <1>9, <1>10, <1>11, <1>12, <1>13,
     <1>14, <1>15, <1>16, <1>17, <1>18
  DEF Next, Step

\* The consumer is type correct for every set of messages and workers.
THEOREM ConsumerTypeCorrect == Safety => []TypeOK
<1>1. IInv => TypeOK
  BY DEF IInv
<1> QED
  BY <1>1, InitIInv, NextIInv, PTL DEF Safety

\* consumer.ts acks a message only after every part of its handler committed,
\* apart from the parts whose errors the handler itself drops.
THEOREM AckMeansHandled == Safety => []AckedWasHandled
<1>1. IInv => AckedWasHandled
  BY DEF IInv
<1> QED
  BY <1>1, InitIInv, NextIInv, PTL DEF Safety

-----------------------------------------------------------------------------
(* An ack is final but for the replacement of an outdated durable *)

\* A durable has no state for a message that is not in the stream, and an absent one
\* has none at all.
NoneStray ==
  /\ \A m \in Messages : delivery[m] # "none" => m \in stored
  /\ consumer = "absent" => \A m \in Messages : delivery[m] = "none"

LEMMA NextNoneStray == IInv /\ NoneStray /\ [Next]_vars => NoneStray'
<1> SUFFICES ASSUME IInv, NoneStray, [Next]_vars PROVE NoneStray'
  OBVIOUS
<1>t. TypeOK /\ Progress
  BY DEF IInv
<1>1. CASE \E m \in Messages : Publish(m) \/ CoreHandle(m) \/ AckWaitEnds(m)
  BY <1>t, <1>1
  DEF Publish, CoreHandle, AckWaitEnds, NoneStray, Matches, TypeOK, brokerVars
<1>2. CASE BootstrapDelete
  BY <1>2 DEF BootstrapDelete, MustRecreate, NoneStray
<1>3. CASE BootstrapAdd
  BY <1>3 DEF BootstrapAdd, FirstDelivery, NoneStray
<1>4. ASSUME NEW w \in Workers, Step(w) \/ LoopBreaks(w) \/ Shutdown(w) \/ Crash(w)
      PROVE  NoneStray'
  <2>1. consumer' = consumer
    BY <1>4 DEF Step, Start, Fetch, FetchFails, Take, PartSucceeds, PartSwallowed,
            HandlerThrows, Ack, Return, LoopBreaks, Shutdown, Crash, brokerVars
  <2>2. consumer = "absent" => delivery' = delivery
    <3> SUFFICES ASSUME consumer = "absent" PROVE delivery' = delivery
      OBVIOUS
    <3>1. \A m \in Messages : delivery[m] = "none"
      BY DEF NoneStray
    <3>2. \A m \in Messages : (Acknowledge(m) \/ Nak(m)) => delivery' = delivery
      BY <3>1 DEF Acknowledge, Nak
    <3>3. pc[w] \in {"handling", "ack"} => cur[w] \in Messages
      BY <1>t DEF Progress
    <3>4. hand[w] \subseteq Messages
      BY <1>t DEF TypeOK
    <3>5. CASE Start(w) \/ FetchFails(w) \/ Take(w) \/ PartSucceeds(w) \/ PartSwallowed(w)
               \/ LoopBreaks(w) \/ Shutdown(w) \/ Crash(w)
      BY <3>5 DEF Start, FetchFails, Take, PartSucceeds, PartSwallowed, LoopBreaks, Shutdown,
                  Crash, brokerVars
    <3>6. CASE Fetch(w)
      BY <3>6 DEF Fetch
    <3>7. CASE HandlerThrows(w) \/ Ack(w)
      BY <3>2, <3>3, <3>7 DEF HandlerThrows, AnswerToError, Ack, AnswerToSuccess
    <3>8. CASE Return(w)
      BY <3>2, <3>4, <3>8 DEF Return
    <3> QED
      BY <1>4, <3>5, <3>6, <3>7, <3>8 DEF Step
  <2>3. stored' = stored
    BY <1>4 DEF Step, Start, Fetch, FetchFails, Take, PartSucceeds, PartSwallowed,
            HandlerThrows, Ack, Return, LoopBreaks, Shutdown, Crash, brokerVars
  <2>4. \A m \in Messages : delivery'[m] # "none" => delivery[m] # "none"
    <3>1. \A m \in Messages : (Acknowledge(m) \/ Nak(m)) =>
            \A n \in Messages : delivery'[n] # "none" => delivery[n] # "none"
      BY <1>t DEF Acknowledge, Nak, TypeOK
    <3>2. pc[w] \in {"handling", "ack"} => cur[w] \in Messages
      BY <1>t DEF Progress
    <3>3. hand[w] \subseteq Messages
      BY <1>t DEF TypeOK
    <3>4. CASE Start(w) \/ FetchFails(w) \/ Take(w) \/ PartSucceeds(w) \/ PartSwallowed(w)
               \/ LoopBreaks(w) \/ Shutdown(w) \/ Crash(w)
      BY <3>4 DEF Start, FetchFails, Take, PartSucceeds, PartSwallowed, LoopBreaks, Shutdown,
                  Crash, brokerVars
    <3>5. CASE Fetch(w)
      BY <3>5 DEF Fetch
    <3>6. CASE HandlerThrows(w) \/ Ack(w)
      BY <3>1, <3>2, <3>6 DEF HandlerThrows, AnswerToError, Ack, AnswerToSuccess
    <3>7. CASE Return(w)
      BY <3>1, <3>3, <3>7 DEF Return
    <3> QED
      BY <1>4, <3>4, <3>5, <3>6, <3>7 DEF Step
  <2> QED
    BY <2>1, <2>2, <2>3, <2>4 DEF NoneStray
<1>5. CASE UNCHANGED vars
  BY <1>5 DEF vars, brokerVars, NoneStray
<1> QED
  BY <1>1, <1>2, <1>3, <1>4, <1>5 DEF Next

LEMMA NextKeepsAcks ==
  IInv /\ NoneStray /\ [Next]_vars
    => [\A m \in Messages : delivery[m] = "acked" =>
          delivery'[m] = "acked" \/ (consumer = "old" /\ consumer' = "absent")]_vars
<1> SUFFICES ASSUME IInv, NoneStray, Next, NEW m \in Messages, delivery[m] = "acked"
             PROVE  delivery'[m] = "acked" \/ (consumer = "old" /\ consumer' = "absent")
  OBVIOUS
<1>t. TypeOK /\ Progress
  BY DEF IInv
<1>1. CASE \E n \in Messages : Publish(n) \/ CoreHandle(n) \/ AckWaitEnds(n)
  <2>1. ASSUME NEW n \in Messages, Publish(n) PROVE delivery'[m] = "acked"
    <3>1. CASE m = n
      BY <3>1, <2>1 DEF Publish, NoneStray
    <3>2. CASE m # n
      BY <3>2, <2>1, <1>t DEF Publish, TypeOK
    <3> QED
      BY <3>1, <3>2
  <2>2. ASSUME NEW n \in Messages, CoreHandle(n) PROVE delivery'[m] = "acked"
    BY <2>2 DEF CoreHandle, brokerVars
  <2>3. ASSUME NEW n \in Messages, AckWaitEnds(n) PROVE delivery'[m] = "acked"
    BY <2>3, <1>t DEF AckWaitEnds, TypeOK
  <2> QED
    BY <1>1, <2>1, <2>2, <2>3
<1>2. CASE BootstrapDelete \/ BootstrapAdd
  BY <1>2, <1>t DEF TypeOK, BootstrapDelete, MustRecreate, BootstrapAdd, FirstDelivery,
      NoneStray
<1>3. ASSUME NEW w \in Workers, Step(w) \/ LoopBreaks(w) \/ Shutdown(w) \/ Crash(w)
      PROVE  delivery'[m] = "acked"
  <2>1. \A n \in Messages : (Acknowledge(n) \/ Nak(n)) => delivery'[m] = "acked"
    BY <1>t, Answers DEF TypeOK
  <2>2. pc[w] \in {"handling", "ack"} => cur[w] \in Messages
    BY <1>t DEF Progress
  <2>3. hand[w] \subseteq Messages
    BY <1>t DEF TypeOK
  <2>4. CASE Start(w) \/ FetchFails(w) \/ Take(w) \/ PartSucceeds(w) \/ PartSwallowed(w)
             \/ LoopBreaks(w) \/ Shutdown(w) \/ Crash(w)
    BY <2>4 DEF Start, FetchFails, Take, PartSucceeds, PartSwallowed, LoopBreaks, Shutdown,
                Crash, brokerVars
  <2>5. CASE Fetch(w)
    BY <2>5 DEF Fetch
  <2>6. CASE HandlerThrows(w) \/ Ack(w)
    BY <2>1, <2>2, <2>6 DEF HandlerThrows, AnswerToError, Ack, AnswerToSuccess
  <2>7. CASE Return(w)
    BY <2>1, <2>3, <2>7 DEF Return
  <2> QED
    BY <1>3, <2>4, <2>5, <2>6, <2>7 DEF Step
<1> QED
  BY <1>1, <1>2, <1>3 DEF Next

\* bootstrap.ts:36, "existing durables are left in place": for every number of
\* messages and replicas, only the replacement of an outdated durable hands an acked
\* message out again.
THEOREM AcksAreFinal == Safety => AckIsFinal
<1>1. Init => NoneStray
  BY DEF Init, NoneStray
<1>2. Safety => []IInv
  BY InitIInv, NextIInv, PTL DEF Safety
<1>3. Safety => []NoneStray
  BY <1>1, <1>2, NextNoneStray, PTL DEF Safety
<1> QED
  BY <1>2, <1>3, NextKeepsAcks, PTL DEF Safety, AckIsFinal

-----------------------------------------------------------------------------
(* A part is committed twice only for a disturbed message *)

Undisturbed == Messages \ (Bypassed \cup disturbed)

\* A worker that is not handling has no message in hand.
AtRest == \A w \in Workers : pc[w] \notin {"handling", "ack"} => cur[w] = NoMessage

\* One worker at most holds the message, once, and the server awaits its answer.
Apart(m) ==
  \A w \in Workers :
    /\ m \in hand[w] \/ cur[w] = m =>
         /\ delivery[m] = "out"
         /\ \A v \in Workers \ {w} : m \notin hand[v] /\ cur[v] # m
    /\ m \in hand[w] => cur[w] # m

\* It has no effects before it is in hand, and in hand only those of earlier parts.
FirstTime(m) ==
  /\ \/ delivery[m] = "acked"
     \/ \E w \in Workers : cur[w] = m
     \/ \A k \in Parts : effects[m][k] = 0
  /\ \A w \in Workers : cur[w] = m /\ pc[w] = "handling" =>
       \A k \in Parts : k >= part[w] => effects[m][k] = 0
  /\ \A k \in Parts : effects[m][k] <= 1

Tidy == AtRest /\ \A m \in Undisturbed : Apart(m) /\ FirstTime(m)

LEMMA AtRestKept == TypeOK /\ AtRest /\ [Next]_vars => AtRest'
<1> SUFFICES ASSUME TypeOK, AtRest, [Next]_vars PROVE AtRest'
  OBVIOUS
<1>1. CASE UNCHANGED <<pc, cur>>
  BY <1>1 DEF AtRest
<1>2. CASE \/ \E m \in Messages : Publish(m) \/ CoreHandle(m) \/ AckWaitEnds(m)
           \/ BootstrapDelete \/ BootstrapAdd \/ UNCHANGED vars
  BY <1>2, <1>1
  DEF Publish, CoreHandle, AckWaitEnds, BootstrapDelete, BootstrapAdd, vars, workerVars
<1>3. ASSUME NEW w \in Workers, Step(w) \/ LoopBreaks(w) \/ Shutdown(w) \/ Crash(w) PROVE AtRest'
  <2>1. CASE Start(w) \/ Take(w)
    BY <2>1 DEF Start, Take, TypeOK, AtRest
  <2>2. CASE Fetch(w) \/ FetchFails(w) \/ Shutdown(w)
    BY <2>2, <1>1 DEF Fetch, FetchFails, Shutdown
  <2>3. CASE PartSucceeds(w) \/ PartSwallowed(w)
    BY <2>3 DEF PartSucceeds, PartSwallowed, NextPart, TypeOK, AtRest
  <2>4. CASE HandlerThrows(w) \/ Ack(w)
    BY <2>4 DEF HandlerThrows, Ack, Finished, TypeOK, AtRest
  <2>5. CASE Return(w) \/ LoopBreaks(w) \/ Crash(w)
    BY <2>5 DEF Return, LoopBreaks, Crash, LetGo, TypeOK, AtRest
  <2> QED
    BY <1>3, <2>1, <2>2, <2>3, <2>4, <2>5 DEF Step
<1> QED
  BY <1>2, <1>3 DEF Next

LEMMA NextTidy == IInv /\ NoneStray /\ Tidy /\ [Next]_vars => Tidy'
<1> SUFFICES ASSUME IInv, NoneStray, Tidy, [Next]_vars PROVE Tidy'
  OBVIOUS
<1>t. TypeOK /\ Progress /\ AtRest
  BY DEF IInv, Tidy
<1>a. AtRest'
  BY <1>t, AtRestKept
<1>m. SUFFICES ASSUME NEW m \in Messages, m \notin Bypassed, m \notin disturbed'
               PROVE  Apart(m)' /\ FirstTime(m)'
  BY <1>a DEF Tidy, Undisturbed
<1>d. m \notin disturbed
  BY <1>m
  DEF Next, Step, Publish, CoreHandle, AckWaitEnds, BootstrapDelete, BootstrapAdd, Start, Fetch,
      FetchFails, Take, PartSucceeds, PartSwallowed, HandlerThrows, Ack, Return, LoopBreaks,
      Shutdown, Crash, vars, brokerVars, workerVars
<1>p. Apart(m) /\ FirstTime(m)
  BY <1>m, <1>d DEF Tidy, Undisturbed
<1>n. m # NoMessage
  BY <1>m, DurableConsumerAssumption
<1>1. ASSUME NEW n \in Messages, Publish(n) PROVE Apart(m)' /\ FirstTime(m)'
  <2>1. m = n => delivery[m] = "none" /\ \A k \in Parts : effects[m][k] = 0
    BY <1>1, <1>p DEF Publish, NoneStray, Apart, FirstTime
  <2>2. delivery'[m] = delivery[m] \/ (m = n /\ delivery'[m] = "new")
    BY <1>1, <1>t DEF Publish, TypeOK
  <2> QED
    BY <1>1, <1>p, <2>1, <2>2 DEF Publish, workerVars, Apart, FirstTime
<1>2. ASSUME NEW n \in Messages, CoreHandle(n) PROVE Apart(m)' /\ FirstTime(m)'
  <2>1. n # m
    BY <1>2, <1>t, <1>m DEF CoreHandle, TypeOK
  <2>2. effects'[m] = effects[m]
    BY <1>2, <2>1, <1>t DEF CoreHandle, Commit, TypeOK
  <2> QED
    BY <1>2, <1>p, <2>2 DEF CoreHandle, brokerVars, workerVars, Apart, FirstTime
<1>3. ASSUME NEW n \in Messages, AckWaitEnds(n) PROVE Apart(m)' /\ FirstTime(m)'
  <2>1. CASE n # m
    BY <1>3, <2>1, <1>p, <1>t DEF AckWaitEnds, workerVars, Apart, FirstTime, TypeOK
  <2>2. CASE n = m
    <3>1. \A w \in Workers : m \notin hand[w] /\ cur[w] # m
      BY <1>3, <2>2, <1>m DEF AckWaitEnds, Held
    <3> QED
      BY <1>3, <2>2, <3>1, <1>p, <1>t DEF AckWaitEnds, workerVars, Apart, FirstTime, TypeOK
  <2> QED
    BY <2>1, <2>2
<1>4. CASE BootstrapDelete
  <2>1. delivery[m] = "none"
    BY <1>4, <1>m DEF BootstrapDelete, NoneStray
  <2> QED
    BY <1>4, <2>1, <1>p DEF BootstrapDelete, workerVars, Apart, FirstTime
<1>5. CASE BootstrapAdd
  <2>1. delivery[m] = "none"
    BY <1>5, <1>m DEF BootstrapAdd, NoneStray
  <2> QED
    BY <1>5, <2>1, <1>p DEF BootstrapAdd, workerVars, Apart, FirstTime
<1>6. ASSUME NEW w \in Workers, Start(w) \/ FetchFails(w) \/ Shutdown(w)
      PROVE  Apart(m)' /\ FirstTime(m)'
  BY <1>6, <1>p, <1>t, <1>n
  DEF Start, FetchFails, Shutdown, brokerVars, Apart, FirstTime, AtRest, TypeOK
<1>7. ASSUME NEW w \in Workers, Fetch(w) PROVE Apart(m)' /\ FirstTime(m)'
  <2> PICK S \in SUBSET {x \in Messages : delivery[x] \in {"new", "again"}} :
        /\ delivery' = [x \in Messages |-> IF x \in S THEN "out" ELSE delivery[x]]
        /\ hand' = [hand EXCEPT ![w] = S]
    BY <1>7 DEF Fetch
  <2>1. hand[w] = {} /\ cur' = cur /\ pc' = pc /\ part' = part /\ effects' = effects
    BY <1>7 DEF Fetch
  <2>2. hand'[w] = S /\ \A v \in Workers \ {w} : hand'[v] = hand[v]
    BY <1>t DEF TypeOK
  <2>3. CASE m \in S
    <3>1. delivery'[m] = "out" /\ delivery[m] \in {"new", "again"}
      BY <2>3
    <3> QED
      BY <1>p, <2>1, <2>2, <2>3, <3>1 DEF Apart, FirstTime
  <2>4. CASE m \notin S
    <3>1. delivery'[m] = delivery[m]
      BY <2>4
    <3> QED
      BY <1>p, <2>1, <2>2, <2>4, <3>1 DEF Apart, FirstTime
  <2> QED
    BY <2>3, <2>4
<1>8. ASSUME NEW w \in Workers, Take(w) PROVE Apart(m)' /\ FirstTime(m)'
  <2> PICK x \in hand[w] :
        /\ cur' = [cur EXCEPT ![w] = x]
        /\ hand' = [hand EXCEPT ![w] = @ \ {x}]
    BY <1>8 DEF Take
  <2>1. /\ cur'[w] = x /\ hand'[w] = hand[w] \ {x} /\ pc'[w] = "handling" /\ cur[w] = NoMessage
        /\ \A v \in Workers \ {w} : /\ cur'[v] = cur[v] /\ hand'[v] = hand[v]
                                    /\ pc'[v] = pc[v] /\ part'[v] = part[v]
    BY <1>8, <1>t DEF Take, TypeOK, AtRest
  <2>2. delivery' = delivery /\ effects' = effects
    BY <1>8 DEF Take, brokerVars
  <2>3. Apart(m)'
    BY <1>p, <1>n, <2>1, <2>2 DEF Apart
  <2>4. CASE m = x
    <3>1. delivery[m] = "out" /\ \A v \in Workers : cur[v] # m
      BY <1>p, <2>1, <2>4, <1>n DEF Apart
    <3>2. \A k \in Parts : effects[m][k] = 0
      BY <1>p, <3>1 DEF FirstTime
    <3> QED
      BY <2>1, <2>2, <2>3, <2>4, <3>1, <3>2 DEF FirstTime
  <2>5. CASE m # x
    <3>1. \A v \in Workers : (cur'[v] = m) = (cur[v] = m)
      BY <2>1, <2>5, <1>n
    <3>2. \A v \in Workers : cur'[v] = m => pc'[v] = pc[v] /\ part'[v] = part[v]
      BY <2>1, <2>5
    <3> QED
      BY <1>p, <2>2, <2>3, <3>1, <3>2 DEF FirstTime
  <2> QED
    BY <2>4, <2>5
<1>9. ASSUME NEW w \in Workers, PartSucceeds(w) \/ PartSwallowed(w)
      PROVE  Apart(m)' /\ FirstTime(m)'
  <2>1. /\ delivery' = delivery /\ cur' = cur /\ hand' = hand /\ pc[w] = "handling"
        /\ \A v \in Workers \ {w} : pc'[v] = pc[v] /\ part'[v] = part[v]
        /\ pc'[w] = "ack" \/ (pc'[w] = "handling" /\ part'[w] = part[w] + 1)
    BY <1>9, <1>t DEF PartSucceeds, PartSwallowed, NextPart, brokerVars, TypeOK
  <2>2. cur[w] \in Messages /\ part[w] \in Parts
    BY <2>1, <1>t DEF Progress, TypeOK
  <2>3. \A k \in Parts :
          effects'[m][k] = effects[m][k]
            \/ (m = cur[w] /\ k = part[w] /\ effects'[m][k] = effects[m][k] + 1)
    <3>1. CASE PartSucceeds(w)
      <4>1. m # cur[w] => effects'[m] = effects[m]
        BY <3>1, <2>2, <1>t DEF PartSucceeds, Commit, TypeOK
      <4>2. m = cur[w] => effects'[m] = [k \in Parts |->
                             IF k \in {part[w]} /\ effects[m][k] < 2
                             THEN effects[m][k] + 1 ELSE effects[m][k]]
        BY <3>1, <2>2, <1>t DEF PartSucceeds, Commit, TypeOK
      <4> QED
        BY <4>1, <4>2
    <3>2. CASE PartSwallowed(w)
      BY <3>2 DEF PartSwallowed
    <3> QED
      BY <1>9, <3>1, <3>2
  <2>4. Apart(m)'
    BY <1>p, <2>1 DEF Apart
  <2>5. CASE m # cur[w]
    <3>1. \A k \in Parts : effects'[m][k] = effects[m][k]
      BY <2>3, <2>5
    <3>2. \A v \in Workers : cur[v] = m => v \in Workers \ {w}
      BY <2>5
    <3> QED
      BY <1>p, <2>1, <2>4, <3>1, <3>2 DEF FirstTime
  <2>6. CASE m = cur[w]
    <3>1. \A k \in Parts : k >= part[w] => effects[m][k] = 0
      BY <1>p, <2>1, <2>6 DEF FirstTime
    <3>2. \A v \in Workers : cur[v] = m => v = w
      BY <1>p, <2>6 DEF Apart
    <3>3. \A k \in Parts : effects'[m][k] <= 1
      BY <1>p, <2>2, <2>3, <3>1 DEF FirstTime, Parts
    <3>4. \A k \in Parts : k >= part[w] + 1 => effects'[m][k] = 0
      BY <2>2, <2>3, <3>1 DEF Parts
    <3> QED
      BY <2>1, <2>4, <2>6, <3>2, <3>3, <3>4 DEF FirstTime
  <2> QED
    BY <2>5, <2>6
<1>10. ASSUME NEW w \in Workers, HandlerThrows(w) \/ Ack(w)
       PROVE  Apart(m)' /\ FirstTime(m)'
  <2>1. /\ hand' = hand /\ effects' = effects /\ cur'[w] = NoMessage /\ pc'[w] = "loop"
        /\ \A v \in Workers \ {w} : cur'[v] = cur[v] /\ pc'[v] = pc[v] /\ part'[v] = part[v]
    BY <1>10, <1>t DEF HandlerThrows, Ack, Finished, TypeOK
  <2>2. cur[w] \in Messages
    BY <1>10, <1>t DEF HandlerThrows, Ack, Progress
  <2>3. CASE m # cur[w]
    <3>1. delivery'[m] = delivery[m]
      BY <1>10, <1>t, <2>2, <2>3
      DEF HandlerThrows, AnswerToError, Nak, Ack, AnswerToSuccess, Acknowledge, TypeOK
    <3>2. \A v \in Workers : (cur'[v] = m) = (cur[v] = m)
      BY <2>1, <2>3, <1>n
    <3>3. \A v \in Workers : cur'[v] = m => pc'[v] = pc[v] /\ part'[v] = part[v]
      BY <2>1, <1>n
    <3> QED
      BY <1>p, <2>1, <3>1, <3>2, <3>3 DEF Apart, FirstTime
  <2>4. CASE m = cur[w]
    <3>1. delivery[m] = "out" /\ \A v \in Workers : m \notin hand[v] /\ (cur[v] = m => v = w)
      BY <1>p, <2>4 DEF Apart
    <3>2. delivery'[m] = "acked"
      BY <1>10, <1>m, <1>t, <2>4, <3>1
      DEF HandlerThrows, Ack, AnswerToSuccess, Acknowledge, TypeOK
    <3>3. \A v \in Workers : m \notin hand'[v] /\ cur'[v] # m
      BY <2>1, <3>1, <1>n
    <3> QED
      BY <1>p, <2>1, <3>2, <3>3 DEF Apart, FirstTime
  <2> QED
    BY <2>3, <2>4
<1>11. ASSUME NEW w \in Workers, Return(w) \/ LoopBreaks(w) \/ Crash(w)
       PROVE  Apart(m)' /\ FirstTime(m)'
  <2>1. /\ effects' = effects /\ cur'[w] = NoMessage /\ hand'[w] = {} /\ pc'[w] \in {"off", "dead"}
        /\ \A v \in Workers \ {w} :
             cur'[v] = cur[v] /\ hand'[v] = hand[v] /\ pc'[v] = pc[v] /\ part'[v] = part[v]
    BY <1>11, <1>t DEF Return, LoopBreaks, Crash, LetGo, TypeOK
  <2>2. cur[w] # m
    <3>1. CASE Return(w) \/ LoopBreaks(w)
      BY <3>1, <1>t, <1>n DEF Return, LoopBreaks, AtRest
    <3>2. CASE Crash(w)
      BY <3>2, <1>m, <1>n DEF Crash
    <3> QED
      BY <1>11, <3>1, <3>2
  <2>3. delivery'[m] = delivery[m]
          \/ (m \in hand[w] /\ delivery[m] = "out" /\ delivery'[m] = "again")
    <3>1. CASE Return(w)
      <4>1. hand[w] \subseteq Messages
        BY <1>t DEF TypeOK
      <4> QED
        BY <3>1, <1>t, <4>1 DEF Return, Nak, TypeOK
    <3>2. CASE LoopBreaks(w) \/ Crash(w)
      BY <3>2 DEF LoopBreaks, Crash, brokerVars
    <3> QED
      BY <1>11, <3>1, <3>2
  <2>4. \A v \in Workers : (cur'[v] = m) = (cur[v] = m)
    BY <2>1, <2>2, <1>n
  <2>5. \A v \in Workers : cur'[v] = m => pc'[v] = pc[v] /\ part'[v] = part[v]
    BY <2>1, <1>n
  <2>6. Apart(m)'
    BY <1>p, <2>1, <2>3, <2>4, <1>n DEF Apart
  <2> QED
    BY <1>p, <2>1, <2>3, <2>4, <2>5, <2>6 DEF FirstTime
<1>12. CASE UNCHANGED vars
  BY <1>12, <1>p DEF vars, brokerVars, workerVars, Apart, FirstTime
<1> QED
  BY <1>1, <1>2, <1>3, <1>4, <1>5, <1>6, <1>7, <1>8, <1>9, <1>10, <1>11, <1>12 DEF Next, Step

\* Batches, competing replicas, orderly shutdowns, fetches that fail and loops that
\* break off between two messages repeat nothing:
\* for every number of them, a part is committed twice only for a disturbed message.
THEOREM RepeatsAreExplained == Safety => []RepeatHasCause
<1>1. Init => NoneStray /\ Tidy
  <2> SUFFICES ASSUME Init PROVE NoneStray /\ Tidy
    OBVIOUS
  <2>1. NoneStray /\ AtRest
    BY DEF Init, NoneStray, AtRest
  <2>2. ASSUME NEW m \in Messages PROVE Apart(m) /\ FirstTime(m)
    BY <2>2, DurableConsumerAssumption DEF Init, Apart, FirstTime
  <2> QED
    BY <2>1, <2>2 DEF Tidy, Undisturbed
<1>2. Tidy /\ TypeOK => RepeatHasCause
  <2> SUFFICES ASSUME Tidy, TypeOK, NEW m \in Messages \ Bypassed, NEW k \in Parts,
                      effects[m][k] > 1, m \notin disturbed
               PROVE  FALSE
    BY DEF RepeatHasCause
  <2>1. effects[m][k] <= 1
    BY DEF Tidy, Undisturbed, FirstTime
  <2>2. effects[m][k] \in 0..2
    BY DEF TypeOK
  <2> QED
    BY <2>1, <2>2
<1>3. IInv => TypeOK
  BY DEF IInv
<1>4. Safety => []IInv
  BY InitIInv, NextIInv, PTL DEF Safety
<1>5. Safety => [](NoneStray /\ Tidy)
  BY <1>1, <1>4, NextNoneStray, NextTidy, PTL DEF Safety
<1> QED
  BY <1>2, <1>3, <1>4, <1>5, PTL
=============================================================================
