------------------------------ MODULE EtoPipeline ------------------------------
(***************************************************************************)
(* What a chain promises its project: the steps are taken one after the    *)
(* other, each once, and done for good; the first that fails is the last,  *)
(* and only a step that failed is ever compensated.  A step that two       *)
(* handlers work on at once clashes: of it nothing more is promised, and   *)
(* the later steps need not wait for the ones before them.                 *)
(***************************************************************************)
EXTENDS Naturals

CONSTANT NumSteps

VARIABLES
  phase,      \* "waiting", "running", "done", "failed" or "clashed" for each step
  reversed    \* steps that did not clash and that a compensation was published for

vars == <<phase, reversed>>

Steps == 1..NumSteps

Init ==
  /\ phase = [s \in Steps |-> "waiting"]
  /\ reversed = {}

Begin(s) ==
  /\ phase[s] = "waiting"
  /\ \/ \A u \in 1..(s - 1) : phase[u] = "done"
     \/ \E u \in 1..(s - 1) : phase[u] = "clashed"
  /\ phase' = [phase EXCEPT ![s] = "running"]
  /\ UNCHANGED reversed

Finish(s) ==
  /\ phase[s] = "running"
  /\ phase' = [phase EXCEPT ![s] = "done"]
  /\ UNCHANGED reversed

Fail(s) ==
  /\ phase[s] = "running"
  /\ phase' = [phase EXCEPT ![s] = "failed"]
  /\ UNCHANGED reversed

Reverse(s) ==
  /\ phase[s] = "failed"
  /\ reversed' = reversed \cup {s}
  /\ UNCHANGED phase

Clash(S) ==
  /\ phase' = [s \in Steps |-> IF s \in S THEN "clashed" ELSE phase[s]]
  /\ reversed' = reversed \ S

Next ==
  \/ \E s \in Steps : Begin(s) \/ Finish(s) \/ Fail(s) \/ Reverse(s)
  \/ \E S \in SUBSET Steps : Clash(S)

Safety == Init /\ [][Next]_vars
=============================================================================
