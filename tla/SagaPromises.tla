----------------------------- MODULE SagaPromises -----------------------------
(***************************************************************************)
(* What EtoCompensation promises, over the part of its state that the      *)
(* promises are about: the lists of completed steps, what of the           *)
(* environment's bounds is used, and the histories.                        *)
(***************************************************************************)
EXTENDS Naturals, SequencesExt

CONSTANTS
  SagaSteps,   \* ETO_SAGA_STEPS
  Replicas

VARIABLES
  list,        \* per replica: completedSteps
  used,        \* what of the bounds is used
  learned,     \* history: per replica and step, how often it entered the list
  published,   \* history: per replica and step, how often its reversal was handed over
  covered,     \* history: per replica, steps a call took up since they entered the list
  late,        \* history: per replica, steps that entered while a call ran there
  overlapped   \* history: replicas where two calls ran at once

\* A replica reverses a step as often as the step entered its list (by a message, or out
\* of the table after a restart), and only calls that overlap there reverse it more
\* often: completedSteps is the only memory of what is still to be reversed.
ReversedAsLearned ==
  \A r \in Replicas \ overlapped, s \in SagaSteps : published[r][s] <= learned[r][s]

\* A step leaves a replica's list only when its reversal was published or at least tried,
\* or because it came while the compensation ran (eto-chain.service.ts:203 clears a list
\* it copied at :192), or the process restarted.
NothingForgotten ==
  [][\A r \in Replicas : used'["restarts"] = used["restarts"] =>
       ToSet(list[r]) \ ToSet(list'[r]) \subseteq covered[r] \cup late[r]]_<<list, used>>
=============================================================================
