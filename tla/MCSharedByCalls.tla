---------------------------- MODULE MCSharedByCalls ----------------------------
(***************************************************************************)
(* What racing calls share, each alone in its behaviours. "store": three   *)
(* calls that consume one challenge and a fourth for another, in one       *)
(* store. "pipeline": three calls of a classifier's one pipeline, each of  *)
(* which may be aborted, and a dispose().                                  *)
(***************************************************************************)
EXTENDS ChallengeStore, TLC

CONSTANTS c1, c2, c3, c4, ch1, ch2

MCConsumers == {c1, c2, c3, c4}
MCChallenges == {ch1, ch2}
MCChallengeOf == (c1 :> ch1) @@ (c2 :> ch1) @@ (c3 :> ch1) @@ (c4 :> ch2)
MCClassifying == {c1, c2, c3}

-------------------------------------------------------------------------------

VARIABLES scene, pipeline, loads, call, aborted, running, disposed, disposal, awaited

Classifier == INSTANCE SpanClassifier WITH Calls <- MCClassifying

classifierVars == <<pipeline, loads, call, aborted, running, disposed, disposal, awaited>>
mcVars == <<scene, vars, classifierVars>>

AtTheStore(A) == scene = "store" /\ A /\ UNCHANGED <<scene, classifierVars>>
AtThePipeline(A) == scene = "pipeline" /\ A /\ UNCHANGED <<scene, vars>>

\* Each begins as it may, if it is to act, and else in one certain way.
MCInit ==
  /\ scene \in {"store", "pipeline"}
  /\ Init /\ (scene # "store" => store = "absent")
  /\ Classifier!Init

\* The fairness of each, as it states it.
MCSpec ==
  /\ MCInit /\ [][AtTheStore(Next) \/ AtThePipeline(Classifier!Next)]_mcVars
  /\ \A c \in Consumers : WF_mcVars(AtTheStore(step[c] \in ActiveSteps /\ ConsumeStep(c)))
  /\ WF_mcVars(AtThePipeline(Classifier!Advance))

\* The pipeline is not freed while it is at an inference, aborted ones included
\* (sensitive-span-classifier.ts, dispose).
FreedWhenIdle == Classifier!FreedWhenIdle

\* The pipeline is loaded once and left alone after dispose(), and neither an
\* abort nor dispose() waits for an answer that no longer matters, or gives it.
AbortsAndDisposalEnd == Classifier!AbortsAndDisposalEnd
================================================================================
