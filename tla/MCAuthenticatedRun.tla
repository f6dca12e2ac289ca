-------------------------- MODULE MCAuthenticatedRun --------------------------
(***************************************************************************)
(* Two scenes.  "race": two runs and a plan-only call on the same good     *)
(* evidence, whose preferred target expires under way.  "swap": a run on   *)
(* good evidence and one on evidence for another challenge, dated in the   *)
(* verifier's future, whose callers may replace either by other or forged  *)
(* evidence while the runs await.  Every fault may happen in both.         *)
(***************************************************************************)
EXTENDS AuthenticatedRun, TLC

CONSTANTS r1, r2, late, p1, ch1, ch2

MCTargets == {1, 2}
MCChallenges == {ch1, ch2}

\* The preferred target of a snapshot valid over 0..2 expires at 1.
Good == [challenge |-> ch1, signed |-> TRUE,
         issued |-> 0, lapses |-> 2, observed |-> 0, expires |-> 3,
         from |-> (1 :> 0 @@ 2 :> 0), until |-> (1 :> 1 @@ 2 :> 3)]

\* The same challenge and dates, but not what the bundle attests.
Forged == [Good EXCEPT !.signed = FALSE, !.until = (1 :> 3 @@ 2 :> 3)]

\* Another challenge, observed a tick late.
Late == [challenge |-> ch2, signed |-> TRUE,
         issued |-> 1, lapses |-> 3, observed |-> 1, expires |-> 2,
         from |-> (1 :> 0 @@ 2 :> 0), until |-> (1 :> 3 @@ 2 :> 3)]

MCRuns == {r1, r2, late, p1}
MCEvidence == {Good, Forged, Late}
MCEvidenceOf == [r \in MCRuns |-> IF r = late THEN Late ELSE Good]

-------------------------------------------------------------------------------

VARIABLE scene

Called == IF scene = "race" THEN {r1, r2, p1} ELSE {r1, late}

MCInit == Init /\ scene \in {"race", "swap"}

MCNext ==
  /\ Next /\ scene' = scene
  /\ \A r \in Runs \ Called : run'[r] = "new"
  /\ scene = "race" => caller' = caller /\ clock' < MaxTime

MCSpec == MCInit /\ [][MCNext]_<<vars, scene>>
===============================================================================
