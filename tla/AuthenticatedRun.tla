--------------------------- MODULE AuthenticatedRun ---------------------------
(***************************************************************************)
(* The authenticated live runner                                           *)
(* (composition/authenticated-live-runner.ts): a run verifies a signed     *)
(* capability snapshot, plans from it, verifies and plans again, consumes  *)
(* the verifier's challenge, and only then executes the second plan.       *)
(* Several runs race in one or several processes, over one challenge       *)
(* store; time passes between any two of their steps, their callers may    *)
(* change the request objects they passed, processes die and power fails.  *)
(*                                                                         *)
(* Evidence (bundle, snapshot, policy, challenge) is a record of what the  *)
(* checks tell apart: whether the bundle attests exactly this evidence,    *)
(* the challenge lease, the snapshot's validity and each target's own.     *)
(* A plan is the target it places the graph's stage on: targets are        *)
(* numbered in the planner's order of preference.  The authorization       *)
(* digest is a function of the evidence and of the one signer the policy   *)
(* allows, so comparing two digests is comparing the evidence.             *)
(***************************************************************************)
EXTENDS Integers, FiniteSets

CONSTANTS
  Runs,               \* calls of plan- or runAuthenticatedLiveStageGraph
  PlanOnly,           \* those that only plan
  Challenges,         \* challenge digests
  Evidence,           \* the evidence sets that may be presented
  EvidenceOf,         \* the evidence each call is made with
  Targets,            \* fabric targets, 1 being the most preferred
  Skew,               \* trust policy: clockSkewSeconds
  MaxAge,             \* trust policy: maxSnapshotAgeSeconds
  MaxTtl,             \* trust policy: maxSnapshotTtlSeconds
  DirectoryFsync,
  PowerLossPossible,
  MaxTime             \* bound of the clock

ASSUME RunAssumption ==
  /\ PlanOnly \subseteq Runs
  /\ Targets \subseteq Nat \ {0}
  /\ IsFiniteSet(Targets)
  /\ {Skew, MaxAge, MaxTtl, MaxTime} \subseteq Nat
  /\ EvidenceOf \in [Runs -> Evidence]
  /\ DirectoryFsync \in BOOLEAN
  /\ PowerLossPossible \in BOOLEAN
  /\ \A e \in Evidence :
       /\ e.challenge \in Challenges
       /\ e.signed \in BOOLEAN
       /\ {e.issued, e.lapses, e.observed, e.expires} \subseteq Nat
       /\ e.issued < e.lapses /\ e.observed < e.expires
       /\ {e.from, e.until} \subseteq [Targets -> Nat]

VARIABLES
  clock,      \* the wall clock
  run,        \* where each run stands
  caller,     \* the evidence objects in the caller's hands
  held,       \* the run's own frozen copy
  authorized, \* the evidence the first verification authorized
  verified,   \* how many verifications the run has passed
  fence,      \* verifiedAt of the last one
  planned,    \* the last plan
  executed,   \* the plan given to the executor, or NoPlan
  step, store, marker   \* the challenge store's: see ChallengeStore

storeVars == <<step, store, marker>>
runVars == <<run, caller, held, authorized, verified, fence, planned, executed>>
vars == <<clock, runVars, storeVars>>

ChallengeOf == [r \in Runs |-> EvidenceOf[r].challenge]

Store == INSTANCE ChallengeStore WITH Consumers <- Runs

NoPlan == 0

Running == {"verify1", "verify2", "consume", "execute"}
Ended == {"planned", "done", "rejected", "crashed"}

TypeOK ==
  /\ clock \in 0..MaxTime
  /\ run \in [Runs -> {"new"} \cup Running \cup Ended]
  /\ caller \in [Runs -> Evidence]
  /\ held \in [Runs -> Evidence]
  /\ authorized \in [Runs -> Evidence]
  /\ verified \in [Runs -> 0..2]
  /\ fence \in [Runs -> 0..MaxTime]
  /\ planned \in [Runs -> Targets \cup {NoPlan}]
  /\ executed \in [Runs -> Targets \cup {NoPlan}]
  /\ Store!TypeOK

-------------------------------------------------------------------------------
(* What a verification and a planning decide, at time t.                     *)

\* validateEvidenceInputs: the snapshot was observed within the challenge
\* lease and does not outlive the policy's limit.
EvidenceCoheres(e) ==
  /\ e.expires - e.observed <= MaxTtl
  /\ e.observed >= e.issued - Skew
  /\ e.observed < e.lapses + Skew

\* verifyCapabilitySnapshotAttestationSemantics: the lease and the snapshot
\* are current, give or take the policy's clock skew.
CurrentAt(e, t) ==
  /\ e.issued <= t + Skew
  /\ t < e.lapses + Skew
  /\ e.observed <= t + Skew
  /\ t < e.expires + Skew
  /\ t - e.observed <= MaxAge + Skew

Authentic(e, t) == e.signed /\ EvidenceCoheres(e) /\ CurrentAt(e, t)

\* assertSnapshot and evaluateTarget: the planner allows no skew, and dates
\* each target by itself.
Eligible(e, t) ==
  {x \in Targets : /\ e.observed <= t /\ t < e.expires
                   /\ e.from[x] <= t /\ t < e.until[x]}

PlanAt(e, t) ==
  IF Eligible(e, t) = {}
    THEN NoPlan
    ELSE CHOOSE x \in Eligible(e, t) : \A y \in Eligible(e, t) : x <= y

\* Faulty: the caller's own objects are read again at each verification.
SharedEvidence(r) == caller[r]

\* The evidence a run works from once its request is prepared.
FrozenEvidence(r) == held[r]

-------------------------------------------------------------------------------

Init ==
  /\ clock = 0
  /\ run = [r \in Runs |-> "new"]
  /\ caller = EvidenceOf
  /\ held = EvidenceOf
  /\ authorized = EvidenceOf
  /\ verified = [r \in Runs |-> 0]
  /\ fence = [r \in Runs |-> 0]
  /\ planned = [r \in Runs |-> NoPlan]
  /\ executed = [r \in Runs |-> NoPlan]
  /\ Store!Init

Tick ==
  /\ clock < MaxTime
  /\ clock' = clock + 1
  /\ UNCHANGED <<runVars, storeVars>>

Go(r, from, to) ==
  /\ run[r] = from
  /\ run' = [run EXCEPT ![r] = to]

\* prepareLiveRunRequest and prepareAuthenticatedEvidence parse, copy and
\* freeze everything that is verified, before the first await.
Prepare(r) ==
  /\ Go(r, "new", "verify1")
  /\ held' = [held EXCEPT ![r] = caller[r]]
  /\ UNCHANGED <<clock, caller, authorized, verified, fence, planned, executed,
                 storeVars>>

\* The caller still holds the objects it passed, and may change them while the
\* run awaits.
CallerMutates(r) ==
  /\ run[r] \in Running
  /\ \E e \in Evidence : caller' = [caller EXCEPT ![r] = e]
  /\ UNCHANGED <<clock, run, held, authorized, verified, fence, planned,
                 executed, storeVars>>

\* The verifier has answered: the clock is read, the evidence checked, and the
\* graph planned at that time, in one go.
VerifyAndPlan(r) ==
  /\ Authentic(FrozenEvidence(r), clock)
  /\ PlanAt(FrozenEvidence(r), clock) # NoPlan
  /\ verified' = [verified EXCEPT ![r] = @ + 1]
  /\ fence' = [fence EXCEPT ![r] = clock]
  /\ planned' = [planned EXCEPT ![r] = PlanAt(FrozenEvidence(r), clock)]

\* Faulty: the challenge is consumed after one verification.
FirstVerificationOnly(r) ==
  /\ Go(r, "verify1", IF r \in PlanOnly THEN "planned" ELSE "consume")
  /\ VerifyAndPlan(r)
  /\ authorized' = [authorized EXCEPT ![r] = FrozenEvidence(r)]
  /\ UNCHANGED <<clock, caller, held, executed, storeVars>>

\* The first verification; a plan-only call returns its plan.
FirstVerification(r) ==
  /\ Go(r, "verify1", IF r \in PlanOnly THEN "planned" ELSE "verify2")
  /\ VerifyAndPlan(r)
  /\ authorized' = [authorized EXCEPT ![r] = FrozenEvidence(r)]
  /\ UNCHANGED <<clock, caller, held, executed, storeVars>>

\* The second verification must authorize the same thing; the plan is computed
\* anew, and the challenge consumption begins.
SecondVerification(r) ==
  /\ Go(r, "verify2", "consume")
  /\ VerifyAndPlan(r)
  /\ FrozenEvidence(r) = authorized[r]
  /\ UNCHANGED <<clock, caller, held, authorized, executed, storeVars>>

\* Either verification may be refused: by the verifier, which is external and
\* may fail at any time, by the evidence's dates, or by the planner.
VerificationRejected(r) ==
  /\ run[r] \in {"verify1", "verify2"}
  /\ run' = [run EXCEPT ![r] = "rejected"]
  /\ UNCHANGED <<clock, caller, held, authorized, verified, fence, planned,
                 executed, storeVars>>

\* One step of the challenge store on behalf of a run that awaits it.
StoreStep(r) ==
  /\ run[r] = "consume"
  /\ Store!ConsumeStep(r) \/ Store!IOError(r)
  /\ UNCHANGED <<clock, runVars>>

\* What an execution does, once the fence has let it through.
Execute(r) ==
  /\ Go(r, "consume", "execute")
  /\ executed' = [executed EXCEPT ![r] = planned[r]]
  /\ UNCHANGED <<clock, caller, held, authorized, verified, fence, planned,
                 storeVars>>

\* Faulty: only a throw stops the run, the answer false does not.
BeginExecutionOnRefusal(r) == Execute(r) /\ step[r] \in {"admitted", "refused"}

\* consume() answered true: the provider adapter is built and the last plan is
\* handed to the executor.
BeginExecution(r) == Execute(r) /\ step[r] = "admitted"

\* Faulty: the plan is made anew only now, after the challenge is consumed.
ConsumeRejectedOrReplanned(r) ==
  /\ Go(r, "consume", "rejected")
  /\ \/ step[r] \in {"refused", "failed"}
     \/ step[r] = "admitted" /\ PlanAt(FrozenEvidence(r), clock) = NoPlan
  /\ UNCHANGED <<clock, caller, held, authorized, verified, fence, planned,
                 executed, storeVars>>

\* consume() answered false (challenge_already_consumed) or threw
\* (challenge_consume_failed).
ConsumeRejected(r) ==
  /\ Go(r, "consume", "rejected")
  /\ step[r] \in {"refused", "failed"}
  /\ UNCHANGED <<clock, caller, held, authorized, verified, fence, planned,
                 executed, storeVars>>

\* The executor returned, with outputs or an error.
EndExecution(r) ==
  /\ Go(r, "execute", "done")
  /\ UNCHANGED <<clock, caller, held, authorized, verified, fence, planned,
                 executed, storeVars>>

\* The process of a run dies, and with it the store call it awaits.
Crash(r) ==
  /\ run[r] \in Running
  /\ run' = [run EXCEPT ![r] = "crashed"]
  /\ \/ Store!Crash(r)
     \/ step[r] \notin Store!ActiveSteps /\ UNCHANGED storeVars
  /\ UNCHANGED <<clock, caller, held, authorized, verified, fence, planned,
                 executed>>

\* The host loses power: every run dies.  (Losing power while no store call is
\* in progress only kills processes, which Crash does.)
PowerLoss ==
  /\ Store!PowerLoss
  /\ run' = [r \in Runs |-> IF run[r] \in Running THEN "crashed" ELSE run[r]]
  /\ UNCHANGED <<clock, caller, held, authorized, verified, fence, planned,
                 executed>>

\* What the runner itself does for a run, its caller and the faults aside.
Proceed(r) ==
  \/ FirstVerification(r)
  \/ SecondVerification(r)
  \/ VerificationRejected(r)
  \/ StoreStep(r)
  \/ BeginExecution(r)
  \/ ConsumeRejected(r)
  \/ EndExecution(r)

Next ==
  \/ \E r \in Runs : Prepare(r) \/ CallerMutates(r) \/ Proceed(r) \/ Crash(r)
  \/ PowerLoss
  \/ Tick

Spec == Init /\ [][Next]_vars

-------------------------------------------------------------------------------

Executed == {r \in Runs : executed[r] # NoPlan}

\* One challenge lets one run reach the providers, however runs race, retry,
\* die or lose power (the purpose of the fence in runAuthenticatedLiveStageGraph).
OneExecutionPerChallenge ==
  \A q, r \in Executed : ChallengeOf[q] = ChallengeOf[r] => q = r

\* What is executed is what was called for, as it stood at the second
\* verification: evidence that was authentic then, and the plan of that
\* instant, not the first plan and not one of evidence changed meanwhile.
ExecutedAtTheFence ==
  \A r \in Executed :
    /\ verified[r] = 2
    /\ Authentic(EvidenceOf[r], fence[r])
    /\ executed[r] = PlanAt(EvidenceOf[r], fence[r])

\* No provider work without the challenge: an executing run was admitted by
\* the store, and its marker outlives a power loss.
ProvidersBehindTheStore ==
  \A r \in Executed :
    /\ step[r] = "admitted"
    /\ DirectoryFsync => marker[ChallengeOf[r]] = "durable"

\* A challenge is burned only by a run whose evidence was verified twice: a
\* stale or forged request, or a plan-only call, leaves it usable.
BurnedBehindTheFence ==
  \A ch \in Challenges :
    marker[ch] # "absent" =>
      \E r \in Runs \ PlanOnly :
        /\ ChallengeOf[r] = ch
        /\ verified[r] = 2
        /\ Authentic(EvidenceOf[r], fence[r])

\* No challenge is burned in vain: once the calls that were made with it are
\* over, one of them has executed, unless one died or could not finish
\* consuming.  All that may still refuse a run comes before it consumes
\* (runAuthenticatedLiveStageGraph plans anew first), however long consuming
\* takes, and nobody is refused on account of a run that is refused as well.
BurnedNotInVain ==
  \A ch \in Challenges :
    LET callers == {r \in Runs : ChallengeOf[r] = ch} IN
    /\ marker[ch] # "absent"
    /\ \A r \in callers : run[r] \notin Running
    => \E r \in callers :
         r \in Executed \/ run[r] = "crashed" \/ step[r] = "failed"

\* The single-use contract, now of executions: the provider work of a run.
Executions == INSTANCE SingleUse WITH Consumers <- Runs, admitted <- Executed
ExecutionsSpec == Executions!Spec
==============================================================================
