------------------------ MODULE AuthenticatedRunProofs ------------------------
(***************************************************************************)
(* Proofs about the authenticated live runner, for any number of runs,     *)
(* any evidence, targets, trust policy and clock range.  Exclusion comes   *)
(* from the challenge store: a run's steps are steps of the store or leave *)
(* it alone, so the store's theorems hold of it.                           *)
(***************************************************************************)
EXTENDS AuthenticatedRun, WellFoundedInduction, TLAPS

StoreProofs == INSTANCE ChallengeStoreProofs WITH Consumers <- Runs

\* A run works on its own copy of what it was called with.
CopyInv ==
  \A r \in Runs :
    /\ held[r] = EvidenceOf[r]
    /\ run[r] = "new" => caller[r] = EvidenceOf[r]

\* How far a run is tells how often its evidence was verified, and what was
\* verified last is authentic and planned at that instant.
VerifiedInv ==
  \A r \in Runs :
    /\ run[r] \in {"new", "verify1"} => verified[r] = 0
    /\ run[r] = "verify2" => verified[r] = 1 /\ r \notin PlanOnly
    /\ run[r] \in {"consume", "execute", "done"} =>
         verified[r] = 2 /\ r \notin PlanOnly
    /\ verified[r] # 0 =>
         /\ Authentic(EvidenceOf[r], fence[r])
         /\ planned[r] = PlanAt(EvidenceOf[r], fence[r])

\* The store is used only by runs past the fence, and the executor only by
\* those the store admitted.
FenceInv ==
  \A r \in Runs :
    /\ run[r] \in {"new", "verify1", "verify2"} =>
         step[r] = "idle" /\ executed[r] = NoPlan
    /\ run[r] = "consume" => executed[r] = NoPlan
    /\ step[r] # "idle" => verified[r] = 2 /\ r \notin PlanOnly
    /\ executed[r] # NoPlan =>
         /\ verified[r] = 2
         /\ step[r] = "admitted"
         /\ executed[r] = planned[r]
         /\ run[r] \notin {"new", "verify1", "verify2", "consume"}

\* A marker on the disk was made by some run.
MarkedInv ==
  \A ch \in Challenges :
    marker[ch] # "absent" =>
      \E r \in Runs : ChallengeOf[r] = ch /\ step[r] # "idle"

IInv == TypeOK /\ CopyInv /\ VerifiedInv /\ FenceInv /\ MarkedInv

-------------------------------------------------------------------------------

\* The store's assumption on its constants holds of the runs.
LEMMA StoreConstants == StoreProofs!ConstantsAssumption
  BY RunAssumption DEF ChallengeOf, StoreProofs!ConstantsAssumption

\* A step of a run is a step of the store or leaves the store alone.
LEMMA StoreStepLemma == [Next]_vars => [Store!Next]_storeVars
<1> SUFFICES ASSUME [Next]_vars
             PROVE  [Store!Next]_storeVars
  OBVIOUS
<1> USE DEF storeVars
<1>1. ASSUME NEW r \in Runs, StoreStep(r)
      PROVE  Store!Next
  BY <1>1 DEF StoreStep, Store!Next
<1>2. ASSUME NEW r \in Runs, Crash(r)
      PROVE  [Store!Next]_storeVars
  BY <1>2 DEF Crash, Store!Next
<1>3. CASE PowerLoss
  BY <1>3 DEF PowerLoss, Store!Next
<1>4. ASSUME NEW r \in Runs,
             \/ Prepare(r) \/ CallerMutates(r) \/ FirstVerification(r)
             \/ SecondVerification(r) \/ VerificationRejected(r)
             \/ BeginExecution(r) \/ ConsumeRejected(r) \/ EndExecution(r)
      PROVE  UNCHANGED storeVars
  BY <1>4 DEF Prepare, CallerMutates, FirstVerification, SecondVerification,
              VerificationRejected, BeginExecution, Execute, ConsumeRejected, EndExecution
<1>5. CASE Tick \/ UNCHANGED vars
  BY <1>5 DEF Tick, vars
<1>6. QED
  BY <1>1, <1>2, <1>3, <1>4, <1>5 DEF Next, Proceed

\* The runner drives the challenge store as its protocol prescribes.
THEOREM RunsUseTheStore == Spec => Store!Spec
<1>1. Init => Store!Init
  BY DEF Init
<1>2. QED
  BY <1>1, StoreStepLemma, PTL DEF Spec, Store!Spec, storeVars, Store!vars

Durability == DirectoryFsync \/ ~PowerLossPossible

\* The two instances of the store are one and the same system.
LEMMA OneStore ==
  /\ Store!Init => StoreProofs!Init
  /\ [Store!Next]_storeVars => [StoreProofs!Next]_storeVars
<1>1. Store!Init => StoreProofs!Init
  BY DEF Store!Init, StoreProofs!Init
<1>2. Store!Next => StoreProofs!Next
  BY DEF Store!Next, Store!ConsumeStep, Store!MakeStore,
         Store!InspectStore, Store!SyncParent, Store!OpenRefused,
         Store!OpenMarker, Store!WriteMarker, Store!SyncStore,
         Store!IOError, Store!Crash, Store!PowerLoss, Store!Go,
         Store!Synced, Store!Survivors, Store!ActiveSteps,
         Store!Entries,
         StoreProofs!Next, StoreProofs!ConsumeStep,
         StoreProofs!MakeStore, StoreProofs!InspectStore,
         StoreProofs!SyncParent, StoreProofs!OpenRefused,
         StoreProofs!OpenMarker, StoreProofs!WriteMarker,
         StoreProofs!SyncStore, StoreProofs!IOError,
         StoreProofs!Crash, StoreProofs!PowerLoss, StoreProofs!Go,
         StoreProofs!Synced, StoreProofs!Survivors,
         StoreProofs!ActiveSteps, StoreProofs!Entries
<1>3. QED
  BY <1>1, <1>2

\* The store's two guarantees, of the runs.
LEMMA StoreGuarantees ==
  ASSUME Durability
  PROVE  Spec => []StoreProofs!SingleAdmission /\ []StoreProofs!AdmissionIsDurable
<1>1. StoreProofs!Durability
  BY DEF Durability, StoreProofs!Durability
<1>2. Store!Spec => StoreProofs!Spec
  BY OneStore, PTL DEF Store!Spec, StoreProofs!Spec, Store!vars,
                       StoreProofs!vars, storeVars
<1>3. StoreProofs!Spec => []StoreProofs!SingleAdmission
  BY <1>1, StoreConstants, StoreProofs!SingleAdmissionHolds
<1>4. StoreProofs!Spec => []StoreProofs!AdmissionIsDurable
  BY <1>1, StoreConstants, StoreProofs!AdmissionIsDurableHolds
<1>5. QED
  BY <1>2, <1>3, <1>4, RunsUseTheStore, PTL

-------------------------------------------------------------------------------

\* A nonempty set of numbers has a least one.
LEMMA LeastElement ==
  ASSUME NEW S, S \subseteq Nat, S # {}
  PROVE  \E x \in S : \A y \in S : x <= y
<1> DEFINE Less == OpToRel(<, Nat)
<1>1. \E x \in S : \A y \in S : <<y, x>> \notin Less
  <2> HIDE DEF Less
  <2>1. IsWellFoundedOn(Less, Nat)
    BY NatLessThanWellFounded DEF Less
  <2>2. QED
    BY <2>1, WFMin
<1>2. \A x, y \in Nat : <<y, x>> \notin Less => x <= y
  BY DEF OpToRel
<1>3. QED
  BY <1>1, <1>2

\* The planner picks a target or none.
LEMMA PlanType ==
  ASSUME NEW e \in Evidence, NEW t \in Nat
  PROVE  PlanAt(e, t) \in Targets \cup {NoPlan}
<1>1. Eligible(e, t) \subseteq Targets
  BY DEF Eligible
<1>2. CASE Eligible(e, t) = {}
  BY <1>2 DEF PlanAt
<1>3. CASE Eligible(e, t) # {}
  <2>1. \E x \in Eligible(e, t) : \A y \in Eligible(e, t) : x <= y
    <3>1. Eligible(e, t) \subseteq Nat
      BY <1>1, RunAssumption
    <3>2. PICK n \in Eligible(e, t) : TRUE
      BY <1>3
    <3>3. QED
      BY <3>1, <3>2, LeastElement
  <2>2. QED
    BY <1>1, <1>3, <2>1 DEF PlanAt
<1>4. QED
  BY <1>2, <1>3

-------------------------------------------------------------------------------

\* The store keeps its types whatever a run does.
LEMMA StoreTypes == Spec => []Store!TypeOK
<1>1. Store!Spec => StoreProofs!Spec
  BY OneStore, PTL DEF Store!Spec, StoreProofs!Spec, Store!vars,
                       StoreProofs!vars, storeVars
<1>2. StoreProofs!Spec => []StoreProofs!TypeOK
  BY StoreConstants, StoreProofs!TypeCorrect
<1>3. StoreProofs!TypeOK => Store!TypeOK
  BY DEF StoreProofs!TypeOK, Store!TypeOK, StoreProofs!Steps, Store!Steps,
         StoreProofs!ActiveSteps, Store!ActiveSteps, StoreProofs!Outcomes,
         Store!Outcomes, StoreProofs!Entries, Store!Entries
<1>4. QED
  BY <1>1, <1>2, <1>3, RunsUseTheStore, PTL

\* What a verification step establishes: the copy's evidence is that of the
\* call, so it is authentic and planned at the new fence.
LEMMA VerificationStep ==
  ASSUME TypeOK, CopyInv, NEW r \in Runs, VerifyAndPlan(r)
  PROVE  /\ Authentic(EvidenceOf[r], clock)
         /\ planned' = [planned EXCEPT ![r] = PlanAt(EvidenceOf[r], clock)]
         /\ fence' = [fence EXCEPT ![r] = clock]
         /\ verified' = [verified EXCEPT ![r] = @ + 1]
         /\ PlanAt(EvidenceOf[r], clock) \in Targets \cup {NoPlan}
<1>1. held[r] = EvidenceOf[r]
  BY DEF CopyInv
<1>2. EvidenceOf[r] \in Evidence /\ clock \in Nat
  BY RunAssumption DEF TypeOK
<1>3. QED
  BY <1>1, <1>2, PlanType DEF VerifyAndPlan, FrozenEvidence

\* The inductive step, one action of a run at a time; the store's types are
\* known from StoreTypes.
LEMMA InvariantStep ==
  ASSUME IInv, Store!TypeOK', [Next]_vars
  PROVE  IInv'
<1> USE RunAssumption DEF IInv, TypeOK, Running, Ended, runVars
<1>1. ASSUME NEW r \in Runs, Prepare(r)
      PROVE  IInv'
  BY <1>1 DEF Prepare, Go, storeVars, CopyInv, VerifiedInv, FenceInv, MarkedInv
<1>2. ASSUME NEW r \in Runs, CallerMutates(r)
      PROVE  IInv'
  BY <1>2 DEF CallerMutates, storeVars, CopyInv, VerifiedInv, FenceInv, MarkedInv
<1>3. ASSUME NEW r \in Runs, FirstVerification(r)
      PROVE  IInv'
  <2>0. /\ run[r] = "verify1"
        /\ Authentic(EvidenceOf[r], clock)
        /\ planned' = [planned EXCEPT ![r] = PlanAt(EvidenceOf[r], clock)]
        /\ fence' = [fence EXCEPT ![r] = clock]
        /\ verified' = [verified EXCEPT ![r] = @ + 1]
        /\ PlanAt(EvidenceOf[r], clock) \in Targets \cup {NoPlan}
    BY <1>3, VerificationStep DEF FirstVerification, Go
  <2> USE DEF FirstVerification, FrozenEvidence, Go, storeVars
  <2>1. TypeOK'
    <3>1. run' \in [Runs -> {"new"} \cup Running \cup Ended]
      BY <1>3
    <3>2. authorized' \in [Runs -> Evidence]
      BY <1>3
    <3>3. /\ verified' \in [Runs -> 0..2]
          /\ fence' \in [Runs -> 0..MaxTime]
          /\ planned' \in [Runs -> Targets \cup {NoPlan}]
      BY <1>3, <2>0 DEF VerifiedInv
    <3>4. QED
      BY <1>3, <3>1, <3>2, <3>3
  <2>2. CopyInv' /\ MarkedInv'
    BY <1>3 DEF CopyInv, MarkedInv, VerifyAndPlan
  <2>3. VerifiedInv'
    BY <1>3, <2>0 DEF VerifiedInv
  <2>4. FenceInv'
    BY <1>3, <2>0 DEF FenceInv
  <2>5. QED
    BY <2>1, <2>2, <2>3, <2>4
<1>4. ASSUME NEW r \in Runs, SecondVerification(r)
      PROVE  IInv'
  <2>0. /\ run[r] = "verify2"
        /\ Authentic(EvidenceOf[r], clock)
        /\ planned' = [planned EXCEPT ![r] = PlanAt(EvidenceOf[r], clock)]
        /\ fence' = [fence EXCEPT ![r] = clock]
        /\ verified' = [verified EXCEPT ![r] = @ + 1]
        /\ PlanAt(EvidenceOf[r], clock) \in Targets \cup {NoPlan}
    BY <1>4, VerificationStep DEF SecondVerification, Go
  <2> USE DEF SecondVerification, Go, storeVars
  <2>1. TypeOK'
    <3>1. run' \in [Runs -> {"new"} \cup Running \cup Ended]
      BY <1>4
    <3>2. authorized' \in [Runs -> Evidence]
      BY <1>4
    <3>3. /\ verified' \in [Runs -> 0..2]
          /\ fence' \in [Runs -> 0..MaxTime]
          /\ planned' \in [Runs -> Targets \cup {NoPlan}]
      BY <1>4, <2>0 DEF VerifiedInv
    <3>4. QED
      BY <1>4, <3>1, <3>2, <3>3
  <2>2. CopyInv' /\ MarkedInv'
    BY <1>4 DEF CopyInv, MarkedInv, VerifyAndPlan
  <2>3. VerifiedInv'
    BY <1>4, <2>0 DEF VerifiedInv
  <2>4. FenceInv'
    BY <1>4, <2>0 DEF FenceInv, VerifiedInv
  <2>5. QED
    BY <2>1, <2>2, <2>3, <2>4
<1>5. ASSUME NEW r \in Runs, VerificationRejected(r)
      PROVE  IInv'
  BY <1>5 DEF VerificationRejected, storeVars, CopyInv, VerifiedInv, FenceInv,
              MarkedInv
<1>6. ASSUME NEW r \in Runs, StoreStep(r)
      PROVE  IInv'
  <2>1. /\ run[r] = "consume"
        /\ \A q \in Runs \ {r} : step'[q] = step[q]
        /\ step'[r] # "idle"
        /\ \A ch \in Challenges :
             marker'[ch] # "absent" =>
               marker[ch] # "absent" \/ ch = ChallengeOf[r]
    BY <1>6
       DEF StoreStep, Store!ConsumeStep, Store!MakeStore, Store!InspectStore,
           Store!SyncParent, Store!OpenRefused, Store!OpenMarker,
           Store!WriteMarker, Store!SyncStore, Store!IOError, Store!Go,
           Store!Synced, Store!ActiveSteps, Store!TypeOK, Store!Entries
  <2>2. UNCHANGED <<clock, runVars>>
    BY <1>6 DEF StoreStep
  <2>3. TypeOK' /\ CopyInv' /\ VerifiedInv'
    BY <2>2 DEF CopyInv, VerifiedInv
  <2>4. FenceInv'
    BY <2>1, <2>2 DEF FenceInv, VerifiedInv
  <2>5. MarkedInv'
    <3> SUFFICES ASSUME NEW ch \in Challenges, marker'[ch] # "absent"
                 PROVE  \E q \in Runs : ChallengeOf[q] = ch /\ step'[q] # "idle"
      BY DEF MarkedInv
    <3>1. CASE ch = ChallengeOf[r]
      BY <2>1, <3>1
    <3>2. CASE ch # ChallengeOf[r]
      <4>1. PICK q \in Runs : ChallengeOf[q] = ch /\ step[q] # "idle"
        BY <2>1, <3>2 DEF MarkedInv
      <4>2. QED
        BY <2>1, <4>1
    <3>3. QED
      BY <3>1, <3>2
  <2>6. QED
    BY <2>3, <2>4, <2>5
<1>7. ASSUME NEW r \in Runs, BeginExecution(r)
      PROVE  IInv'
  BY <1>7 DEF BeginExecution, Execute, Go, storeVars, CopyInv, VerifiedInv, FenceInv,
              MarkedInv
<1>8. ASSUME NEW r \in Runs, ConsumeRejected(r) \/ EndExecution(r)
      PROVE  IInv'
  BY <1>8 DEF ConsumeRejected, EndExecution, Go, storeVars, CopyInv,
              VerifiedInv, FenceInv, MarkedInv
<1>9. ASSUME NEW r \in Runs, Crash(r)
      PROVE  IInv'
  <2>1. /\ run' = [run EXCEPT ![r] = "crashed"]
        /\ UNCHANGED <<clock, caller, held, authorized, verified, fence,
                       planned, executed, marker>>
        /\ \/ UNCHANGED step
           \/ /\ step[r] \notin {"idle", "admitted"}
              /\ step' = [step EXCEPT ![r] = "crashed"]
    BY <1>9 DEF Crash, Store!Crash, Store!ActiveSteps, storeVars
  <2>2. TypeOK' /\ CopyInv' /\ VerifiedInv'
    BY <2>1 DEF CopyInv, VerifiedInv
  <2>3. FenceInv' /\ MarkedInv'
    BY <2>1 DEF FenceInv, MarkedInv, Store!TypeOK
  <2>4. QED
    BY <2>2, <2>3
<1>10. CASE PowerLoss
  <2>1. /\ run' \in [Runs -> {"new"} \cup Running \cup Ended]
        /\ \A r \in Runs : run'[r] # run[r] => run'[r] = "crashed"
        /\ UNCHANGED <<clock, caller, held, authorized, verified, fence,
                       planned, executed>>
    BY <1>10 DEF PowerLoss
  <2>2. \A r \in Runs :
          \/ step'[r] = step[r]
          \/ step[r] \notin {"idle", "admitted"} /\ step'[r] = "crashed"
    BY <1>10 DEF PowerLoss, Store!PowerLoss, Store!ActiveSteps
  <2>3. \A ch \in Challenges : marker'[ch] # "absent" => marker[ch] # "absent"
    BY <1>10 DEF PowerLoss, Store!PowerLoss, Store!Survivors
  <2>4. TypeOK' /\ CopyInv' /\ VerifiedInv'
    BY <2>1 DEF CopyInv, VerifiedInv
  <2>5. FenceInv'
    BY <2>1, <2>2 DEF FenceInv
  <2>6. MarkedInv'
    <3> SUFFICES ASSUME NEW ch \in Challenges, marker'[ch] # "absent"
                 PROVE  \E q \in Runs : ChallengeOf[q] = ch /\ step'[q] # "idle"
      BY DEF MarkedInv
    <3>1. PICK q \in Runs : ChallengeOf[q] = ch /\ step[q] # "idle"
      BY <2>3 DEF MarkedInv
    <3>2. QED
      BY <2>2, <3>1
  <2>7. QED
    BY <2>4, <2>5, <2>6
<1>11. CASE Tick \/ UNCHANGED vars
  <2>1. UNCHANGED <<runVars, storeVars>>
    BY <1>11 DEF Tick, vars
  <2>2. clock' \in 0..MaxTime
    BY <1>11 DEF Tick, vars
  <2>3. TypeOK' /\ CopyInv' /\ VerifiedInv'
    BY <2>1, <2>2 DEF CopyInv, VerifiedInv
  <2>4. FenceInv' /\ MarkedInv'
    BY <2>1 DEF storeVars, FenceInv, MarkedInv
  <2>5. QED
    BY <2>3, <2>4
<1>12. QED
  BY <1>1, <1>2, <1>3, <1>4, <1>5, <1>6, <1>7, <1>8, <1>9, <1>10, <1>11
     DEF Next, Proceed

\* The inductive invariant holds throughout.
THEOREM Invariance == Spec => []IInv
<1>1. Init => IInv
  <2>1. ASSUME Init PROVE TypeOK
    BY <2>1, RunAssumption
       DEF Init, TypeOK, Running, Ended, Store!Init, Store!TypeOK, Store!Steps,
           Store!Entries
  <2>2. ASSUME Init PROVE CopyInv /\ VerifiedInv /\ FenceInv /\ MarkedInv
    BY <2>2, RunAssumption
       DEF Init, Store!Init, CopyInv, VerifiedInv, FenceInv, MarkedInv, NoPlan
  <2>3. QED
    BY <2>1, <2>2 DEF IInv
<1>2. IInv /\ Store!TypeOK' /\ [Next]_vars => IInv'
  BY InvariantStep
<1>3. QED
  BY <1>1, <1>2, StoreTypes, PTL DEF Spec

\* Every variable keeps its type.
THEOREM TypeCorrect == Spec => []TypeOK
  BY Invariance, PTL DEF IInv

\* The executed plan is the plan of the second verification, made from the
\* evidence of the call, which was authentic at that instant; the caller's
\* later changes and the first plan do not matter.
THEOREM ExecutedAtTheFenceHolds == Spec => []ExecutedAtTheFence
<1>1. IInv => ExecutedAtTheFence
  BY DEF IInv, VerifiedInv, FenceInv, ExecutedAtTheFence, Executed
<1>2. QED
  BY <1>1, Invariance, PTL

\* Nothing but a twice-verified run leaves a marker on the disk.
THEOREM BurnedBehindTheFenceHolds == Spec => []BurnedBehindTheFence
<1>1. IInv => BurnedBehindTheFence
  BY DEF IInv, VerifiedInv, FenceInv, MarkedInv, BurnedBehindTheFence
<1>2. QED
  BY <1>1, Invariance, PTL

\* How a run's standing answers to its store call's: it awaits every call that
\* is under way, dies with it, and once admitted goes on to execute a plan.
OutcomeInv ==
  \A r \in Runs :
    /\ verified[r] # 0 => planned[r] # NoPlan
    /\ step[r] \in Store!ActiveSteps => run[r] = "consume"
    /\ step[r] = "admitted" => run[r] \in {"consume", "execute", "done", "crashed"}
    /\ step[r] = "crashed" => run[r] = "crashed"
    /\ run[r] \in {"execute", "done"} => executed[r] # NoPlan

\* How far a call has come that may have created a marker.
Opened == {"write", "syncStore", "admitted", "failed", "crashed"}

\* A marker is still in the hands of the run that made it, or was until that
\* run failed or died.
OpenedInv ==
  \A ch \in Challenges :
    marker[ch] # "absent" => \E r \in Runs : ChallengeOf[r] = ch /\ step[r] \in Opened

BurnInv == OutcomeInv /\ OpenedInv

LEMMA OutcomeStep ==
  ASSUME IInv, OutcomeInv, [Next]_vars
  PROVE  OutcomeInv'
<1> USE DEF IInv, TypeOK, OutcomeInv, Store!TypeOK, Store!ActiveSteps, Running, runVars
<1>1. ASSUME NEW r \in Runs, Prepare(r) \/ CallerMutates(r)
      PROVE  OutcomeInv'
  BY <1>1 DEF Prepare, CallerMutates, Go, storeVars, FenceInv
<1>2. ASSUME NEW r \in Runs, FirstVerification(r) \/ SecondVerification(r)
      PROVE  OutcomeInv'
  <2>1. /\ run[r] \in {"verify1", "verify2"}
        /\ run' = [run EXCEPT ![r] = run'[r]] /\ run'[r] \in {"planned", "verify2", "consume"}
        /\ UNCHANGED <<executed, storeVars>>
        /\ \E x : x # NoPlan /\ planned' = [planned EXCEPT ![r] = x]
        /\ \A q \in Runs \ {r} : verified'[q] = verified[q]
    BY <1>2 DEF FirstVerification, SecondVerification, VerifyAndPlan, Go
  <2>2. step[r] = "idle"
    BY <2>1 DEF FenceInv
  <2>3. QED
    BY <2>1, <2>2 DEF storeVars
<1>3. ASSUME NEW r \in Runs, VerificationRejected(r) \/ ConsumeRejected(r) \/ EndExecution(r)
      PROVE  OutcomeInv'
  BY <1>3 DEF VerificationRejected, ConsumeRejected, EndExecution, Go, storeVars, FenceInv
<1>4. ASSUME NEW r \in Runs, StoreStep(r)
      PROVE  OutcomeInv'
  <2>1. /\ run[r] = "consume" /\ UNCHANGED <<clock, runVars>>
        /\ \E to : step' = [step EXCEPT ![r] = to] /\ to # "crashed"
    BY <1>4
       DEF StoreStep, Store!ConsumeStep, Store!MakeStore, Store!InspectStore,
           Store!SyncParent, Store!OpenRefused, Store!OpenMarker,
           Store!WriteMarker, Store!SyncStore, Store!IOError, Store!Go
  <2>2. QED
    BY <2>1
<1>5. ASSUME NEW r \in Runs, BeginExecution(r)
      PROVE  OutcomeInv'
  <2>1. planned[r] # NoPlan
    BY <1>5 DEF BeginExecution, Execute, Go, VerifiedInv
  <2>2. QED
    BY <1>5, <2>1 DEF BeginExecution, Execute, Go, storeVars
<1>6. ASSUME NEW r \in Runs, Crash(r)
      PROVE  OutcomeInv'
  BY <1>6 DEF Crash, Store!Crash, storeVars
<1>7. CASE PowerLoss
  BY <1>7 DEF PowerLoss, Store!PowerLoss
<1>8. CASE Tick \/ UNCHANGED vars
  BY <1>8 DEF Tick, vars, storeVars
<1>9. QED
  BY <1>1, <1>2, <1>3, <1>4, <1>5, <1>6, <1>7, <1>8 DEF Next, Proceed

LEMMA OpenedStep ==
  ASSUME IInv, OpenedInv, [Next]_vars
  PROVE  OpenedInv'
<1> SUFFICES ASSUME NEW ch \in Challenges, marker'[ch] # "absent"
             PROVE  \E r \in Runs : ChallengeOf[r] = ch /\ step'[r] \in Opened
  BY DEF OpenedInv
<1> USE DEF IInv, TypeOK, Store!TypeOK, Store!ActiveSteps, Opened
<1>1. ASSUME UNCHANGED storeVars
      PROVE  \E r \in Runs : ChallengeOf[r] = ch /\ step'[r] \in Opened
  BY <1>1 DEF storeVars, OpenedInv
<1>2. ASSUME NEW c \in Runs, Store!OpenMarker(c)
      PROVE  \E r \in Runs : ChallengeOf[r] = ch /\ step'[r] \in Opened
  <2>1. CASE ch = ChallengeOf[c]
    BY <1>2, <2>1 DEF Store!OpenMarker, Store!Go
  <2>2. CASE ch # ChallengeOf[c]
    BY <1>2, <2>2 DEF Store!OpenMarker, Store!Go, OpenedInv
  <2>3. QED
    BY <2>1, <2>2
<1>3. ASSUME NEW c \in Runs,
             \/ Store!MakeStore(c) \/ Store!InspectStore(c) \/ Store!SyncParent(c)
             \/ Store!OpenRefused(c) \/ Store!WriteMarker(c) \/ Store!SyncStore(c)
             \/ Store!IOError(c) \/ Store!Crash(c)
      PROVE  \E r \in Runs : ChallengeOf[r] = ch /\ step'[r] \in Opened
  <2>1. marker[ch] # "absent"
    BY <1>3 DEF Store!MakeStore, Store!InspectStore, Store!SyncParent, Store!OpenRefused,
                Store!WriteMarker, Store!SyncStore, Store!Synced, Store!IOError, Store!Crash
  <2>2. PICK r \in Runs : ChallengeOf[r] = ch /\ step[r] \in Opened
    BY <2>1 DEF OpenedInv
  <2>3. step'[r] \in Opened
    BY <1>3, <2>2
       DEF Store!MakeStore, Store!InspectStore, Store!SyncParent, Store!OpenRefused,
           Store!WriteMarker, Store!SyncStore, Store!IOError, Store!Crash, Store!Go
  <2>4. QED
    BY <2>2, <2>3
<1>4. CASE PowerLoss
  <2>1. marker[ch] # "absent"
    BY <1>4 DEF PowerLoss, Store!PowerLoss, Store!Survivors
  <2>2. PICK r \in Runs : ChallengeOf[r] = ch /\ step[r] \in Opened
    BY <2>1 DEF OpenedInv
  <2>3. QED
    BY <1>4, <2>2 DEF PowerLoss, Store!PowerLoss
<1>5. ASSUME NEW r \in Runs, StoreStep(r)
      PROVE  \E q \in Runs : ChallengeOf[q] = ch /\ step'[q] \in Opened
  BY <1>2, <1>3, <1>5 DEF StoreStep, Store!ConsumeStep
<1>6. ASSUME NEW r \in Runs, Crash(r)
      PROVE  \E q \in Runs : ChallengeOf[q] = ch /\ step'[q] \in Opened
  BY <1>1, <1>3, <1>6 DEF Crash
<1>7. ASSUME NEW r \in Runs,
             \/ Prepare(r) \/ CallerMutates(r) \/ FirstVerification(r)
             \/ SecondVerification(r) \/ VerificationRejected(r)
             \/ BeginExecution(r) \/ ConsumeRejected(r) \/ EndExecution(r)
      PROVE  UNCHANGED storeVars
  BY <1>7 DEF Prepare, CallerMutates, FirstVerification, SecondVerification,
              VerificationRejected, BeginExecution, Execute, ConsumeRejected, EndExecution
<1>8. CASE Tick \/ UNCHANGED vars
  BY <1>1, <1>8 DEF Tick, vars
<1>9. QED
  BY <1>1, <1>4, <1>5, <1>6, <1>7, <1>8 DEF Next, Proceed

\* Of any number of runs made with a challenge, at any moments and whatever
\* dies, fails or loses power: when all of them are over and its marker is on
\* the disk, one has executed, or one died or could not finish consuming
\* (runAuthenticatedLiveStageGraph; consume).
THEOREM BurnedNotInVainHolds == Spec => []BurnedNotInVain
<1>1. Init => BurnInv
  BY DEF Init, Store!Init, Store!ActiveSteps, BurnInv, OutcomeInv, OpenedInv
<1>2. IInv /\ BurnInv /\ [Next]_vars => BurnInv'
  BY OutcomeStep, OpenedStep DEF BurnInv
<1>3. IInv /\ BurnInv => BurnedNotInVain
  <2> SUFFICES ASSUME IInv, BurnInv, NEW ch \in Challenges, marker[ch] # "absent",
                      \A r \in Runs : ChallengeOf[r] = ch => run[r] \notin Running
               PROVE  \E r \in Runs : /\ ChallengeOf[r] = ch
                                      /\ r \in Executed \/ run[r] = "crashed" \/ step[r] = "failed"
    BY DEF BurnedNotInVain
  <2>1. PICK r \in Runs : ChallengeOf[r] = ch /\ step[r] \in Opened
    BY DEF BurnInv, OpenedInv
  <2>2. run[r] \notin {"consume", "execute"}
    BY <2>1 DEF Running
  <2>3. QED
    BY <2>1, <2>2 DEF BurnInv, OutcomeInv, Opened, Store!ActiveSteps, Executed
<1>4. QED
  BY <1>1, <1>2, <1>3, Invariance, PTL DEF Spec

\* Provider work happens behind the store's admission.
THEOREM ProvidersBehindTheStoreHolds ==
  ASSUME Durability
  PROVE  Spec => []ProvidersBehindTheStore
<1>1. IInv /\ StoreProofs!AdmissionIsDurable => ProvidersBehindTheStore
  BY DEF IInv, FenceInv, StoreProofs!AdmissionIsDurable, StoreProofs!Admitted,
         ProvidersBehindTheStore, Executed
<1>2. QED
  BY <1>1, Invariance, StoreGuarantees, PTL

\* One challenge, one execution.
THEOREM OneExecutionPerChallengeHolds ==
  ASSUME Durability
  PROVE  Spec => []OneExecutionPerChallenge
<1>1. IInv /\ StoreProofs!SingleAdmission => OneExecutionPerChallenge
  BY DEF IInv, FenceInv, StoreProofs!SingleAdmission, StoreProofs!Admitted,
         OneExecutionPerChallenge, Executed
<1>2. QED
  BY <1>1, Invariance, StoreGuarantees, PTL

\* The runner implements the single-use contract for executions: a step hands
\* one new run to the executor, of a challenge that has executed none, or none.
THEOREM RunsAreSingleUse ==
  ASSUME Durability
  PROVE  Spec => ExecutionsSpec
<1>1. Init => Executions!Init
  BY DEF Init, Executions!Init, Executed
<1>2. IInv /\ OneExecutionPerChallenge' /\ [Next]_vars
        => [Executions!Next]_Executed
  <2> SUFFICES ASSUME IInv, OneExecutionPerChallenge', [Next]_vars
               PROVE  [Executions!Next]_Executed
    OBVIOUS
  <2>1. ASSUME NEW r \in Runs, BeginExecution(r), planned[r] # NoPlan
        PROVE  Executions!Admit(r)
    <3>1. r \notin Executed /\ Executed' = Executed \cup {r}
      BY <2>1 DEF BeginExecution, Execute, Go, Executed, IInv, TypeOK, FenceInv
    <3>2. \A q \in Executed : ChallengeOf[q] # ChallengeOf[r]
      <4>1. \A q \in Executed : q \in Executed' /\ q # r
        BY <3>1
      <4>2. r \in Executed'
        BY <3>1
      <4>3. QED
        BY <4>1, <4>2 DEF OneExecutionPerChallenge
    <3>3. QED
      BY <3>1, <3>2 DEF Executions!Admit
  <2>2. ASSUME NEW r \in Runs, BeginExecution(r), planned[r] = NoPlan
        PROVE  UNCHANGED Executed
    BY <2>2 DEF BeginExecution, Execute, Go, Executed, IInv, TypeOK, FenceInv
  <2>3. ASSUME UNCHANGED executed
        PROVE  UNCHANGED Executed
    BY <2>3 DEF Executed
  <2>4. ASSUME NEW r \in Runs,
               \/ Prepare(r) \/ CallerMutates(r) \/ FirstVerification(r)
               \/ SecondVerification(r) \/ VerificationRejected(r)
               \/ StoreStep(r) \/ ConsumeRejected(r) \/ EndExecution(r)
               \/ Crash(r)
        PROVE  UNCHANGED executed
    BY <2>4 DEF Prepare, CallerMutates, FirstVerification, SecondVerification,
                VerificationRejected, StoreStep, ConsumeRejected, EndExecution,
                Crash, runVars
  <2>5. CASE PowerLoss \/ Tick \/ UNCHANGED vars
    BY <2>5, <2>3 DEF PowerLoss, Tick, vars, runVars
  <2>6. ASSUME NEW r \in Runs, BeginExecution(r)
        PROVE  [Executions!Next]_Executed
    BY <2>1, <2>2, <2>6 DEF Executions!Next
  <2>7. QED
    BY <2>3, <2>4, <2>5, <2>6 DEF Next, Proceed
<1>3. QED
  BY <1>1, <1>2, Invariance, OneExecutionPerChallengeHolds, PTL
     DEF Spec, ExecutionsSpec, Executions!Spec
==============================================================================
