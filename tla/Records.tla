------------------------------- MODULE Records -------------------------------
(***************************************************************************)
(* What the program attests and keeps: the attestation of a capability     *)
(* snapshot, the placement evidence of a run, and the exclusive creation   *)
(* of the file either of them is written to or asked for with. They share  *)
(* no state, so there is nothing to interleave: in each behaviour one of   *)
(* them acts, and the others stay as they began.                           *)
(***************************************************************************)
EXTENDS Naturals, Sequences, FiniteSets

CONSTANTS
  Targets,
  Operations, Kinds, EvidenceSets, MaxExchanges, MaxTime,  \* SnapshotAttestation
  StageIds, RunPlans,                                      \* PlacementEvidence
  MaxPlacements, MaxAttempts, MaxTrace, MaxEdits,
  Keepers,     \* who write evidence
  Askers,      \* who write a challenge
  Foreign, Vacant, MaxMeddling

VARIABLES
  acting,
  \* SnapshotAttestation
  attestationAt, held, statement, issued, clock, exchanges, refusal,
  \* PlacementEvidence
  plan, at, turn, try, stages, trace, together, edits, evidence,
  \* ExclusiveFile
  step, failure, answer, entry, content, synced, meddling

Attestation ==
  INSTANCE SnapshotAttestation WITH
    Sets <- EvidenceSets, MaxEdits <- MaxExchanges,
    at <- attestationAt, edits <- exchanges, failure <- refusal

Placement == INSTANCE PlacementEvidence WITH TargetIds <- Targets, Plans <- RunPlans

File ==
  INSTANCE ExclusiveFile WITH
    Writers <- Keepers \cup Askers, Evidence <- Keepers, Nothing <- Vacant

ASSUME RecordsAssumption ==
  Attestation!AttestationAssumption /\ Placement!EvidenceAssumption /\ File!WriterAssumption

-------------------------------------------------------------------------------

attestationVars == <<attestationAt, held, statement, issued, clock, exchanges, refusal>>
placementVars == <<plan, at, turn, try, stages, trace, together, edits, evidence>>
fileVars == <<step, failure, answer, entry, content, synced, meddling>>
recordsVars == <<acting, attestationVars, placementVars, fileVars>>

\* Each begins as it may, if it is to act, and else in one certain way.
RecordsInit ==
  /\ acting \in {"attestation", "placement", "file"}
  /\ Attestation!Init /\ (acting # "attestation" => held = CHOOSE e \in EvidenceSets : TRUE)
  /\ Placement!Init /\ (acting # "placement" => plan = CHOOSE p \in RunPlans : TRUE)
  /\ File!Init /\ (acting # "file" => entry = Vacant)

RecordsNext ==
  \/ acting = "attestation" /\ Attestation!Next /\ UNCHANGED <<acting, placementVars, fileVars>>
  \/ acting = "placement" /\ Placement!Next /\ UNCHANGED <<acting, attestationVars, fileVars>>
  \/ acting = "file" /\ File!Next /\ UNCHANGED <<acting, attestationVars, placementVars>>

RecordsSpec == RecordsInit /\ [][RecordsNext]_recordsVars

-------------------------------------------------------------------------------

\* Of all seven pieces of evidence only the issuer's own are verified, however
\* they are listed; what they offer was qualified, and observed within the
\* lease and the policy's lifetime of this moment; and what was issued is
\* refused for the time only.
AttestationIsSound ==
  /\ Attestation!TypeOK /\ Attestation!VerifiedAsIssued /\ Attestation!IssuedIsVerified
  /\ Attestation!OfferedIsQualified /\ Attestation!AskedForAndFresh

\* Whatever its holder did to a result, what is sealed of it is a run that the
\* executor can have made of its plan; and the result of a run is sealed as it
\* is, within the schema's limits.
SealedIsARun == Placement!TypeOK /\ Placement!SealedIsARun /\ Placement!HonestIsSealed

\* A file that is said to be created is whole, whatever fails, dies or loses
\* power; it is said to one writer; and no writer replaces or removes what it
\* finds at the path.
CreatedIsOwn ==
  /\ [](File!TypeOK /\ File!CreatedIsWhole /\ File!OneCreator)
  /\ File!NothingIsClobbered
==============================================================================
