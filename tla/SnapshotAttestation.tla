-------------------------- MODULE SnapshotAttestation --------------------------
(***************************************************************************)
(* The meaning of a capability snapshot's attestation (domain/capability-  *)
(* snapshot-attestation.ts): an issuer makes a statement of seven pieces   *)
(* that cohere, it is signed, and whoever holds the pieces presents them   *)
(* to a verifier, in time or not, perhaps with pieces of other evidence    *)
(* among them.  AuthenticatedRun reduces all of this to one bit and dates. *)
(*                                                                         *)
(* A digest is the content it covers.  The signature keeps the statement   *)
(* as it is.                                                               *)
(***************************************************************************)
EXTENDS Integers

CONSTANTS
  Targets, Operations, Kinds,
  Sets,         \* complete evidence sets, coherent or not
  MaxEdits,     \* how many pieces the holder exchanges
  MaxTime

Scope == Targets \X Operations

Evidence ==
  [fabric : [targets : SUBSET Targets, preference : Nat, listing : {0, 1}],
   snapshot : [binding : Nat, offers : SUBSET Scope, targets : SUBSET Targets, healthy : SUBSET Targets,
               observed : Nat, expires : Nat, intact : BOOLEAN],
   bindings : [digest : Nat, kind : [Scope -> Kinds \cup {"unbound"}], intact : BOOLEAN],
   report : [binding : Nat, profile : SUBSET Scope, kind : [Scope -> Kinds], results : SUBSET Scope,
             qualified : BOOLEAN, intact : BOOLEAN],
   profile : SUBSET Scope,
   policy : [fabric : [targets : SUBSET Targets, preference : Nat], profile : SUBSET Scope, audience : Nat,
             ttl : Nat, age : Nat, skew : Nat],
   challenge : [value : Nat, audience : Nat, issued : Nat, expires : Nat]]

AttestationAssumption ==
  /\ Sets \subseteq Evidence
  /\ MaxEdits \in Nat /\ MaxTime \in Nat
  /\ \A e \in Sets : /\ e.snapshot.observed < e.snapshot.expires /\ e.challenge.issued < e.challenge.expires
                     /\ {s[1] : s \in e.snapshot.offers} \cup e.snapshot.healthy \subseteq e.snapshot.targets

VARIABLES
  at,         \* "issuing", "signed", "verified" or "refused"
  held,       \* the pieces, in whoever's hands they are
  statement,  \* what was signed
  issued,     \* history: the pieces it was made of
  clock, edits,
  failure     \* the code of a refusal

vars == <<at, held, statement, issued, clock, edits, failure>>

NoStatement == <<>>

-------------------------------------------------------------------------------

\* normalizedFabric: the order of its lists does not count, a preference does.
FabricDigest(f) == [targets |-> f.targets, preference |-> f.preference]

\* What the snapshot offers, the profile selects and the report tells of is
\* the same, and something.
ScopesMatch(e) ==
  /\ e.snapshot.offers # {}
  /\ e.snapshot.offers = e.profile /\ e.snapshot.offers = e.report.results

\* The snapshot was observed within the lease, and lives no longer than it may.
DateErrors(e) ==
  (IF e.snapshot.expires - e.snapshot.observed <= e.policy.ttl THEN {} ELSE {"snapshot_ttl_exceeded"}) \cup
  (IF e.snapshot.observed \in (e.challenge.issued - e.policy.skew)..(e.challenge.expires + e.policy.skew - 1)
   THEN {} ELSE {"snapshot_outside_challenge"})

\* validateEvidenceInputs, by what each check throws.
Incoherences(e) ==
  (IF e.snapshot.intact THEN {} ELSE {"snapshot_digest_mismatch"}) \cup
  (IF e.bindings.intact THEN {} ELSE {"bindings_digest_mismatch"}) \cup
  (IF e.report.intact THEN {} ELSE {"qualification_report_digest_mismatch"}) \cup
  (IF e.snapshot.binding = e.bindings.digest THEN {} ELSE {"snapshot_binding_mismatch"}) \cup
  (IF e.report.binding = e.bindings.digest THEN {} ELSE {"report_binding_mismatch"}) \cup
  (IF e.report.qualified THEN {} ELSE {"qualification_required"}) \cup
  (IF {e.report.profile, e.policy.profile} = {e.profile} THEN {} ELSE {"qualification_profile_digest_mismatch"}) \cup
  (IF e.policy.fabric = FabricDigest(e.fabric) THEN {} ELSE {"fabric_digest_mismatch"}) \cup
  (IF e.challenge.audience = e.policy.audience THEN {} ELSE {"audience_mismatch"}) \cup
  (IF e.snapshot.targets \subseteq e.fabric.targets THEN {} ELSE {"fabric_target_mismatch"}) \cup
  (IF ScopesMatch(e) /\ \A s \in e.snapshot.offers : s[1] \in e.snapshot.healthy
   THEN {} ELSE {"target_scope_mismatch"}) \cup
  (IF \A s \in e.report.results : e.report.kind[s] = e.bindings.kind[s] THEN {} ELSE {"operation_binding_mismatch"}) \cup
  DateErrors(e)

\* The receipt as far as a statement has it: its audience is the policy's.
Lease(challenge) == [value |-> challenge.value, issued |-> challenge.issued, expires |-> challenge.expires]

\* Faulty: the verifier's policy is not part of what is signed.
StatementWithoutPolicy(e) ==
  [subject |-> <<e.snapshot, e.bindings, e.report>>,
   fabric |-> FabricDigest(e.fabric), profile |-> e.profile, policy |-> "any",
   audience |-> e.policy.audience, scope |-> e.snapshot.offers, challenge |-> Lease(e.challenge)]

\* createCapabilitySnapshotAttestationStatement; the dates of the snapshot are
\* in its digest too.
Statement(e) ==
  [subject |-> <<e.snapshot, e.bindings, e.report>>,
   fabric |-> FabricDigest(e.fabric), profile |-> e.profile, policy |-> e.policy,
   audience |-> e.policy.audience, scope |-> e.snapshot.offers, challenge |-> Lease(e.challenge)]

\* What is wrong with a signed statement, held against the one expected.
Mismatches(e) ==
  LET expected == Statement(e) IN
  (IF statement.subject = expected.subject THEN {} ELSE {"statement_subject_mismatch"}) \cup
  (IF statement.audience = expected.audience THEN {} ELSE {"audience_mismatch"}) \cup
  (IF statement.challenge = expected.challenge THEN {} ELSE {"challenge_mismatch"}) \cup
  (IF statement.policy = expected.policy THEN {} ELSE {"trust_policy_digest_mismatch"}) \cup
  (IF <<statement.fabric, statement.profile, statement.scope>> = <<expected.fabric, expected.profile, expected.scope>>
   THEN {} ELSE {"statement_predicate_mismatch"})

\* What is over, or has not begun, at t.
Lapses(e, t) ==
  (IF e.challenge.issued <= t + e.policy.skew THEN {} ELSE {"challenge_not_yet_valid"}) \cup
  (IF t < e.challenge.expires + e.policy.skew THEN {} ELSE {"challenge_expired"}) \cup
  (IF e.snapshot.observed <= t + e.policy.skew THEN {} ELSE {"snapshot_from_future"}) \cup
  (IF t < e.snapshot.expires + e.policy.skew THEN {} ELSE {"snapshot_expired"}) \cup
  (IF t - e.snapshot.observed <= e.policy.age + e.policy.skew THEN {} ELSE {"snapshot_too_old"})

-------------------------------------------------------------------------------

Codes ==
  {"snapshot_digest_mismatch", "bindings_digest_mismatch", "qualification_report_digest_mismatch",
   "snapshot_binding_mismatch", "report_binding_mismatch", "qualification_required",
   "qualification_profile_digest_mismatch", "fabric_digest_mismatch", "audience_mismatch",
   "fabric_target_mismatch", "target_scope_mismatch", "operation_binding_mismatch", "snapshot_ttl_exceeded",
   "snapshot_outside_challenge", "statement_subject_mismatch", "challenge_mismatch",
   "trust_policy_digest_mismatch", "statement_predicate_mismatch"}
TimeCodes ==
  {"challenge_not_yet_valid", "challenge_expired", "snapshot_from_future", "snapshot_expired", "snapshot_too_old"}

TypeOK ==
  /\ at \in {"issuing", "signed", "verified", "refused"}
  /\ DOMAIN held = {"fabric", "snapshot", "bindings", "report", "profile", "policy", "challenge"}
  /\ issued \in Sets
  /\ at = "issuing" => statement = NoStatement
  /\ clock \in 0..MaxTime /\ edits \in 0..MaxEdits
  /\ failure \in Codes \cup TimeCodes \cup {"none"}
  /\ at = "refused" <=> failure # "none"

Init ==
  /\ at = "issuing"
  /\ held \in Sets
  /\ statement = NoStatement
  /\ issued = held
  /\ clock = 0 /\ edits = 0
  /\ failure = "none"

\* The issuer makes no statement of what does not cohere, and reads no clock.
Issue ==
  /\ at = "issuing"
  /\ \/ Incoherences(held) = {} /\ at' = "signed" /\ statement' = Statement(held) /\ UNCHANGED failure
     \/ at' = "refused" /\ failure' \in Incoherences(held) /\ UNCHANGED statement
  /\ UNCHANGED <<held, issued, clock, edits>>

\* A piece of other evidence takes the place of one.
Exchange ==
  /\ at = "signed" /\ edits < MaxEdits
  /\ \E e \in Sets : \E piece \in DOMAIN held : held' = [held EXCEPT ![piece] = e[piece]]
  /\ held' # held /\ edits' = edits + 1
  /\ UNCHANGED <<at, statement, issued, clock, failure>>

\* The fabric is written down in another order.
Relist ==
  /\ at = "signed" /\ held' = [held EXCEPT !.fabric.listing = 1 - @]
  /\ UNCHANGED <<at, statement, issued, clock, edits, failure>>

Tick ==
  /\ at = "signed" /\ clock < MaxTime /\ clock' = clock + 1
  /\ UNCHANGED <<at, held, statement, issued, edits, failure>>

\* verifyCapabilitySnapshotAttestationSemantics. The code throws the first
\* error it comes upon, the pieces' coherence before the statement and that
\* before the time; here it may be any.
Verify ==
  /\ at = "signed"
  /\ LET failures == Incoherences(held) \cup Mismatches(held) \cup Lapses(held, clock) IN
     \/ failures = {} /\ at' = "verified" /\ UNCHANGED failure
     \/ at' = "refused" /\ failure' \in failures
  /\ UNCHANGED <<held, statement, issued, clock, edits>>

Next == Issue \/ Exchange \/ Relist \/ Tick \/ Verify

Spec == Init /\ [][Next]_vars

-------------------------------------------------------------------------------

SameContent(e, f) == [e EXCEPT !.fabric.listing = 0] = [f EXCEPT !.fabric.listing = 0]

\* Of all seven pieces, those the statement has no subject for included, only
\* the issuer's are verified: pieces of two honest sets are never taken together.
VerifiedAsIssued == at = "verified" => SameContent(held, issued)

\* What an issuer made a statement of, written in whatever order, is refused
\* for the time only.
IssuedIsVerified ==
  at = "refused" /\ statement # NoStatement /\ SameContent(held, issued) => failure \in TimeCodes

\* Every operation that a verified snapshot offers to the planner is on a
\* healthy target of the fabric, and was qualified there, under these bindings,
\* as the kind of operation it is bound as; and nothing qualified is withheld.
OfferedIsQualified ==
  at = "verified" =>
    /\ held.snapshot.offers # {} /\ held.report.qualified
    /\ held.report.results = held.snapshot.offers
    /\ held.report.binding = held.bindings.digest /\ held.snapshot.binding = held.bindings.digest
    /\ \A s \in held.snapshot.offers :
         /\ s[1] \in held.snapshot.healthy \cap held.fabric.targets
         /\ held.report.kind[s] = held.bindings.kind[s]

\* However the policy's limits and dates lie, a verified snapshot was observed
\* no longer before this moment than the lease of its challenge and two skews,
\* for it was asked for after the challenge was issued.
AskedForAndFresh ==
  at = "verified" =>
    LET lease == held.challenge.expires - held.challenge.issued
        skew == held.policy.skew
    IN  /\ clock - held.snapshot.observed < lease + 2 * skew
        /\ clock - held.snapshot.observed < held.policy.ttl + skew
================================================================================
