----------------------------- MODULE EgressGate -----------------------------
(***************************************************************************)
(* One call of the browser's egress gate (browser/egress-gate.ts): a       *)
(* permit for exactly one output and one receipt, both digested while the  *)
(* caller may change the receipt object.                                   *)
(*                                                                         *)
(* A receipt is what the gate compares: the checks it fails against the    *)
(* gate's binding, the decision it is about, and whose digest it carries.  *)
(***************************************************************************)
EXTENDS Naturals, Sequences

CONSTANTS Decisions, Outputs, Receipts

\* The checks, in the order they are made, each with the reason of its denial.
Checks == <<"invalid_receipt", "bindings_digest_mismatch", "lineage_mismatch",
            "redaction_policy_mismatch", "redaction_source_mismatch", "egress_policy_mismatch">>

Denials == {Checks[i] : i \in DOMAIN Checks} \cup {"output_digest_mismatch"}

GateAssumption ==
  Receipts \subseteq [wrong : SUBSET Denials, decision : Decisions, digestOf : Outputs]

Fails(r, i, decision) ==
  Checks[i] \in r.wrong \/ (Checks[i] = "lineage_mismatch" /\ r.decision # decision)

InOrder(r, decision) == \A i \in DOMAIN Checks : ~Fails(r, i, decision)

VARIABLES
  gate,       \* "idle", "verifying", "digesting", "authorized" or "denied"
  binding,    \* the decision the gate was made for
  presented,  \* the caller's receipt object, as it is now
  snapshot,   \* the gate's own copy of it
  subject,    \* the output, a string
  permit,     \* the output and the receipt of the permit that was issued
  reason      \* why it was denied

gateVars == <<gate, binding, presented, snapshot, subject, permit, reason>>

NoPermit == <<>>

GateTypeOK ==
  /\ gate \in {"idle", "verifying", "digesting", "authorized", "denied"}
  /\ binding \in Decisions /\ subject \in Outputs
  /\ {presented, snapshot} \subseteq Receipts
  /\ (permit # NoPermit) <=> (gate = "authorized")
  /\ reason \in Denials \cup {"none"} /\ (reason # "none") <=> (gate = "denied")

-------------------------------------------------------------------------------

GateInit ==
  /\ gate = "idle"
  /\ binding \in Decisions /\ subject \in Outputs
  /\ presented \in Receipts /\ snapshot = presented
  /\ permit = NoPermit /\ reason = "none"

\* The receipt is parsed, and its digest computed.
Present ==
  /\ gate = "idle"
  /\ gate' = "verifying"
  /\ snapshot' = presented
  /\ UNCHANGED <<binding, presented, subject, permit, reason>>

\* What is no receipt at all.
PresentMalformed ==
  /\ gate = "idle"
  /\ gate' = "denied" /\ reason' = "invalid_receipt"
  /\ UNCHANGED <<binding, presented, snapshot, subject, permit>>

Compared == snapshot

\* The receipt's digest is there: what it says is compared with the binding,
\* and the first check it fails is the reason.
Compare ==
  /\ gate = "verifying"
  /\ \/ InOrder(Compared, binding) /\ gate' = "digesting" /\ UNCHANGED reason
     \/ \E i \in DOMAIN Checks :
          /\ Fails(Compared, i, binding) /\ \A j \in 1..(i - 1) : ~Fails(Compared, j, binding)
          /\ gate' = "denied" /\ reason' = Checks[i]
  /\ UNCHANGED <<binding, presented, snapshot, subject, permit>>

\* The output's digest is there.
Release ==
  /\ gate = "digesting"
  /\ \/ /\ snapshot.digestOf = subject
        /\ gate' = "authorized" /\ permit' = <<subject, snapshot>>
        /\ UNCHANGED reason
     \/ /\ snapshot.digestOf # subject
        /\ gate' = "denied" /\ reason' = "output_digest_mismatch"
        /\ UNCHANGED permit
  /\ UNCHANGED <<binding, presented, snapshot, subject>>

CallerChanges ==
  /\ presented' \in Receipts \ {presented}
  /\ UNCHANGED <<gate, binding, snapshot, subject, permit, reason>>

GateStep == Compare \/ Release

GateNext == Present \/ PresentMalformed \/ GateStep \/ CallerChanges

GateSpec == GateInit /\ [][GateNext]_gateVars

-------------------------------------------------------------------------------

\* A permit of authorize() names the output it was asked for and a receipt that
\* passed every check and carries that output's digest, whatever the receipt's
\* owner made of the object during the two digests.
PermitIsExact ==
  permit # NoPermit =>
    /\ permit[1] = subject /\ permit[2].digestOf = subject
    /\ InOrder(permit[2], binding)
=============================================================================
