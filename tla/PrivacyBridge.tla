--------------------------- MODULE PrivacyBridge ---------------------------
(***************************************************************************)
(* One execute() of the browser's privacy bridge (browser/privacy-         *)
(* bridge.ts): the bindings are verified, the browser is probed, a session *)
(* of the bound driver is opened, made ready and invoked, and closed       *)
(* against a timer; what it answered is parsed, presented to the egress    *)
(* gate and released, with a ledger (explainability.ts) that tells why.    *)
(*                                                                         *)
(* The caller may change the request object, and the session the value it  *)
(* answered with, at any moment; a session may close late or never.        *)
(***************************************************************************)
EXTENDS Naturals, Sequences

CONSTANTS Decisions, Outputs, Receipts, Requests, Worlds,
          Long(_)   \* the output is over maxOutputBytes

Capabilities == {"secure-context", "webgpu", "wasm"}
Flaws == {"none", "malformed", "oversized", "unbound"}

ASSUME BridgeAssumption ==
  /\ Requests \subseteq [decision : Decisions, flaw : Flaws]
  /\ Outputs # {} /\ Receipts # {}
  /\ \A w \in Worlds :
       /\ w.bindings \in BOOLEAN /\ w.registered \in BOOLEAN /\ w.requires \subseteq Capabilities
       /\ w.secure \in BOOLEAN /\ w.gpu \in {"broken", "absent", "present"}
       /\ w.wasm \in {"broken", "absent", "invalid", "valid"}

VARIABLES
  request,     \* the caller's object, as it is now
  asked,       \* execute()'s own copy of it
  world,       \* the bridge's bindings and drivers, and the browser
  at,          \* what execute() awaits
  capability,  \* the reason of every capability, once probed
  session,     \* "none", "open", "closing", "closed" or "failed"
  invoked,     \* the readiness the session was given the input upon, or "no"
  value,       \* the session's answer, an object it may keep changing
  parsed,      \* the bridge's own copy of it
  gate, snapshot, permit, reason,   \* those of the egress gate
  ledger,      \* the ledger projected last
  failure      \* the error to be thrown, or "none"

calls == <<request, asked, world, at, capability, session, invoked, value, parsed, ledger, failure>>
gateVars == <<gate, snapshot, permit, reason>>
vars == <<request, asked, world, at, capability, session, invoked, value, parsed, ledger, failure,
          gate, snapshot, permit, reason>>

Gate == INSTANCE EgressGate WITH binding <- asked.decision, presented <- parsed.receipt, subject <- parsed.output

Values == [wellFormed : BOOLEAN, output : Outputs, receipt : Receipts]
NoLedger == [capability |-> {}, redacted |-> FALSE, why |-> "none"]
Unprobed == [c \in Capabilities |-> "available"]

Unavailable ==
  [c \in Capabilities |->
     CASE c = "secure-context" -> {"secure_context_unavailable"}
       [] c = "webgpu" -> {"webgpu_api_unavailable", "webgpu_adapter_unavailable", "webgpu_probe_failed"}
       [] c = "wasm" -> {"wasm_api_unavailable", "wasm_validation_failed"}]

Unledgered == {"invalid_request", "bindings_invalid", "input_limit_exceeded", "runtime_not_bound"}
Failures ==
  Unledgered \cup {"capability_unavailable", "runtime_not_registered", "execution_failed",
                   "invalid_worker_result", "output_limit_exceeded", "egress_denied"}

TypeOK ==
  /\ request \in Requests /\ asked \in Requests /\ world \in Worlds
  /\ at \in {"idle", "verifying", "planning", "probing", "ready", "invoking", "closing", "parsing",
             "gating", "recording", "ended"}
  /\ \A c \in Capabilities : capability[c] \in Unavailable[c] \cup {"available"}
  /\ session \in {"none", "open", "closing", "closed", "failed"} /\ invoked \in {"no", "matching", "other"}
  /\ value \in Values /\ parsed \in Values
  /\ gate \in {"idle", "verifying", "digesting", "authorized", "denied"}
  /\ at \in {"ready", "invoking"} => session = "open"
  /\ gate # "idle" => at \in {"gating", "recording", "ended"} /\ snapshot = parsed.receipt
  /\ failure \in Failures \cup {"none", "unexpected"}

-------------------------------------------------------------------------------

Init ==
  /\ request \in Requests /\ asked = request /\ world \in Worlds
  /\ at = "idle" /\ session = "none" /\ invoked = "no"
  /\ capability = Unprobed
  /\ value = CHOOSE v \in Values : ~v.wellFormed
  /\ parsed = value /\ snapshot = value.receipt
  /\ gate = "idle" /\ permit = Gate!NoPermit /\ reason = "none"
  /\ ledger = NoLedger /\ failure = "none"

\* The ledger.

Required(c) == c \in world.requires
Blocking(reasons) == {reasons[c] : c \in {d \in Capabilities : Required(d) /\ reasons[d] # "available"}}
Eligible(reasons) == Blocking(reasons) = {}

Entry(reasons, redacted, why) ==
  [capability |-> IF Eligible(reasons) THEN {"available"} ELSE Blocking(reasons),
   redacted |-> redacted, why |-> why]

\* The snapshot must be one the probe makes, and the egress fit for it.
Projectable(reasons, why) ==
  /\ \A c \in Capabilities : reasons[c] \in Unavailable[c] \cup {"available"}
  /\ Eligible(reasons) <=> why # "capability_unavailable"

ThrowAtOnce(code) ==
  /\ at' = "ended" /\ failure' = code
  /\ UNCHANGED <<session, ledger>>

\* A ledger is projected from copies made at once, and awaited.
Deny(code, why, reasons) ==
  /\ at' = "recording"
  /\ \/ Projectable(reasons, why) /\ failure' = code /\ ledger' = Entry(reasons, FALSE, why)
     \/ ~Projectable(reasons, why) /\ failure' = "unexpected" /\ UNCHANGED ledger
  /\ UNCHANGED session

-------------------------------------------------------------------------------

Call ==
  /\ at = "idle" /\ at' = "verifying"
  /\ asked' = request
  /\ UNCHANGED <<request, world, capability, session, invoked, value, parsed, ledger, failure, gateVars>>

Checked == asked

\* The bindings' digest is there.
Verify ==
  /\ at = "verifying"
  /\ \/ ~world.bindings /\ ThrowAtOnce("bindings_invalid")
     \/ world.bindings /\ Checked.flaw = "malformed" /\ ThrowAtOnce("invalid_request")
     \/ world.bindings /\ Checked.flaw = "oversized" /\ ThrowAtOnce("input_limit_exceeded")
     \/ world.bindings /\ Checked.flaw = "unbound" /\ ThrowAtOnce("runtime_not_bound")
     \/ /\ world.bindings /\ Checked.flaw = "none"
        /\ at' = "planning" /\ UNCHANGED <<session, ledger, failure>>
  /\ UNCHANGED <<request, asked, world, capability, invoked, value, parsed, gateVars>>

Reasons(gpu) ==
  [c \in Capabilities |->
     CASE c = "secure-context" -> IF world.secure THEN "available" ELSE "secure_context_unavailable"
       [] c = "webgpu" -> gpu
       [] c = "wasm" ->
            CASE world.wasm = "valid" -> "available"
              [] world.wasm = "absent" -> "wasm_api_unavailable"
              [] world.wasm \in {"broken", "invalid"} -> "wasm_validation_failed"]

\* The probe is done: the driver, and a session of it, which open() may refuse.
ProbedAs(gpu) ==
  LET reasons == Reasons(gpu) IN
  /\ capability' = reasons
  /\ \/ ~Eligible(reasons) /\ Deny("capability_unavailable", "capability_unavailable", reasons)
     \/ /\ Eligible(reasons) /\ ~world.registered
        /\ Deny("runtime_not_registered", "runtime_not_registered", reasons)
     \/ /\ Eligible(reasons) /\ world.registered
        /\ \/ session' = "open" /\ at' = "ready" /\ UNCHANGED <<ledger, failure>>
           \/ Deny("execution_failed", "execution_failed", reasons)
  /\ UNCHANGED <<request, asked, world, invoked, value, parsed, gateVars>>

\* The plan's digest is there. An adapter is requested if there is a way to.
Plan ==
  /\ at = "planning"
  /\ \/ world.gpu = "absent" /\ ProbedAs("webgpu_api_unavailable")
     \/ world.gpu = "broken" /\ ProbedAs("webgpu_probe_failed")
     \/ /\ world.gpu = "present" /\ at' = "probing"
        /\ UNCHANGED <<request, asked, world, capability, session, invoked, value, parsed, ledger, failure, gateVars>>

\* An adapter, none, or a rejection, the probe's timer among them.
Probe ==
  /\ at = "probing"
  /\ \E gpu \in {"available", "webgpu_adapter_unavailable", "webgpu_probe_failed"} : ProbedAs(gpu)

\* ready() settles: with the runtime, driver and operation that were asked for,
\* with others, or by a rejection.
Ready ==
  /\ at = "ready"
  /\ \E readiness \in {"matching", "other", "rejected"} :
       \/ /\ readiness = "matching"
          /\ invoked' = readiness /\ at' = "invoking"
          /\ UNCHANGED <<session, ledger, failure>>
       \/ /\ readiness # "matching"
          /\ Deny("execution_failed", "execution_failed", capability)
          /\ UNCHANGED invoked
  /\ UNCHANGED <<request, asked, world, capability, value, parsed, gateVars>>

\* invoke() settles. The session is then closed, if it is there.
Answer ==
  /\ at = "invoking"
  /\ \/ value' \in Values /\ at' = "closing" /\ session' = "closing" /\ UNCHANGED <<ledger, failure>>
     \/ Deny("execution_failed", "execution_failed", capability) /\ UNCHANGED value
  /\ UNCHANGED <<request, asked, world, capability, invoked, parsed, gateVars>>

\* The ledger's digest is there: the error is thrown, or the result returned;
\* the catch of an open session ends in the finally that closes it.
Recorded ==
  /\ at = "recording"
  /\ \/ session = "open" /\ session' = "closing" /\ at' = "closing"
     \/ session # "open" /\ at' = "ended" /\ UNCHANGED session
  /\ UNCHANGED <<request, asked, world, capability, invoked, value, parsed, ledger, failure, gateVars>>

\* Faulty: a session that failed to close is as good as a closed one.
AfterCloseAnyway(inTime) ==
  \/ failure # "none" /\ at' = "ended" /\ UNCHANGED <<ledger, failure>>
  \/ failure = "none" /\ at' = "parsing" /\ UNCHANGED <<ledger, failure>>

AfterClose(inTime) ==
  \/ failure # "none" /\ at' = "ended" /\ UNCHANGED <<ledger, failure>>
  \/ failure = "none" /\ inTime /\ at' = "parsing" /\ UNCHANGED <<ledger, failure>>
  \/ /\ failure = "none" /\ ~inTime
     /\ at' = "recording"
     /\ failure' = "execution_failed" /\ ledger' = Entry(capability, FALSE, "execution_failed")

\* close() settles, whether it is still waited for or not.
CloseSettles ==
  /\ session = "closing"
  /\ session' \in {"closed", "failed"}
  /\ \/ at = "closing" /\ AfterClose(session' = "closed")
     \/ at # "closing" /\ UNCHANGED <<at, ledger, failure>>
  /\ UNCHANGED <<request, asked, world, capability, invoked, value, parsed, gateVars>>

\* Faulty: close() is awaited as long as it takes.
CleanupForever ==
  /\ at = "closing" /\ FALSE
  /\ UNCHANGED vars

CleanupTimer ==
  /\ at = "closing"
  /\ AfterClose(FALSE)
  /\ UNCHANGED <<request, asked, world, capability, session, invoked, value, parsed, gateVars>>

Parse ==
  /\ at = "parsing"
  /\ \/ /\ ~value.wellFormed \/ value.receipt.decision # asked.decision
        /\ Deny("invalid_worker_result", "invalid_worker_result", capability)
        /\ UNCHANGED parsed
     \/ /\ value.wellFormed /\ value.receipt.decision = asked.decision /\ Long(value.output)
        /\ Deny("output_limit_exceeded", "output_limit_exceeded", capability)
        /\ UNCHANGED parsed
     \/ /\ value.wellFormed /\ value.receipt.decision = asked.decision /\ ~Long(value.output)
        /\ at' = "gating" /\ parsed' = value
        /\ UNCHANGED <<session, ledger, failure>>
  /\ UNCHANGED <<request, asked, world, capability, invoked, value, gateVars>>

Present == at = "gating" /\ UNCHANGED calls /\ Gate!Present
Compare == at = "gating" /\ UNCHANGED calls /\ Gate!Compare
Digested == at = "gating" /\ UNCHANGED calls /\ Gate!Release

\* The gate has answered.
Release ==
  /\ at = "gating"
  /\ \/ gate = "denied" /\ Deny("egress_denied", reason, capability)
     \/ /\ gate = "authorized"
        /\ at' = "recording"
        /\ ledger' = Entry(capability, TRUE, "digest_and_policy_match")
        /\ UNCHANGED <<session, failure>>
  /\ UNCHANGED <<request, asked, world, capability, invoked, value, parsed, gateVars>>

CallerChanges ==
  /\ at # "ended"
  /\ request' \in Requests \ {request}
  /\ UNCHANGED <<asked, world, at, capability, session, invoked, value, parsed, ledger, failure, gateVars>>

SessionChanges ==
  /\ invoked # "no"
  /\ value' \in Values \ {value}
  /\ UNCHANGED <<request, asked, world, at, capability, session, invoked, parsed, ledger, failure, gateVars>>

\* What comes by itself: microtasks, digests, timers, and the settling of
\* ready() and invoke(), which sessions bound by the timeouts they are given.
Proceed ==
  \/ Verify \/ Plan \/ Probe \/ Ready \/ Answer \/ Recorded \/ CleanupTimer
  \/ Parse \/ Present \/ Compare \/ Digested \/ Release

Next == Call \/ Proceed \/ CloseSettles \/ CallerChanges \/ SessionChanges

Spec == Init /\ [][Next]_vars /\ WF_vars(Proceed)

-------------------------------------------------------------------------------

Ended == at = "ended"

\* Faulty: the value is read once more for the result.
ResultReread == [output |-> value.output, receipt |-> value.receipt]

\* What execute() returns.
Result == [output |-> parsed.output, receipt |-> parsed.receipt]
Released == Ended /\ failure = "none"

\* execute() returns nothing until the session that made it has closed.
ReleasedBehindClosure == Released => session = "closed"

\* execute() returns an output and a receipt that the gate has permitted, for
\* the decision of the request as it was when execute() was called: in bounds,
\* the receipt in order and of that output.
ReleasedIsAuthorized ==
  Released =>
    /\ permit = <<Result.output, Result.receipt>>
    /\ Result.receipt.decision = asked.decision /\ Result.receipt.digestOf = Result.output
    /\ Gate!InOrder(Result.receipt, asked.decision)
    /\ ~Long(Result.output)

\* However execute() ends, no session it opened is left that nobody closes.
NothingLeftOpen == Ended => session # "open"

\* A session is given the input only once, while it is open, for a request in
\* order and in a browser with all the runtime requires.
InvokedOnlyFit ==
  [][invoked # invoked' =>
       /\ invoked' = "matching" /\ session = "open" /\ at = "ready" /\ world.bindings /\ world.registered
       /\ asked.flaw = "none" /\ Eligible(capability)]_vars

\* An error tells its cause in its ledger, every error after the plan has one,
\* and no ledger is refused for telling a story that cannot be.
LedgerTellsWhy ==
  Ended =>
    /\ failure # "unexpected"
    /\ failure \in Unledgered <=> ledger = NoLedger
    /\ ledger # NoLedger =>
         /\ ledger.redacted <=> failure = "none"
         /\ ledger.capability = {"available"} <=> failure # "capability_unavailable"
         /\ CASE failure = "none" -> ledger.why = "digest_and_policy_match"
              [] failure = "egress_denied" -> gate = "denied" /\ ledger.why = reason
              [] OTHER -> ledger.why = failure

\* execute() ends, though the session's close() may never.
ExecutionEnds == at = "verifying" ~> Ended

\* The two together: however execute() ends, it ends, its session is closed or
\* closing, and the ledger has told what happened.
EndsAsTold ==
  /\ [](TypeOK /\ NothingLeftOpen /\ LedgerTellsWhy)
  /\ InvokedOnlyFit
  /\ ExecutionEnds
=============================================================================
