-------------------------- MODULE PrivacyBridgeProofs --------------------------
(***************************************************************************)
(* Proofs about the privacy bridge, for any requests, receipts, outputs    *)
(* and browsers: what execute() returns was made by a session that has     *)
(* closed, and is what the egress gate permitted; an error tells its       *)
(* cause, and the input goes to a fit session only. The results on types,  *)
(* the ledger and the input need the assumption on the constants.          *)
(***************************************************************************)
EXTENDS PrivacyBridge, TLAPS

\* Where execute() stands while nothing has gone wrong, and no session is there.
Before == {"idle", "verifying", "planning", "probing"}
Serving == {"ready", "invoking"}
Checking == {"parsing", "gating"}

\* An answer is looked at only after its session has closed in time; every way
\* out of an open session leads through its closing.
ClosureInv ==
  /\ at \in Before \cup Serving \cup Checking \cup {"closing", "recording", "ended"}
  /\ at \in Before => session = "none"
  /\ at \in Serving => session = "open"
  /\ at = "closing" => session = "closing"
  /\ at \in Checking => session = "closed"
  /\ at \in Before \cup Serving \cup Checking => failure = "none"
  /\ at \in {"recording", "ended"} /\ failure = "none" => session = "closed"
  /\ at = "ended" => session # "open"

\* What the bridge checked of its own copy of the answer.
Fit == parsed.receipt.decision = asked.decision /\ ~Long(parsed.output)

\* The gate is at work on that copy, and has permitted what it has checked.
GateInv ==
  /\ at \notin {"gating", "recording", "ended"} => gate = "idle"
  /\ session = "open" => gate = "idle"
  /\ at = "gating" => Fit
  /\ gate # "idle" => snapshot = parsed.receipt
  /\ gate \in {"digesting", "authorized"} => Gate!InOrder(snapshot, asked.decision)
  /\ gate = "authorized" => permit = <<parsed.output, snapshot>> /\ snapshot.digestOf = parsed.output
  /\ at \in {"recording", "ended"} /\ failure = "none" => gate = "authorized" /\ Fit

IInv == ClosureInv /\ GateInv

-------------------------------------------------------------------------------

LEMMA InitIsGood == Init => IInv
BY DEF Init, IInv, ClosureInv, GateInv, Before, Serving, Checking

\* The bridge's own steps, up to the answer.
LEMMA CallsKeep ==
  ASSUME IInv, Call \/ Verify \/ Plan \/ Probe \/ Ready \/ Answer
  PROVE  IInv'
<1> USE DEF IInv, ClosureInv, GateInv, Before, Serving, Checking, Fit, gateVars, Gate!InOrder, Gate!Fails
<1>1. CASE Call
  BY <1>1 DEF Call
<1>2. CASE Verify
  BY <1>2 DEF Verify, ThrowAtOnce
<1>3. ASSUME NEW gpu, at \in {"planning", "probing"}, ProbedAs(gpu)
      PROVE  IInv'
  BY <1>3 DEF ProbedAs, Deny
<1>4. CASE Plan
  <2>1. CASE at' = "probing" /\ at = "planning" /\ UNCHANGED <<request, asked, world, capability, session, invoked, value, parsed, ledger, failure, gateVars>>
    BY <2>1
  <2> QED
    BY <1>3, <1>4, <2>1 DEF Plan
<1>5. CASE Probe
  BY <1>3, <1>5 DEF Probe
<1>6. CASE Ready
  BY <1>6 DEF Ready, Deny
<1>7. CASE Answer
  BY <1>7 DEF Answer, Deny
<1> QED
  BY <1>1, <1>4, <1>2, <1>5, <1>6, <1>7

\* The session's closing, and what is done with the answer after it.
LEMMA ClosingKeeps ==
  ASSUME IInv, Recorded \/ CloseSettles \/ CleanupTimer \/ Parse
  PROVE  IInv'
<1> USE DEF IInv, ClosureInv, GateInv, Before, Serving, Checking, Fit, gateVars, Gate!InOrder, Gate!Fails
<1>1. CASE Recorded
  BY <1>1 DEF Recorded
<1>2. CASE CloseSettles
  <2>1. CASE at # "closing"
    BY <1>2, <2>1 DEF CloseSettles
  <2>2. CASE at = "closing" /\ failure # "none"
    BY <1>2, <2>2 DEF CloseSettles, AfterClose
  <2>3. CASE at = "closing" /\ failure = "none" /\ session' = "closed"
    BY <1>2, <2>3 DEF CloseSettles, AfterClose
  <2>4. CASE at = "closing" /\ failure = "none" /\ session' # "closed"
    BY <1>2, <2>4 DEF CloseSettles, AfterClose
  <2> QED
    BY <2>1, <2>2, <2>3, <2>4
<1>3. CASE CleanupTimer
  BY <1>3 DEF CleanupTimer, AfterClose
<1>4. CASE Parse
  BY <1>4 DEF Parse, Deny
<1> QED
  BY <1>1, <1>2, <1>3, <1>4

LEMMA GateKeeps ==
  ASSUME IInv, Present \/ Compare \/ Digested \/ Release
  PROVE  IInv'
<1> USE DEF IInv, ClosureInv, GateInv, Before, Serving, Checking, Fit, gateVars, calls, Gate!InOrder, Gate!Fails
<1>1. CASE Present
  BY <1>1 DEF Present, Gate!Present
<1>2. CASE Compare
  BY <1>2 DEF Compare, Gate!Compare, Gate!Compared
<1>3. CASE Digested
  BY <1>3 DEF Digested, Gate!Release
<1>4. CASE Release
  BY <1>4 DEF Release, Deny
<1> QED
  BY <1>1, <1>2, <1>3, <1>4

\* What the caller and the session change is never looked at again.
LEMMA OthersKeep ==
  ASSUME IInv, CallerChanges \/ SessionChanges \/ UNCHANGED vars
  PROVE  IInv'
BY DEF IInv, ClosureInv, GateInv, Before, Serving, Checking, Fit, gateVars, vars, Gate!InOrder, Gate!Fails,
       CallerChanges, SessionChanges

LEMMA IInvHolds == Spec => []IInv
<1>1. IInv /\ [Next]_vars => IInv'
  BY CallsKeep, ClosingKeeps, GateKeeps, OthersKeep DEF Next, Proceed
<1> QED
  BY InitIsGood, <1>1, PTL DEF Spec

-------------------------------------------------------------------------------

\* execute() returns nothing unless the session that made it has closed in time.
THEOREM ReleasedAfterClosure == Spec => []ReleasedBehindClosure
<1>1. IInv => ReleasedBehindClosure
  BY DEF IInv, ClosureInv, ReleasedBehindClosure, Released, Ended
<1> QED
  BY IInvHolds, <1>1, PTL

\* Whatever way execute() ends, the finally that closes its session has run.
THEOREM NoneLeftOpen == Spec => []NothingLeftOpen
<1>1. IInv => NothingLeftOpen
  BY DEF IInv, ClosureInv, NothingLeftOpen, Ended
<1> QED
  BY IInvHolds, <1>1, PTL

\* What execute() returns is what the gate permitted: this output, with a
\* receipt in order, of its digest and for the decision asked for, though the
\* caller and the session went on changing the objects they had handed over.
THEOREM ReleasedAuthorized == Spec => []ReleasedIsAuthorized
<1>1. IInv => ReleasedIsAuthorized
  BY DEF IInv, ClosureInv, GateInv, Fit, ReleasedIsAuthorized, Released, Ended, Result, Gate!InOrder, Gate!Fails
<1> QED
  BY IInvHolds, <1>1, PTL

-------------------------------------------------------------------------------
(* The ledger, and what the session is given. *)

\* What a probe makes of the capabilities.
Probed(reasons) == \A c \in Capabilities : reasons[c] \in Unavailable[c] \cup {"available"}

\* Nothing is asked of a session but in order and of a browser that is fit.
FitInv ==
  /\ at \in {"planning", "probing"} \cup Serving => world.bindings /\ asked.flaw = "none"
  /\ at \in Serving => world.registered

\* Whatever is projected can be: the capabilities are as they were probed, and
\* the cause fits them. Behind the plan every way out has its ledger, which is
\* not written again.
LedgerInv ==
  /\ world \in Worlds /\ Probed(capability)
  /\ failure \in Failures \cup {"none"}
  /\ at \notin Before /\ failure \notin Unledgered \cup {"capability_unavailable"} => Eligible(capability)
  /\ failure = "capability_unavailable" => ~Eligible(capability)
  /\ failure \in Unledgered => at = "ended" /\ ledger = NoLedger
  /\ failure = "none" /\ at \notin {"recording", "ended"} => ledger = NoLedger
  /\ failure = "none" /\ at \in {"recording", "ended"} =>
       ledger = Entry(capability, TRUE, "digest_and_policy_match")
  /\ failure \notin Unledgered \cup {"none", "egress_denied"} => ledger = Entry(capability, FALSE, failure)
  /\ failure = "egress_denied" => gate = "denied" /\ ledger = Entry(capability, FALSE, reason)
  /\ gate = "denied" => reason \in Gate!Denials

ToldInv == IInv /\ FitInv /\ LedgerInv

\* No denial of the gate says that a capability is missing.
LEMMA DenialsAreOther == "capability_unavailable" \notin Gate!Denials
BY DEF Gate!Denials, Gate!Checks

\* What the probe finds is one of what each capability's probe may say.
LEMMA ReasonsAreProbed ==
  ASSUME world \in Worlds,
         NEW gpu \in Unavailable["webgpu"] \cup {"available"}
  PROVE  Probed(Reasons(gpu))
BY BridgeAssumption DEF Probed, Reasons, Unavailable, Capabilities

\* An error is recorded with its cause, if the cause fits the capabilities.
LEMMA Denied ==
  ASSUME NEW code, NEW why, NEW reasons, Deny(code, why, reasons),
         Probed(reasons), Eligible(reasons) <=> why # "capability_unavailable"
  PROVE  /\ at' = "recording" /\ failure' = code /\ UNCHANGED session
         /\ ledger' = Entry(reasons, FALSE, why)
BY DEF Deny, Projectable, Probed

LEMMA FitKeeps ==
  ASSUME FitInv, [Next]_vars
  PROVE  FitInv'
<1> USE DEF FitInv, Serving, Before
<1>1. CASE Call
  BY <1>1 DEF Call
<1>2. CASE Verify
  BY <1>2 DEF Verify, ThrowAtOnce, Checked
<1>3. ASSUME NEW gpu, at \in {"planning", "probing"}, ProbedAs(gpu)
      PROVE  FitInv'
  BY <1>3 DEF ProbedAs, Deny
<1>4. CASE Plan
  <2>1. CASE at' = "probing" /\ at = "planning" /\ UNCHANGED <<asked, world>>
    BY <2>1
  <2> QED
    BY <1>3, <1>4, <2>1 DEF Plan
<1>5. CASE Probe
  BY <1>3, <1>5 DEF Probe
<1>6. CASE Ready \/ Answer \/ Parse
  BY <1>6 DEF Ready, Answer, Parse, Deny
<1>7. CASE Recorded \/ CloseSettles \/ CleanupTimer
  BY <1>7 DEF Recorded, CloseSettles, CleanupTimer, AfterClose
<1>8. CASE Present \/ Compare \/ Digested
  BY <1>8 DEF Present, Compare, Digested, calls
<1>9. CASE Release
  BY <1>9 DEF Release, Deny
<1>10. CASE CallerChanges \/ SessionChanges \/ UNCHANGED vars
  BY <1>10 DEF CallerChanges, SessionChanges, vars
<1> QED
  BY <1>1, <1>2, <1>4, <1>5, <1>6, <1>7, <1>8, <1>9, <1>10 DEF Next, Proceed

\* An error recorded with its cause keeps the invariant: the cause is the
\* error's name, or the reason of the gate.
LEMMA DeniedKeeps ==
  ASSUME LedgerInv,
         NEW code \in Failures \ Unledgered, NEW why, NEW reasons, Deny(code, why, reasons),
         capability' = reasons, UNCHANGED <<world, gate, reason>>,
         Probed(reasons), Eligible(reasons) <=> why # "capability_unavailable",
         IF code = "egress_denied" THEN gate = "denied" /\ why = reason ELSE why = code
  PROVE  LedgerInv'
<1>1. /\ at' = "recording" /\ failure' = code
      /\ ledger' = Entry(reasons, FALSE, why)
  BY Denied
<1>2. Entry(reasons, FALSE, why) = Entry(capability, FALSE, why)'
  BY DEF Entry, Eligible, Blocking, Required
<1>3. Eligible(reasons) <=> Eligible(capability)'
  BY DEF Eligible, Blocking, Required
<1>4. Probed(capability)'
  BY DEF Probed
<1>5. why = "capability_unavailable" <=> code = "capability_unavailable"
  BY DenialsAreOther DEF LedgerInv
<1>6. (Entry(capability, FALSE, IF code = "egress_denied" THEN reason ELSE code))' = ledger'
  BY <1>1, <1>2
<1> QED
  BY <1>1, <1>3, <1>4, <1>5, <1>6 DEF LedgerInv, Unledgered, Failures

\* A step that leaves the ledger and what it tells of alone.
LEMMA Untold ==
  ASSUME LedgerInv, UNCHANGED <<world, capability, ledger, failure>>,
         failure = "none" => (at' \in {"recording", "ended"} <=> at \in {"recording", "ended"}),
         at = "ended" => at' = "ended",
         at' \notin Before => at \notin Before \/ Eligible(capability),
         failure = "egress_denied" => UNCHANGED <<gate, reason>>,
         gate' = "denied" => reason' \in Gate!Denials
  PROVE  LedgerInv'
<1>1. (Probed(capability))' /\ (Eligible(capability) <=> Eligible(capability)')
  BY DEF LedgerInv, Probed, Eligible, Blocking, Required
<1>2. \A redacted, why : Entry(capability, redacted, why) = Entry(capability, redacted, why)'
  BY DEF Entry, Eligible, Blocking, Required
<1>3. (Entry(capability, TRUE, "digest_and_policy_match"))' = Entry(capability, TRUE, "digest_and_policy_match")
  BY <1>2
<1>4. (Entry(capability, FALSE, failure))' = Entry(capability, FALSE, failure)
  BY <1>2
<1>5. failure = "egress_denied" => (Entry(capability, FALSE, reason))' = Entry(capability, FALSE, reason)
  BY <1>2
<1> QED
  BY <1>1, <1>3, <1>4, <1>5 DEF LedgerInv

\* Up to the answer: what the probe found decides how it goes on.
LEMMA LedgerServing ==
  ASSUME ToldInv, Call \/ Verify \/ Plan \/ Probe \/ Ready \/ Answer
  PROVE  LedgerInv'
<1> USE DEF ToldInv, IInv
<1>0. at \notin {"closing", "parsing", "gating", "recording", "ended"} => gate = "idle" /\ failure = "none"
  BY DEF ClosureInv, GateInv, Before, Serving, Checking
<1>1. CASE Call
  BY <1>0, <1>1, Untold DEF Call, Before, gateVars
<1>2. CASE Verify
  <2>1. CASE at' = "planning" /\ UNCHANGED <<session, ledger, failure>>
    BY <1>0, <1>2, <2>1, Untold DEF Verify, Before, gateVars
  <2>2. ASSUME NEW code \in Unledgered, ThrowAtOnce(code)
        PROVE  LedgerInv'
    <3>1. failure' = code /\ at' = "ended" /\ ledger' = NoLedger /\ gate' # "denied"
      BY <1>0, <1>2, <2>2 DEF Verify, ThrowAtOnce, LedgerInv, gateVars
    <3>2. (world \in Worlds /\ Probed(capability))'
      BY <1>2 DEF Verify, LedgerInv, Probed
    <3> QED
      BY <3>1, <3>2, <2>2 DEF LedgerInv, Unledgered, Failures
  <2> QED
    BY <1>2, <2>1, <2>2 DEF Verify, Unledgered
<1>3. ASSUME NEW gpu \in Unavailable["webgpu"] \cup {"available"}, at \in {"planning", "probing"}, ProbedAs(gpu)
      PROVE  LedgerInv'
  <2> DEFINE reasons == Reasons(gpu)
  <2>1. capability' = reasons /\ UNCHANGED <<world, gate, reason>> /\ gate # "denied"
    BY <1>0, <1>3 DEF ProbedAs, gateVars
  <2>2. Probed(reasons)
    BY <1>3, ReasonsAreProbed DEF LedgerInv
  <2>3. \/ ~Eligible(reasons) /\ Deny("capability_unavailable", "capability_unavailable", reasons)
        \/ Eligible(reasons) /\ Deny("runtime_not_registered", "runtime_not_registered", reasons)
        \/ Eligible(reasons) /\ Deny("execution_failed", "execution_failed", reasons)
        \/ Eligible(reasons) /\ at' = "ready" /\ UNCHANGED <<ledger, failure>>
    BY <1>3 DEF ProbedAs
  <2> HIDE DEF reasons
  <2>4. CASE ~Eligible(reasons) /\ Deny("capability_unavailable", "capability_unavailable", reasons)
    BY <2>1, <2>2, <2>4, DeniedKeeps DEF Failures, Unledgered
  <2>5. CASE Eligible(reasons) /\ Deny("runtime_not_registered", "runtime_not_registered", reasons)
    BY <2>1, <2>2, <2>5, DeniedKeeps DEF Failures, Unledgered
  <2>6. CASE Eligible(reasons) /\ Deny("execution_failed", "execution_failed", reasons)
    BY <2>1, <2>2, <2>6, DeniedKeeps DEF Failures, Unledgered
  <2>7. CASE Eligible(reasons) /\ at' = "ready" /\ UNCHANGED <<ledger, failure>>
    <3>1. Eligible(capability)' /\ Probed(capability)'
      BY <2>1, <2>2, <2>7 DEF Eligible, Blocking, Required, Probed
    <3>2. ledger' = NoLedger /\ failure' = "none"
      BY <1>0, <1>3, <2>7 DEF LedgerInv
    <3> QED
      BY <2>1, <2>7, <3>1, <3>2 DEF LedgerInv, Unledgered
  <2> QED
    BY <2>3, <2>4, <2>5, <2>6, <2>7
<1>4. CASE Plan
  <2>1. CASE at' = "probing" /\ at = "planning" /\ UNCHANGED <<world, capability, ledger, failure, gateVars>>
    BY <1>0, <2>1, Untold DEF Before, gateVars
  <2> QED
    BY <1>3, <1>4, <2>1 DEF Plan, Unavailable, Capabilities
<1>5. CASE Probe
  BY <1>3, <1>5 DEF Probe, Unavailable, Capabilities
<1>6. at \in Serving => Eligible(capability) /\ Probed(capability)
  BY <1>0 DEF LedgerInv, Serving, Before, Unledgered
<1>7. CASE Ready \/ Answer
  <2>1. at \in Serving /\ UNCHANGED <<world, capability, gate, reason>>
    BY <1>7 DEF Ready, Answer, Serving, gateVars
  <2>2. CASE Deny("execution_failed", "execution_failed", capability)
    BY <1>6, <2>1, <2>2, DeniedKeeps DEF Failures, Unledgered
  <2>3. CASE at' \in {"invoking", "closing"} /\ UNCHANGED <<ledger, failure>>
    BY <1>0, <1>6, <2>1, <2>3, Untold DEF Serving
  <2> QED
    BY <1>7, <2>2, <2>3 DEF Ready, Answer
<1> QED
  BY <1>1, <1>2, <1>4, <1>5, <1>7

\* From the closing on, what was recorded first stays.
LEMMA LedgerClosing ==
  ASSUME ToldInv, Recorded \/ CloseSettles \/ CleanupTimer \/ Parse
  PROVE  LedgerInv'
<1> USE DEF ToldInv, IInv
<1>0. UNCHANGED <<world, capability, gate, reason>>
  BY DEF Recorded, CloseSettles, CleanupTimer, Parse, gateVars
<1>1. gate = "denied" => reason \in Gate!Denials
  BY DEF LedgerInv
<1>2. CASE Recorded
  <2>1. session = "open" => failure # "none"
    BY <1>2 DEF Recorded, ClosureInv
  <2> QED
    BY <1>0, <1>1, <1>2, <2>1, Untold DEF Recorded, Before
<1>3. ASSUME NEW inTime, at = "closing", AfterClose(inTime)
      PROVE  LedgerInv'
  <2>1. CASE UNCHANGED <<ledger, failure>>
    BY <1>0, <1>1, <1>3, <2>1, Untold DEF AfterClose, Before
  <2>2. CASE failure = "none" /\ at' = "recording" /\ failure' = "execution_failed" /\ ledger' = Entry(capability, FALSE, "execution_failed")
    <3>1. Eligible(capability) /\ Probed(capability)
      BY <1>3, <2>2 DEF LedgerInv, Before, Unledgered
    <3>2. Eligible(capability)' /\ Probed(capability)'
      BY <1>0, <3>1 DEF Eligible, Blocking, Required, Probed
    <3>3. ledger' = (Entry(capability, FALSE, "execution_failed"))'
      BY <1>0, <2>2 DEF Entry, Eligible, Blocking, Required
    <3> QED
      BY <1>0, <2>2, <3>2, <3>3 DEF LedgerInv, Unledgered, Failures
  <2> QED
    BY <1>3, <2>1, <2>2 DEF AfterClose
<1>4. CASE CloseSettles
  <2>1. CASE at # "closing"
    BY <1>0, <1>1, <1>4, <2>1, Untold DEF CloseSettles
  <2> QED
    BY <1>3, <1>4, <2>1 DEF CloseSettles
<1>5. CASE CleanupTimer
  BY <1>3, <1>5 DEF CleanupTimer
<1>6. CASE Parse
  <2>1. Eligible(capability) /\ Probed(capability) /\ failure = "none"
    BY <1>6 DEF Parse, ClosureInv, LedgerInv, Before, Checking, Unledgered
  <2>2. CASE at' = "gating" /\ UNCHANGED <<ledger, failure>>
    BY <1>0, <1>1, <1>6, <2>1, <2>2, Untold DEF Parse
  <2>3. ASSUME NEW code \in {"invalid_worker_result", "output_limit_exceeded"}, Deny(code, code, capability)
        PROVE  LedgerInv'
    BY <1>0, <2>1, <2>3, DeniedKeeps DEF Failures, Unledgered
  <2> QED
    BY <1>6, <2>2, <2>3 DEF Parse
<1> QED
  BY <1>2, <1>4, <1>5, <1>6

\* The gate's reason is one of its denials, and becomes the cause.
LEMMA LedgerGate ==
  ASSUME ToldInv, Present \/ Compare \/ Digested \/ Release
  PROVE  LedgerInv'
<1> USE DEF ToldInv, IInv
<1>1. Eligible(capability) /\ Probed(capability) /\ failure = "none" /\ ledger = NoLedger
  BY DEF Present, Compare, Digested, Release, ClosureInv, LedgerInv, Before, Checking, Unledgered
<1>2. CASE Present \/ Compare \/ Digested
  <2>1. gate' = "denied" => reason' \in Gate!Denials
    BY <1>2 DEF Present, Compare, Digested, Gate!Present, Gate!Compare, Gate!Release, Gate!Denials, LedgerInv
  <2>2. UNCHANGED <<world, at, capability, ledger, failure>>
    BY <1>2 DEF Present, Compare, Digested, calls
  <2> QED
    BY <1>1, <2>1, <2>2, Untold
<1>3. CASE Release
  <2>1. UNCHANGED <<world, capability, gate, reason>>
    BY <1>3 DEF Release, gateVars
  <2>2. CASE gate = "denied" /\ Deny("egress_denied", reason, capability)
    <3>1. reason # "capability_unavailable"
      BY <2>2, DenialsAreOther DEF LedgerInv
    <3> QED
      BY <1>1, <2>1, <2>2, <3>1, DeniedKeeps DEF Failures, Unledgered
  <2>3. CASE gate = "authorized" /\ at' = "recording" /\ ledger' = Entry(capability, TRUE, "digest_and_policy_match") /\ UNCHANGED failure
    <3>1. Eligible(capability)' /\ Probed(capability)'
      BY <1>1, <2>1 DEF Eligible, Blocking, Required, Probed
    <3>2. ledger' = (Entry(capability, TRUE, "digest_and_policy_match"))'
      BY <2>1, <2>3 DEF Entry, Eligible, Blocking, Required
    <3> QED
      BY <1>1, <2>1, <2>3, <3>1, <3>2 DEF LedgerInv, Unledgered
  <2> QED
    BY <1>3, <2>2, <2>3 DEF Release
<1> QED
  BY <1>2, <1>3

LEMMA LedgerOthers ==
  ASSUME ToldInv, CallerChanges \/ SessionChanges \/ UNCHANGED vars
  PROVE  LedgerInv'
BY Untold DEF ToldInv, LedgerInv, CallerChanges, SessionChanges, vars, gateVars

LEMMA ToldHolds == Spec => []ToldInv
<1>1. Init => FitInv /\ LedgerInv
  BY DEF Init, FitInv, LedgerInv, Serving, Before, Unledgered, Unprobed, Probed, Capabilities, Unavailable
<1>2. ToldInv /\ [Next]_vars => ToldInv'
  <2> SUFFICES ASSUME ToldInv, [Next]_vars
               PROVE  ToldInv'
    OBVIOUS
  <2>1. IInv'
    BY CallsKeep, ClosingKeeps, GateKeeps, OthersKeep DEF ToldInv, Next, Proceed
  <2>2. FitInv'
    BY FitKeeps DEF ToldInv
  <2>3. LedgerInv'
    BY LedgerServing, LedgerClosing, LedgerGate, LedgerOthers DEF Next, Proceed
  <2> QED
    BY <2>1, <2>2, <2>3 DEF ToldInv
<1> QED
  BY InitIsGood, <1>1, <1>2, PTL DEF Spec, ToldInv

\* What of the type invariant the others do not say.
DataInv ==
  /\ request \in Requests /\ asked \in Requests
  /\ session \in {"none", "open", "closing", "closed", "failed"} /\ invoked \in {"no", "matching", "other"}
  /\ value \in Values /\ parsed \in Values
  /\ gate \in {"idle", "verifying", "digesting", "authorized", "denied"}

\* The two copies a call makes are of what the caller and the session hold then.
LEMMA DataKeeps ==
  ASSUME DataInv, [Next]_vars
  PROVE  DataInv'
<1> USE DEF DataInv
<1>1. ASSUME Call \/ Verify \/ Ready \/ Answer
      PROVE  DataInv'
  BY <1>1 DEF Call, Verify, Ready, Answer, Deny, ThrowAtOnce, gateVars
<1>2. ASSUME NEW gpu, ProbedAs(gpu)
      PROVE  DataInv'
  BY <1>2 DEF ProbedAs, Deny, gateVars
<1>3. CASE Plan \/ Probe
  BY <1>2, <1>3 DEF Plan, Probe, gateVars
<1>4. ASSUME Recorded \/ CloseSettles \/ CleanupTimer \/ Parse \/ Release
      PROVE  DataInv'
  BY <1>4 DEF Recorded, CloseSettles, CleanupTimer, Parse, Release, Deny, gateVars
<1>5. ASSUME Present \/ Compare \/ Digested
      PROVE  DataInv'
  BY <1>5 DEF Present, Compare, Digested, calls, Gate!Present, Gate!Compare, Gate!Release
<1>6. ASSUME CallerChanges \/ SessionChanges \/ UNCHANGED vars
      PROVE  DataInv'
  BY <1>6 DEF CallerChanges, SessionChanges, vars, gateVars
<1> QED
  BY <1>1, <1>3, <1>4, <1>5, <1>6 DEF Next, Proceed

\* Every variable keeps its type, for any requests, receipts and browsers.
THEOREM TypeCorrect == Spec => []TypeOK
<1>1. Init => DataInv
  <2> SUFFICES ASSUME Init
               PROVE  DataInv
    OBVIOUS
  <2>1. PICK o \in Outputs, r \in Receipts : TRUE
    BY BridgeAssumption
  <2>2. [wellFormed |-> FALSE, output |-> o, receipt |-> r] \in Values
    BY DEF Values
  <2>3. value \in Values
    BY <2>2 DEF Init
  <2> QED
    BY <2>3 DEF Init, DataInv
<1>2. ToldInv /\ DataInv => TypeOK
  <2> SUFFICES ASSUME ToldInv, DataInv
               PROVE  TypeOK
    OBVIOUS
  <2>1. /\ at \in {"idle", "verifying", "planning", "probing", "ready", "invoking", "closing", "parsing",
                   "gating", "recording", "ended"}
        /\ at \in {"ready", "invoking"} => session = "open"
        /\ gate # "idle" => at \in {"gating", "recording", "ended"} /\ snapshot = parsed.receipt
    BY DEF ToldInv, IInv, ClosureInv, GateInv, Before, Serving, Checking
  <2>2. /\ world \in Worlds /\ failure \in Failures \cup {"none", "unexpected"}
        /\ \A c \in Capabilities : capability[c] \in Unavailable[c] \cup {"available"}
    BY DEF ToldInv, LedgerInv, Probed
  <2> QED
    BY <2>1, <2>2 DEF DataInv, TypeOK
<1> QED
  BY ToldHolds, DataKeeps, <1>1, <1>2, PTL DEF Spec

\* A session is given the input once its readiness has matched, while it is open,
\* for a request and bindings in order, on a browser with all the runtime
\* requires (execute, from verifyBrowserBindings to session.invoke).
THEOREM InvokedFit == Spec => InvokedOnlyFit
<1>1. ToldInv /\ [Next]_vars =>
        [invoked # invoked' =>
           /\ invoked' = "matching" /\ session = "open" /\ at = "ready" /\ world.bindings /\ world.registered
           /\ asked.flaw = "none" /\ Eligible(capability)]_vars
  <2> SUFFICES ASSUME ToldInv, Next, invoked # invoked'
               PROVE  /\ invoked' = "matching" /\ session = "open" /\ at = "ready"
                      /\ world.bindings /\ world.registered
                      /\ asked.flaw = "none" /\ Eligible(capability)
    OBVIOUS
  <2>1. Ready
    BY DEF Next, Proceed, Call, Verify, Plan, Probe, ProbedAs, Answer, Recorded, CleanupTimer, CloseSettles,
           Parse, Present, Compare, Digested, Release, CallerChanges, SessionChanges, calls
  <2>2. at = "ready" /\ invoked' = "matching" /\ session = "open"
    BY <2>1 DEF Ready, ToldInv, IInv, ClosureInv, Serving
  <2>3. failure = "none" /\ at \notin Before
    BY <2>2 DEF ToldInv, IInv, ClosureInv, Serving, Before
  <2> QED
    BY <2>2, <2>3 DEF ToldInv, FitInv, LedgerInv, Serving, Unledgered
<1> QED
  BY ToldHolds, <1>1, PTL DEF InvokedOnlyFit, Spec

\* However execute() ends: its ledger is there unless it ended before the plan,
\* says whether the browser was fit, whether an output was released, and if
\* not, why: the error's own name, or the gate's reason. Nothing the ledger is
\* projected from can be refused (privacy-bridge.ts, explainability.ts).
THEOREM LedgerTells == Spec => []LedgerTellsWhy
<1>1. ToldInv => LedgerTellsWhy
  <2> SUFFICES ASSUME ToldInv, Ended
               PROVE  LedgerTellsWhy
    BY DEF LedgerTellsWhy
  <2>1. LedgerInv /\ at = "ended" /\ at \notin Before
    BY DEF ToldInv, Ended, Before
  <2>2. "available" \notin Blocking(capability)
    BY DEF Blocking
  <2>3. failure # "unexpected"
    BY <2>1 DEF LedgerInv, Failures, Unledgered
  <2>4. CASE failure \in Unledgered
    BY <2>1, <2>3, <2>4 DEF LedgerInv, LedgerTellsWhy
  <2>5. CASE failure = "none"
    <3>1. ledger = Entry(capability, TRUE, "digest_and_policy_match") /\ Eligible(capability)
      BY <2>1, <2>5 DEF LedgerInv, Unledgered
    <3>2. ledger # NoLedger /\ ledger.redacted = TRUE /\ ledger.why = "digest_and_policy_match" /\ ledger.capability = {"available"}
      BY <2>2, <3>1 DEF Entry, NoLedger, Eligible
    <3> QED
      BY <2>3, <2>5, <3>2 DEF LedgerTellsWhy, Unledgered
  <2>6. CASE failure = "egress_denied"
    <3>1. ledger = Entry(capability, FALSE, reason) /\ Eligible(capability) /\ gate = "denied"
      BY <2>1, <2>6 DEF LedgerInv, Unledgered
    <3>2. ledger # NoLedger /\ ledger.redacted = FALSE /\ ledger.why = reason /\ ledger.capability = {"available"}
      BY <2>2, <3>1 DEF Entry, NoLedger, Eligible
    <3> QED
      BY <2>3, <2>6, <3>1, <3>2 DEF LedgerTellsWhy, Unledgered
  <2>7. CASE failure \notin Unledgered \cup {"none", "egress_denied"}
    <3>1. ledger = Entry(capability, FALSE, failure)
      BY <2>1, <2>7 DEF LedgerInv
    <3>2. ledger # NoLedger /\ ledger.redacted = FALSE /\ ledger.why = failure
      BY <3>1 DEF Entry, NoLedger, Eligible
    <3>3. ledger.capability = {"available"} <=> Eligible(capability)
      BY <2>2, <3>1 DEF Entry, Eligible
    <3>4. Eligible(capability) <=> failure # "capability_unavailable"
      BY <2>1, <2>7 DEF LedgerInv
    <3> QED
      BY <2>3, <2>7, <3>2, <3>3, <3>4 DEF LedgerTellsWhy, Unledgered
  <2> QED
    BY <2>4, <2>5, <2>6, <2>7
<1> QED
  BY ToldHolds, <1>1, PTL
===============================================================================
