# StageFabric: a verification project

StageFabric plans a graph of AI stages over *targets* (browser, edge, region,
provider), under a policy that says where data of each classification may be
processed, and executes the plan through provider adapters. This directory holds
TLA+ models of its core, the TLC configurations that check them on small
instances, and proofs checked by TLAPS. Paths below are relative to the
package's `src/` directory, unless they begin with `docs/`.

- [The system](#the-system): components, state, operations, hard behaviours
- [The modules](#the-modules): what each models and how
- [The runs](#the-runs): what TLC checks, with which bounds and which fairness
- [The proofs](#the-proofs): what holds for every value of the constants
- [Limits](#limits): what is only model-checked, assumed or not modelled
- [Plan](#plan): what is next

## The system

| Component | State it keeps | Operations | Talks to |
|---|---|---|---|
| Planner, `application/planner.ts` | local to one call: order, lineage of each value, candidates of each stage | `planStageGraph` | pure |
| Executor, `application/executor.ts` | local to one call: values, the attempt under way, receipts | `executePlan` | guards, adapters and verifiers, awaited |
| Live runner, `composition/live-runner.ts` | none | `planLiveStageGraph`, `runLiveStageGraph` | capability probe, planner, executor |
| Authenticated live runner, `composition/authenticated-live-runner.ts` | none beyond the call | `planAuthenticatedLiveStageGraph`, `runAuthenticatedLiveStageGraph` | attestation verifier, planner, challenge consumer, executor |
| Challenge consumer, `adapters/file-capability-snapshot-challenge.ts` | a directory of marker files, shared by processes | `consume`, `issueCapabilitySnapshotChallengeFile` | the file system |
| Snapshot attestation, `domain/capability-snapshot-attestation.ts`, `application/authenticate-capability-snapshot.ts` | none | statement construction and verification | signature verifier |
| Browser worker session, `browser/worker-protocol.ts` | pending exchanges, readiness, disposal | `ready`, `invoke`, `close` | a worker, by messages |
| Privacy bridge and egress gate, `browser/privacy-bridge.ts`, `egress-gate.ts`, `explainability.ts`, `capability-probe.ts` | the runtime session of one call; one-way permits | `execute`, `authorize` | browser, worker session, gate |
| Redaction cascade and receipts, `browser/redaction.ts`, `privacy-receipt.ts` | local to one call; which results and rescans are genuine | `redact`, `rescan`, receipt issuing | classifiers, the policy's owner |
| Span classifier, `browser/drivers/transformers/sensitive-span-classifier.ts` | one pipeline, the inferences running in it, disposal | `classify`, `dispose` | a model pipeline |
| Runtime qualification, `application/runtime-qualification.ts` | a shared index of targets under one deadline | `qualifyRuntimeOperations` | credential resolvers, operation qualifiers |
| Operation qualifier, `adapters/openai-compatible-runtime-operation-qualifier.ts` | local to one call | `qualify` | bounded fetch |
| Bounded fetch, `adapters/bounded-fetch.ts` | one request | a fetch under a timeout, a size limit and an abort signal | network |
| Capability probe, `adapters/openai-compatible-capability-probe.ts` | none | parallel probes to one snapshot | bounded fetch |
| Context supply chain, `composition/context-supply-chain.ts`, `domain/context-supply-chain.ts` | local to one call: artifact, receipt | `runContextSupplyChain` | planner, executor, retrieval, reasoner |
| PageIndex adapter, `adapters/pageindex-context-stage-adapter.ts` | a work budget for each stage | `context.retrieve` | a PageIndex client, a selector |
| Input guard, `adapters/sensitive-data-guard.ts` | patterns kept between inspections | `inspect` | pure |
| Placement evidence, `domain/execution-placement-evidence.ts`, `adapters/execution-placement-evidence-file.ts` | one file | sealing of a run's trace, exclusive creation | the executor's result, the file system |
| Schemas, canonical data, bundles, CLI, API, demos | none | parsing, digests, printing | everything |

What makes it hard, component by component, and what would make it right:

- **Challenge consumer.** Calls race over one directory in several processes, and
  any of their file-system calls may be the last before a death or a power loss.
  One challenge must admit one call at most, an admission must survive a power
  loss, and a challenge must not be lost with nobody to blame.
- **Authenticated runner.** Four awaits lie between the request and the provider
  work, time passes at each and the caller still holds the evidence objects. Only
  one run for each challenge may reach a provider, with the plan of the evidence
  it was called for at the last verification; nothing unverified burns a challenge.
- **Planner.** What is derived for one stage is an argument of the next. An error
  shows only at the end of a chain: a classification or a residency forgotten, a
  cycle among some of the stages, a transfer between two fallbacks without proof.
- **Executor.** Guards, adapters and verifiers are foreign code, awaited, who keep
  the objects they handed over, and may fail after giving output.
- **Worker session.** Replies, timeouts, aborts, worker errors and `close` settle
  the same promise in any order; readiness is shared by its callers.
- **Privacy bridge, gate.** Mutable receipts behind awaited digests, and sessions
  that fail to close after they answered.
- **Redaction.** Rules and classifiers overlap; the policy's owner may change it
  under a call, and results of one call may be paired with rescans of another.
- **Span classifier.** An inference outlives the call that was aborted, and a
  disposal must not pull the pipeline from under it.
- **Qualification, PageIndex adapter, bounded fetch, probe.** Deadlines that race
  with late answers; shared budgets at their limits; snapshots that age while they
  are being made.
- **Attestation.** Seven pieces of evidence of which a statement names three, each
  possibly exchanged for one of other, honest evidence.
- **Context supply chain, placement evidence.** Foreign retrieval and reasoning,
  and holders of results, who change what they hold before it is accounted for.

`PROJECT.json` lists the hazards at their lines with the properties that would catch
them; what no property covers is under [Limits](#limits).

## The modules

    SingleUse <--implemented by-- ChallengeStore <--instance in-- AuthenticatedRun --implements--> SingleUse
                                       ^                               ^
                              ChallengeStoreProofs          AuthenticatedRunProofs

    Planner <--extended by-- PlannedExecution --instance of--> StageExecutor
                                      ^                             ^
                           PlannedExecutionProofs          StageExecutorProofs
                                                                    v
    ContextSupplyChain, PageIndexRetrieval <--instances in-- Retrieval

    EgressGate <--instance in-- PrivacyBridge <-- PrivacyBridgeProofs
    WorkerSession <-- WorkerSessionProofs       (a session the bridge may be given)

    RedactionCascade <-- RecordsProofs --> Records --instances of--> SnapshotAttestation,
                                                       PlacementEvidence, ExclusiveFile
    SpanClassifier <-- ProvidersProofs --> Providers --instances of--> RuntimeQualification,
                                OperationQualifier, BoundedFetch, LiveRun, InputInspection, EgressGate

    LiveRun             probe, planning and providers in one behaviour
    BoundedFetch        one provider request of LiveRun, OperationQualifier, PageIndexRetrieval
    RuntimeQualification, OperationQualifier    the runner, and the qualifier shipped with it
    SnapshotAttestation what AuthenticatedRun takes as dates and one bit
    SpanClassifier      a classifier the cascade may be given
    RedactionCascade    what receipts the gate is presented with
    ContextSupplyChain, PageIndexRetrieval      the run, and one of its retrievers
    InputInspection     a guard of StageExecutor
    PlacementEvidence, ExclusiveFile            the evidence of a run, and its file

`Providers`, `Records` and `Retrieval` put several components beside one another.
Those components share no state, so interleaving them would show nothing: `acting`
is chosen once, that component takes all the steps of the behaviour, and the
properties of these modules are conjunctions of the components' own. Modules named
`MC...` give the constants their values. `MCAuthenticatedRun`, `MCSharedByCalls` (the
challenge store and the span classifier) and `MCRecords` (records and redactions)
choose a `scene` in the same way as `acting`, and `MCPlannedExecution` executes only
some of the requests it plans.

Operators whose comment begins with "Faulty" are mistakes the properties were
tried against: they have no part in any specification.

### SingleUse

What the port `capability-snapshot-challenge-consumer.ts` promises: `admitted`
is the set of calls answered true, and no two of them share a challenge. It is
the abstract specification of two things: the file consumer (its calls answered
true) and the authenticated runner (its runs that reached a provider).

### ChallengeStore

`step[c]` is the program counter of one `consume()` call, `store` and `marker[ch]`
are directory entries: absent, volatile (made but its directory not synced) or
durable. Each awaited file-system call is one action, in the code's order:

| Action | Code |
|---|---|
| `MakeStore`, `InspectStore`, `SyncParent` | `ensurePrivateStore`: mkdir, lstat, fsync of the parent |
| `OpenMarker`, `OpenRefused` | `open(path, "wx")` and its `EEXIST` |
| `WriteMarker`, `SyncStore` | write, sync and close; fsync of the store, answer true |
| `IOError`, `Crash`, `PowerLoss` | any of them rejected; the process dies; the host loses power |

A power loss keeps or drops each volatile entry separately, and markers go with
their directory. `DirectoryFsync = FALSE` is Windows, where `syncDirectory`
returns at once.

### AuthenticatedRun

`run[r]` is where a call stands; `caller[r]` the evidence objects its caller can
still change, `held[r]` the frozen copy. Evidence is a record of the dates the
checks compare and a bit that says that the bundle attests it. A plan is the
target of one stage: the planner's preference among targets valid at the clock,
without skew, where the verifier allows skew. That difference makes the second
plan different from the first, or impossible. The challenge store is an instance
of `ChallengeStore`, one consumer for each run; its steps are taken while
the run awaits `consume`. `Crash` and `PowerLoss` strike both.

### Planner

One turn of a loop of `planStageGraph` is one action: `OrderStage` and
`DetectCycle` for `stageOrder`; `PlanStage` and `RejectStage` for the main loop;
`SealPlan` for `buildEgressProofs` and the end. The variables are the function's
locals; `lineage[v].raw` and `.inherits` are history (the inputs that reach a
value without a declassification, and at all). A request is a record of what the
code reads of a fabric, a snapshot and a graph, with the targets numbered in the
order of `comparePlacements`. Where the code throws the first of several
errors, the model may end with any of them.

### StageExecutor

Each await of `executePlan` separates two actions. A value is reduced to its
content, of which an output verifier approves some. The objects others can still
change are `caller` (the inputs) and `result` (what the last adapter returned);
`CallerMutates` and `AdapterMutates` change them at any await. `staged` and
`outputs` are the executor's own copies. `Fallback` and `AdapterFails` take the
error's `outputEmitted` and whether its status is retryable. `inspected`, `sent`
and `emitters` are history.

`TakeInputs` and `Commit` are steps of their own though no await separates them
from what precedes: the other actions that may come between touch nothing they
read, so this only adds states.

### PlannedExecution

Extends `Planner`, takes `StageExecutor` as an instance with the sealed plan as
the plan begun, and inputs as `assertExactInputs` admits them. This is how the
live runner, the context supply chain and the demo chain the two. (The live
runner admits no declassification rule, `assertNoLiveDeclassification`; the
others do, so the model does.)

### WorkerSession

The host's side of a browser worker. `call[c]` is where a call of `ready()` or
`invoke()` stands: `pending` while its exchange is in `#pending`, `answered` or
`failing` between the exchange's settlement and the microtask that goes on with
it, `sharing` while it awaits another call's initialization. `initializer` is the
call whose promise `#readyPromise` holds. Events of the worker and of timers
(`Message`, `Timeout`, `WorkerError`) come when no microtask is queued (`Quiet`);
`Abort`, `Close` and new calls are made by code of the page, which may itself
run as a microtask between a settlement and its continuation. The worker answers
any request it was sent, in any way, any number of times, and a message that
answers no pending exchange is dropped, as it is in the code.

A `ready()` that shares another's initialization ignores its own timeout and
signal, and a validated readiness may follow a disposal by a microtask: both are
so in the code, and `FindReady` and `Invoke` are guarded by `disposed` first.

### RuntimeQualification

`worker[w]` is what each of `maxConcurrency` workers is at, `next` the index they
share, `aborted` the deadline's signal. A worker takes a target and does with it, in
one step, whatever the code does up to the next await: it settles it
(`TakeUnqualified`) or awaits a credential or the qualifier (`TakeQualifiable`).
`Resolve`, `ResolveNothing`, `Qualify` and `QualifierFails` are what comes back, or
nothing ever. A qualifier answers with any reason the schema of its output takes
(`Answers`), the ones the runner itself gives among them: a foreign one may say
`deadline_exceeded` long before the deadline. `Deadline` aborts; the workers that
await give up their targets and go on. `Report` fills in the targets nobody took and
seals, or fails to (`unsealed`).

### OperationQualifier

One `qualify()` of the shipped qualifier: `Qualify` up to the first request,
`ObserveModels`, then for each operation `Skip`, `Try` and `Settle`. `fetched` and
`tried` are history. An operation is tried whatever the list of models was like:
so it is in the code, and the result is decided afterwards (`Reason`).

### SnapshotAttestation

`held` is seven pieces of evidence in whoever's hands; `Issue` makes a statement of
them, `Exchange` replaces a piece by one of other evidence, `Relist` writes the
fabric in another order, `Verify` is at any time of `clock`. Signing keeps the
statement constant. The checks are sets of the codes that would be thrown, so that
each is one line beside the `fail` it stands for.

### BoundedFetch

`Call` is the destination policy on a URL that a caller's object may change between
readings; `work` is where `performFetch` stands, which goes on after the race was
lost. `Network` answers, ends, hangs or ignores the signal; `Timer` and
`CallerAborts` abort; `Settle` is `Promise.race` and the catch that names the error.

### LiveRun

`runLiveStageGraph` with the clock, the environment and the inputs object changed by
others. `Observe` reads the clock and starts all probes at once; each resolves its
key (`Resolve`) and ends (`Settle`) by itself. `Plan` reads the clock again; `Call`
and `Answer` are one attempt at a provider. What `Planner` and `StageExecutor` say in full is one step here, `permitted` being
what the policy allows. `seen`, `sent` and `worked` are history.

### EgressGate and PrivacyBridge

`EgressGate` is one `authorize()`: snapshot of the receipt, digest of the receipt,
comparisons, digest of the output, permit; the owner changes the receipt
at each await. `PrivacyBridge` takes it as an instance over its own parsed copy and
adds what `execute()` does around it: `at` is the await it is in; the session is
any that answers with anything, changes the answer later (`SessionChanges`) and
closes in time, late or never (`CloseSettles` against `CleanupTimer`). An error
after opening is recorded first, then the `finally` closes (`Recorded`).

### RedactionCascade

Each call's `redact` and `verify` are jobs over a text, a sequence of code units.
`Redact` takes the policy as it is then, for its owner replaces it at any await
(`OwnerChanges`); rules propose spans at once, classifiers answer in any order
(`Answer`, `ClassifierFails`). `Rewrite` resolves overlaps by priority, length,
start, source and category, and replaces. `Verify` rescans a result, or is handed
one that no cascade made (`VerifyForged`); `Pair` and `Issue` put a result and a
rescan together, of one call or of two, and make a receipt if the code would.

### SpanClassifier

`pipeline` is loaded by the first call, `call[c]` is where each call awaits,
`running` the calls whose inference the pipeline is still at, aborted or not.
`Dispose` waits for the loading, then for what runs, then frees. The settling of
anything foreign has no fairness.

### ContextSupplyChain

The four stages `classify`, `retrieve`, `assemble` and `reason` between `Run` and
`Seal`. Retrieval is the deterministic selection of `RetrieveLocally` or a foreign
adapter (`RetrieveOutside`); the reasoner may change the artifact object it was
given (`ReasonerChanges`) before it answers.

### PageIndexRetrieval

`at` is the call that is awaited, `work` the budget the code keeps, `spent` (history)
what the calls really cost. The clock is finer than the timers (`Grain`) and timers
are served late (`Lag`): answers race with the timer that should have stopped them.

### InputInspection

The guard's walk: `path` is its explicit stack, `look` the node to look at, `atStart`
whether a pattern with the global flag begins at the start. Values are graphs of
nodes, shared and cyclic ones among them; two inspections follow one another.

### PlacementEvidence and ExclusiveFile

`PlacementEvidence`: `Complete`, `Refusal` and `Failure` write the executor's trace,
`Edit` is the holder's, `Create` validates and seals. `ExclusiveFile`: each file-system
call is a step of a writer; `Meddle` is somebody else's change at the path, `Dies` and
`PowerLoss` are faults. It serves the evidence file and the challenge file, which
differ in what they do after a failure (`Evidence`).

## The runs

| Run | Module, configuration | Instance | States |
|---|---|---|---|
| `shared_by_calls` | MCSharedByCalls | two scenes: 3 calls to the challenge store for one challenge and 1 for another, POSIX, I/O errors, deaths, power loss; 3 calls of the span classifier, each may be aborted, one `dispose()` | 156,880 |
| `authenticated_run` | MCAuthenticatedRun | two scenes: 2 runs and a plan-only call race; 2 runs whose evidence is swapped; clock to 2 and 3, all faults | 161,016 |
| `planned_execution` | MCPlannedExecution | 864 requests planned (3 policies, 2 snapshots, 8 wirings of 3 stages, rules, declarations, origins), 8 of them executed | 58,048 |
| `planner_egress_proofs` | MCPlanner, PlannerEgressProofs.cfg | the same requests; a violation, see [Findings](#findings) | |
| `stage_executor` | MCStageExecutor | 2 stages, 2 placements, 2 guards, 3 plans, missing inputs | 3,080 |
| `worker_session` | MCWorkerSession | 3 calls of `ready()`, 2 of `invoke()`, 3 request identifiers | 134,140 |
| `privacy_bridge` | MCPrivacyBridge | 5 requests, 8 browsers, 12 receipts, a closing in time, late or never | 46,180 |
| `providers` | MCProviders | see below | 208,413 |
| `qualification_limits` | MCProviders, LimitsAreNamed.cfg | the same; a violation, see [Findings](#findings) | |
| `records` | MCRecords | see below | 644,036 |
| `retrieval` | MCRetrieval | see below | 219,084 |
| `context_citations` | MCRetrieval, CitationsAreEvidence.cfg | the same; a violation, see [Findings](#findings) | |

What each shows:

- `shared_by_calls`, the store: `AdmissionIsDurable`; `PortSpec`, that is, one admission for each
  challenge even when power was lost between two calls; and `NeverLostToNobody`:
  `RefusedForARival` (a refused call has a rival that got the marker, so a challenge
  is not lost among calls that refuse one another) and `SomeoneIsAdmitted`. Two calls
  suffice for a race; the third lets one come after a power loss that struck the
  other two; the fourth checks that challenges do not disturb one another though
  they share the directory. Calls after a crash are new calls, so four bounds
  retries too. The classifier: `FreedWhenIdle`, and `AbortsAndDisposalEnd`: `OneLoad`,
  `NothingBeginsAfterwards`, `AbortedIsNotAnswered`, `AbortedCallsEnd`, `DisposalEnds`
  (if what `dispose()` waits for settles). Three calls: one aborted whose inference
  goes on, one that runs, one that comes too late.
- `authenticated_run`: `ExecutionsSpec` (executions implement `SingleUse`),
  `ExecutedAtTheFence`, `BurnedBehindTheFence`, and `BurnedNotInVain`: once all calls
  made with a burned challenge are over, one has executed, or one died or could not
  finish consuming. So no check that can refuse a run may follow its consumption,
  and no run may be refused for a rival that is refused too. In the first scene the
  clock passes the first target's expiry between the two plannings; in the second
  evidence is current for one tick of skew before and after its dates.
- `planned_execution`: `CyclesAreFound` (against the definition of a cycle: a set of
  stages each reading from the set), `NoSilentDowngrade`, `ResidencySticks` and, for
  policies monotone in rank, `EgressProofsHold`; then `EveryTransferIsProved` (every
  transfer that really happens, between any primary and fallback, is in the plan's
  egress proofs) and `RawDataNeverEscapes`. Three stages are enough for a chain with
  a join, and for a cycle that leaves a stage out or has a stage behind it. The
  requests executed differ in what an execution can tell apart: a chain or a
  join, a declassification or none, a policy that is monotone with nested zones
  or lax.
- `stage_executor`: `SentOnlyWhatGuardsSaw`, `SameDataEverywhere`,
  `OneEmitterPerStage`, `DeclassifiedIsVerified`, `StagesCommitWhole`,
  `EveryExecutionEnds`. Two guards make "every guard" differ from "a guard", two
  declassified outputs make a half-verified stage possible, and the plan out of
  order shows `missing_input` in action.
- `worker_session`: `AnswersAreOwn` (the answer to an aborted request comes while
  another is pending), and `CallsEndInOrder`: `OneInitialization`,
  `InvokedBehindReadiness`, `NothingAfterDisposal`, `EveryCallEnds`. Three `ready()`
  calls are one that fails, one that shares its failure and one that tries again.
  There are fewer identifiers than calls, so that a source of them that runs dry is
  met too.
- `privacy_bridge`: `ReleasedBehindClosure`, `ReleasedIsAuthorized`, and `EndsAsTold`:
  `NothingLeftOpen`, `LedgerTellsWhy`, `InvokedOnlyFit`, `ExecutionEnds`. One call is
  enough: the object's state that outlives a call is its drivers. Requests and
  browsers are in order or have one flaw, and each flaw has a path of its own.
- `providers`, with one of six components acting:
  - qualification (6 requests, 3 targets, 2 operations, 2 workers): with fewer
    workers than targets one target waits for a worker, and may still at the deadline.
    Qualifiers answer every reason for one operation, and for two each pair of
    qualified, refused and `deadline_exceeded`;
  - the shipped qualifier (10 requests, 3 operations, 2 models): one request in order,
    the others with one thing wrong;
  - a fetch (4 configurations, 24 requests, 16 kinds of response, a limit of 2 bytes):
    chunks of one and two bytes end below, at and over the limit;
  - a live run (11 requests, 2 stages, 2 targets, one key, clock to 3, evidence good for
    2): the evidence may end while probes are awaited, and the two targets share an
    operation, so that a stage has a fallback;
  - the input guard (168 values of 4 nodes, inspected twice; 7 nodes, depth 2): four
    nodes make sharing differ from a cycle, and the second inspection meets what the
    first left in a pattern;
  - the egress gate (receipts that fail none, one or two checks; 2 decisions, 2
    outputs), whose owner changes the receipt at both digests.

  Its properties say that what is qualified was earned and everything reported
  (`QualifiedIsEarned`), that a plan rests on evidence of the target itself, keys go
  home and work is done once (`LiveRunIsSound`), that a fetch is of what was checked,
  whole, and its error named for its cause (`FetchIsSound`), that the guard and the
  gate pass only what they saw (`GuardsAreTrue`), and, for all, that late
  answers change nothing (`LateAnswersChangeNothing`) and calls end (`EveryCallEnds`).
- `records`, with one of three acting, or redactions in behaviours of their own:
  - an attestation (20 sets of evidence, 2 exchanges, verified from 0 to 9): six sets
    are in order and differ in every piece, so that each exchange is for honest
    evidence; each other set has one thing wrong. Two exchanges can undo or hide one
    another. The times straddle every bound (`AttestationIsSound`);
  - the placement evidence of a run (4 plans, a result edited up to twice): two edits
    can hide one another, and one of the plans exceeds `MaxPlacements`
    (`SealedIsARun`);
  - two processes that create one file (one interference, deaths, a loss of power):
    what is confirmed is whole, to one writer, and nobody's file is replaced or
    removed (`CreatedIsOwn`);
  - redactions (2 calls, 2 texts, 3 policies, answers of 3 kinds; calls are
    symmetric): `RedactionIsExact` (`WinnersByPrecedence`, `OnlySpansAreReplaced`,
    `OutputIsDetermined`: not by the order of answers) and `VouchedForByRescan`
    (`RescannedIsClean`, `ReceiptsArePaired`). Rules and classifiers overlap,
    of one priority and of two, of one length and of two; a replacement may match
    again; one text holds a surrogate pair, which no span may cut. The second call exists to be confused with
    the first.
- `retrieval`, with one of two acting:
  - the context supply chain (17 requests, 4 placements, 12 evaluations, 20
    retrievals, 15 answers): two sources with different ends, three pieces of which two
    have one source, a budget that fits one, two or none (`ChainIsAccounted`);
  - the PageIndex adapter (up to 2 sources, 6 selections, clock to 9, two sizes of
    everything): two sources make a ceiling for one source differ from one for all,
    and a call may take longer than its timeout, and than what the total leaves it
    (`RetrievalIsWhole`, which says too that no call is waited for beyond the
    deadline's last timer, and `RetrievalEndsInTime`).

Deadlock is not checked: all these systems stop when their calls have ended.
That they do not stop earlier is what the liveness properties say, where there are
any.

**Fairness.** A call that has started is driven on: weak fairness of its own steps.
The code justifies it where each await is of a promise that settles: Node's
file-system promises settle, the planner is synchronous. It is an assumption on
deployments where the awaited code is theirs (guards, adapters, verifiers); the
adapters of this repository settle by their timeouts. No fairness is assumed of
callers (`MakeStore` of an idle call, `Begin`), of faults, of
mutations or, but where said, of time. The rest is as follows:

- `WorkerSession`: microtasks run and a timer that is not cleared fires; the worker
  need never answer. The same is assumed of `BoundedFetch` (`Settle`, `ReadOn`,
  `Timer`; nothing of the network) and `RuntimeQualification` (`Start`, `Go`, `Report`,
  `Deadline`; resolvers and qualifiers need never settle).
- `PrivacyBridge`: digests too, and that `ready()` and `invoke()` settle, which is what
  their timeouts are for and `WorkerSession` shows of the shipped session;
  `close()` may hang.
- `SpanClassifier`: microtasks only. The pipeline owes nothing, so `DisposalEnds` has
  its settling as a premise.
- `LiveRun`, `OperationQualifier`: each fetch ends, which is what `BoundedFetch` shows;
  the live runner's key resolver only reads the environment.
- `PageIndexRetrieval`: the clock goes on and a timer that is due fires; clients and
  selectors need never answer.
- The other modules promise no liveness: what they await is foreign, or nothing.
  `AuthenticatedRun` is one: its verifier and its challenge consumer are ports
  without a timeout, so a run ends if they settle and may wait forever if not.

### Findings

`planner_egress_proofs` checks `EgressProofsAreTrue`, what an egress proof's
reason codes say, for any policy, and TLC refutes it. `buildEgressProofs` writes
`classification_zone_allowed` and `classification_trust_satisfied` next to the
*value's* classification (`planner.ts:608`), but `evaluateTarget` has only
checked the zone for the *highest* classification the stage reads. With
`regional` bound to EU zones and a higher-ranked `secret` that is not, a stage
reading both may be placed in the US, and the plan proves that the regional
value is allowed there. Nothing in the schema makes a policy monotone in rank.
For monotone policies both `EgressProofsHold` and `RawDataStaysAllowed` hold.

`qualification_limits` checks `LimitsAreNamed`, what ADR 0003 (`docs/adr`, lines
39-42) says: a generation whose token limit is missing or excessive becomes
`operation_configuration_unqualified`, before any operation I/O. TLC refutes it: such
limits are only told apart when a worker takes the target
(`runtime-qualification.ts:385`), and at the deadline the operations of targets nobody
took are all `deadline_exceeded` (`:536`). `ReportIsComplete` says what holds: every
selected operation is reported; the deadline is blamed only if it passed, or by the
operation's own qualifier; and an answer given in time is reported as it was given.

`context_citations` checks `CitationsAreEvidence`, what `docs/threat-model.md:77` and
ADR 0006 (lines 70-72) say: only locators of the verified artifact are accepted. TLC
refutes it: the reason stage takes the permitted locators from the object it handed to
the reasoner (`context-supply-chain.ts:701`), after the answer, and a reasoner that
adds evidence to that object may cite it. `ChainIsAccounted` claims nothing of
citations; the rest of the chain does not depend on them.

The models show one more place where the code does other than a document says; no
run is kept for it. A qualifier may reject with the reason `qualifier_unavailable`,
for its answer is validated against all reasons; the report's schema refuses that
reason beside the name of a qualifier, so sealing throws
(`runtime-qualification.ts:300`; phase `unsealed`) and the results of all targets are
lost, where `docs/delivery-contract-v0.3-runtime-qualification.md:41` wants a sealed
report. The shipped qualifier never does this. For `EveryCallEnds` such a call has
ended: it throws.

## The proofs

TLAPS checks these for every value of the constants that satisfies the named
assumptions of the module.

**ChallengeStoreProofs** (assumes `ConstantsAssumption`). `TypeCorrect`;
`SingleAdmissionHolds`, under `DirectoryFsync \/ ~PowerLossPossible`;
`AdmissionIsDurableHolds`; `ImplementsPort`; `NeverRefusedForNobody`.
`SingleAdmission` is not inductive:
a call in `syncStore` will be admitted next. The invariant says of each call past
`OpenMarker` that it is the only one such for its challenge and that its marker
is there, and of each call past `SyncParent` that the store is durable, when
directories are synced. `RivalInv` says of each marker that is there, and of each
challenge for which a call was refused, that some call made the marker and was not
refused; it needs nothing of the disk.

**AuthenticatedRunProofs** (assumes `RunAssumption`). The store's theorems are
brought in by instance: each step of a run is a step or a stutter of the store.
`OneExecutionPerChallengeHolds` follows from the store's `SingleAdmission` and the
invariant that an executing run was admitted. `ExecutedAtTheFenceHolds` needs that
`held[r]`, from `Prepare` on, agrees with `authorized[r]`, and that `planned[r]`
is the plan of the frozen evidence at `fence[r]`. `BurnedBehindTheFenceHolds`
needs that a call of the store is in progress only for a run in `consume`.
`BurnedNotInVainHolds`, for any number of runs and challenges, needs both sides: a
run awaits its store call, dies with it, and once admitted goes on to execute
(`OutcomeInv`); a marker is in the hands of the run that made it, or was until that
run failed or died (`OpenedInv`). It needs nothing of the disk.

**PlannedExecutionProofs** (assumes `PlannerAssumption` and, from `SealInv` on,
`ContentsAssumption`). First the planner alone: `TypeCorrect`; `OrderIsSound` and
`CyclesAreFoundAll`, for graphs of any size; `NoDowngrade`, `ResidencyHolds`,
`RawDataStays` and `EgressProofsAlwaysHold`, through chains of any length. None of
the last four is inductive: what a stage is allowed depends on what was derived
of the values it reads, at an earlier turn. `LineageInv` says of every value whose
producer is planned that its classification is no lower than that of any input
that reaches it raw, and that it carries the residencies of every input it
inherits from; `PlacementInv` says of every candidate that its zone admits some
classification no lower than all those its stage reads (this is all the code has
checked, and why a policy must be monotone for the rest), and has the residencies
of all it reads; `OrderInv` says that the values a stage reads are settled when
its turn comes. That a set of stages left over is a cycle is an argument on
minimal elements: each of them reads from one of them.

Then planner and executor together: `TransfersProved`, `InputsFound` and, for
monotone policies, `RawDataKept`. `SealInv` keeps, once a plan is sealed, what the
planner's theorems say of it. `ValuesInv` then says that a value
that is there was produced on a target the plan has among its stage's candidates,
`AttemptInv` and `SentInv` the same of every request: so each transfer is between two
candidates, and `buildEgressProofs` makes a proof for each such pair. That no
input is missing follows from the order, `OrderIsTopological`.

**StageExecutorProofs** (assumes `ExecutorAssumption` and `NoStageTwice`: no plan
names a stage twice, which `OrderIsSound` gives for the planner's; and
`RetrievalAssumption`). `TypeCorrect`,
`NothingUninspected`, `ValuesAreConstant`, `OneEmitter`, `DeclassifiedVerified`,
`CommitsAreWhole`: the run's invariants for any number of stages, placements
and guards. `SentInv` ties every request ever sent to the values of now: they agree
since a value a stage could read was there, and `Commit` only writes values that
were not (`ValuesInv`: an output has a value exactly when its stage is behind).
`AttemptInv` carries what the first guards of an attempt let through, and what the
verifiers have approved, from one await to the next. `EmitterInv` says that the
stage under way has no emitter until its adapter returns; a fallback keeps this
because `canFallback` requires that nothing was emitted.

The same module has the retrieval. `ChainAccounted` (`ChainInv`): beyond the
first checks a call's request stays fresh and its placement allowed, the artifact
is of the request's sources in a window all of them share (`ArtifactInv`), and
what is returned keeps to its length behind a receipt that is true (`AnswerInv`). `RetrievalWhole` (`PagesInv`),
for any limits, sources and answers: at every call what the adapter has counted is
what was spent, and within each limit (`BudgetInv`), which holds across sources
because the counters are carried from one to the next and compared at every
answer; the pieces kept so far are the pages asked for, in order, of the sources
before this one, and a timer is set no later than what the total leaves, rounded up
to the clock's grain (`TurnInv`). That the text counted is what the pieces weigh is an
argument on cardinalities: the bytes of new pieces are none of the old ones'.
`CompleteByDeadline`: what is returned was complete in time,
however late the timers; it is the safety half of `RetrievalEndsInTime`.

**WorkerSessionProofs** (assumes `SessionAssumption`). `TypeCorrect`, `AnswersOwn`,
`InitializedOnce`, `InvokedReady` and `NothingAfter`: all that the run checks but
liveness, for any number of calls and identifiers. `IdInv`: no two calls share an
identifier, so an answer has one addressee. `ReadyInv`: of the `ready()` calls only the
initializer exchanges, and it stays the initializer once it has succeeded.

**PrivacyBridgeProofs** (assumes `BridgeAssumption`, which only `TypeCorrect`,
`LedgerTells` and `InvokedFit` need). `ReleasedAfterClosure`, `NoneLeftOpen`,
`ReleasedAuthorized`, `LedgerTells`, `InvokedFit` and `TypeCorrect`, for any receipts,
requests and browsers: all of `EndsAsTold` but that it ends. `ClosureInv`: an answer
is looked at only when its session has closed, and every way out of an open session
leads through the closing. `GateInv`: the gate works on the bridge's own copy, so
`SessionChanges` and the receipt's owner cannot reach what is released. `LedgerInv`:
the capabilities stay as they were probed, so what is projected later still fits
them; an error recorded while the session is open is not written over when the
closing fails too; and no denial of the gate is named as a capability's failure is.

**ProvidersProofs** (assumes `ProvidersAssumption`). The components of `Providers`,
each by an invariant of its own; `Steps` says that a step of one leaves the others
alone.

- `QualifiedEarned`, for any targets, workers and requests, and for qualifiers that
  answer with any of the reasons: the deadline's reason is given only after the
  deadline, or by the operation's own qualifier.
  `QualificationInv`: the index is ahead of what is known or awaited by no more
  than the workers that have ended (`WorkersInv`); what is behind it is known, or
  awaited by one worker, and was asked about once (`TakenInv`); each known reason is
  the operation's own (`OwnInv`). `QualifierInv`: what the shipped qualifier has sent
  is the list's request and then one for each operation that may run, in their
  order (`SentInv`), and a result is what its trial, the list and the configuration
  make it (`ReasonInv`).
- `LiveRunSound`. `LiveInv`: a target's state is what it reported when it was asked
  (`AskedInv`), a stage's candidates are those eligible by these states (`PlanInv`), the
  stages before the one in turn have done their work on one of them and those
  after it none (`WorkInv`).
- `FetchesSound`. `FetchInv` says for each stand of `performFetch` and of the race what
  the one knows of the other: the work goes on after the race is lost, and what
  it does then must not show.
- `GuardsTrue`, for values of any size and shape, shared and cyclic ones among them.
  `WalkInv`: each object on the path leads to the next, and of its children all
  those before the one it is at are clear with everything they lead to. An object
  that is met inside itself leads to itself; one that is met twice otherwise does not.
  `GateInv` is the bridge's, for the gate by itself.
- `LateAnswers`, the action properties of all of them.
- The classifier over one pipeline (no assumption): `TypeCorrect`, `LoadedOnce`,
  `FreedIdle`, `NothingBegins`, `AbortedUnanswered`, for any number of calls.
  `DisposalInv`: once `dispose()` is past the loading, its wait covers everything that
  runs, because nothing more can begin.

**RecordsProofs** (assumes `CascadeAssumption` and `RecordsAssumption`).

- `RedactionExact`, for all texts, policies and answers: what a cascade returns is
  the text but for the spans that won, and these are the only winners by precedence,
  whatever the order of the answers. The invariant knows each job by itself
  (`Sound`), the cascade, its rescan and its output together (`Linked`), and each
  receipt (`Issued`); the work is in the lemmas about `Resolve` and `Rendered`. That
  there is a set of winners at all, and one only, is an induction on the number of
  candidates: take the one that precedes all others, drop what overlaps it, go on.
- `VouchedFor`: a receipt is of one call's result and rescan, done under one policy,
  and the rescan found nothing.
- `Created`. `FileInv`: who is past the sync has the whole content in the file, and while
  nobody else meddles, whoever has created the file is one and its entry is theirs.
- `AttestationHolds`. `AttestationInv`: the statement is of what was issued, which was
  coherent; what is verified has nothing wrong with it now (`Wrong`). That it is
  then what was issued follows, piece by piece, from the digests the statement and
  the pieces themselves name.
- `SealedRuns`, for any plans and edits. `PlacementInv`: what is sealed could be
  projected; a trace nobody edited is that of a run of the plan (`HonestRun`: how
  many completions and attempts come before each event), and such a trace can always be
  projected within the schema's limits.

`SingleAdmission`, `OneExecutionPerChallenge`, `ProvidersBehindTheStore`,
`OrderIsTopological`, `RawDataStaysAllowed` and `NoMissingInput` are proved and listed
in no run: others that the runs check rest on them.

The inductions are made without the library's induction theorems, which take an
operator as a parameter: the set of the numbers a statement holds of is shown to be
all of them (`NatSetInduction`), or its counterexamples to have no least one
(`SmallestNat`). The models have no RECURSIVE operator; where the code recurs or
sorts, they say what the result is, and lemmas show that there is one.

What stays with TLC is liveness, which is beyond the prover:
`EveryExecutionEnds`, `EveryCallEnds` and `RetrievalEndsInTime`, and the live halves of
`NeverLostToNobody` (`SomeoneIsAdmitted`), `CallsEndInOrder` (`EveryCallEnds`),
`AbortsAndDisposalEnd` (`AbortedCallsEnd`, `DisposalEnds`) and `EndsAsTold`
(`ExecutionEnds`), whose other halves are theorems above. `EgressProofsAreTrue`,
`LimitsAreNamed` and `CitationsAreEvidence` are false.

## Limits

- On Windows (`DirectoryFsync = FALSE`) a marker may be lost with a power loss, and its
  challenge be usable again: the code says so. Without power loss `SingleAdmissionHolds`
  covers Windows too; the run is of POSIX. The created files of
  `ExclusiveFile` are synced, their directory is not: after a power loss one may be
  gone on any system.
- The stage inputs are not part of what is authorized, and
  `prepareLiveRunRequest` keeps the caller's object; the executor copies it after
  the verifications.
- The clock is not read again between the second verification and the provider
  call, nor by the context supply chain after its start: properties date the evidence
  at the reading. In `LiveRun` the clock never goes back.
- An input without an origin has no egress proof; the properties say nothing of
  its transfers.
- Signatures and digests are equality of what they cover. An output verifier is
  sound: it approves only approved content.
- Regular expressions are fixed patterns (`RedactionCascade`) or a fact of a text
  (`InputInspection`); URLs are reduced to what the destination policy compares.
- So in the code, and claimed otherwise by no document: a body whose fetch ignores
  the abort stays open; a body that cannot be cancelled when it is too large makes
  `network_failure`; a loading of the classifier's model that failed is kept; the
  deterministic retriever may fill a budget that the assembled context then exceeds;
  more than 256 pieces of evidence, or 1,024 placements, are refused after the work.
- A session of somebody else's that ignores its timeouts leaves the privacy bridge
  waiting, and so does a key resolver the capability probe.
- Not modelled: parsing and schema checks, cloning limits and the digests of
  receipts, which models start after; the browser's bindings and the registry of
  drivers, which nothing changes after start; the reading of bundles and the
  signature library; the command line, the HTTP API, demos and the benchmark, which
  print or drive the components above.

## Plan

1. Done: the modules above, and the proofs of every safety property the runs check.
2. Composition: `WorkerSession` as the session of `PrivacyBridge`, and
   `SpanClassifier` as a classifier of `RedactionCascade`, so that what the bridge and
   the cascade assume of foreign code is shown of the code the repository ships.
3. `LiveRun` with `BoundedFetch` in the place of its fetches, for the same reason.
4. The endings that liveness says (a call under a deadline ends by it) as safety, by a
   measure that decreases with every step, as `CompleteByDeadline` does for retrievals.
