---------------------------- MODULE SpanClassifier ----------------------------
(***************************************************************************)
(* The classifier over a Transformers.js pipeline (browser/drivers/        *)
(* transformers/sensitive-span-classifier.ts): calls of classify() share   *)
(* one pipeline, loaded by the first of them; each may be aborted at any   *)
(* time; dispose() frees the pipeline.                                     *)
(*                                                                         *)
(* The pipeline and its factory are foreign: they answer when they like,   *)
(* with anything, or never, and an inference goes on after its call was    *)
(* aborted. What the spans are is left out: an output is usable or not.    *)
(***************************************************************************)
EXTENDS Naturals, FiniteSets

CONSTANTS Calls

VARIABLES
  pipeline,  \* "none", "loading", "ready", "failed"
  loads,     \* history: how often the factory was called
  call,      \* of each call: "idle", "loading", "inferring", an answer of the pipeline, or its outcome
  aborted,   \* the calls whose signal was aborted
  running,   \* the calls whose inference the pipeline is still at
  disposed,
  disposal,  \* of dispose(): "none", "loading", "waiting", "freeing", "done", "failed"
  awaited    \* the inferences it waits for

vars == <<pipeline, loads, call, aborted, running, disposed, disposal, awaited>>

Answers == {"usable", "unusable", "rejected"}
Outcomes == {"spans", "aborted", "disposed", "invalid_pipeline_output",
             "pipeline_inference_failed", "pipeline_initialization_failed"}

TypeOK ==
  /\ pipeline \in {"none", "loading", "ready", "failed"} /\ loads \in Nat
  /\ call \in [Calls -> {"idle", "loading", "inferring"} \cup Answers \cup Outcomes]
  /\ aborted \subseteq Calls /\ running \subseteq Calls /\ awaited \subseteq Calls
  /\ disposed \in BOOLEAN
  /\ disposal \in {"none", "loading", "waiting", "freeing", "done", "failed"}
  /\ disposed <=> (disposal # "none")
  /\ \A c \in Calls :
       /\ call[c] = "loading" => pipeline # "none"
       /\ call[c] = "inferring" => c \in running
       /\ c \in running => pipeline = "ready" /\ call[c] \in {"inferring", "aborted"}

Init ==
  /\ pipeline = "none" /\ loads = 0 /\ call = [c \in Calls |-> "idle"] /\ aborted = {} /\ running = {}
  /\ disposed = FALSE /\ disposal = "none" /\ awaited = {}

End(c, outcome) == call' = [call EXCEPT ![c] = outcome]

-------------------------------------------------------------------------------
(* classify()                                                                *)

\* #getPipeline: the promise is kept from the first call on, failed or not.
NeedsPipeline == pipeline = "none"

Load ==
  IF NeedsPipeline THEN pipeline' = "loading" /\ loads' = loads + 1 ELSE UNCHANGED <<pipeline, loads>>

\* An empty input has no spans, with no pipeline at all.
Classify(c) ==
  /\ call[c] = "idle"
  /\ \/ disposed /\ End(c, "disposed") /\ UNCHANGED <<pipeline, loads>>
     \/ ~disposed /\ c \in aborted /\ End(c, "aborted") /\ UNCHANGED <<pipeline, loads>>
     \/ ~disposed /\ c \notin aborted /\ End(c, "spans") /\ UNCHANGED <<pipeline, loads>>
     \/ ~disposed /\ c \notin aborted /\ End(c, "loading") /\ Load
  /\ UNCHANGED <<aborted, running, disposed, disposal, awaited>>

\* The factory answers with a pipeline, or with anything else, or throws.
LoadSettles ==
  /\ pipeline = "loading" /\ pipeline' \in {"ready", "failed"}
  /\ UNCHANGED <<loads, call, aborted, running, disposed, disposal, awaited>>

\* The pipeline is there: the call begins its inference, which may throw at
\* once, unless the classifier has been disposed of meanwhile.
Resume(c) ==
  /\ call[c] = "loading" /\ pipeline \in {"ready", "failed"}
  /\ \/ pipeline = "failed" /\ End(c, "pipeline_initialization_failed") /\ UNCHANGED running
     \/ pipeline = "ready" /\ disposed /\ End(c, "disposed") /\ UNCHANGED running
     \/ /\ pipeline = "ready" /\ ~disposed
        /\ \/ End(c, "inferring") /\ running' = running \cup {c}
           \/ End(c, "pipeline_inference_failed") /\ UNCHANGED running
  /\ UNCHANGED <<pipeline, loads, aborted, disposed, disposal, awaited>>

\* An inference ends, whether its call still waits for it or not.
InferenceSettles(c) ==
  /\ c \in running /\ running' = running \ {c}
  /\ \/ call[c] = "inferring" /\ \E answer \in Answers : End(c, answer)
     \/ call[c] # "inferring" /\ UNCHANGED call
  /\ UNCHANGED <<pipeline, loads, aborted, disposed, disposal, awaited>>

OutcomeOf(answer) ==
  [usable   |-> "spans",
   unusable |-> "invalid_pipeline_output",
   rejected |-> "pipeline_inference_failed"][answer]

\* The signal is looked at once more.
Finish(c) ==
  /\ call[c] \in Answers /\ End(c, IF c \in aborted THEN "aborted" ELSE OutcomeOf(call[c]))
  /\ UNCHANGED <<pipeline, loads, aborted, running, disposed, disposal, awaited>>

\* abortable: a call that waits, for the pipeline or its answer, is rejected
\* with the event; the pipeline is told, and goes on as it likes.
Abort(c) ==
  /\ c \notin aborted /\ aborted' = aborted \cup {c}
  /\ IF call[c] \in {"loading", "inferring"} THEN End(c, "aborted") ELSE UNCHANGED call
  /\ UNCHANGED <<pipeline, loads, running, disposed, disposal, awaited>>

-------------------------------------------------------------------------------
(* dispose()                                                                 *)

\* A second call gets the promise of the first.
Dispose ==
  /\ ~disposed /\ disposed' = TRUE
  /\ disposal' = IF pipeline = "none" THEN "done" ELSE "loading"
  /\ UNCHANGED <<pipeline, loads, call, aborted, running, awaited>>

\* Faulty: an inference nobody waits for any more is not waited for.
PendingCalls == {c \in running : call[c] = "inferring"}

\* #pendingInference: every inference begun and not settled, aborted or not.
Pending == running

\* Faulty: a pipeline is waited for until it is there.
DisposeLoadedWhenReady ==
  /\ disposal = "loading" /\ pipeline = "ready" /\ disposal' = "waiting" /\ awaited' = Pending
  /\ UNCHANGED <<pipeline, loads, call, aborted, running, disposed>>

DisposeLoaded ==
  /\ disposal = "loading"
  /\ \/ pipeline = "failed" /\ disposal' = "done" /\ UNCHANGED awaited
     \/ pipeline = "ready" /\ disposal' = "waiting" /\ awaited' = Pending
  /\ UNCHANGED <<pipeline, loads, call, aborted, running, disposed>>

\* The pipeline's own dispose(), if it has one, is called.
Free ==
  /\ disposal = "waiting" /\ awaited \cap running = {} /\ disposal' \in {"freeing", "done", "failed"}
  /\ UNCHANGED <<pipeline, loads, call, aborted, running, disposed, awaited>>

Freed ==
  /\ disposal = "freeing" /\ disposal' \in {"done", "failed"}
  /\ UNCHANGED <<pipeline, loads, call, aborted, running, disposed, awaited>>

-------------------------------------------------------------------------------

Advance == (\E c \in Calls : Resume(c) \/ Finish(c)) \/ DisposeLoaded \/ Free

Next ==
  \/ Advance \/ LoadSettles \/ Dispose \/ Freed
  \/ \E c \in Calls : Classify(c) \/ InferenceSettles(c) \/ Abort(c)

\* Microtasks run; the pipeline owes nothing.
Spec == Init /\ [][Next]_vars /\ WF_vars(Advance)

-------------------------------------------------------------------------------

\* The pipeline is not freed while it is at an inference, aborted ones included.
FreedWhenIdle ==
  disposal \in {"freeing", "failed"} \/ (disposal = "done" /\ pipeline = "ready") => running = {}

\* After dispose() no inference and no loading begins, of whatever call and
\* however far it had come; so what is freed is not used again.
NothingBeginsAfterwards ==
  [][disposed => running' \subseteq running /\ loads' = loads]_vars

\* The model is loaded once at most, whatever calls come, are aborted and fail.
OneLoad == loads <= 1

\* A call whose signal is aborted while it is under way does not answer with
\* spans, though the pipeline had already answered.
AbortedIsNotAnswered ==
  [][\A c \in Calls : call'[c] = "spans" /\ call[c] # "spans" => c \notin aborted]_vars

\* An aborted call ends, though the pipeline or its factory never answers.
AbortedCallsEnd == \A c \in Calls : (c \in aborted /\ call[c] # "idle") ~> (call[c] \in Outcomes)

\* If what is foreign answers in the end, so does dispose(), after a failed
\* loading too.
DisposalEnds ==
  <>[](pipeline # "loading" /\ running = {} /\ disposal # "freeing")
    => <>[](disposed => disposal \in {"done", "failed"})

\* The pipeline is loaded once and left alone after dispose(), and neither an
\* abort nor dispose() waits for an answer that no longer matters, or gives it.
AbortsAndDisposalEnd ==
  /\ [](TypeOK /\ OneLoad)
  /\ NothingBeginsAfterwards /\ AbortedIsNotAnswered
  /\ AbortedCallsEnd /\ DisposalEnds
===============================================================================
