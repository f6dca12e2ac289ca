----------------------------- MODULE WorkerSession -----------------------------
(***************************************************************************)
(* The host's side of a browser worker (browser/worker-protocol.ts, class  *)
(* DedicatedWorkerRuntimeSession): ready(), invoke() and close() exchange  *)
(* messages with a worker, correlated by request identifiers.  Answers,    *)
(* timeouts, aborts, worker errors and close() may settle an exchange in   *)
(* any order; the code that awaits it runs later, as a microtask, and      *)
(* other code of the page may run in between.                              *)
(*                                                                         *)
(* The worker answers any request it was sent, with any message, at any    *)
(* time and any number of times.  Of an answer all that is kept is whose   *)
(* request it answers and whether its content is what was asked for.       *)
(***************************************************************************)
EXTENDS FiniteSets

CONSTANTS
  Calls,        \* the calls of ready() and invoke()
  ReadyCalls,   \* those of ready()
  Ids,          \* what the source of request identifiers may give
  NoCall, NoId, NoAnswer

Invocations == Calls \ ReadyCalls

ASSUME SessionAssumption ==
  /\ ReadyCalls \subseteq Calls
  /\ NoCall \notin Calls
  /\ NoId \notin Ids
  /\ NoAnswer \notin [of : Calls, good : BOOLEAN]

VARIABLES
  call,         \* where each call stands, and how it ended
  id,           \* the request identifier each call has used
  answer,       \* the answer that settled its exchange
  initializer,  \* the ready() call whose promise is #readyPromise
  ready,        \* #readiness is defined
  disposed,     \* #disposed, and the worker terminated
  posted,       \* history: the calls whose request the worker was sent
  cancelled     \* history: those it was sent an abort message for

vars == <<call, id, answer, initializer, ready, disposed, posted, cancelled>>

\* "sharing": awaits the initialization of another ready() call.  "answered",
\* "failing": the exchange is settled, what awaits it is queued.
States == {"idle", "sharing", "pending", "answered", "failing", "ok", "rejected"}

Answer == [of : Calls, good : BOOLEAN]

TypeOK ==
  /\ call \in [Calls -> States]
  /\ id \in [Calls -> Ids \cup {NoId}]
  /\ answer \in [Calls -> Answer \cup {NoAnswer}]
  /\ initializer \in ReadyCalls \cup {NoCall}
  /\ initializer # NoCall => call[initializer] \notin {"idle", "sharing", "rejected"}
  /\ ready \in BOOLEAN
  /\ disposed \in BOOLEAN
  /\ posted \subseteq Calls
  /\ cancelled \subseteq posted

-------------------------------------------------------------------------------

Init ==
  /\ call = [c \in Calls |-> "idle"]
  /\ id = [c \in Calls |-> NoId]
  /\ answer = [c \in Calls |-> NoAnswer]
  /\ initializer = NoCall
  /\ ready = FALSE
  /\ disposed = FALSE
  /\ posted = {}
  /\ cancelled = {}

Pending == {c \in Calls : call[c] = "pending"}

\* Timers, messages and errors of the worker are events, which come when no
\* microtask is queued.
Quiet == \A c \in Calls : call[c] \notin {"answered", "failing"}

Enter(c, state) ==
  /\ call[c] = "idle"
  /\ call' = [call EXCEPT ![c] = state]

\* Faulty: an identifier may come back.
AnyId == Ids

\* #nextRequestId: one that was never used.
FreshIds == Ids \ {id[c] : c \in Calls}

\* #exchange: the request is posted; or it is not, for its timeout is invalid,
\* its signal is already aborted or postMessage throws.
Exchange(c) ==
  /\ \E i \in FreshIds : id' = [id EXCEPT ![c] = i]
  /\ \/ Enter(c, "pending") /\ posted' = posted \cup {c}
     \/ Enter(c, "failing") /\ UNCHANGED posted
  /\ UNCHANGED <<answer, ready, disposed, cancelled>>

\* The call is over before any exchange.
EndAtOnce(c, outcome) ==
  /\ Enter(c, outcome)
  /\ UNCHANGED <<id, answer, initializer, ready, disposed, posted, cancelled>>

\* ready() with no readiness and no promise of one.
Initialize(c) ==
  /\ c \in ReadyCalls
  /\ ~disposed /\ ~ready /\ initializer = NoCall
  /\ Exchange(c)
  /\ initializer' = c

\* ready() while another one's is under way: its own timeout and signal have
\* no part in it.
ShareReadiness(c) ==
  /\ c \in ReadyCalls
  /\ ~disposed /\ ~ready /\ initializer # NoCall
  /\ EndAtOnce(c, "sharing")

\* ready() once ready.
FindReady(c) ==
  /\ c \in ReadyCalls
  /\ ~disposed /\ ready
  /\ EndAtOnce(c, "ok")

Invoke(c) ==
  /\ c \in Invocations
  /\ ~disposed /\ ready
  /\ Exchange(c)
  /\ UNCHANGED initializer

\* Disposed; not ready; an operation that is no identifier; a source of
\* identifiers that throws or gives a used or unsafe one.
Refuse(c) ==
  /\ ~disposed /\ c \in ReadyCalls => ~ready /\ initializer = NoCall
  /\ EndAtOnce(c, "rejected")

-------------------------------------------------------------------------------
(* How an exchange is settled.                                               *)

\* #onMessage, of a message about the request of d, which settles whatever
\* exchange is pending under its identifier.  It is an answer, or an error,
\* of another kind or about something else.  A good answer is one with
\* the runtime, driver and capabilities, or with an output.
Message(d, good) ==
  /\ Quiet /\ ~disposed
  /\ d \in posted
  /\ \E c \in Pending :
       /\ id[c] = id[d]
       /\ \/ /\ call' = [call EXCEPT ![c] = "answered"]
             /\ answer' = [answer EXCEPT ![c] = [of |-> d, good |-> good]]
          \/ call' = [call EXCEPT ![c] = "failing"] /\ UNCHANGED answer
  /\ UNCHANGED <<id, initializer, ready, disposed, posted, cancelled>>

\* The call's signal is aborted: the worker is told, and lives on.
Abort(c) ==
  /\ call[c] = "pending"
  /\ call' = [call EXCEPT ![c] = "failing"]
  /\ cancelled' = cancelled \cup {c}
  /\ UNCHANGED <<id, answer, initializer, ready, disposed, posted>>

\* Faulty: the worker is terminated and its exchanges left pending.
DisposeWorkerOnly ==
  /\ ~disposed
  /\ disposed' = TRUE
  /\ UNCHANGED <<call, id, answer, initializer, ready, posted>>

\* close() and #terminateFailedWorker: every exchange is rejected, the
\* listeners are removed and the worker is terminated.
Dispose ==
  /\ ~disposed
  /\ disposed' = TRUE
  /\ call' = [c \in Calls |-> IF call[c] = "pending" THEN "failing" ELSE call[c]]
  /\ UNCHANGED <<id, answer, initializer, ready, posted>>

\* A timeout: the worker is told to abort, the exchange is rejected, and the
\* worker is terminated with all other exchanges.
Timeout(c) ==
  /\ Quiet
  /\ call[c] = "pending"
  /\ cancelled' = cancelled \cup {c}
  /\ Dispose

\* The page closes the session, at any time.
Close == Dispose /\ UNCHANGED cancelled

\* An error or messageerror event of the worker.
WorkerError == Quiet /\ Dispose /\ UNCHANGED cancelled

-------------------------------------------------------------------------------
(* What awaited it.                                                          *)

\* The rest of invoke().
EndInvocation(c) ==
  /\ c \in Invocations
  /\ call[c] \in {"answered", "failing"}
  /\ call' = [call EXCEPT ![c] =
                IF @ = "answered" /\ answer[c].good THEN "ok" ELSE "rejected"]
  /\ UNCHANGED <<id, answer, initializer, ready, disposed, posted, cancelled>>

Waiting(c) == {c} \cup {d \in ReadyCalls : call[d] = "sharing"}

\* The validated answer becomes the readiness, for all ready() calls that wait.
BecomeReady(c) ==
  /\ c = initializer
  /\ call[c] = "answered" /\ answer[c].good
  /\ ready' = TRUE
  /\ call' = [d \in Calls |-> IF d \in Waiting(c) THEN "ok" ELSE call[d]]
  /\ UNCHANGED <<id, answer, initializer, disposed, posted, cancelled>>

\* All ready() calls that wait are rejected, and the next may try again.
FailToBecomeReady(c) ==
  /\ c = initializer
  /\ \/ call[c] = "failing"
     \/ call[c] = "answered" /\ ~answer[c].good
  /\ initializer' = NoCall
  /\ call' = [d \in Calls |-> IF d \in Waiting(c) THEN "rejected" ELSE call[d]]
  /\ UNCHANGED <<id, answer, ready, disposed, posted, cancelled>>

Continue(c) == EndInvocation(c) \/ BecomeReady(c) \/ FailToBecomeReady(c)

Begin(c) ==
  Initialize(c) \/ ShareReadiness(c) \/ FindReady(c) \/ Invoke(c) \/ Refuse(c)

Next ==
  \/ \E c \in Calls : Begin(c) \/ Continue(c) \/ Abort(c) \/ Timeout(c)
  \/ \E d \in Calls, good \in BOOLEAN : Message(d, good)
  \/ Close
  \/ WorkerError

Spec == Init /\ [][Next]_vars

\* Microtasks run, and timers that are not cleared fire; the worker need never
\* answer.
FairSpec ==
  Spec /\ \A c \in Calls : WF_vars(Continue(c)) /\ WF_vars(Timeout(c))

-------------------------------------------------------------------------------

\* A call is never given the answer to another call's request, however late
\* that comes: an aborted exchange leaves its answer under way
\* (#usedRequestIds).
AnswersAreOwn ==
  \A c \in Calls : answer[c] # NoAnswer => answer[c].of = c

\* One initialization at a time, and none once one has succeeded, whatever
\* ready() calls race, fail and are repeated (#readyPromise).
OneInitialization ==
  /\ \A c, d \in ReadyCalls :
       {call[c], call[d]} \subseteq {"pending", "answered", "failing"} => c = d
  /\ ready => ReadyCalls \cap Pending = {}

\* The worker is given work only after it has named the runtime, the driver and
\* the capabilities it was bound to, in answer to an initialization.
InvokedBehindReadiness ==
  (posted \cap Invocations # {}) =>
    \E c \in ReadyCalls : answer[c] # NoAnswer /\ answer[c].good

\* Once disposed of, a worker is sent nothing, not even an abort, and no answer
\* of its is taken.
NothingAfterDisposal == [][disposed => UNCHANGED <<posted, cancelled, answer>>]_vars

\* Every call ends, though the worker never answers and the session is closed
\* or fails under it.
EveryCallEnds ==
  \A c \in Calls :
    call[c] # "idle" ~> call[c] \in {"ok", "rejected"}

\* A session's life, for all the calls that race in it: one initialization,
\* work only behind it, nothing after the disposal, and an end to every call.
CallsEndInOrder ==
  /\ [](TypeOK /\ OneInitialization /\ InvokedBehindReadiness)
  /\ NothingAfterDisposal
  /\ EveryCallEnds
================================================================================
