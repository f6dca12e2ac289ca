----------------------------- MODULE BoundedFetch -----------------------------
(***************************************************************************)
(* One call of a bounded fetch (adapters/bounded-fetch.ts): a request to a *)
(* configured destination, whose response is read up to a limit, while a   *)
(* timer and the caller's signal race with it.                             *)
(*                                                                         *)
(* fetch, the response's stream and its cancellation are the network's:    *)
(* they settle in any way, late or never, and fetch may ignore the signal  *)
(* it is given.  A path is a sequence of segments.                         *)
(***************************************************************************)
EXTENDS Integers, Sequences, SequencesExt

CONSTANTS
  Configurations,   \* baseUrl and allowedPathnames
  Requests,
  Responses,
  MaxResponseBytes,
  Chunks            \* sizes of what a stream yields at a time

\* "plain": no credentials, query, fragment, dot segment or encoded separator;
\* "secure": https, or http on a loopback address.
Url(u) == u.plain \in BOOLEAN /\ u.secure \in BOOLEAN

FetchAssumption ==
  /\ \A c \in Configurations : Url(c.base)
  /\ \A r \in Requests : /\ Url(r.url) /\ Url(r.shown)
                         /\ r.kind \in {"string", "URL", "Request", "other"}
  /\ \A r \in Responses : /\ r.redirect \in BOOLEAN /\ r.body \in BOOLEAN
                          /\ r.length \in {"none", "malformed", "excessive", "fitting"}
  /\ MaxResponseBytes \in Nat \ {0} /\ Chunks \subseteq Nat \ {0}

VARIABLES
  configuration, request,
  outcome,      \* how the call ended
  dispatched,   \* the URL fetch was called with
  work,         \* where performFetch is, abandoned by the call or not
  result,       \* what performFetch settles with, or will when a body is cancelled
  raced,        \* what Promise.race settled with
  timedOut, callerAborted,
  total,        \* bytes read
  whole,        \* history: the stream said that it has no more
  first         \* history: whose abort came first, if before the race was decided

vars == <<configuration, request, outcome, dispatched, work, result, raced,
          timedOut, callerAborted, total, whole, first>>

None == "none"
NoUrl == [origin |-> None]

Failures == {"request_rejected", "request_aborted", "request_timeout", "upstream_redirect",
             "upstream_response_invalid", "upstream_response_too_large", "network_failure"}
Outcomes == Failures \cup {None, "response", "invalid_configuration"}

TypeOK ==
  /\ configuration \in Configurations /\ request \in Requests
  /\ {outcome, raced, result} \subseteq Outcomes
  /\ dispatched \in {NoUrl} \cup {r.url : r \in Requests}
  /\ work \in {"uncalled", "fetch", "cancel", "read", "chunk", "overflow", "ended"}
  /\ {timedOut, callerAborted, whole} \subseteq BOOLEAN
  /\ total \in 0..MaxResponseBytes \/ (work # "read" /\ total \in Nat)
  /\ first \in {None, "timer", "caller"}

-------------------------------------------------------------------------------

\* parseBaseUrl and parseAllowedPathnames.
Configured(c) ==
  /\ c.base.secure /\ c.base.plain
  /\ c.allowed # {}
  /\ \A path \in c.allowed : IsPrefix(c.base.path, path)

Init ==
  /\ configuration \in Configurations
  /\ request \in Requests
  /\ outcome = IF Configured(configuration) THEN None ELSE "invalid_configuration"
  /\ dispatched = NoUrl
  /\ work = "uncalled"
  /\ result = None /\ raced = None
  /\ timedOut = FALSE /\ callerAborted = FALSE
  /\ total = 0 /\ whole = FALSE /\ first = None

\* The destination policy.
Reachable(url) ==
  /\ url.plain
  /\ url.origin = configuration.base.origin
  /\ url.path \in configuration.allowed

\* snapshotRequest: what is checked is forwarded as a string or a Request of
\* its own, whatever the caller's object says when it is read again ("shown").
Forwarded(r) == r.url

Refuse(failure) ==
  /\ outcome' = failure
  /\ UNCHANGED <<dispatched, work>>

Call ==
  /\ outcome = None /\ work = "uncalled"
  /\ \/ /\ request.kind = "other" \/ ~Reachable(request.url)
        /\ Refuse("request_rejected")
     \/ /\ request.kind # "other" /\ Reachable(request.url) /\ callerAborted
        /\ Refuse("request_aborted")
     \/ /\ request.kind # "other" /\ Reachable(request.url) /\ ~callerAborted
        /\ dispatched' = Forwarded(request)
        /\ work' = "fetch"
        /\ UNCHANGED outcome
  /\ UNCHANGED <<configuration, request, result, raced, timedOut, callerAborted, total, whole, first>>

Aborted == timedOut \/ callerAborted

\* performFetch settles: the race is decided, if it was not.
End(settlement) ==
  /\ work' = "ended"
  /\ result' = settlement
  /\ raced' = IF raced = None THEN settlement ELSE raced

FetchFails ==
  /\ work = "fetch"
  /\ End("network_failure")
  /\ UNCHANGED <<configuration, request, outcome, dispatched, timedOut, callerAborted, total, whole, first>>

\* A redirect and what assertedContentLength refuses.
Refusal(r) ==
  CASE r.redirect -> "upstream_redirect"
    [] ~r.redirect /\ r.length = "malformed" -> "upstream_response_invalid"
    [] ~r.redirect /\ r.length = "excessive" -> "upstream_response_too_large"
    [] OTHER -> None

\* Faulty: reading begins without a look at the signal.
RespondUnaware(r) ==
  /\ work = "fetch" /\ Refusal(r) = None /\ r.body
  /\ work' = "read"
  /\ UNCHANGED <<configuration, request, outcome, dispatched, result, raced, timedOut,
                 callerAborted, total, whole, first>>

\* The response is refused and its body cancelled, or it has none, or its
\* reading begins, unless the signal is aborted already.
Respond(r) ==
  /\ work = "fetch"
  /\ \/ /\ Refusal(r) # None
        /\ work' = "cancel" /\ result' = Refusal(r)
        /\ UNCHANGED <<raced, whole>>
     \/ /\ Refusal(r) = None /\ ~r.body
        /\ End("response") /\ whole' = TRUE
     \/ /\ Refusal(r) = None /\ r.body /\ Aborted
        /\ End("network_failure") /\ UNCHANGED whole
     \/ /\ Refusal(r) = None /\ r.body /\ ~Aborted
        /\ work' = "read"
        /\ UNCHANGED <<result, raced, whole>>
  /\ UNCHANGED <<configuration, request, outcome, dispatched, timedOut, callerAborted, total, first>>

\* cancelBody settles, in one way or the other.
BodyCancelled ==
  /\ work = "cancel"
  /\ End(result)
  /\ UNCHANGED <<configuration, request, outcome, dispatched, timedOut, callerAborted, total, whole, first>>

Chunk(n) ==
  /\ work = "read"
  /\ total' = total + n
  /\ work' = "chunk"
  /\ UNCHANGED <<configuration, request, outcome, dispatched, result, raced, timedOut,
                 callerAborted, whole, first>>

\* The microtask after a chunk: the caller may have aborted in between.
ReadOn ==
  /\ work = "chunk"
  /\ \/ /\ total > MaxResponseBytes
        /\ work' = "overflow" /\ UNCHANGED <<result, raced>>
     \/ /\ total <= MaxResponseBytes /\ Aborted
        /\ End("network_failure")
     \/ /\ total <= MaxResponseBytes /\ ~Aborted
        /\ work' = "read" /\ UNCHANGED <<result, raced>>
  /\ UNCHANGED <<configuration, request, outcome, dispatched, timedOut, callerAborted, total, whole, first>>

\* The reader of a body too large is cancelled; if that fails, the failure is
\* the network's.
OverflowCancelled(cancelled) ==
  /\ work = "overflow"
  /\ End(IF cancelled THEN "upstream_response_too_large" ELSE "network_failure")
  /\ UNCHANGED <<configuration, request, outcome, dispatched, timedOut, callerAborted, total, whole, first>>

StreamEnds ==
  /\ work = "read"
  /\ End("response")
  /\ whole' = TRUE
  /\ UNCHANGED <<configuration, request, outcome, dispatched, timedOut, callerAborted, total, first>>

StreamFails ==
  /\ work = "read"
  /\ End("network_failure")
  /\ UNCHANGED <<configuration, request, outcome, dispatched, timedOut, callerAborted, total, whole, first>>

Running == work # "uncalled" /\ outcome = None

\* The signal aborts: abortFailure decides the race if it is open, and a read
\* under way is rejected and its reader cancelled.
Interrupt(who, failure) ==
  /\ first' = IF raced = None THEN who ELSE first
  /\ raced' = IF raced = None THEN failure ELSE raced
  /\ work' = IF work = "read" THEN "ended" ELSE work
  /\ result' = IF work = "read" THEN "network_failure" ELSE result

\* The timer: a macrotask, so every microtask has run.
Timer ==
  /\ Running /\ raced = None /\ work # "chunk" /\ ~timedOut
  /\ timedOut' = TRUE
  /\ Interrupt("timer", "request_timeout")
  /\ UNCHANGED <<configuration, request, outcome, dispatched, callerAborted, total, whole>>

\* The caller aborts, before the call or at any microtask of it.
CallerAborts ==
  /\ outcome = None /\ ~callerAborted
  /\ callerAborted' = TRUE
  /\ IF Running /\ ~timedOut THEN Interrupt("caller", "request_aborted")
     ELSE UNCHANGED <<first, raced, work, result>>
  /\ UNCHANGED <<configuration, request, outcome, dispatched, timedOut, total, whole>>

\* Faulty: the flags name every error.
SettleByFlags ==
  /\ Running /\ raced # None
  /\ outcome' = CASE raced = "response" -> raced
                  [] timedOut -> "request_timeout"
                  [] callerAborted -> "request_aborted"
                  [] OTHER -> raced
  /\ UNCHANGED <<configuration, request, dispatched, work, result, raced, timedOut,
                 callerAborted, total, whole, first>>

\* The microtask after the race: a failure of the network is named for the
\* abort that may have caused it.  The timer is cleared.
Settle ==
  /\ Running /\ raced # None
  /\ outcome' = CASE raced # "network_failure" -> raced
                  [] raced = "network_failure" /\ timedOut -> "request_timeout"
                  [] raced = "network_failure" /\ ~timedOut /\ callerAborted -> "request_aborted"
                  [] OTHER -> raced
  /\ UNCHANGED <<configuration, request, dispatched, work, result, raced, timedOut,
                 callerAborted, total, whole, first>>

Network ==
  \/ FetchFails \/ BodyCancelled \/ StreamEnds \/ StreamFails
  \/ \E r \in Responses : Respond(r)
  \/ \E n \in Chunks : Chunk(n)
  \/ \E cancelled \in BOOLEAN : OverflowCancelled(cancelled)

Next == Call \/ Network \/ ReadOn \/ Timer \/ CallerAborts \/ Settle

Spec == Init /\ [][Next]_vars

\* Microtasks run and the timer fires; nothing is expected of the network.
FairSpec == Spec /\ WF_vars(Settle) /\ WF_vars(ReadOn) /\ WF_vars(Timer)

-------------------------------------------------------------------------------

\* What is fetched was checked: it is beneath the configured base on the same
\* origin, though the caller's object may answer otherwise when read again.
OnlyWhatWasChecked ==
  dispatched # NoUrl =>
    /\ Configured(configuration)
    /\ dispatched.plain /\ configuration.base.secure
    /\ dispatched.origin = configuration.base.origin
    /\ IsPrefix(configuration.base.path, dispatched.path)

\* A response is only given with its whole body, within the limit, and if
\* neither timer nor caller was earlier.
ResponsesAreWhole ==
  outcome = "response" => whole /\ total <= MaxResponseBytes /\ first = None

\* A call is named for what ended it: for the first abort if that was first,
\* else for the upstream's fault, whoever aborts between the answer and the end.
NamedForItsCause ==
  outcome \in Outcomes \ {None, "invalid_configuration", "request_rejected"} =>
    /\ outcome = "request_timeout" <=> first = "timer"
    /\ first = "caller" => outcome = "request_aborted"
    /\ first = None /\ dispatched # NoUrl =>
         \/ outcome = result
         \/ result = "network_failure" /\ callerAborted /\ outcome = "request_aborted"

\* When a call has ended nothing more is read, though the network goes on.
NothingReadAfterwards == [][outcome # None => total' = total]_vars

\* Every call ends, though fetch, the stream and its cancellation hang.
CallEnds == Running ~> outcome # None
================================================================================
