------------------------- MODULE PageIndexRetrieval -------------------------
(***************************************************************************)
(* One context.retrieve of the PageIndex adapter (adapters/pageindex-      *)
(* context-stage-adapter.ts). For each source of the request, in turn: its *)
(* document, its structure part by part, the pages a selector picks, and   *)
(* their content. One work budget - a deadline, calls, bytes, pages - is   *)
(* spent by all of them.                                                   *)
(*                                                                         *)
(* The clock is finer than the timers, which count whole multiples of      *)
(* Grain, and a timer may be served up to Lag late.                        *)
(***************************************************************************)
EXTENDS Naturals, Sequences, FiniteSets, SequencesExt, FiniteSetsExt

CONSTANTS
  SourceLists,        \* the requests' sources: [bound, fresh] in sequence
  CallTimeout, TotalTimeout, Grain, Lag, Horizon,
  MaxCalls, MaxResponse, MaxParts, MaxStructure, MaxPagesPerSource, MaxPages,
  MaxText, MaxEgress, MaxEvidence, RequestBytes,
  Sizes, PageCounts,
  Selections          \* what a selector may answer: sequences of numbers

BudgetAssumption ==
  /\ {CallTimeout, TotalTimeout, Grain} \subseteq Nat \ {0} /\ {Lag, Horizon} \subseteq Nat
  /\ {MaxCalls, MaxParts, MaxPagesPerSource, MaxPages, MaxResponse, MaxStructure, MaxText} \subseteq Nat \ {0}
  /\ Sizes \subseteq Nat /\ PageCounts \subseteq Nat \ {0} /\ {RequestBytes, MaxEgress} \subseteq Nat
  /\ SourceLists \subseteq Seq([bound : BOOLEAN, fresh : BOOLEAN]) /\ Selections \subseteq Seq(Nat)

VARIABLES
  sources,     \* the request's sources, each bound to the operator's and fresh at the start, or not
  at,          \* the call that is awaited, or "idle", "returned", "failed"
  now, timer,  \* monotonicNow(), and when the call's timer is due
  turn,        \* the source at work
  part, parts, \* the structure's part at work, of how many
  pageCount,   \* what the document said
  chosen,      \* the pages selected of it, sorted
  work,        \* the budget spent
  evidence,    \* what was accepted so far: source, page and bytes
  code,        \* the failure's code
  spent        \* for the properties: what all calls really cost, and the pages selected

vars == <<sources, at, now, timer, turn, part, parts, pageCount, chosen, work, evidence, code, spent>>

Calls == {"document", "structure", "select", "content"}
Ended == at \in {"returned", "failed"}
Deadline == TotalTimeout   \* started at 0

StageCodes == {"upstream_rejected", "upstream_unavailable", "timeout", "partial_output", "adapter_failure"}

TypeOK ==
  /\ sources \in SourceLists /\ at \in Calls \cup {"idle", "returned", "failed"}
  /\ turn \in 0..Len(sources) /\ part \in 0..MaxParts
  /\ at \in Calls => turn \in DOMAIN sources /\ timer <= now + CallTimeout /\ now <= timer + Lag
  /\ work.calls = spent.calls \/ (work.calls = spent.calls + 1 /\ at = "failed")
  /\ (code # "none") <=> (at = "failed")
  /\ \A i \in DOMAIN evidence : evidence[i].source <= turn

-------------------------------------------------------------------------------

Init ==
  /\ sources \in SourceLists
  /\ at = "idle" /\ now = 0 /\ timer = 0 /\ turn = 0 /\ part = 0 /\ parts = 0 /\ pageCount = 1
  /\ chosen = <<>> /\ evidence = <<>> /\ code = "none"
  /\ work = [calls |-> 0, response |-> 0, structure |-> 0, text |-> 0, pages |-> 0]
  /\ spent = [calls |-> 0, response |-> 0, structure |-> 0, pages |-> <<>>]

Fail(w, c) == at' = "failed" /\ code' = c /\ work' = w /\ UNCHANGED timer

TimeFor(remaining) == Min({CallTimeout, Grain * ((remaining + Grain - 1) \div Grain)})

\* The next call, if there is time and a call left for it.
Begin(call, w, cost) ==
  LET w1 == [w EXCEPT !.calls = @ + 1] IN
  \/ /\ (now >= Deadline \/ w1.calls > MaxCalls)
     /\ Fail(w1, "adapter_failure") /\ spent' = cost
  \/ /\ now < Deadline /\ w1.calls <= MaxCalls
     /\ at' = call /\ timer' = now + TimeFor(Deadline - now)
     /\ work' = w1 /\ spent' = [cost EXCEPT !.calls = @ + 1]
     /\ UNCHANGED code

\* Faulty: every source begins a budget of its own.
TakeSourceAfresh(i, w, cost, found) ==
  LET w1 == [w EXCEPT !.response = 0, !.structure = 0, !.text = 0, !.pages = 0] IN
  \/ /\ i <= Len(sources) /\ sources[i].bound /\ sources[i].fresh
     /\ turn' = i /\ Begin("document", w1, cost)
  \/ /\ i <= Len(sources) /\ ~(sources[i].bound /\ sources[i].fresh)
     /\ Fail(w1, "adapter_failure") /\ turn' = i /\ spent' = cost
  \/ /\ i > Len(sources) /\ Len(found) <= MaxEvidence
     /\ at' = "returned" /\ work' = w1 /\ spent' = cost /\ UNCHANGED <<turn, timer, code>>
  \/ /\ i > Len(sources) /\ Len(found) > MaxEvidence
     /\ Fail(w1, "adapter_failure") /\ spent' = cost /\ UNCHANGED turn

\* The next source, which must be the operator's and was fresh when execute()
\* began; after the last one the result, of a bounded number of pieces.
TakeSource(i, w, cost, found) ==
  \/ /\ i <= Len(sources) /\ sources[i].bound /\ sources[i].fresh
     /\ turn' = i /\ Begin("document", w, cost)
  \/ /\ i <= Len(sources) /\ ~(sources[i].bound /\ sources[i].fresh)
     /\ Fail(w, "adapter_failure") /\ turn' = i /\ spent' = cost
  \/ /\ i > Len(sources) /\ Len(found) <= MaxEvidence
     /\ at' = "returned" /\ work' = w /\ spent' = cost /\ UNCHANGED <<turn, timer, code>>
  \/ /\ i > Len(sources) /\ Len(found) > MaxEvidence
     /\ Fail(w, "adapter_failure") /\ spent' = cost /\ UNCHANGED turn

\* execute() of a request that is in order; the clock and the sources are
\* looked at from here on.
Execute ==
  /\ at = "idle" /\ RequestBytes <= MaxEgress
  /\ TakeSource(1, work, spent, evidence)
  /\ UNCHANGED <<sources, now, part, parts, pageCount, chosen, evidence>>

\* Another operation, a tampered request, another adapter's, or one too long.
Refuse ==
  /\ at = "idle"
  /\ Fail(work, "adapter_failure")
  /\ UNCHANGED <<sources, now, turn, part, parts, pageCount, chosen, evidence, spent>>

InTime == now <= Deadline

\* A response is back in time and counted, and is what was asked for, or not.
Unusable(w, cost) == Fail(w, "adapter_failure") /\ spent' = cost
Counted(size) == [work EXCEPT !.response = @ + size]
Charged(size) == [spent EXCEPT !.response = @ + size]
Acceptable(w) == InTime /\ w.response <= MaxResponse

Document ==
  /\ at = "document"
  /\ \E size \in Sizes, fits \in BOOLEAN, pages \in PageCounts :
       LET w == Counted(size) IN
       /\ pageCount' = pages /\ part' = 1
       /\ \/ Acceptable(w) /\ fits /\ Begin("structure", w, Charged(size))
          \/ ~(Acceptable(w) /\ fits) /\ Unusable(w, Charged(size))
  /\ UNCHANGED <<sources, now, turn, parts, chosen, evidence>>

\* The first part says how many there are; the others must say the same.
Structure ==
  /\ at = "structure"
  /\ \E size \in Sizes, fits \in BOOLEAN, total \in 1..(MaxParts + 1) :
     \E bytes \in {b \in Sizes : b <= size} :
       LET w == [Counted(size) EXCEPT !.structure = @ + bytes]
           cost == [Charged(size) EXCEPT !.structure = @ + bytes]
           good == /\ Acceptable(w) /\ fits /\ w.structure <= MaxStructure
                   /\ IF part = 1 THEN total <= MaxParts ELSE total = parts
       IN
       /\ parts' = total
       /\ \/ good /\ part < total /\ part' = part + 1 /\ Begin("structure", w, cost)
          \/ good /\ part = total /\ UNCHANGED part /\ Begin("select", w, cost)
          \/ ~good /\ Unusable(w, cost) /\ UNCHANGED part
  /\ UNCHANGED <<sources, now, turn, pageCount, chosen, evidence>>

\* The pages of an answer, sorted.
Ascending(pages) ==
  {s \in [DOMAIN pages -> Range(pages)] :
     Range(s) = Range(pages) /\ \A i, j \in DOMAIN pages : i < j => s[i] < s[j]}

Picked(pages) == [spent EXCEPT !.pages = @ \o [i \in DOMAIN pages |-> <<turn, pages[i]>>]]

\* The selector's answer is bounded, but its size is not counted.
Select ==
  /\ at = "select"
  /\ \E pages \in Selections :
       LET w == [work EXCEPT !.pages = @ + Len(pages)]
           good == /\ InTime
                   /\ Len(pages) \in 1..MaxPagesPerSource /\ IsInjective(pages)
                   /\ Range(pages) \subseteq 1..pageCount
       IN
       \/ good /\ w.pages <= MaxPages /\ chosen' \in Ascending(pages) /\ Begin("content", w, Picked(chosen'))
       \/ good /\ w.pages > MaxPages /\ Unusable(w, Picked(pages)) /\ UNCHANGED chosen
       \/ ~good /\ Unusable(work, spent) /\ UNCHANGED chosen
  /\ UNCHANGED <<sources, now, turn, part, parts, pageCount, evidence>>

AskedFor(returned) == returned = chosen

\* The pages' content, each piece under the evidence and egress limits.
Content ==
  /\ at = "content"
  /\ \E returned \in Selections, size \in Sizes, bytes \in Sizes, fits \in BOOLEAN :
       LET w == [Counted(size) EXCEPT !.text = @ + bytes * Len(returned)]
           pieces == [i \in DOMAIN returned |-> [source |-> turn, page |-> returned[i], bytes |-> bytes]]
       IN
       \/ /\ Acceptable(w) /\ fits /\ AskedFor(returned)
          /\ w.text <= MaxText /\ RequestBytes + w.text <= MaxEgress
          /\ evidence' = evidence \o pieces
          /\ TakeSource(turn + 1, w, Charged(size), evidence')
       \/ /\ ~(Acceptable(w) /\ fits /\ AskedFor(returned) /\ w.text <= MaxText /\ RequestBytes + w.text <= MaxEgress)
          /\ Unusable(Counted(size), Charged(size)) /\ UNCHANGED <<turn, evidence>>
  /\ UNCHANGED <<sources, now, part, parts, pageCount, chosen>>

\* The client or the selector rejects: with a stage error of its own, or not.
Reject ==
  /\ at \in Calls
  /\ \E c \in StageCodes : Fail(work, c)
  /\ UNCHANGED <<sources, now, turn, part, parts, pageCount, chosen, evidence, spent>>

\* Faulty: the selector is trusted to answer.
TimerOfClient ==
  /\ at \in Calls \ {"select"} /\ now >= timer
  /\ Fail(work, "timeout")
  /\ UNCHANGED <<sources, now, turn, part, parts, pageCount, chosen, evidence, spent>>

Timer ==
  /\ at \in Calls /\ now >= timer
  /\ Fail(work, "timeout")
  /\ UNCHANGED <<sources, now, turn, part, parts, pageCount, chosen, evidence, spent>>

\* Time goes on; a timer that is due waits no longer than Lag.
Tick ==
  /\ at \in Calls /\ now < timer + Lag /\ now < Horizon
  /\ now' = now + 1
  /\ UNCHANGED <<sources, at, timer, turn, part, parts, pageCount, chosen, work, evidence, code, spent>>

Next ==
  \/ Execute \/ Refuse \/ Document \/ Structure \/ Select \/ Content
  \/ Reject \/ Timer \/ Tick

Spec == Init /\ [][Next]_vars /\ WF_vars(Execute) /\ WF_vars(Tick) /\ WF_vars(Timer)

-------------------------------------------------------------------------------

\* What all calls of one execute() really cost stays within the operator's
\* limits, over all sources together: a result is made of no more, and the
\* client is never called more often.
WorkIsGlobal ==
  /\ spent.calls <= MaxCalls
  /\ at # "failed" => /\ spent.response <= MaxResponse /\ spent.structure <= MaxStructure
                      /\ Len(spent.pages) <= MaxPages

\* The bytes of the pieces, counted.
Weight(pieces) == Cardinality(UNION {{i} \X (1..pieces[i].bytes) : i \in DOMAIN pieces})

\* A result holds, source by source in the request's order, exactly the pages
\* selected of each, sorted, and no source is missing; and what it reports as
\* egress is what its pieces weigh, within the limits.
EvidenceIsWhole ==
  at = "returned" =>
    /\ [i \in DOMAIN evidence |-> <<evidence[i].source, evidence[i].page>>] = spent.pages
    /\ {evidence[i].source : i \in DOMAIN evidence} = DOMAIN sources
    /\ Len(evidence) <= MaxEvidence
    /\ work.text = Weight(evidence) /\ work.text <= MaxText /\ RequestBytes + work.text <= MaxEgress
    /\ \A i \in DOMAIN sources : sources[i].bound /\ sources[i].fresh

\* execute() is over when the deadline, rounded up to the timers' grain and
\* served late, is; what it returns is complete by the deadline itself.
OverInTime == at \in Calls => now <= Deadline + (Grain - 1) + Lag
CompleteInTime == [][at' = "returned" => now <= Deadline]_vars

\* execute() ends, whether or not the client ever answers.
RetrievalEnds == at = "idle" ~> Ended
=============================================================================
