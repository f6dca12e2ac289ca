---------------------------- MODULE RedactionCascade ----------------------------
(***************************************************************************)
(* Redaction in the browser (browser/redaction.ts): rules and classifiers  *)
(* propose spans of a text, the ones that win are replaced, the output is  *)
(* scanned again, and a receipt is issued for a result and its own rescan  *)
(* (browser/privacy-receipt.ts).                                           *)
(*                                                                         *)
(* A text is a sequence of code units, a rule's pattern a sequence it      *)
(* looks for, and identifiers are numbers in the order of their strings.   *)
(* Classifiers answer anything, in any order.  The owner of the policy     *)
(* changes the object whenever somebody awaits.                            *)
(***************************************************************************)
EXTENDS Integers, Sequences, FiniteSets, Functions

CONSTANTS
  Calls,            \* each one cascade and one rescan
  Texts, Policies,
  Categories,
  Answers           \* sets of spans classifiers may answer, sound or not

High == "high"      \* the two halves of a surrogate pair
Low == "low"

Candidate == [start : Nat, end : Nat, priority : Nat, source : Nat, category : Categories]

ASSUME CascadeAssumption ==
  /\ Texts \subseteq Seq(STRING) /\ Categories \subseteq Nat
  /\ \A spans \in Answers : IsFiniteSet(spans)
  /\ \A s \in UNION Answers : s.start \in Int /\ s.end \in Int /\ s.category \in Categories
  /\ \A p \in Policies :
       /\ IsFiniteSet(p.rules) /\ IsFiniteSet(p.classifiers)
       /\ \A r \in p.rules :
            /\ r.priority \in Nat /\ r.id \in Nat /\ r.category \in Categories
            /\ r.pattern \in Seq(STRING) /\ Len(r.pattern) > 0
            /\ r.replacement \in Seq(STRING)
       /\ \A k \in p.classifiers : k.priority \in Nat /\ k.id \in Nat
       /\ p.classifierReplacements \in [Categories -> Seq(STRING)]
       /\ p.maxCandidateSpans \in Nat /\ p.maxInputCodeUnits \in Nat

VARIABLES
  shared,     \* the policy object, as its owner has it now
  scan,       \* each call's cascade ("redact") and rescan ("verify")
  aborted,    \* each call's signal
  output,     \* what a cascade returned
  receipts    \* receipts issued: of which result, by which rescan, for which policy

vars == <<shared, scan, aborted, output, receipts>>

Jobs == Calls \X {"redact", "verify"}
Errors == {"aborted", "candidate_limit_exceeded", "classifier_failed", "input_limit_exceeded",
           "invalid_classifier_span", "invalid_policy", "invalid_redaction_result"}

Idle == [phase |-> "idle"]
ScanOK(s) ==
  /\ s.phase \in {"idle", "classifying", "digesting", "done"} \cup Errors
  /\ s.phase \in {"classifying", "digesting", "done"} =>
       /\ s.policy \in Policies
       /\ DOMAIN s.answers \subseteq {k.id : k \in s.policy.classifiers}
       /\ \A k \in DOMAIN s.answers : s.answers[k] \in Answers
       /\ \A c \in s.accepted : c \in Candidate /\ c.start < c.end /\ c.end <= Len(s.text)

TypeOK ==
  /\ shared \in Policies
  /\ DOMAIN scan = Jobs /\ \A j \in Jobs : ScanOK(scan[j])
  /\ aborted \in [Calls -> BOOLEAN]
  /\ \A c \in Calls : scan[<<c, "verify">>].phase \in {"classifying", "digesting", "done"}
                        => scan[<<c, "verify">>].text = output[c]

-------------------------------------------------------------------------------

\* validatePolicy: no two sources have one identifier.
Valid(p) ==
  /\ Cardinality({r.id : r \in p.rules} \cup {k.id : k \in p.classifiers})
       = Cardinality(p.rules) + Cardinality(p.classifiers)
  /\ p.maxCandidateSpans > 0 /\ p.maxInputCodeUnits > 0

MatchesAt(text, pattern, i) ==
  i + Len(pattern) <= Len(text) /\ SubSeq(text, i + 1, i + Len(pattern)) = pattern

\* What is kept of S when each of its members is tried in turn, and is kept
\* unless one that was kept blocks it.
Greedy(S, Blocks) ==
  CHOOSE kept \in SUBSET S : \A c \in S : c \in kept <=> \A d \in kept : <<d, c>> \notin Blocks

\* matchAll: from the left, each match beginning where the last one ended at
\* the earliest.
Matches(text, pattern) ==
  LET starts == {i \in 0..Len(text) : MatchesAt(text, pattern, i)}
  IN  Greedy(starts, {q \in starts \X starts : q[1] < q[2] /\ q[2] < q[1] + Len(pattern)})

RuleCandidates(text, p) ==
  UNION {{[start |-> i, end |-> i + Len(r.pattern), priority |-> r.priority,
           source |-> r.id, category |-> r.category] : i \in Matches(text, r.pattern)} : r \in p.rules}

\* isCodePointBoundary.
IsBoundary(text, i) ==
  i <= 0 \/ i >= Len(text) \/ ~(text[i] = High /\ text[i + 1] = Low)

SpanIsValid(text, s) ==
  /\ 0 <= s.start /\ s.start < s.end /\ s.end <= Len(text)
  /\ IsBoundary(text, s.start) /\ IsBoundary(text, s.end)

ClassifierCandidates(answers, p) ==
  UNION {{[start |-> s.start, end |-> s.end, priority |-> k.priority,
           source |-> k.id, category |-> s.category] : s \in answers[k.id]} : k \in p.classifiers}

Overlaps(c, d) == c.start < d.end /\ d.start < c.end

\* The order candidates are tried in: by priority, length, place and source.
Key(c) == <<-c.priority, c.start - c.end, c.start, c.source, c.category>>
Before(c, d) ==
  \E i \in DOMAIN Key(c) : /\ Key(c)[i] < Key(d)[i]
                           /\ \A k \in 1..(i - 1) : Key(c)[k] = Key(d)[k]

\* resolveCandidates: a candidate is accepted unless it overlaps one that was.
Resolve(candidates) ==
  Greedy(candidates, {q \in candidates \X candidates : Before(q[1], q[2]) /\ Overlaps(q[1], q[2])})

Replacement(p, c) ==
  IF \E r \in p.rules : r.id = c.source
    THEN (CHOOSE r \in p.rules : r.id = c.source).replacement
    ELSE p.classifierReplacements[c.category]

\* The spans that are left at a cursor in the text, and the first of them.
Ahead(accepted, cursor) == {c \in accepted : cursor <= c.start}
Nearest(accepted, cursor) ==
  CHOOSE c \in Ahead(accepted, cursor) : \A d \in Ahead(accepted, cursor) : c.start <= d.start

\* The output is written from the left: what is before a span, its replacement,
\* and so on from its end.
Rendered(text, p, accepted) ==
  LET written[cursor \in 0..Len(text)] ==
        IF Ahead(accepted, cursor) = {} THEN SubSeq(text, cursor + 1, Len(text))
        ELSE LET c == Nearest(accepted, cursor)
             IN  SubSeq(text, cursor + 1, c.start) \o Replacement(p, c) \o written[c.end]
  IN  written[0]

\* evaluatedSourceIds.
Sources(p) == <<{r.id : r \in p.rules}, {k.id : k \in p.classifiers}>>

-------------------------------------------------------------------------------

Init ==
  /\ shared \in Policies
  /\ scan = [j \in Jobs |-> Idle]
  /\ aborted = [c \in Calls |-> FALSE]
  /\ output = [c \in Calls |-> <<>>]
  /\ receipts = {}

End(j, error) == scan' = [scan EXCEPT ![j] = [phase |-> error]]

\* Faulty: the policy is used as the owner hands it over.
CascadePolicyShared(j) == shared

\* snapshotPolicy: what the job goes on with.
CascadePolicy(j) == scan[j].policy

\* A job begins: the policy is captured, and the rules looked for.
Begin(j, text) ==
  /\ scan[j].phase = "idle"
  /\ \/ ~Valid(shared) /\ End(j, "invalid_policy")
     \/ Valid(shared) /\ Len(text) > shared.maxInputCodeUnits /\ End(j, "input_limit_exceeded")
     \/ /\ Valid(shared) /\ Len(text) <= shared.maxInputCodeUnits
        /\ aborted[j[1]] /\ End(j, "aborted")
     \/ /\ Valid(shared) /\ Len(text) <= shared.maxInputCodeUnits /\ ~aborted[j[1]]
        /\ Cardinality(RuleCandidates(text, shared)) > shared.maxCandidateSpans
        /\ End(j, "candidate_limit_exceeded")
     \/ /\ Valid(shared) /\ Len(text) <= shared.maxInputCodeUnits /\ ~aborted[j[1]]
        /\ Cardinality(RuleCandidates(text, shared)) <= shared.maxCandidateSpans
        /\ scan' = [scan EXCEPT ![j] =
                      [phase |-> "classifying", text |-> text, policy |-> shared,
                       answers |-> <<>>, accepted |-> {}]]
  /\ UNCHANGED <<shared, aborted, output, receipts>>

Redact(c, text) == Begin(<<c, "redact">>, text)

\* verifyRedactionResult knows the results it was not given by a cascade.
Verify(c) == scan[<<c, "redact">>].phase = "done" /\ Begin(<<c, "verify">>, output[c])
VerifyForged(c) ==
  /\ scan[<<c, "verify">>].phase = "idle"
  /\ End(<<c, "verify">>, "invalid_redaction_result")
  /\ UNCHANGED <<shared, aborted, output, receipts>>

Unanswered(j) == {k.id : k \in scan[j].policy.classifiers} \ DOMAIN scan[j].answers

\* A classifier settles, with spans or with an error, which is that of all.  An
\* answer that is no list of spans is like one with an invalid span.
Answer(j, k, spans) ==
  /\ scan[j].phase = "classifying"
  /\ k \in Unanswered(j)
  /\ scan' = [scan EXCEPT ![j].answers =
                [i \in DOMAIN @ \cup {k} |-> IF i = k THEN spans ELSE @[i]]]
  /\ UNCHANGED <<shared, aborted, output, receipts>>

ClassifierFails(j) ==
  /\ scan[j].phase = "classifying"
  /\ Unanswered(j) # {}
  /\ End(j, IF aborted[j[1]] THEN "aborted" ELSE "classifier_failed")
  /\ UNCHANGED <<shared, aborted, output, receipts>>

Answered(j) == scan[j].phase = "classifying" /\ Unanswered(j) = {}

Invalid(j) ==
  \E k \in DOMAIN scan[j].answers : \E s \in scan[j].answers[k] : ~SpanIsValid(scan[j].text, s)

Candidates(j) ==
  RuleCandidates(scan[j].text, CascadePolicy(j))
    \cup ClassifierCandidates(scan[j].answers, CascadePolicy(j))

Excessive(j) ==
  Cardinality(RuleCandidates(scan[j].text, scan[j].policy))
    + FoldFunction(LAMBDA spans, n : Cardinality(spans) + n, 0, scan[j].answers)
      > scan[j].policy.maxCandidateSpans

\* The answers are unusable: by the first that is, in the classifiers' order.
Reject(j) ==
  /\ Answered(j)
  /\ \/ Invalid(j) /\ End(j, "invalid_classifier_span")
     \/ Excessive(j) /\ End(j, "candidate_limit_exceeded")
     \/ ~Invalid(j) /\ ~Excessive(j) /\ aborted[j[1]] /\ End(j, "aborted")
  /\ UNCHANGED <<shared, aborted, output, receipts>>

Usable(j) == Answered(j) /\ ~Invalid(j) /\ ~Excessive(j) /\ ~aborted[j[1]]

\* The cascade ends.
Rewrite(c) ==
  LET j == <<c, "redact">>
      accepted == Resolve(Candidates(j))
  IN  /\ Usable(j)
      /\ scan' = [scan EXCEPT ![j].phase = "done", ![j].accepted = accepted]
      /\ output' = [output EXCEPT ![c] = Rendered(scan[j].text, scan[j].policy, accepted)]
      /\ UNCHANGED <<shared, aborted, receipts>>

Clean(j) == Resolve(Candidates(j)) = {}

\* The rescan ends: any candidate left is the policy's fault.
Rescan(c) ==
  LET j == <<c, "verify">>
  IN  /\ Usable(j)
      /\ IF Clean(j) THEN scan' = [scan EXCEPT ![j].phase = "digesting"]
         ELSE End(j, "invalid_policy")
      /\ UNCHANGED <<shared, aborted, output, receipts>>

\* The same policy and sources.
SamePolicy(p, q) == p.id = q.id /\ Sources(p) = Sources(q)

\* The output's digest is there: the rescan must be of the cascade's policy.
Pair(c) ==
  LET j == <<c, "verify">>
  IN  /\ scan[j].phase = "digesting"
      /\ IF SamePolicy(scan[<<c, "redact">>].policy, scan[j].policy)
           THEN scan' = [scan EXCEPT ![j].phase = "done"]
           ELSE End(j, "invalid_redaction_result")
      /\ UNCHANGED <<shared, aborted, output, receipts>>

\* Faulty: any rescan of the same output will do.
IssueForOutput(c, d, id) ==
  /\ scan[<<c, "redact">>].phase = "done" /\ scan[<<d, "verify">>].phase = "done"
  /\ output[c] = output[d]
  /\ id = scan[<<c, "redact">>].policy.id /\ id = scan[<<d, "verify">>].policy.id
  /\ receipts' = receipts \cup {[result |-> c, rescan |-> d, policy |-> id]}
  /\ UNCHANGED <<shared, scan, aborted, output>>

\* issuePrivacyDecisionReceipt, asked about any result, rescan and policy.
Issue(c, d, id) ==
  /\ scan[<<c, "redact">>].phase = "done" /\ scan[<<d, "verify">>].phase = "done"
  /\ c = d
  /\ id = scan[<<c, "redact">>].policy.id /\ id = scan[<<d, "verify">>].policy.id
  /\ receipts' = receipts \cup {[result |-> c, rescan |-> d, policy |-> id]}
  /\ UNCHANGED <<shared, scan, aborted, output>>

OwnerChanges ==
  /\ shared' \in Policies \ {shared}
  /\ UNCHANGED <<scan, aborted, output, receipts>>

Abort(c) ==
  /\ ~aborted[c]
  /\ aborted' = [aborted EXCEPT ![c] = TRUE]
  /\ UNCHANGED <<shared, scan, output, receipts>>

Next ==
  \/ \E c \in Calls :
       \/ \E text \in Texts : Redact(c, text)
       \/ Verify(c) \/ VerifyForged(c) \/ Rewrite(c) \/ Rescan(c) \/ Pair(c) \/ Abort(c)
       \/ \E d \in Calls : \E p \in Policies : Issue(c, d, p.id)
  \/ \E j \in Jobs :
       \/ ClassifierFails(j) \/ Reject(j)
       \/ \E k \in UNION {{q.id : q \in p.classifiers} : p \in Policies} :
            \E spans \in Answers : Answer(j, k, spans)
  \/ OwnerChanges

Spec == Init /\ [][Next]_vars

-------------------------------------------------------------------------------

Redacted(c) == scan[<<c, "redact">>].phase = "done"

\* A candidate that loses overlaps one that wins, of a higher priority or, of
\* the same, no shorter; and no two that win overlap.
WinnersByPrecedence ==
  \A c \in Calls : Redacted(c) =>
    LET s == scan[<<c, "redact">>]
        all == RuleCandidates(s.text, s.policy) \cup ClassifierCandidates(s.answers, s.policy)
    IN  /\ s.accepted \subseteq all
        /\ \A x, y \in s.accepted : Overlaps(x, y) => x = y
        /\ \A x \in all \ s.accepted : \E y \in s.accepted :
             /\ Overlaps(x, y)
             /\ \/ y.priority > x.priority
                \/ y.priority = x.priority /\ y.end - y.start >= x.end - x.start

\* Every code unit outside the spans that won is in the output, in its order,
\* and of each of those spans only its replacement.
Piece(s, i) ==
  IF \E x \in s.accepted : x.start = i - 1
    THEN Replacement(s.policy, CHOOSE x \in s.accepted : x.start = i - 1)
  ELSE IF \E x \in s.accepted : x.start < i /\ i <= x.end THEN <<>>
  ELSE <<s.text[i]>>

\* How much of the output the pieces of the first i code units are.
Place(s, i) == Cardinality(UNION {{j} \X (1..Len(Piece(s, j))) : j \in 1..i})

OnlySpansAreReplaced ==
  \A c \in Calls : Redacted(c) =>
    LET s == scan[<<c, "redact">>]
    IN  /\ Len(output[c]) = Place(s, Len(s.text))
        /\ \A i \in 1..Len(s.text) : \A n \in 1..Len(Piece(s, i)) :
             output[c][Place(s, i - 1) + n] = Piece(s, i)[n]

\* The same text, policy and answers give the same output, whoever answered
\* first and whatever became of the policy object meanwhile.
OutputIsDetermined ==
  \A c, d \in Calls :
    LET s == scan[<<c, "redact">>]
        t == scan[<<d, "redact">>]
    IN  Redacted(c) /\ Redacted(d) /\ s.text = t.text /\ s.policy = t.policy /\ s.answers = t.answers
          => output[c] = output[d]

\* What was rescanned is clean: none of the policy's rules matches the output
\* any more, though spans that lost to an overlap are only replaced in part, and
\* though replacements may make new matches.
RescannedIsClean ==
  \A c \in Calls : scan[<<c, "verify">>].phase = "done" =>
    \A r \in scan[<<c, "verify">>].policy.rules :
      \A i \in 0..Len(output[c]) : ~MatchesAt(output[c], r.pattern, i)

\* A receipt is of a result and of its own rescan, by the same sources, under
\* the policy it names.
ReceiptsArePaired ==
  \A r \in receipts :
    LET s == scan[<<r.result, "redact">>]
        t == scan[<<r.rescan, "verify">>]
    IN  /\ s.phase = "done" /\ t.phase = "done"
        /\ t.text = output[r.result] /\ r.result = r.rescan
        /\ s.policy.id = r.policy /\ t.policy.id = r.policy
        /\ Sources(s.policy) = Sources(t.policy)

\* What a cascade returns is the text but for the spans that won, by precedence,
\* whatever the order of the answers and whoever changes the policy meanwhile.
RedactionIsExact ==
  TypeOK /\ WinnersByPrecedence /\ OnlySpansAreReplaced /\ OutputIsDetermined

\* What a receipt vouches for: an output that its own policy's rescan found
\* clean, in the name of the cascade that wrote it.
VouchedForByRescan == RescannedIsClean /\ ReceiptsArePaired
================================================================================
