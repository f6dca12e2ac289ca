------------------------------ MODULE MCRecords ------------------------------
(***************************************************************************)
(* What others rely on: records, with evidence in order and out of order   *)
(* and plans that fall back; and, in behaviours of their own, redactions   *)
(* and their receipts.                                                     *)
(***************************************************************************)
EXTENDS Records, RedactionCascade, TLC

CONSTANTS keeper, asker, c1, c2

-------------------------------------------------------------------------------
(* Attestation: six evidence sets in order and fourteen with one thing wrong.*)

Both == {<<"x", "embed">>, <<"y", "rewrite">>}
KindOf == [s \in Targets \X Operations |-> IF s[2] = "embed" THEN "embedding" ELSE "generate-text"]
Fabric(preference) == [targets |-> {"x", "y"}, preference |-> preference]

\* Evidence in order: observed at 2, in a lease from 1 to 4.
Good ==
  [fabric |-> [targets |-> {"x", "y"}, preference |-> 1, listing |-> 0],
   snapshot |-> [binding |-> 1, offers |-> Both, targets |-> {"x", "y"}, healthy |-> {"x", "y"},
                 observed |-> 2, expires |-> 4, intact |-> TRUE],
   bindings |-> [digest |-> 1, kind |-> KindOf, intact |-> TRUE],
   report |-> [binding |-> 1, profile |-> Both, kind |-> KindOf, results |-> Both, qualified |-> TRUE, intact |-> TRUE],
   profile |-> Both,
   policy |-> [fabric |-> Fabric(1), profile |-> Both, audience |-> 1, ttl |-> 3, age |-> 2, skew |-> 1],
   challenge |-> [value |-> 1, audience |-> 1, issued |-> 1, expires |-> 4]]

\* Later evidence under a more lenient policy, of other bindings, of a smaller
\* scope: all of it in order too.
Later ==
  [Good EXCEPT !.snapshot.observed = 4, !.snapshot.expires = 6,
               !.challenge = [value |-> 2, audience |-> 1, issued |-> 3, expires |-> 7]]
Lenient == [Good EXCEPT !.policy.age = 5, !.policy.skew = 2, !.challenge.expires = 3]
Rebound == [Good EXCEPT !.bindings.digest = 2, !.snapshot.binding = 2, !.report.binding = 2]
Repreferred == [Good EXCEPT !.fabric.preference = 2, !.policy.fabric = Fabric(2)]
One == {<<"x", "embed">>}
Smaller ==
  [Good EXCEPT !.snapshot.offers = One, !.snapshot.healthy = {"x"}, !.report.profile = One,
               !.report.results = One, !.profile = One, !.policy.profile = One]

\* One thing wrong.
MCEvidenceSets ==
  {Good, Later, Lenient, Rebound, Repreferred, Smaller,
   [Good EXCEPT !.snapshot.intact = FALSE],
   [Good EXCEPT !.bindings.intact = FALSE],
   [Good EXCEPT !.report.intact = FALSE],
   [Good EXCEPT !.report.qualified = FALSE],
   [Good EXCEPT !.snapshot.healthy = {"x"}],
   [Good EXCEPT !.snapshot.offers = One],
   [Good EXCEPT !.snapshot.offers = {}, !.report.results = {}, !.report.profile = {}, !.profile = {}, !.policy.profile = {}],
   [Good EXCEPT !.fabric.targets = {"x"}, !.policy.fabric.targets = {"x"}],
   [Good EXCEPT !.bindings.kind[<<"x", "embed">>] = "unbound"],
   [Good EXCEPT !.report.kind[<<"x", "embed">>] = "generate-text"],
   [Good EXCEPT !.snapshot.expires = 8, !.policy.age = 9, !.challenge.expires = 9],
   [Good EXCEPT !.challenge.issued = 4, !.challenge.expires = 9],
   [Good EXCEPT !.challenge.audience = 2],
   [Good EXCEPT !.policy.audience = 2, !.challenge.audience = 2]}

-------------------------------------------------------------------------------
(* Placement: two stages that share targets, with fallbacks; and a plan of   *)
(* three, which is too long.                                                 *)

Staged(s, c) == [stage |-> s, candidates |-> c]
MCRunPlans ==
  {<<Staged("a", <<"x", "y">>), Staged("b", <<"y", "x">>)>>,
   <<Staged("a", <<"x">>), Staged("b", <<"y", "x">>)>>,
   <<Staged("b", <<"x", "y">>)>>,
   <<Staged("a", <<"x">>), Staged("b", <<"y">>), Staged("c", <<"x">>)>>}

-------------------------------------------------------------------------------
(* The file: a writer of evidence, a writer of a challenge, and others once. *)

MCKeepers == {keeper}
MCAskers == {asker}

-------------------------------------------------------------------------------
(* Redaction: two calls, two rules and a classifier that overlap with one    *)
(* another.                                                                  *)

MCCalls == {c1, c2}
MCCategories == {1}

\* "x" is plain; a replacement is "*", or an "s" that makes a new match.
MCTexts == {<<"s", "t", "t">>, <<High, Low, "t">>}

Rule(id, priority, pattern, replacement) ==
  [id |-> id, priority |-> priority, category |-> 1, pattern |-> pattern, replacement |-> replacement]

\* The classifier comes with the rules' priority, between them in order.
Base ==
  [id |-> "p", rules |-> {Rule(1, 1, <<"s", "t">>, <<"*", "*", "*">>), Rule(3, 1, <<"t">>, <<"*">>)},
   classifiers |-> {[id |-> 2, priority |-> 1]}, classifierReplacements |-> <<(<<"s">>)>>,
   maxCandidateSpans |-> 4, maxInputCodeUnits |-> 5]

MCPolicies ==
  {Base,
   [Base EXCEPT !.rules = {Rule(1, 0, <<"s", "t">>, <<"*">>)}],
   [Base EXCEPT !.rules = {}, !.classifiers = {[id |-> 2, priority |-> 1], [id |-> 2, priority |-> 2]}]}

Span(start, end) == [start |-> start, end |-> end, category |-> 1]

\* Nothing, spans that overlap the rules', and too many with one that ends outside.
MCAnswers ==
  {{}, {Span(0, 2)}, {Span(0, 1), Span(0, 2), Span(1, 9)}}

Symmetric == Permutations(MCCalls)

-------------------------------------------------------------------------------

VARIABLE scene  \* "records" or "redaction"

MCInit ==
  /\ scene \in {"records", "redaction"}
  /\ RecordsInit /\ (scene # "records" => acting = "file" /\ entry = Vacant)
  /\ Init /\ (scene # "redaction" => shared = CHOOSE p \in Policies : TRUE)

MCNext ==
  /\ scene' = scene
  /\ \/ scene = "records" /\ RecordsNext /\ UNCHANGED vars
     \/ scene = "redaction" /\ Next /\ UNCHANGED recordsVars

MCSpec == MCInit /\ [][MCNext]_<<scene, recordsVars, vars>>
==============================================================================
