----------------------------- MODULE MCProviders -----------------------------
(* Providers, with requests in order and the same with one thing wrong.     *)
EXTENDS Providers

CONSTANTS w1, w2

-------------------------------------------------------------------------------
(* Qualification: three targets for two workers. Excessive operations,       *)
(* targets without a qualifier or with a credential, a resolver that is      *)
(* missing, an operation that is not bound and one too many.                 *)

Three == 1..3
MCWorkers == {w1, w2}
Both == {"rewrite", "embed"}
None == [t \in Three |-> {}]
All == [t \in Three |-> Both]

PlainQualification ==
  [selected |-> [None EXCEPT ![1] = Both, ![2] = {"rewrite"}, ![3] = {"rewrite"}], bound |-> All,
   excessive |-> None, registered |-> Three, credentialed |-> {}, resolver |-> TRUE, maxOperations |-> 4]

MCQualifications ==
  {[PlainQualification EXCEPT !.excessive[3] = {"rewrite"}],
   [PlainQualification EXCEPT !.maxOperations = 3],
   [PlainQualification EXCEPT !.excessive = [None EXCEPT ![1] = {"embed"}, ![3] = {"rewrite"}],
                              !.credentialed = {1, 2}],
   [PlainQualification EXCEPT !.bound = [All EXCEPT ![2] = {"embed"}]],
   [PlainQualification EXCEPT !.registered = {1, 3}, !.credentialed = {2, 3}],
   [PlainQualification EXCEPT !.excessive = [None EXCEPT ![1] = {"rewrite"}, ![3] = {"rewrite"}],
                              !.credentialed = {2}, !.resolver = FALSE]}

\* A qualifier may give any reason for one operation, and two of them together;
\* or say nothing at all.
AnyReason == {"qualified", "operation_rejected", "qualifier_unavailable",
              "credential_unavailable", "deadline_exceeded",
              "operation_configuration_unqualified", "qualifier_failure"}
MCQualifierAnswers ==
  {<<>>} \cup [{"rewrite"} -> AnyReason] \cup [{"embed"} -> AnyReason] \cup
  [Both -> {"qualified", "operation_rejected", "deadline_exceeded"}]

\* The qualifier: a request in order, and with one thing other.
Plain ==
  [operations |-> <<"rewrite", "embed", "answer">>,
   bound |-> {"rewrite", "embed", "answer"},
   kind |-> [rewrite |-> "generate-text", embed |-> "embedding", answer |-> "generate-text"],
   model |-> [rewrite |-> "large", embed |-> "small", answer |-> "large"],
   excessive |-> {}, required |-> TRUE, credential |-> "usable"]

MCQualifierRequests ==
  {Plain,
   [Plain EXCEPT !.operations = <<"rewrite", "embed">>, !.required = FALSE, !.credential = "none"],
   [Plain EXCEPT !.excessive = {"rewrite"}],
   [Plain EXCEPT !.excessive = {"answer"}, !.operations = <<"answer">>],
   [Plain EXCEPT !.excessive = {"answer"}, !.credential = "none"],
   [Plain EXCEPT !.credential = "unusable"],
   [Plain EXCEPT !.required = FALSE],
   [Plain EXCEPT !.bound = {"embed"}],
   [Plain EXCEPT !.operations = <<"embed", "embed">>],
   [Plain EXCEPT !.operations = <<>>]}

-------------------------------------------------------------------------------
(* The fetch: two origins, three paths; bodies of up to four bytes and more. *)

Url(origin, segments) == [origin |-> origin, path |-> segments, plain |-> TRUE, secure |-> TRUE]
Home == Url("home", <<"v1", "chat">>)
Away == Url("away", <<"v1", "chat">>)

MCConfigurations ==
  {[base |-> Url("home", <<"v1">>), allowed |-> {<<"v1", "chat">>}],
   [base |-> Url("home", <<"v1">>), allowed |-> {<<"v1", "chat">>, <<"v10", "chat">>}],
   [base |-> [Url("home", <<>>) EXCEPT !.secure = FALSE], allowed |-> {<<"v1", "chat">>}],
   [base |-> Url("home", <<>>), allowed |-> {}]}

MCFetchRequests ==
  {[kind |-> k, url |-> u, shown |-> s] :
     k \in {"string", "URL", "Request", "other"},
     u \in {Home, Away, [Home EXCEPT !.plain = FALSE]},
     s \in {Home, Away}}

MCResponses ==
  {[redirect |-> r, length |-> l, body |-> b] :
     r \in BOOLEAN, b \in BOOLEAN, l \in {"none", "malformed", "excessive", "fitting"}}

-------------------------------------------------------------------------------
(* The live run: two stages, two targets that share an operation, one of     *)
(* them keyed; one request in order, and the same with one thing wrong.      *)

Good ==
  [op |-> <<"rewrite", "embed">>, needs |-> <<{"fast"}, {}>>, reads |-> <<0, 1>>,
   permitted |-> <<{1, 2}, {1, 2}>>, declassifies |-> {},
   bound |-> <<Both, Both>>,
   offers |-> <<[rewrite |-> {"fast"}, embed |-> {}], [rewrite |-> {"fast"}, embed |-> {}]>>,
   model |-> <<[rewrite |-> "large", embed |-> "small"], [rewrite |-> "small", embed |-> "small"]>>,
   fits |-> <<Both, Both>>,
   key |-> <<"KEY", NoVariable>>,
   known |-> {1, 2}, compatible |-> {1, 2}, configured |-> <<{"fast"}, {"fast"}>>,
   intact |-> TRUE, named |-> {0}]

MCLiveRequests ==
  {Good,
   [Good EXCEPT !.permitted = <<{1}, {2}>>, !.offers[1].rewrite = {}, !.offers[1].embed = {"fast"}],
   [Good EXCEPT !.bound[2] = {}, !.fits[2] = {}],
   [Good EXCEPT !.fits[2] = {"rewrite"}],
   [Good EXCEPT !.bound = <<{"rewrite"}, {"rewrite"}>>],
   [Good EXCEPT !.intact = FALSE],
   [Good EXCEPT !.known = {1}],
   [Good EXCEPT !.configured[2] = {}],
   [Good EXCEPT !.declassifies = {2}],
   [Good EXCEPT !.named = {0, 9}],
   [Good EXCEPT !.named = {}]}

-------------------------------------------------------------------------------
(* The guard: two objects, a key and a leaf of every kind, in all shapes;    *)
(* two inspections by one guard.                                             *)

Text(m, l) == [text |-> TRUE, matches |-> m, long |-> l, odd |-> FALSE, children |-> <<>>]
Object(o, c) == [text |-> FALSE, matches |-> FALSE, long |-> FALSE, odd |-> o, children |-> c]
Leaf == {Text(TRUE, FALSE), Text(FALSE, FALSE), Text(FALSE, TRUE), Object(TRUE, <<>>)}
Inner == {Object(FALSE, c) : c \in {<<>>, <<3, 1>>, <<3, 4>>, <<4, 3>>, <<3, 2, 3, 2>>, <<3, 2, 3, 4>>}}

MCValues == {<<a, b, Text(FALSE, FALSE), d>> : a \in Inner, b \in Inner \cup {Text(FALSE, FALSE)}, d \in Leaf}

(* The gate: receipts wrong in no way, one or two.                           *)

MCReceipts ==
  {[wrong |-> w, decision |-> d, digestOf |-> o] : d \in Decisions, o \in Outputs,
     w \in {{}, {"redaction_source_mismatch", "egress_policy_mismatch"}} \cup
           {{c} : c \in {"invalid_receipt", "bindings_digest_mismatch", "lineage_mismatch",
                         "redaction_policy_mismatch", "redaction_source_mismatch", "egress_policy_mismatch"}}}
==============================================================================
