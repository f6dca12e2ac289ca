------------------------------ MODULE MCRetrieval ------------------------------
(***************************************************************************)
(* The context supply chain and the PageIndex adapter on small instances:  *)
(* the values of the constants of Retrieval that are not numbers.          *)
(***************************************************************************)
EXTENDS Retrieval

-------------------------------------------------------------------------------
(* The chain: two sources and three pieces of evidence; requests, placements *)
(* and instants in order or with one thing wrong; locators are numbers.      *)

Source(id, class, expires) == [id |-> id, classification |-> class, observed |-> 1, expires |-> expires]
s1 == Source(1, "public", 5)
s2 == Source(2, "public", 4)

Piece(locator, source, bytes) == [locator |-> locator, source |-> source, bytes |-> bytes, genuine |-> TRUE]
e1 == Piece(1, 1, 4)
e2 == Piece(2, 2, 3)
e3 == Piece(3, 1, 5)
MCFrozen == {e1, e2, e3}
MCFrozenSources == {s1, s2}

Base == [sealed |-> TRUE, requestedAt |-> 2, classification |-> "public", sources |-> {s1, s2},
         residencies |-> {"EU"}, adapter |-> "external", query |-> 4, scores |-> <<2, 2, 3>>,
         maxContext |-> 4, maxTotal |-> 6, maxOutput |-> 1, maxEgress |-> 1]
Deterministic == [Base EXCEPT !.adapter = "deterministic"]
MCRequests ==
  {Base, [Base EXCEPT !.sealed = FALSE], [Base EXCEPT !.classification = "internal"],
   [Base EXCEPT !.sources = {s1, Source(2, "restricted", 4)}], [Base EXCEPT !.sources = {s1}],
   [Base EXCEPT !.query = 12], Deterministic, [Deterministic EXCEPT !.sources = {s1}]}
  \cup {[Deterministic EXCEPT !.scores = s, !.maxContext = m] :
          s \in {<<1, 1, 1>>, <<4, 2, 3>>, <<2, 2, 2>>}, m \in {2, 4, 5}}

Away == [external |-> TRUE, local |-> FALSE, trust |-> 1, residencies |-> {"EU", "US"}]
MCPlacements ==
  {Away, [Away EXCEPT !.external = FALSE], [Away EXCEPT !.local = TRUE], [Away EXCEPT !.residencies = {"US"}]}

MCEvaluations ==
  {[given |-> {"clock"}, valid |-> TRUE, instant |-> i] : i \in 0..4} \cup
  {[given |-> g, valid |-> v, instant |-> 2] : g \in SUBSET {"evaluatedAt", "clock"}, v \in BOOLEAN}

Found == {<<e1>>, <<e2, e1>>, <<e1, e1>>, <<e1, e2, e3>>, <<[e1 EXCEPT !.genuine = FALSE]>>}
MCRetrievals ==
  {[evidence |-> f, egress |-> n, adapter |-> a] : f \in Found, n \in {1, 2}, a \in {"external", "other"}}
MCAnswers == {[citations |-> c, bytes |-> b] : c \in {<<>>, <<1>>, <<3>>, <<2, 1>>, <<1, 1>>}, b \in {0, 4, 5}}

-------------------------------------------------------------------------------
(* The adapter: up to two sources; selections in and out of order, doubled,  *)
(* out of range.                                                             *)

Fine == [bound |-> TRUE, fresh |-> TRUE]
MCListed ==
  {<<Fine, Fine>>, <<Fine, [bound |-> FALSE, fresh |-> TRUE]>>, <<[bound |-> TRUE, fresh |-> FALSE]>>}
MCSelections == {<<1>>, <<2>>, <<2, 1>>, <<1, 2>>, <<1, 1>>, <<>>}
==============================================================================
