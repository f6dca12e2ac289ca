------------------------------- MODULE MCPlanner -------------------------------
(***************************************************************************)
(* Three stages over two inputs, one secret and one regional.  Stage 1     *)
(* reads the secret, and may declassify its output; the others read what a *)
(* choice of eight wirings says: chains, joins and cycles.  Three targets, *)
(* in preference order: a trusted one in the EU, one in the US, and a less *)
(* trusted one in the EU.                                                  *)
(***************************************************************************)
EXTENDS Planner, TLC

CONSTANTS sec, reg, o1, o2, o3, eu, us, edge, public, regional, secret, gdpr, run, redact

MCInputs == {sec, reg}
MCOutputs == {o1, o2, o3}
MCStages == 1..3
MCProducer == (o1 :> 1) @@ (o2 :> 2) @@ (o3 :> 3)
MCTargets == 1..3
MCZones == {eu, us, edge}
MCClasses == {public, regional, secret}

\* The last wiring but one is cyclic, and so is the last.
Wirings ==
  {(1 :> {sec}) @@ (2 :> a) @@ (3 :> b) :
     <<a, b>> \in {<<{o1}, {o2}>>, <<{o1}, {o2, reg}>>, <<{o1, reg}, {o2, o1}>>,
                  <<{reg}, {o1, o2}>>, <<{o1, o3}, {o1}>>, <<{}, {o1, o2}>>,
                  <<{o3}, {o2}>>, <<{o2}, {o1}>>}}

Lax ==
  [rank |-> (public :> 0) @@ (regional :> 1) @@ (secret :> 2),
   minTrust |-> (public :> 0) @@ (regional :> 0) @@ (secret :> 1),
   classZones |-> [c \in MCClasses |-> {}],
   classResidencies |-> [c \in MCClasses |-> {}],
   zone |-> (1 :> eu) @@ (2 :> us) @@ (3 :> edge),
   trust |-> (eu :> 2) @@ (us :> 1) @@ (edge :> 0),
   zoneResidencies |-> (eu :> {gdpr}) @@ (us :> {}) @@ (edge :> {gdpr}),
   configured |-> (1 :> {run, redact}) @@ (2 :> {run}) @@ (3 :> {run}),
   maxFallbacks |-> 2]

\* Secrets stay where regional data may be, and one fallback is allowed.
Nested ==
  [Lax EXCEPT !.classZones = (public :> {}) @@ (regional :> {eu, edge}) @@ (secret :> {eu}),
              !.maxFallbacks = 1]

\* Regional data is bound to the EU; secrets only to trust.
Crossed ==
  [Lax EXCEPT !.classZones = (public :> {}) @@ (regional :> {eu, edge}) @@ (secret :> {})]

Up == [live |-> MCTargets,
       observed |-> (1 :> {run, redact}) @@ (2 :> {run}) @@ (3 :> {run})]
Degraded == [Up EXCEPT !.live = {1, 3}, !.observed[1] = {run}]

GraphOf(reads, rule, declared, home) ==
  [class |-> (sec :> secret) @@ (reg :> regional),
   residencies |-> (sec :> {}) @@ (reg :> IF home = eu THEN {gdpr} ELSE {}),
   origin |-> (sec :> [zone |-> home, target |-> IF home = eu THEN 1 ELSE NoTarget])
                @@ (reg :> [zone |-> NoZone, target |-> NoTarget]),
   reads |-> reads,
   allowedZones |-> (1 :> {}) @@ (2 :> {}) @@ (3 :> {eu, us}),
   requiredResidencies |-> [s \in MCStages |-> {}],
   requiredCapabilities |-> [s \in MCStages |-> {run}],
   operation |-> [s \in MCStages |-> {}],
   declared |-> [o \in MCOutputs |-> IF o = o2 THEN declared ELSE NoClass],
   rule |-> [o \in MCOutputs |-> IF o = o1 THEN rule ELSE NoClass],
   authority |-> [o \in MCOutputs |-> redact]]

MCRequests ==
  {[fabric |-> f, snapshot |-> x, graph |-> GraphOf(reads, rule, declared, home)] :
     f \in {Lax, Nested, Crossed}, x \in {Up, Degraded}, reads \in Wirings,
     rule \in {NoClass, public, secret}, declared \in {NoClass, regional, secret},
     home \in {eu, NoZone}}
================================================================================
