--------------------------- MODULE InputInspection ---------------------------
(***************************************************************************)
(* The sensitive data guard (adapters/sensitive-data-guard.ts): before a   *)
(* provider is called, the stage's inputs are walked, keys and values, and *)
(* every text is tried against patterns that are kept between inspections. *)
(*                                                                         *)
(* A value is made of nodes: texts, and objects whose children are their   *)
(* keys and values in turn; nodes may be shared, and lead back to          *)
(* themselves. A regular expression with the global flag begins where its  *)
(* last match ended: what is kept of it is whether that is the start.      *)
(* The walk is depth first, its stack explicit.                            *)
(***************************************************************************)
EXTENDS Naturals, Sequences, SequencesExt

CONSTANTS
  Nodes, Root,
  Values,          \* the values that may be inspected: functions from Nodes to nodes
  MaxNodes, MaxDepth, Rounds

\* Odd is, as an object, one of another prototype; as a key, a symbol or the key
\* of an accessor or of what is not enumerable, which is not looked at as a text.
Node == [text : BOOLEAN, matches : BOOLEAN, long : BOOLEAN, odd : BOOLEAN, children : Seq(Nodes)]

InspectionAssumption ==
  /\ Root \in Nodes /\ {MaxNodes, MaxDepth} \subseteq Nat /\ Rounds \in Nat \ {0}
  /\ Values \subseteq [Nodes -> Node]
  /\ \A v \in Values : \A n \in Nodes : v[n].text => v[n].children = <<>> /\ ~v[n].odd

VARIABLES
  value,     \* what is inspected
  path,      \* the objects being walked, outermost first, each with its next child
  look,      \* the node to look at, or none when a child is done
  budget,    \* how many nodes were looked at
  atStart,   \* whether the patterns begin at the start
  verdict, round

vars == <<value, path, look, budget, atStart, verdict, round>>

Refusals == {"inspection_limit_exceeded", "inspection_string_limit_exceeded",
             "inspection_cycle_detected", "inspection_unsafe_value"}

TypeOK ==
  /\ value \in Values /\ round \in 1..Rounds
  /\ \A i \in DOMAIN path : path[i].node \in Nodes /\ path[i].turn \in 1..(Len(value[path[i].node].children) + 1)
  /\ look \in {<<>>} \cup {<<n>> : n \in Nodes} /\ budget \in 0..(MaxNodes + 1)
  /\ Len(path) <= MaxDepth + 1 /\ atStart \in BOOLEAN
  /\ verdict \in {"none", "clean", "sensitive_data_detected"} \cup Refusals

Init ==
  /\ value \in Values /\ path = <<>> /\ look = <<Root>> /\ budget = 0 /\ atStart = TRUE
  /\ verdict = "none" /\ round = 1

Rule(v) == verdict' = v

TooMuch == budget + 1 > MaxNodes \/ Len(path) > MaxDepth

\* ancestors: the objects the walk is inside of.
OnPath(n) == \E i \in DOMAIN path : path[i].node = n

\* Faulty: the patterns go on where they stopped.
FoundFromThere(n) == value[n].matches /\ atStart

\* Every test begins at the start.
Found(n) == value[n].matches

Enter(n) == path' = Append(path, [node |-> n, turn |-> 1])

\* containsMatch of one node.
Look ==
  /\ verdict = "none" /\ look # <<>>
  /\ LET n == Head(look) IN
     /\ budget' = budget + 1 /\ look' = <<>>
     /\ \/ TooMuch /\ Rule("inspection_limit_exceeded") /\ UNCHANGED <<path, atStart>>
        \/ /\ ~TooMuch /\ value[n].text /\ value[n].long
           /\ Rule("inspection_string_limit_exceeded") /\ UNCHANGED <<path, atStart>>
        \/ /\ ~TooMuch /\ value[n].text /\ ~value[n].long
           /\ atStart' = ~Found(n) /\ UNCHANGED path
           /\ IF Found(n) THEN Rule("sensitive_data_detected") ELSE UNCHANGED verdict
        \/ /\ ~TooMuch /\ ~value[n].text /\ OnPath(n)
           /\ Rule("inspection_cycle_detected") /\ UNCHANGED <<path, atStart>>
        \/ /\ ~TooMuch /\ ~value[n].text /\ ~OnPath(n) /\ value[n].odd
           /\ Rule("inspection_unsafe_value") /\ UNCHANGED <<path, atStart>>
        \/ /\ ~TooMuch /\ ~value[n].text /\ ~OnPath(n) /\ ~value[n].odd
           /\ Enter(n) /\ UNCHANGED <<verdict, atStart>>
  /\ UNCHANGED <<value, round>>

\* The next child of the innermost object, or back out of it.
Step ==
  /\ verdict = "none" /\ look = <<>>
  /\ \/ path = <<>> /\ Rule("clean") /\ UNCHANGED <<path, look>>
     \/ /\ path # <<>>
        /\ LET here == Last(path)
               children == value[here.node].children
               odd == here.turn % 2 = 1 /\ value[children[here.turn]].odd
           IN \/ /\ here.turn <= Len(children) /\ odd
                 /\ Rule("inspection_unsafe_value") /\ UNCHANGED <<path, look>>
              \/ /\ here.turn <= Len(children) /\ ~odd
                 /\ look' = <<children[here.turn]>>
                 /\ path' = [path EXCEPT ![Len(path)].turn = @ + 1] /\ UNCHANGED verdict
              \/ /\ here.turn > Len(children)
                 /\ path' = Front(path) /\ UNCHANGED <<look, verdict>>
  /\ UNCHANGED <<value, budget, atStart, round>>

\* Another stage, the same guard.
Again ==
  /\ verdict # "none" /\ round < Rounds /\ round' = round + 1
  /\ value' \in Values /\ path' = <<>> /\ look' = <<Root>> /\ budget' = 0 /\ verdict' = "none"
  /\ UNCHANGED atStart

Next == Look \/ Step \/ Again

Spec == Init /\ [][Next]_vars

-------------------------------------------------------------------------------

\* What a node leads to: in every set that holds its children and theirs.
Leads(n) ==
  {m \in Nodes : \A S \in SUBSET Nodes :
     Range(value[n].children) \subseteq S /\ (\A k \in S : Range(value[k].children) \subseteq S) => m \in S}
Reached == {Root} \cup Leads(Root)

\* An input that passes has no text that matches, key or value, at any depth,
\* whatever the guard inspected before, and nothing that could not be looked
\* at: it is cleared only when all of it was seen.
CleanIsClean ==
  verdict = "clean" =>
    \A n \in Reached : ~value[n].odd /\ n \notin Leads(n) /\ ~(value[n].text /\ (value[n].matches \/ value[n].long))

\* What is refused has a reason in the input: a text found is there, a cycle
\* is one, and not an object met twice.
RefusalsAreTrue ==
  /\ verdict = "sensitive_data_detected" => \E n \in Reached : value[n].text /\ value[n].matches
  /\ verdict = "inspection_cycle_detected" => \E n \in Reached : n \in Leads(n)
  /\ verdict = "inspection_unsafe_value" => \E n \in Reached : value[n].odd
===============================================================================
