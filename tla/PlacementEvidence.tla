-------------------------- MODULE PlacementEvidence --------------------------
(***************************************************************************)
(* Placement evidence (composition/ and domain/execution-placement-        *)
(* evidence.ts): the result of a live run, as its holder presents it, is   *)
(* held against its plan and sealed into a record of which target ran each *)
(* stage after which refusals.  The run itself is executePlan's loop, as   *)
(* far as it writes its trace; the holder may have edited what it presents.*)
(*                                                                         *)
(* An identifier and its digest are the same here; of the digests the      *)
(* evidence carries, only whether they go together is kept.                *)
(***************************************************************************)
EXTENDS Naturals, Sequences, SequencesExt, FiniteSetsExt

CONSTANTS
  StageIds, TargetIds,
  Plans,          \* sequences of [stage, candidates], not empty, the stages distinct
  MaxPlacements, MaxAttempts, MaxTrace,
  MaxEdits

EvidenceAssumption ==
  /\ {MaxPlacements, MaxAttempts, MaxTrace, MaxEdits} \subseteq Nat
  /\ Plans \subseteq Seq([stage : StageIds, candidates : Seq(TargetIds) \ {<<>>}]) \ {<<>>}
  /\ \A p \in Plans : \A i, j \in DOMAIN p : p[i].stage = p[j].stage => i = j

VARIABLES
  plan,
  at,        \* "running", "returned", "failed", "sealed", "refused"
  turn, try, \* the stage at work and its attempt
  stages,    \* the stages done, with the target of each
  trace,     \* the events of the run
  together,  \* whether the presented digests go together
  edits,     \* how often the holder has edited the result
  evidence   \* what was sealed

vars == <<plan, at, turn, try, stages, trace, together, edits, evidence>>

Nothing == [placements |-> <<>>, trace |-> <<>>]

Statuses == {"completed", "retryable_pre_output_status", "adapter_failed"}
Event == [stage : StageIds, target : TargetIds, attempt : Nat, status : Statuses]

TypeOK ==
  /\ plan \in Plans /\ at \in {"running", "returned", "failed", "sealed", "refused"}
  /\ turn \in 1..(Len(plan) + 1) /\ edits \in 0..MaxEdits
  /\ at = "running" => try \in DOMAIN plan[turn].candidates
  /\ trace \in Seq(Event) /\ stages \in Seq([stage : StageIds, target : TargetIds])
  /\ (at = "sealed") <=> (evidence # Nothing)

-------------------------------------------------------------------------------
(* The run.                                                                  *)

Init ==
  /\ plan \in Plans /\ at = "running" /\ turn = 1 /\ try = 1 /\ stages = <<>> /\ trace = <<>>
  /\ together = TRUE /\ edits = 0 /\ evidence = Nothing

Entry(status) ==
  [stage |-> plan[turn].stage, target |-> plan[turn].candidates[try], attempt |-> try, status |-> status]

Complete ==
  /\ at = "running" /\ trace' = Append(trace, Entry("completed"))
  /\ stages' = Append(stages, [stage |-> plan[turn].stage, target |-> plan[turn].candidates[try]])
  /\ turn' = turn + 1 /\ try' = 1 /\ at' = IF turn = Len(plan) THEN "returned" ELSE "running"
  /\ UNCHANGED <<plan, together, edits, evidence>>

\* The last candidate's refusal ends the run, with the same reason in its trace.
Refusal ==
  /\ at = "running" /\ trace' = Append(trace, Entry("retryable_pre_output_status"))
  /\ \/ try < Len(plan[turn].candidates) /\ try' = try + 1 /\ UNCHANGED at
     \/ try = Len(plan[turn].candidates) /\ at' = "failed" /\ UNCHANGED try
  /\ UNCHANGED <<plan, turn, stages, together, edits, evidence>>

Failure ==
  /\ at = "running" /\ trace' = Append(trace, Entry("adapter_failed")) /\ at' = "failed"
  /\ UNCHANGED <<plan, turn, try, stages, together, edits, evidence>>

-------------------------------------------------------------------------------
(* The holder of the result edits it.                                        *)

Edit ==
  /\ at = "returned" /\ edits < MaxEdits /\ edits' = edits + 1
  /\ \/ \E i \in DOMAIN trace : trace' = RemoveAt(trace, i) /\ UNCHANGED <<stages, together>>
     \/ \E i, j \in DOMAIN trace : trace' = InsertAt(trace, j, trace[i]) /\ UNCHANGED <<stages, together>>
     \/ \E i \in DOMAIN trace, t \in TargetIds, n \in 1..2 :
          /\ trace' = [trace EXCEPT ![i].target = t, ![i].attempt = n] /\ UNCHANGED <<stages, together>>
     \/ \E i \in DOMAIN trace, s \in Statuses :
          /\ trace' = [trace EXCEPT ![i].status = s] /\ UNCHANGED <<stages, together>>
     \/ \E i \in DOMAIN stages, t \in TargetIds :
          /\ stages' = [stages EXCEPT ![i].target = t] /\ UNCHANGED <<trace, together>>
     \/ \E i \in DOMAIN stages : stages' = RemoveAt(stages, i) /\ UNCHANGED <<trace, together>>
     \/ together' = FALSE /\ UNCHANGED <<stages, trace>>
  /\ UNCHANGED <<plan, at, turn, try, evidence>>

-------------------------------------------------------------------------------
(* The evidence.                                                             *)

\* assertLiveResultCoherence: every event is of a stage of the plan, on the
\* candidate its attempt number stands for.
Coherent ==
  /\ together
  /\ Len(stages) = Len(plan) /\ \A i \in DOMAIN stages : stages[i].stage = plan[i].stage
  /\ \A k \in DOMAIN trace : \E i \in DOMAIN plan :
       /\ plan[i].stage = trace[k].stage /\ trace[k].attempt \in DOMAIN plan[i].candidates
       /\ plan[i].candidates[trace[k].attempt] = trace[k].target

\* placementEvidence: the events that completed a stage where it is said to
\* have been done. There must be one of each.
Completed(i) ==
  {k \in DOMAIN trace : /\ trace[k].stage = stages[i].stage /\ trace[k].target = stages[i].target
                        /\ trace[k].status = "completed"}

Placements == [i \in DOMAIN stages |-> trace[Max(Completed(i))]]

\* The events before the k-th: the completions, and the attempts of its stage.
CompletedBefore(k) == {j \in 1..(k - 1) : trace[j].status = "completed"}
AttemptsBefore(k) == {j \in 1..(k - 1) : trace[j].stage = trace[k].stage}

\* Faulty: attempts must begin with the first one.
InTurnOnce(k) ==
  AttemptsBefore(k) = {} => trace[k].attempt = 1

\* validateEvidenceContent, of one event: its stage is the one after those
\* completed so far (so that none continues after it is complete), and its
\* attempt the one after those of its stage.
InTurn(k) ==
  /\ \E i \in DOMAIN stages :
       /\ stages[i].stage = trace[k].stage
       /\ i = 1 + Cardinality(CompletedBefore(k))
  /\ trace[k].attempt = 1 + Cardinality(AttemptsBefore(k))

\* The schema's limits, and its agreement of placements and trace.
Valid ==
  /\ Len(stages) \in 1..MaxPlacements /\ Len(trace) \in 1..MaxTrace
  /\ \A k \in DOMAIN trace : /\ trace[k].status # "adapter_failed" /\ trace[k].attempt \in 1..MaxAttempts
                             /\ InTurn(k)
  /\ \A i, j \in DOMAIN stages : stages[i].stage = stages[j].stage => i = j

Projectable == Coherent /\ (\A i \in DOMAIN stages : Cardinality(Completed(i)) = 1) /\ Valid

\* createExecutionPlacementEvidence of a run that returned
Create ==
  /\ at = "returned"
  /\ \/ Projectable /\ at' = "sealed" /\ evidence' = [placements |-> Placements, trace |-> trace]
     \/ ~Projectable /\ at' = "refused" /\ UNCHANGED evidence
  /\ UNCHANGED <<plan, turn, try, stages, trace, together, edits>>

Next == Complete \/ Refusal \/ Failure \/ Edit \/ Create

Spec == Init /\ [][Next]_vars

-------------------------------------------------------------------------------

\* The trace says, from its event from + 1 to its event to, that stage s was done
\* by one of its candidates, after the refusals of those before it.
TellsOf(events, s, from, to) ==
  /\ to - from \in DOMAIN s.candidates
  /\ \A n \in 1..(to - from) :
       events[from + n] =
         [stage |-> s.stage, target |-> s.candidates[n], attempt |-> n,
          status |-> IF n = to - from THEN "completed" ELSE "retryable_pre_output_status"]

\* Evidence that was sealed tells of a run the executor can have made of this
\* very plan: each stage once, in order, after refusals of all its candidates
\* that come first and of no other, and of nothing besides, whatever the holder
\* did to the result (docs/delivery-contract-v0.7-execution-evidence.md, EP3:
\* digests "agree with one coherent successful live result").
SealedIsARun ==
  at = "sealed" =>
    /\ together
    /\ \E ends \in [0..Len(plan) -> 0..Len(evidence.trace)] :
         /\ ends[0] = 0 /\ ends[Len(plan)] = Len(evidence.trace)
         /\ \A i \in DOMAIN plan :
              /\ TellsOf(evidence.trace, plan[i], ends[i - 1], ends[i])
              /\ evidence.placements[i] = evidence.trace[ends[i]]
              /\ evidence.placements[i].target = stages[i].target

\* The result of a run that succeeded is not refused, with whatever fallbacks
\* it took, if nobody edited it and it is within the schema's limits.
HonestIsSealed ==
  at = "refused" /\ edits = 0 => Len(plan) > MaxPlacements \/ Len(trace) > MaxTrace \/ \E k \in DOMAIN trace : trace[k].attempt > MaxAttempts
===============================================================================
