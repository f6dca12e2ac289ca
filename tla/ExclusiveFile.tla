---------------------------- MODULE ExclusiveFile ----------------------------
(***************************************************************************)
(* The creation of one private file that must not exist yet: a challenge   *)
(* (adapters/file-capability-snapshot-challenge.ts,                        *)
(* issueCapabilitySnapshotChallengeFile) or execution placement evidence   *)
(* (adapters/execution-placement-evidence-file.ts).  Open exclusively,     *)
(* write, sync, close: each an awaited call that may fail, in processes    *)
(* that may die, beside others who use the same path as they like.         *)
(*                                                                         *)
(* A file is named by who created it.  The file system makes an exclusive  *)
(* open one step; a file that is synced survives a loss of power, its      *)
(* entry in the directory, which nobody syncs here, perhaps not.           *)
(***************************************************************************)
EXTENDS Naturals

CONSTANTS
  Writers,
  Evidence,     \* the writers of evidence, the others write challenges
  Foreign,      \* a file of somebody else
  Nothing,      \* no entry
  MaxMeddling   \* how often others change the entry

WriterAssumption ==
  /\ Evidence \subseteq Writers /\ Foreign \notin Writers
  /\ Nothing \notin Writers \cup {Foreign} /\ MaxMeddling \in Nat

VARIABLES
  step,      \* where each writer is
  failure,   \* whether something failed after its open
  answer,    \* what its caller was told
  entry,     \* the file at the path
  content,   \* of each writer's file
  synced,    \* the files that are on disk as they are
  meddling

vars == <<step, failure, answer, entry, content, synced, meddling>>

Steps == {"open", "write", "finish", "sync", "close", "over", "dead"}

TypeOK ==
  /\ step \in [Writers -> Steps] /\ failure \in [Writers -> BOOLEAN]
  /\ answer \in [Writers -> {"none", "created", "exists", "failed"}]
  /\ entry \in Writers \cup {Foreign, Nothing}
  /\ content \in [Writers -> {"absent", "empty", "part", "whole"}]
  /\ synced \subseteq Writers /\ meddling \in 0..MaxMeddling
  /\ \A w \in Writers :
       /\ failure[w] => step[w] \in {"close", "over", "dead"}
       /\ answer[w] # "none" => step[w] \in {"over", "dead"}
       /\ w \in synced => content[w] = "whole"

Init ==
  /\ step = [w \in Writers |-> "open"] /\ failure = [w \in Writers |-> FALSE]
  /\ answer = [w \in Writers |-> "none"] /\ entry \in {Foreign, Nothing}
  /\ content = [w \in Writers |-> "absent"] /\ synced = {} /\ meddling = 0

Go(w, next) == step' = [step EXCEPT ![w] = next]
Tell(w, what) == answer' = [answer EXCEPT ![w] = what]
Fill(w, how) == content' = [content EXCEPT ![w] = how]

\* O_CREAT and O_EXCL, "wx".
Open(w) ==
  /\ step[w] = "open"
  /\ \/ /\ entry = Nothing /\ Go(w, "write") /\ entry' = w /\ Fill(w, "empty")
        /\ UNCHANGED answer
     \/ /\ entry # Nothing /\ Go(w, "over") /\ Tell(w, "exists")
        /\ UNCHANGED <<entry, content>>
     \/ /\ Go(w, "over") /\ Tell(w, "failed")
        /\ UNCHANGED <<entry, content>>
  /\ UNCHANGED <<failure, synced, meddling>>

\* After a failure only the close is left; nothing is unlinked by name.
Break(w) == Go(w, "close") /\ failure' = [failure EXCEPT ![w] = TRUE]

\* Some of the bytes, then all of them, or an error.
Write(w) ==
  /\ step[w] \in {"write", "finish"}
  /\ \/ step[w] = "write" /\ Go(w, "finish") /\ Fill(w, "part") /\ UNCHANGED failure
     \/ step[w] = "finish" /\ Go(w, "sync") /\ Fill(w, "whole") /\ UNCHANGED failure
     \/ Break(w) /\ UNCHANGED content
  /\ UNCHANGED <<answer, entry, synced, meddling>>

Sync(w) ==
  /\ step[w] = "sync"
  /\ \/ Go(w, "close") /\ synced' = synced \cup {w} /\ UNCHANGED failure
     \/ Break(w) /\ UNCHANGED synced
  /\ UNCHANGED <<answer, entry, content, meddling>>

\* Faulty: the file of a failed writer is removed, by its name.
CloseAndUnlink(w) ==
  /\ step[w] = "close" /\ Go(w, "over")
  /\ \/ ~failure[w] /\ Tell(w, "created") /\ UNCHANGED entry
     \/ failure[w] /\ Tell(w, "failed") /\ entry' = Nothing
  /\ UNCHANGED <<failure, content, synced, meddling>>

\* A close that fails is a failure for evidence; a challenge is synced by then,
\* and its writer does not look.
Close(w) ==
  /\ step[w] = "close" /\ Go(w, "over")
  /\ \/ ~failure[w] /\ Tell(w, "created")
     \/ (failure[w] \/ w \in Evidence) /\ Tell(w, "failed")
  /\ UNCHANGED <<failure, entry, content, synced, meddling>>

-------------------------------------------------------------------------------
(* What may happen besides.                                                  *)

Dies(w) ==
  /\ step[w] \notin {"over", "dead"} /\ Go(w, "dead")
  /\ UNCHANGED <<failure, answer, entry, content, synced, meddling>>

\* Others remove, rename or replace what is at the path.
Meddle ==
  /\ meddling < MaxMeddling /\ meddling' = meddling + 1
  /\ entry' \in {Foreign, Nothing} \ {entry}
  /\ UNCHANGED <<step, failure, answer, content, synced>>

\* All processes die. A file not synced may hold less than was written; an
\* entry may be forgotten.
PowerLoss ==
  /\ \E w \in Writers : step[w] \notin {"open", "dead"}
  /\ step' = [w \in Writers |-> "dead"]
  /\ \E lost \in SUBSET {w \in Writers \ synced : content[w] # "absent"} :
       content' = [w \in Writers |-> IF w \in lost THEN "empty" ELSE content[w]]
  /\ entry' \in {entry} \cup (IF entry \in Writers THEN {Nothing} ELSE {})
  /\ UNCHANGED <<failure, answer, synced, meddling>>

WriterStep(w) == Open(w) \/ Write(w) \/ Sync(w) \/ Close(w)

Next == (\E w \in Writers : WriterStep(w) \/ Dies(w)) \/ Meddle \/ PowerLoss

Spec == Init /\ [][Next]_vars

-------------------------------------------------------------------------------

\* A file whose creation was confirmed holds all that was written, now and
\* after a loss of power; what remains of a writer that failed or died
\* was never called created (docs/adr/0007-content-free-execution-evidence.md:
\* the writer "fsyncs the file").
CreatedIsWhole == \A w \in Writers : answer[w] = "created" => content[w] = "whole"

\* No step of a writer replaces or removes what it finds at the path, and that
\* includes its own name after others have taken it: a writer only ever puts
\* its new file where nothing was ("without following or replacing a path").
NothingIsClobbered ==
  [][\A w \in Writers :
       step'[w] # step[w] /\ step'[w] # "dead" /\ entry' # entry =>
         entry = Nothing /\ entry' = w /\ content[w] = "absent"]_vars

\* Of writers for one path, at most one is told it created the file, unless
\* others removed what was there.
OneCreator ==
  meddling = 0 => \A v, w \in Writers : {answer[v], answer[w]} = {"created"} => v = w
===============================================================================
