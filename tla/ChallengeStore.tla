---------------------------- MODULE ChallengeStore ----------------------------
(***************************************************************************)
(* The file challenge consumer                                             *)
(* (adapters/file-capability-snapshot-challenge.ts, consume): a challenge  *)
(* is consumed by creating an exclusive marker file, named by its digest,  *)
(* in a private store directory.  Calls run concurrently in one or several *)
(* processes; each awaited file-system call is one step, so calls          *)
(* interleave between any two of them, and may fail or die there.          *)
(*                                                                         *)
(* The disk is modelled by the fate of directory entries under power loss: *)
(* an entry is "volatile" from its creation to the fsync of the directory  *)
(* that holds it, and a power loss keeps or drops each volatile entry.     *)
(* The bytes of a marker are abstracted: exclusion reads only the entry.   *)
(***************************************************************************)
CONSTANTS
  Consumers,          \* consume() calls, of any number of processes
  Challenges,         \* challenge digests
  ChallengeOf,        \* the challenge each call presents
  DirectoryFsync,     \* FALSE on Windows, where syncDirectory returns at once
  PowerLossPossible   \* whether the environment may lose power

ASSUME ConstantsAssumption ==
  /\ ChallengeOf \in [Consumers -> Challenges]
  /\ DirectoryFsync \in BOOLEAN
  /\ PowerLossPossible \in BOOLEAN

VARIABLES
  step,     \* where each call stands, and how it ended
  store,    \* the store directory's entry in its parent directory
  marker    \* each challenge's marker entry in the store directory

vars == <<step, store, marker>>

ActiveSteps == {"inspect", "syncParent", "open", "write", "syncStore"}
Outcomes == {"admitted", "refused", "failed", "crashed"}
Steps == {"idle"} \cup ActiveSteps \cup Outcomes

Entries == {"absent", "volatile", "durable"}

TypeOK ==
  /\ step \in [Consumers -> Steps]
  /\ store \in Entries \cup {"unfit"}
  /\ marker \in [Challenges -> Entries]

-------------------------------------------------------------------------------

\* The store may be missing, prepared by the operator, or "unfit": a symbolic
\* link, a plain file or a directory others may enter.
Init ==
  /\ step = [c \in Consumers |-> "idle"]
  /\ store \in {"absent", "durable", "unfit"}
  /\ marker = [ch \in Challenges |-> "absent"]

Go(c, from, to) ==
  /\ step[c] = from
  /\ step' = [step EXCEPT ![c] = to]

\* What syncing the directory that holds an entry does to the entry.
Synced(entry) ==
  IF DirectoryFsync /\ entry = "volatile" THEN "durable" ELSE entry

\* What a power loss may leave of an entry.
Survivors(entry) ==
  IF entry = "volatile" THEN {"absent", "durable"} ELSE {entry}

\* Faulty: a call that finds the store there trusts it to be on disk.
MakeStoreOnce(c) ==
  /\ Go(c, "idle", IF store = "absent" THEN "inspect" ELSE "open")
  /\ store' = IF store = "absent" THEN "volatile" ELSE store
  /\ UNCHANGED marker

\* mkdir: creates the store, or finds something of that name (EEXIST, ignored).
MakeStore(c) ==
  /\ Go(c, "idle", "inspect")
  /\ store' = IF store = "absent" THEN "volatile" ELSE store
  /\ UNCHANGED marker

\* lstat: anything but a private directory fails the call.
InspectStore(c) ==
  /\ Go(c, "inspect", IF store = "unfit" THEN "failed" ELSE "syncParent")
  /\ UNCHANGED <<store, marker>>

\* fsync of the parent, on every call and not only on the one that created the
\* store.
SyncParent(c) ==
  /\ Go(c, "syncParent", "open")
  /\ store' = Synced(store)
  /\ UNCHANGED marker

\* open(marker, "wx") finds the marker of an earlier call: EEXIST, the answer
\* is false.
OpenRefused(c) ==
  /\ marker[ChallengeOf[c]] # "absent"
  /\ Go(c, "open", "refused")
  /\ UNCHANGED <<store, marker>>

\* Faulty: open(marker, "w"), which overwrites.
OpenMarkerOverwriting(c) ==
  /\ Go(c, "open", "write")
  /\ marker' = [marker EXCEPT ![ChallengeOf[c]] = "volatile"]
  /\ UNCHANGED store

\* open(marker, "wx") creates the marker.
OpenMarker(c) ==
  /\ marker[ChallengeOf[c]] = "absent"
  /\ Go(c, "open", "write")
  /\ marker' = [marker EXCEPT ![ChallengeOf[c]] = "volatile"]
  /\ UNCHANGED store

\* Faulty: when the bytes cannot be written, the call starts over with open.
WriteMarkerAgain(c) ==
  /\ Go(c, "write", "syncStore") \/ Go(c, "write", "open")
  /\ UNCHANGED <<store, marker>>

\* writeFile, file.sync and close: the marker's own bytes.
WriteMarker(c) ==
  /\ Go(c, "write", "syncStore")
  /\ UNCHANGED <<store, marker>>

\* fsync of the store directory, which holds every marker's entry; only then
\* does consume return true.
SyncStore(c) ==
  /\ Go(c, "syncStore", "admitted")
  /\ marker' = [ch \in Challenges |-> Synced(marker[ch])]
  /\ UNCHANGED store

\* Any of the calls above may be rejected by the file system: consume throws
\* challenge_consume_failed and leaves behind whatever it has created.
IOError(c) ==
  /\ step[c] \in ActiveSteps
  /\ step' = [step EXCEPT ![c] = "failed"]
  /\ UNCHANGED <<store, marker>>

\* The process of one call dies between two steps; the kernel keeps the files.
Crash(c) ==
  /\ step[c] \in ActiveSteps
  /\ step' = [step EXCEPT ![c] = "crashed"]
  /\ UNCHANGED <<store, marker>>

\* The host loses power: every call in progress dies and volatile entries may
\* vanish, the markers with their directory.
PowerLoss ==
  /\ PowerLossPossible
  /\ \E c \in Consumers : step[c] \in ActiveSteps
  /\ step' = [c \in Consumers |->
                IF step[c] \in ActiveSteps THEN "crashed" ELSE step[c]]
  /\ store' \in Survivors(store)
  /\ marker' \in [Challenges -> {"absent", "durable"}]
  /\ \A ch \in Challenges :
       IF store' = "absent"
         THEN marker'[ch] = "absent"
         ELSE marker'[ch] \in Survivors(marker[ch])

ConsumeStep(c) ==
  \/ MakeStore(c)
  \/ InspectStore(c)
  \/ SyncParent(c)
  \/ OpenRefused(c)
  \/ OpenMarker(c)
  \/ WriteMarker(c)
  \/ SyncStore(c)

Next ==
  \/ \E c \in Consumers : ConsumeStep(c) \/ IOError(c) \/ Crash(c)
  \/ PowerLoss

Spec == Init /\ [][Next]_vars

\* A call that has started is driven by its process: each awaited file-system
\* call settles, or the process dies.  Nobody is obliged to start one.
FairSpec ==
  Spec /\ \A c \in Consumers : WF_vars(step[c] \in ActiveSteps /\ ConsumeStep(c))

-------------------------------------------------------------------------------

Admitted == {c \in Consumers : step[c] = "admitted"}

\* One challenge admits one call, even when the host lost power and the calls
\* were retried in between (file-capability-snapshot-challenge.ts, consume).
SingleAdmission ==
  \A c, d \in Admitted : ChallengeOf[c] = ChallengeOf[d] => c = d

\* An admission outlives the next power loss: when consume has returned true,
\* the marker and the directory that holds it are on disk.
AdmissionIsDurable ==
  DirectoryFsync =>
    \A c \in Admitted :
      store = "durable" /\ marker[ChallengeOf[c]] = "durable"

\* Past open(marker, "wx"): the call holds, or gave up holding, the marker.
Opened(c) == step[c] \in {"write", "syncStore", "admitted"}

\* Another call presented the challenge that c presents, and created the marker
\* or may have.
HasARival(c) ==
  \E d \in Consumers \ {c} :
    /\ ChallengeOf[d] = ChallengeOf[c]
    /\ Opened(d) \/ step[d] \in {"failed", "crashed"}

\* A challenge is never lost to nobody: a call is refused only when another
\* call for the same challenge went as far as creating the marker, so that if
\* none of them failed or died, one of them was or will be admitted.
RefusedForARival == \A c \in Consumers : step[c] = "refused" => HasARival(c)

\* A challenge that is presented gets used: one of the calls presenting it is
\* admitted, unless one of them failed or died.  The calls cannot all be
\* refused on account of one another, nor wait for each other.
SomeoneIsAdmitted ==
  \A ch \in Challenges :
    (\E c \in Consumers : ChallengeOf[c] = ch /\ step[c] \in ActiveSteps)
      ~> (\E c \in Consumers :
            ChallengeOf[c] = ch /\ step[c] \in {"admitted", "failed", "crashed"})

\* No challenge is lost to nobody: no call is refused for want of a rival, and
\* of the calls that present a challenge one is admitted if none breaks down.
NeverLostToNobody ==
  /\ \A c \in Consumers : [](step[c] = "refused" => HasARival(c))
  /\ SomeoneIsAdmitted

\* The consumer port's contract, with the calls answered true as its state.
Port == INSTANCE SingleUse WITH admitted <- Admitted
PortSpec == Port!Spec
==============================================================================
