------------------------- MODULE ChallengeStoreProofs -------------------------
(***************************************************************************)
(* Proofs about the file challenge consumer, for any number of calls and   *)
(* challenges.  Exclusion needs a disk that keeps the markers it reported  *)
(* as synced: either directories can be synced, or power is never lost.    *)
(***************************************************************************)
EXTENDS ChallengeStore, TLAPS

Durability == DirectoryFsync \/ ~PowerLossPossible

\* The calls that own the marker of their challenge.
Owns(c) == step[c] \in {"write", "syncStore", "admitted"}

\* A call that went past mkdir runs in a store that exists, and one that went
\* past the parent's fsync in a store whose entry is on disk.
StoreInv ==
  \A c \in Consumers :
    /\ step[c] = "inspect" => store # "absent"
    /\ step[c] \in {"syncParent", "open", "write", "syncStore", "admitted"}
         => store \in {"volatile", "durable"}
    /\ DirectoryFsync /\ step[c] \in {"open", "write", "syncStore", "admitted"}
         => store = "durable"

\* The marker of an owned challenge exists, and is on disk once consume has
\* returned true.
MarkerInv ==
  \A c \in Consumers :
    /\ Owns(c) => marker[ChallengeOf[c]] # "absent"
    /\ DirectoryFsync /\ step[c] = "admitted"
         => marker[ChallengeOf[c]] = "durable"

\* No two calls own the marker of one challenge.
OwnerInv ==
  \A c, d \in Consumers :
    Owns(c) /\ Owns(d) /\ ChallengeOf[c] = ChallengeOf[d] => c = d

IInv == TypeOK /\ StoreInv /\ MarkerInv /\ OwnerInv

-------------------------------------------------------------------------------

\* Every variable keeps its type: the bookkeeping the other proofs start from.
THEOREM TypeCorrect == Spec => []TypeOK
<1> USE ConstantsAssumption
<1>1. Init => TypeOK
  BY DEF Init, TypeOK, Steps, Entries
<1>2. TypeOK /\ [Next]_vars => TypeOK'
  <2> SUFFICES ASSUME TypeOK, [Next]_vars
               PROVE  TypeOK'
    OBVIOUS
  <2> USE DEF TypeOK, Steps, ActiveSteps, Outcomes, Entries, Go, Synced, Survivors
  <2>1. ASSUME NEW c \in Consumers, ConsumeStep(c)
        PROVE  TypeOK'
    BY <2>1 DEF ConsumeStep, MakeStore, InspectStore, SyncParent, OpenRefused,
                OpenMarker, WriteMarker, SyncStore
  <2>2. ASSUME NEW c \in Consumers, IOError(c) \/ Crash(c)
        PROVE  TypeOK'
    BY <2>2 DEF IOError, Crash
  <2>3. CASE PowerLoss
    BY <2>3 DEF PowerLoss
  <2>4. CASE UNCHANGED vars
    BY <2>4 DEF vars
  <2>5. QED
    BY <2>1, <2>2, <2>3, <2>4 DEF Next
<1>3. QED
  BY <1>1, <1>2, PTL DEF Spec

\* The inductive step, one action at a time.
LEMMA InvariantStep ==
  ASSUME Durability, IInv, TypeOK', [Next]_vars
  PROVE  IInv'
<1> USE ConstantsAssumption
<1> USE DEF TypeOK, StoreInv, MarkerInv, OwnerInv, Owns, Entries, Steps,
            ActiveSteps, Outcomes, Go
<1>1. ASSUME NEW c \in Consumers, MakeStore(c)
      PROVE  IInv'
  BY <1>1 DEF MakeStore, IInv
<1>2. ASSUME NEW c \in Consumers, InspectStore(c)
      PROVE  IInv'
  BY <1>2 DEF InspectStore, IInv
<1>3. ASSUME NEW c \in Consumers, SyncParent(c)
      PROVE  IInv'
  BY <1>3 DEF SyncParent, Synced, IInv
<1>4. ASSUME NEW c \in Consumers, OpenRefused(c)
      PROVE  IInv'
  BY <1>4 DEF OpenRefused, IInv
<1>5. ASSUME NEW c \in Consumers, OpenMarker(c)
      PROVE  IInv'
  BY <1>5 DEF OpenMarker, IInv
<1>6. ASSUME NEW c \in Consumers, WriteMarker(c)
      PROVE  IInv'
  BY <1>6 DEF WriteMarker, IInv
<1>7. ASSUME NEW c \in Consumers, SyncStore(c)
      PROVE  IInv'
  BY <1>7 DEF SyncStore, Synced, IInv
<1>8. ASSUME NEW c \in Consumers, IOError(c) \/ Crash(c)
      PROVE  IInv'
  BY <1>8 DEF IOError, Crash, IInv
<1>9. CASE PowerLoss
  BY <1>9 DEF PowerLoss, Survivors, Durability, IInv
<1>10. CASE UNCHANGED vars
  BY <1>10 DEF vars, IInv
<1>11. QED
  BY <1>1, <1>2, <1>3, <1>4, <1>5, <1>6, <1>7, <1>8, <1>9, <1>10
     DEF Next, ConsumeStep

\* The inductive invariant holds throughout.
THEOREM Invariance ==
  ASSUME Durability
  PROVE  Spec => []IInv
<1>1. Init => IInv
  BY ConstantsAssumption
     DEF Init, IInv, TypeOK, StoreInv, MarkerInv, OwnerInv, Owns, Steps, Entries
<1>2. IInv /\ TypeOK' /\ [Next]_vars => IInv'
  BY InvariantStep
<1>3. QED
  BY <1>1, <1>2, TypeCorrect, PTL DEF Spec

\* At most one consume() call is answered true for each challenge, across
\* races, I/O errors, crashes and power losses.
THEOREM SingleAdmissionHolds ==
  ASSUME Durability
  PROVE  Spec => []SingleAdmission
<1>1. IInv => SingleAdmission
  BY DEF IInv, OwnerInv, Owns, SingleAdmission, Admitted
<1>2. QED
  BY <1>1, Invariance, PTL

\* When consume() has returned true on a platform that syncs directories, the
\* marker survives any later power loss.
THEOREM AdmissionIsDurableHolds ==
  ASSUME Durability
  PROVE  Spec => []AdmissionIsDurable
<1>1. IInv => AdmissionIsDurable
  BY DEF IInv, StoreInv, MarkerInv, AdmissionIsDurable, Admitted
<1>2. QED
  BY <1>1, Invariance, PTL

\* The file consumer implements the consumer port: a step is an abstract
\* admission or leaves the admitted calls as they were.
THEOREM ImplementsPort ==
  ASSUME Durability
  PROVE  Spec => PortSpec
<1>1. Init => Port!Init
  BY DEF Init, Port!Init, Admitted
<1>2. IInv /\ IInv' /\ [Next]_vars => [Port!Next]_Admitted
  <2> SUFFICES ASSUME IInv, IInv', [Next]_vars
               PROVE  [Port!Next]_Admitted
    OBVIOUS
  <2> USE DEF IInv, TypeOK, Admitted, ActiveSteps, Outcomes, Steps, Go
  <2>1. ASSUME NEW c \in Consumers, SyncStore(c)
        PROVE  Port!Admit(c)
    <3>1. c \notin Admitted /\ Admitted' = Admitted \cup {c}
      BY <2>1 DEF SyncStore
    <3>2. \A d \in Admitted : ChallengeOf[d] # ChallengeOf[c]
      BY <2>1 DEF SyncStore, OwnerInv, Owns
    <3>3. QED
      BY <3>1, <3>2 DEF Port!Admit
  <2>2. ASSUME NEW c \in Consumers,
               \/ MakeStore(c) \/ InspectStore(c) \/ SyncParent(c)
               \/ OpenRefused(c) \/ OpenMarker(c) \/ WriteMarker(c)
               \/ IOError(c) \/ Crash(c)
        PROVE  UNCHANGED Admitted
    BY <2>2 DEF MakeStore, InspectStore, SyncParent, OpenRefused, OpenMarker,
                WriteMarker, IOError, Crash
  <2>3. CASE PowerLoss
    BY <2>3 DEF PowerLoss
  <2>4. CASE UNCHANGED vars
    BY <2>4 DEF vars
  <2>5. QED
    BY <2>1, <2>2, <2>3, <2>4 DEF Next, ConsumeStep, Port!Next
<1>3. QED
  BY <1>1, <1>2, Invariance, PTL DEF Spec, PortSpec, Port!Spec

-------------------------------------------------------------------------------
(* Nobody is refused for want of a rival; this needs nothing of the disk. *)

\* A call that has created the marker, or may have before it broke down.
Rival(d) == Opened(d) \/ step[d] \in {"failed", "crashed"}

\* A marker that is there was created by a call that went on from there, was
\* admitted or broke down: none that created a marker is ever refused.
RivalInv ==
  \A ch \in Challenges :
    (marker[ch] # "absent" \/ \E c \in Consumers : ChallengeOf[c] = ch /\ step[c] = "refused")
      => \E d \in Consumers : ChallengeOf[d] = ch /\ Rival(d)

LEMMA RivalStep ==
  ASSUME TypeOK, RivalInv, [Next]_vars
  PROVE  RivalInv'
<1> USE ConstantsAssumption
<1> USE DEF TypeOK, Go, Rival, Opened, ActiveSteps
<1>1. \A d \in Consumers : Rival(d) => Rival(d)'
  <2>1. ASSUME NEW c \in Consumers, ConsumeStep(c) \/ IOError(c) \/ Crash(c)
        PROVE  \A d \in Consumers : Rival(d) => Rival(d)'
    BY <2>1 DEF ConsumeStep, MakeStore, InspectStore, SyncParent, OpenRefused, OpenMarker,
                WriteMarker, SyncStore, IOError, Crash
  <2>2. CASE PowerLoss
    BY <2>2 DEF PowerLoss
  <2>3. CASE UNCHANGED vars
    BY <2>3 DEF vars
  <2> QED
    BY <2>1, <2>2, <2>3 DEF Next
<1>2. ASSUME NEW ch \in Challenges, marker'[ch] # "absent"
      PROVE  marker[ch] # "absent" \/ \E d \in Consumers : ChallengeOf[d] = ch /\ Rival(d)'
  <2>1. CASE PowerLoss
    BY <1>2, <2>1 DEF PowerLoss, Survivors, Entries
  <2>2. ASSUME NEW c \in Consumers, OpenMarker(c)
        PROVE  marker[ch] # "absent" \/ \E d \in Consumers : ChallengeOf[d] = ch /\ Rival(d)'
    BY <1>2, <2>2 DEF OpenMarker, Steps, Outcomes
  <2>3. ASSUME NEW c \in Consumers, SyncStore(c)
        PROVE  marker[ch] # "absent"
    BY <1>2, <2>3 DEF SyncStore, Synced
  <2>4. CASE UNCHANGED marker
    BY <1>2, <2>4
  <2> QED
    BY <2>1, <2>2, <2>3, <2>4 DEF Next, ConsumeStep, MakeStore, InspectStore, SyncParent, OpenRefused,
       WriteMarker, IOError, Crash, vars
<1>3. ASSUME NEW c \in Consumers, step'[c] = "refused"
      PROVE  step[c] = "refused" \/ marker[ChallengeOf[c]] # "absent"
  <2>1. ASSUME NEW d \in Consumers, ConsumeStep(d) \/ IOError(d) \/ Crash(d)
        PROVE  step[c] = "refused" \/ marker[ChallengeOf[c]] # "absent"
    BY <1>3, <2>1 DEF ConsumeStep, MakeStore, InspectStore, SyncParent, OpenRefused, OpenMarker,
                WriteMarker, SyncStore, IOError, Crash
  <2>2. CASE PowerLoss \/ UNCHANGED vars
    BY <1>3, <2>2 DEF PowerLoss, vars
  <2> QED
    BY <2>1, <2>2 DEF Next
<1>4. SUFFICES ASSUME NEW ch \in Challenges,
                      marker'[ch] # "absent" \/ \E c \in Consumers : ChallengeOf[c] = ch /\ step'[c] = "refused"
               PROVE  \E d \in Consumers : ChallengeOf[d] = ch /\ Rival(d)'
  BY DEF RivalInv
<1>5. (\E d \in Consumers : ChallengeOf[d] = ch /\ Rival(d)) \/ (\E d \in Consumers : ChallengeOf[d] = ch /\ Rival(d)')
  BY <1>2, <1>3, <1>4 DEF RivalInv
<1> QED
  BY <1>1, <1>5

\* A call is refused only when another call for its challenge has created the
\* marker, or broken down: open(marker, "wx") cannot refuse a call on account of
\* one that is refused itself, nor of its own attempt (consume).
THEOREM NeverRefusedForNobody == Spec => []RefusedForARival
<1>1. Init => RivalInv
  BY DEF Init, RivalInv
<1>2. TypeOK /\ RivalInv => RefusedForARival
  BY ConstantsAssumption DEF TypeOK, RivalInv, RefusedForARival, HasARival, Rival, Opened
<1> QED
  BY <1>1, <1>2, RivalStep, TypeCorrect, PTL DEF Spec
==============================================================================
