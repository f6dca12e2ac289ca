------------------------------ MODULE SingleUse ------------------------------
(***************************************************************************)
(* What a capability-snapshot challenge consumer promises to its callers   *)
(* (ports/capability-snapshot-challenge-consumer.ts): consume() answers    *)
(* true to at most one call for each challenge, however many calls race,   *)
(* fail or are interrupted.  Only the answers "true" are observable here.  *)
(***************************************************************************)
CONSTANTS Consumers,    \* the consume() calls
          ChallengeOf   \* the challenge each of them presents

VARIABLE admitted       \* the calls answered true

Init == admitted = {}

Admit(c) ==
  /\ c \notin admitted
  /\ \A d \in admitted : ChallengeOf[d] # ChallengeOf[c]
  /\ admitted' = admitted \cup {c}

Next == \E c \in Consumers : Admit(c)

Spec == Init /\ [][Next]_admitted
==============================================================================
