-------------------------- MODULE WorkerSessionProofs --------------------------
(***************************************************************************)
(* Proofs about the browser worker's session, for any number of calls and  *)
(* any source of identifiers: whoever awaits, times out or is aborted in   *)
(* whatever order, answers reach the calls that asked, one initialization  *)
(* runs at a time, and no work is posted before one has succeeded.         *)
(***************************************************************************)
EXTENDS WorkerSession, TLAPS

\* A call that exchanges has an identifier of its own.
IdInv ==
  /\ \A c \in Calls :
       /\ call[c] = "idle" => id[c] = NoId
       /\ call[c] = "pending" => c \in posted
       /\ c \in posted => id[c] # NoId
  /\ \A c, d \in Calls : id[c] = id[d] /\ id[c] # NoId => c = d

AnswerInv ==
  /\ AnswersAreOwn
  /\ \A c \in Calls : call[c] = "answered" => answer[c] # NoAnswer

\* Of the ready() calls only the initializer exchanges, and it stays the
\* initializer once it has succeeded, which is what ready means.
ReadyInv ==
  /\ \A c \in ReadyCalls : call[c] \in {"pending", "answered", "failing"} => c = initializer
  /\ ready => /\ initializer \in ReadyCalls /\ call[initializer] = "ok"
              /\ answer[initializer] # NoAnswer /\ answer[initializer].good
  /\ \A c \in Invocations : c \in posted => ready

DisposedInv == disposed => Pending = {}

IInv == TypeOK /\ IdInv /\ AnswerInv /\ ReadyInv /\ DisposedInv

-------------------------------------------------------------------------------

LEMMA InitIsGood == Init => IInv
<1> SUFFICES ASSUME Init
             PROVE  IInv
  OBVIOUS
<1> USE SessionAssumption DEF Init
<1>1. TypeOK
  BY DEF TypeOK, States
<1>2. IdInv /\ AnswerInv /\ ReadyInv
  BY DEF IdInv, AnswerInv, AnswersAreOwn, ReadyInv, Invocations
<1>3. DisposedInv
  BY DEF DisposedInv
<1> QED
  BY <1>1, <1>2, <1>3 DEF IInv

\* The calls that begin an exchange.
LEMMA ExchangesKeep ==
  ASSUME IInv, NEW c \in Calls, Initialize(c) \/ Invoke(c)
  PROVE  IInv'
<1> USE SessionAssumption DEF IInv, TypeOK, States, Invocations, Initialize, Invoke, Exchange, Enter
<1>1. TypeOK'
  BY DEF FreshIds
<1>2. IdInv'
  BY DEF IdInv, FreshIds
<1>3. AnswerInv'
  BY DEF AnswerInv, AnswersAreOwn
<1>4. ReadyInv'
  BY DEF ReadyInv
<1>5. DisposedInv'
  BY DEF DisposedInv, Pending
<1> QED
  BY <1>1, <1>2, <1>3, <1>4, <1>5 DEF IInv

\* The calls that end, or share another's initialization, at once.
LEMMA AtOnceKeeps ==
  ASSUME IInv, NEW c \in Calls, ShareReadiness(c) \/ FindReady(c) \/ Refuse(c)
  PROVE  IInv'
<1>1. PICK outcome \in {"sharing", "ok", "rejected"} : EndAtOnce(c, outcome)
  BY DEF ShareReadiness, FindReady, Refuse
<1> USE <1>1, SessionAssumption DEF IInv, TypeOK, States, Invocations, EndAtOnce, Enter
<1>2. TypeOK'
  OBVIOUS
<1>3. IdInv'
  BY DEF IdInv
<1>4. AnswerInv'
  BY DEF AnswerInv, AnswersAreOwn
<1>5. ReadyInv'
  BY DEF ReadyInv
<1>6. DisposedInv'
  BY DEF DisposedInv, Pending
<1> QED
  BY <1>2, <1>3, <1>4, <1>5, <1>6 DEF IInv

\* A message settles the exchange of the very request it is about, for no two
\* calls ever had one identifier.
LEMMA MessagesKeep ==
  ASSUME IInv, NEW d \in Calls, NEW good \in BOOLEAN, Message(d, good)
  PROVE  IInv'
<1>1. d \in Pending
  BY DEF IInv, IdInv, TypeOK, Message, Pending
<1>2. /\ \/ call' = [call EXCEPT ![d] = "answered"] /\ answer' = [answer EXCEPT ![d] = [of |-> d, good |-> good]]
         \/ call' = [call EXCEPT ![d] = "failing"] /\ UNCHANGED answer
      /\ UNCHANGED <<id, initializer, ready, disposed, posted, cancelled>>
  BY DEF IInv, IdInv, TypeOK, Message, Pending
<1>3. [of |-> d, good |-> good] \in Answer /\ [of |-> d, good |-> good] # NoAnswer
  BY SessionAssumption DEF Answer
<1> USE <1>1, <1>2, <1>3, SessionAssumption DEF IInv, TypeOK, States, Invocations, Pending
<1>4. TypeOK'
  OBVIOUS
<1>5. IdInv'
  BY DEF IdInv
<1>6. AnswerInv'
  BY DEF AnswerInv, AnswersAreOwn
<1>7. ReadyInv'
  BY DEF ReadyInv
<1>8. DisposedInv'
  BY DEF DisposedInv
<1> QED
  BY <1>4, <1>5, <1>6, <1>7, <1>8 DEF IInv

LEMMA AbortsKeep ==
  ASSUME IInv, NEW c \in Calls, Abort(c)
  PROVE  IInv'
<1> USE SessionAssumption DEF IInv, TypeOK, States, Invocations, Abort
<1>1. TypeOK'
  BY DEF IdInv
<1>2. IdInv'
  BY DEF IdInv
<1>3. AnswerInv'
  BY DEF AnswerInv, AnswersAreOwn
<1>4. ReadyInv'
  BY DEF ReadyInv
<1>5. DisposedInv'
  BY DEF DisposedInv, Pending
<1> QED
  BY <1>1, <1>2, <1>3, <1>4, <1>5 DEF IInv

\* Every exchange is settled when the session is disposed of.
LEMMA DisposalKeeps ==
  ASSUME IInv, Close \/ WorkerError \/ \E c \in Calls : Timeout(c)
  PROVE  IInv'
<1>1. Dispose /\ cancelled' \subseteq posted
  BY DEF IInv, TypeOK, IdInv, Close, WorkerError, Timeout
<1> USE <1>1, SessionAssumption DEF IInv, TypeOK, States, Invocations, Dispose
<1>2. TypeOK'
  OBVIOUS
<1>3. IdInv'
  BY DEF IdInv
<1>4. AnswerInv'
  BY DEF AnswerInv, AnswersAreOwn
<1>5. ReadyInv'
  BY DEF ReadyInv
<1>6. DisposedInv'
  BY DEF DisposedInv, Pending
<1> QED
  BY <1>2, <1>3, <1>4, <1>5, <1>6 DEF IInv

\* What goes on after an exchange: the rest of invoke(), or of the
\* initialization with all that share it.
LEMMA ContinuationsKeep ==
  ASSUME IInv, NEW c \in Calls, Continue(c)
  PROVE  IInv'
<1> USE SessionAssumption DEF IInv, TypeOK, States, Invocations
<1>1. CASE EndInvocation(c)
  <2> USE <1>1 DEF EndInvocation
  <2>1. TypeOK'
    OBVIOUS
  <2>2. IdInv' /\ AnswerInv'
    BY DEF IdInv, AnswerInv, AnswersAreOwn
  <2>3. ReadyInv'
    BY DEF ReadyInv
  <2>4. DisposedInv'
    BY DEF DisposedInv, Pending
  <2> QED
    BY <2>1, <2>2, <2>3, <2>4 DEF IInv
<1>2. CASE BecomeReady(c)
  <2> USE <1>2 DEF BecomeReady, Waiting
  <2>1. TypeOK'
    OBVIOUS
  <2>2. IdInv' /\ AnswerInv'
    BY DEF IdInv, AnswerInv, AnswersAreOwn
  <2>3. ReadyInv'
    BY DEF ReadyInv, AnswerInv
  <2>4. DisposedInv'
    BY DEF DisposedInv, Pending
  <2> QED
    BY <2>1, <2>2, <2>3, <2>4 DEF IInv
<1>3. CASE FailToBecomeReady(c)
  <2> USE <1>3 DEF FailToBecomeReady, Waiting
  <2>1. TypeOK'
    OBVIOUS
  <2>2. IdInv' /\ AnswerInv'
    BY DEF IdInv, AnswerInv, AnswersAreOwn
  <2>3. ReadyInv'
    BY DEF ReadyInv
  <2>4. DisposedInv'
    BY DEF DisposedInv, Pending
  <2> QED
    BY <2>1, <2>2, <2>3, <2>4 DEF IInv
<1> QED
  BY <1>1, <1>2, <1>3 DEF Continue

LEMMA IInvHolds == Spec => []IInv
<1>1. IInv /\ [Next]_vars => IInv'
  <2>1. IInv /\ UNCHANGED vars => IInv'
    BY DEF IInv, TypeOK, IdInv, AnswerInv, AnswersAreOwn, ReadyInv, DisposedInv, Pending, vars
  <2> QED
    BY <2>1, ExchangesKeep, AtOnceKeeps, MessagesKeep, AbortsKeep, DisposalKeeps, ContinuationsKeep
    DEF Next, Begin
<1> QED
  BY InitIsGood, <1>1, PTL DEF Spec

-------------------------------------------------------------------------------

\* Every variable keeps its type, and the worker is told to abort only what it
\* was sent.
THEOREM TypeCorrect == Spec => []TypeOK
<1>1. IInv => TypeOK
  BY DEF IInv
<1> QED
  BY IInvHolds, <1>1, PTL

\* A call never gets the answer to another call's request: #usedRequestIds lets
\* no identifier come back.
THEOREM AnswersOwn == Spec => []AnswersAreOwn
<1>1. IInv => AnswersAreOwn
  BY DEF IInv, AnswerInv
<1> QED
  BY IInvHolds, <1>1, PTL

\* #readyPromise admits one initialization at a time, and none after success.
THEOREM InitializedOnce == Spec => []OneInitialization
<1>1. IInv => OneInitialization
  BY SessionAssumption DEF IInv, ReadyInv, OneInitialization, Pending
<1> QED
  BY IInvHolds, <1>1, PTL

\* No work is posted to a worker that has not named what it was bound to.
THEOREM InvokedReady == Spec => []InvokedBehindReadiness
<1>1. IInv => InvokedBehindReadiness
  BY DEF IInv, TypeOK, ReadyInv, InvokedBehindReadiness
<1> QED
  BY IInvHolds, <1>1, PTL

\* A worker that was terminated is sent nothing and heard no more.
THEOREM NothingAfter == Spec => NothingAfterDisposal
<1>1. IInv /\ [Next]_vars => [disposed => UNCHANGED <<posted, cancelled, answer>>]_vars
  <2> SUFFICES ASSUME IInv, Next, disposed
               PROVE  UNCHANGED <<posted, cancelled, answer>>
    OBVIOUS
  <2> USE DEF IInv, DisposedInv
  <2>1. ASSUME NEW c \in Calls, Begin(c) \/ Continue(c)
        PROVE  UNCHANGED <<posted, cancelled, answer>>
    BY <2>1 DEF Begin, Initialize, ShareReadiness, FindReady, Invoke, Refuse, EndAtOnce, Continue,
                EndInvocation, BecomeReady, FailToBecomeReady
  <2>2. ASSUME NEW c \in Calls, Abort(c)
        PROVE  UNCHANGED <<posted, cancelled, answer>>
    BY <2>2 DEF Abort, Pending
  <2>3. ASSUME NEW c \in Calls, Timeout(c)
        PROVE  UNCHANGED <<posted, cancelled, answer>>
    BY <2>3 DEF Timeout, Dispose
  <2>4. ASSUME NEW d \in Calls, NEW good \in BOOLEAN, Message(d, good)
        PROVE  UNCHANGED <<posted, cancelled, answer>>
    BY <2>4 DEF Message
  <2>5. CASE Close \/ WorkerError
    BY <2>5 DEF Close, WorkerError, Dispose
  <2> QED
    BY <2>1, <2>2, <2>3, <2>4, <2>5 DEF Next
<1> QED
  BY IInvHolds, <1>1, PTL DEF Spec, NothingAfterDisposal
===============================================================================
