-------------------------- MODULE NetRequestProofs --------------------------
(***************************************************************************)
(* Theorems about NetRequest, for any workers and any MAX_REDIRECTS.       *)
(*                                                                         *)
(* TypeOK bounds the hops, so it is inductive only together with           *)
(* RedirectsBounded.  ContextHasOwner needs nothing but types.             *)
(* ResultOfLastAnswer speaks of requests that have ended; AnswerInv says   *)
(* what their answer is on the way there.                                  *)
(***************************************************************************)
EXTENDS NetRequest, TLAPS

TypeInv == TypeOK /\ RedirectsBounded

\* Every variable has its type in every state, and the hops of a request that
\* goes on are bounded: a worker counts a redirect only in exchange, and stays on
\* the way only if it had counted at most MAX_REDIRECTS before.
LEMMA TypeInvariant == Spec => []TypeInv
<1>1. Init => TypeInv
  BY RedirectsAssumption
  DEF Init, TypeInv, TypeOK, RedirectsBounded, Targets, Statuses, Answers
<1>2. TypeInv /\ [Next]_vars => TypeInv'
  <2> SUFFICES ASSUME TypeInv, [Next]_vars
               PROVE  TypeInv'
    OBVIOUS
  <2> USE RedirectsAssumption
  <2> USE DEF TypeInv, TypeOK, RedirectsBounded
  <2>1. ASSUME NEW w \in Workers, Begin(w)
        PROVE  TypeInv'
    BY <2>1 DEF Begin, Goto, sslVars, Statuses
  <2>2. ASSUME NEW w \in Workers, Construct(w)
        PROVE  TypeInv'
    BY <2>2 DEF Construct, Goto, DefaultContext
  <2>3. ASSUME NEW w \in Workers, ConstructThrows(w)
        PROVE  TypeInv'
    BY <2>3 DEF ConstructThrows, Goto, sslVars, requestVars
  <2>4. ASSUME NEW w \in Workers, Setup(w)
        PROVE  TypeInv'
    BY <2>4 DEF Setup, SslInitSet, Goto, requestVars
  <2>5. ASSUME NEW w \in Workers, SetupThrows(w)
        PROVE  TypeInv'
    BY <2>5 DEF SetupThrows, SslInitSet, Goto, requestVars
  <2>6. ASSUME NEW w \in Workers, NoSetup(w)
        PROVE  TypeInv'
    BY <2>6 DEF NoSetup, Goto, sslVars, requestVars
  <2>7. ASSUME NEW w \in Workers, MakeSession(w)
        PROVE  TypeInv'
    BY <2>7 DEF MakeSession, DefaultContext, Goto, requestVars
  <2>8. ASSUME NEW w \in Workers, NoRedirect(w)
        PROVE  TypeInv'
    BY <2>8 DEF NoRedirect, Receive, Goto, sslVars, Answers, Contents
  <2>9. ASSUME NEW w \in Workers, BadRedirect(w)
        PROVE  TypeInv'
    BY <2>9 DEF BadRedirect, Receive, Goto, sslVars, Answers
  <2>10. ASSUME NEW w \in Workers, Redirect(w)
         PROVE  TypeInv'
    BY <2>10
    DEF Redirect, Receive, Counted, TooMany, Goto, sslVars, Answers, Targets
  <2>11. ASSUME NEW w \in Workers, Content(w)
         PROVE  TypeInv'
    BY <2>11 DEF Content, ContentStatus, Statuses, Goto, sslVars, requestVars
  <2>12. ASSUME NEW w \in Workers, Destroy(w)
         PROVE  TypeInv'
    BY <2>12 DEF Destroy, Goto, requestVars
  <2>13. ASSUME NEW w \in Workers, Catch(w)
         PROVE  TypeInv'
    BY <2>13 DEF Catch, Caught, Goto, Statuses, sslVars, requestVars
  <2>14. CASE UNCHANGED vars
    BY <2>14 DEF vars
  <2>15. QED
    BY <2>1, <2>2, <2>3, <2>4, <2>5, <2>6, <2>7, <2>8, <2>9, <2>10, <2>11,
       <2>12, <2>13, <2>14 DEF Next, Continue
<1>3. QED
  BY <1>1, <1>2, PTL DEF Spec

\* Every variable has its type in every state.
THEOREM TypeCorrect == Spec => []TypeOK
<1>1. TypeInv => TypeOK
  BY DEF TypeInv
<1>2. QED
  BY <1>1, TypeInvariant, PTL

\* Whatever hosts answer and whatever MAX_REDIRECTS is, no request is sent to more
\* than MAX_REDIRECTS + 1 places after the first.
THEOREM RedirectsCorrect == Spec => []RedirectsBounded
<1>1. TypeInv => RedirectsBounded
  BY DEF TypeInv
<1>2. QED
  BY <1>1, TypeInvariant, PTL

\* However workers interleave and whatever throws, an SSL context that a request
\* has set up has a request that will shut it down.
THEOREM OwnerCorrect == Spec => []ContextHasOwner
<1>1. Init => ContextHasOwner
  BY DEF Init, ContextHasOwner
<1>2. TypeInv /\ ContextHasOwner /\ [Next]_vars => ContextHasOwner'
  <2> SUFFICES ASSUME TypeInv, ContextHasOwner, [Next]_vars
               PROVE  ContextHasOwner'
    OBVIOUS
  <2> USE DEF TypeInv, TypeOK, ContextHasOwner, Alive
  <2>1. ASSUME NEW w \in Workers, Begin(w)
        PROVE  ContextHasOwner'
    BY <2>1 DEF Begin, Goto, sslVars
  <2>2. ASSUME NEW w \in Workers, Construct(w)
        PROVE  ContextHasOwner'
    BY <2>2 DEF Construct, Goto, DefaultContext
  <2>3. ASSUME NEW w \in Workers, ConstructThrows(w)
        PROVE  ContextHasOwner'
    BY <2>3 DEF ConstructThrows, Goto, sslVars
  <2>4. ASSUME NEW w \in Workers, Setup(w)
        PROVE  ContextHasOwner'
    BY <2>4 DEF Setup, SslInitSet, Goto
  <2>5. ASSUME NEW w \in Workers, SetupThrows(w)
        PROVE  ContextHasOwner'
    BY <2>5 DEF SetupThrows, SslInitSet, Goto
  <2>6. ASSUME NEW w \in Workers, NoSetup(w)
        PROVE  ContextHasOwner'
    BY <2>6 DEF NoSetup, Goto, sslVars
  <2>7. ASSUME NEW w \in Workers, MakeSession(w)
        PROVE  ContextHasOwner'
    BY <2>7 DEF MakeSession, DefaultContext, Goto, requestVars
  <2>8. ASSUME NEW w \in Workers, NoRedirect(w)
        PROVE  ContextHasOwner'
    BY <2>8 DEF NoRedirect, Receive, Goto, sslVars
  <2>9. ASSUME NEW w \in Workers, BadRedirect(w)
        PROVE  ContextHasOwner'
    BY <2>9 DEF BadRedirect, Receive, Goto, sslVars
  <2>10. ASSUME NEW w \in Workers, Redirect(w)
         PROVE  ContextHasOwner'
    BY <2>10 DEF Redirect, Receive, Goto, sslVars
  <2>11. ASSUME NEW w \in Workers, Content(w)
         PROVE  ContextHasOwner'
    BY <2>11 DEF Content, Goto, sslVars
  \* A destructor that leaves the context alone is not its owner's.
  <2>12. ASSUME NEW w \in Workers, Destroy(w)
         PROVE  ContextHasOwner'
    BY <2>12 DEF Destroy, Goto
  <2>13. ASSUME NEW w \in Workers, Catch(w)
         PROVE  ContextHasOwner'
    BY <2>13 DEF Catch, Caught, Goto, sslVars
  <2>14. CASE UNCHANGED vars
    BY <2>14 DEF vars
  <2>15. QED
    BY <2>1, <2>2, <2>3, <2>4, <2>5, <2>6, <2>7, <2>8, <2>9, <2>10, <2>11,
       <2>12, <2>13, <2>14 DEF Next, Continue
<1>3. QED
  BY <1>1, <1>2, TypeInvariant, PTL DEF Spec

-----------------------------------------------------------------------------
Result(w) ==
  /\ status[w] = RESULT_COMPLETE => answer[w] = "text"
  /\ status[w] = RESULT_COMPLETE_JSON => answer[w] = "json"
  /\ answer[w] \in {"text", "json"} => status[w] # RESULT_EXCEPTION_CAUGHT

AnswerInv ==
  \A w \in Workers :
    /\ pc[w] \in {"construct", "setup", "session", "exchange"} =>
         answer[w] \in {NoAnswer, "moved"}
    /\ pc[w] \in {"unwind", "catch"} => answer[w] \notin {"text", "json"}
    /\ pc[w] \in {"destroy", "idle"} => Result(w)

\* A job that ends complete has the content of the last answer, and what that
\* answer makes of its status.
THEOREM ResultCorrect == Spec => []ResultOfLastAnswer
<1> USE DEF RESULT_COMPLETE, RESULT_COMPLETE_JSON, RESULT_EXCEPTION_CAUGHT
<1>1. Init => AnswerInv
  <2> SUFFICES ASSUME Init, NEW w \in Workers
               PROVE  /\ pc[w] = "idle"
                      /\ Result(w)
    BY DEF AnswerInv
  <2>1. pc[w] = "idle" /\ status[w] = 0 /\ answer[w] = "none"
    BY DEF Init, NoAnswer
  <2>2. QED
    BY <2>1 DEF Result
<1>2. TypeInv /\ AnswerInv /\ [Next]_vars => AnswerInv'
  <2> SUFFICES ASSUME TypeInv, AnswerInv, [Next]_vars
               PROVE  AnswerInv'
    OBVIOUS
  <2> USE DEF TypeInv, TypeOK, AnswerInv, Result, NoAnswer
  <2>1. ASSUME NEW w \in Workers, Begin(w)
        PROVE  AnswerInv'
    BY <2>1 DEF Begin, Goto
  <2>2. ASSUME NEW w \in Workers, Construct(w)
        PROVE  AnswerInv'
    BY <2>2 DEF Construct, Goto
  <2>3. ASSUME NEW w \in Workers, ConstructThrows(w)
        PROVE  AnswerInv'
    BY <2>3 DEF ConstructThrows, Goto, requestVars
  <2>4. ASSUME NEW w \in Workers, Setup(w) \/ SetupThrows(w) \/ NoSetup(w)
        PROVE  AnswerInv'
    BY <2>4 DEF Setup, SetupThrows, NoSetup, Goto, requestVars
  <2>5. ASSUME NEW w \in Workers, MakeSession(w)
        PROVE  AnswerInv'
    BY <2>5 DEF MakeSession, Goto, requestVars
  <2>6. ASSUME NEW w \in Workers, NoRedirect(w)
        PROVE  AnswerInv'
    BY <2>6 DEF NoRedirect, Receive, Goto, Answers, Contents
  <2>7. ASSUME NEW w \in Workers, BadRedirect(w) \/ Redirect(w)
        PROVE  AnswerInv'
    BY <2>7 DEF BadRedirect, Redirect, Receive, Goto
  <2>8. ASSUME NEW w \in Workers, Content(w)
        PROVE  AnswerInv'
    BY <2>8 DEF Content, ContentStatus, Goto, requestVars
  <2>9. ASSUME NEW w \in Workers, Destroy(w)
        PROVE  AnswerInv'
    BY <2>9 DEF Destroy, Goto, requestVars
  <2>10. ASSUME NEW w \in Workers, Catch(w)
         PROVE  AnswerInv'
    BY <2>10 DEF Catch, Caught, Goto, requestVars
  <2>11. CASE UNCHANGED vars
    BY <2>11 DEF vars
  <2>12. QED
    BY <2>1, <2>2, <2>3, <2>4, <2>5, <2>6, <2>7, <2>8, <2>9, <2>10, <2>11
    DEF Next, Continue
<1>3. AnswerInv => ResultOfLastAnswer
  BY DEF AnswerInv, Result, ResultOfLastAnswer
<1>4. QED
  BY <1>1, <1>2, <1>3, TypeInvariant, PTL DEF Spec
-----------------------------------------------------------------------------
(* The way to the end                                                      *)

\* How one step of w changes what StepsLeft looks at: it goes on without a
\* redirect, or it starts to count, or it is redirected.
LEMMA StepOfRequest ==
  ASSUME TypeInv, NEW w \in Workers, Continue(w)
  PROVE  \/ /\ pc[w] = "construct" /\ pc'[w] = "setup" /\ redirectHops'[w] = 0
         \/ /\ pc[w] = "construct" /\ pc'[w] = "catch"
            /\ redirectHops'[w] = redirectHops[w]
         \/ /\ pc[w] # "construct" /\ redirectHops'[w] = redirectHops[w]
            /\ <<pc[w], pc'[w]>> \in
                 {<<"setup", "session">>, <<"setup", "unwind">>,
                  <<"session", "exchange">>, <<"session", "unwind">>,
                  <<"exchange", "content">>, <<"exchange", "unwind">>,
                  <<"content", "unwind">>, <<"content", "destroy">>,
                  <<"destroy", "idle">>, <<"unwind", "catch">>, <<"catch", "idle">>}
         \/ /\ pc[w] = "exchange" /\ pc'[w] \in {"setup", "unwind"}
            /\ redirectHops[w] <= MAX_REDIRECTS + 1
            /\ redirectHops'[w] = redirectHops[w] + 1
<1>. USE DEF TypeInv, TypeOK
<1>1. CASE Construct(w) \/ ConstructThrows(w)
  BY <1>1 DEF Construct, ConstructThrows, Goto, requestVars
<1>2. CASE Setup(w) \/ SetupThrows(w) \/ NoSetup(w) \/ MakeSession(w)
  BY <1>2 DEF Setup, SetupThrows, NoSetup, MakeSession, Goto, requestVars
<1>3. CASE NoRedirect(w) \/ BadRedirect(w)
  BY <1>3 DEF NoRedirect, BadRedirect, Receive, Goto
<1>4. CASE Redirect(w)
  BY <1>4 DEF Redirect, Receive, Counted, Goto, RedirectsBounded
<1>5. CASE Content(w)
  BY <1>5 DEF Content, Goto, requestVars
<1>6. CASE Destroy(w)
  BY <1>6 DEF Destroy, Goto, requestVars
<1>7. CASE Catch(w)
  BY <1>7 DEF Catch, Goto, requestVars
<1>. QED
  BY <1>1, <1>2, <1>3, <1>4, <1>5, <1>6, <1>7 DEF Continue

\* Where StepsLeft lies for a request that has not ended.
LEMMA StepsLeftRange ==
  ASSUME TypeInv, NEW w \in Workers, pc[w] # "idle"
  PROVE  StepsLeft(w) \in 1 .. MaxSteps
  BY RedirectsAssumption DEF TypeInv, TypeOK, StepsLeft, MaxSteps, Distance

\* A step of another worker leaves w where it is.
LEMMA OthersStay ==
  ASSUME TypeInv, [Next]_vars, NEW w \in Workers, pc[w] # "idle", ~Continue(w)
  PROVE  pc'[w] = pc[w] /\ redirectHops'[w] = redirectHops[w]
<1>. USE DEF TypeInv, TypeOK
<1>1. ASSUME NEW v \in Workers, Begin(v)
      PROVE  pc'[w] = pc[w] /\ redirectHops'[w] = redirectHops[w]
  BY <1>1 DEF Begin, Goto
<1>2. ASSUME NEW v \in Workers, v # w, Continue(v)
      PROVE  pc'[w] = pc[w] /\ redirectHops'[w] = redirectHops[w]
  BY <1>2 DEF Continue, Construct, ConstructThrows, Setup, SetupThrows, NoSetup,
              MakeSession, NoRedirect, BadRedirect, Redirect, Receive, Content,
              Destroy, Catch, Goto, requestVars
<1>3. CASE UNCHANGED vars
  BY <1>3 DEF vars
<1>. QED
  BY <1>1, <1>2, <1>3 DEF Next

(***************************************************************************)
(* However many redirects are allowed, wherever hosts redirect to and      *)
(* whatever throws, a request is at most MaxSteps steps from its end and   *)
(* each of its steps brings it nearer.  What is left for RequestEnds is    *)
(* that the thread takes those steps.                                      *)
(***************************************************************************)
THEOREM AdvanceCorrect == Spec => RequestAdvances
<1>1. ASSUME TypeInv, [Next]_vars, NEW w \in Workers, pc[w] # "idle"
      PROVE  /\ StepsLeft(w) \in 1 .. MaxSteps
             /\ StepsLeft(w)' <= StepsLeft(w)
             /\ Continue(w) => StepsLeft(w)' < StepsLeft(w)
  <2>1. StepsLeft(w) \in 1 .. MaxSteps
    BY <1>1, StepsLeftRange
  <2>2. MaxSteps \in Nat /\ redirectHops[w] \in 0 .. MAX_REDIRECTS + 2
    BY <1>1, RedirectsAssumption DEF MaxSteps, TypeInv, TypeOK
  <2>3. ASSUME ~Continue(w)
        PROVE  StepsLeft(w)' = StepsLeft(w)
    BY <1>1, <2>3, OthersStay DEF StepsLeft
  <2>4. ASSUME Continue(w)
        PROVE  StepsLeft(w)' < StepsLeft(w)
    BY <1>1, <2>2, <2>4, StepOfRequest, RedirectsAssumption
       DEF StepsLeft, MaxSteps, Distance
  <2>5. StepsLeft(w)' <= StepsLeft(w)
    <3>1. CASE Continue(w)
      BY <1>1, <2>2, <3>1, StepOfRequest, RedirectsAssumption
         DEF StepsLeft, MaxSteps, Distance
    <3>. QED
      BY <2>1, <2>2, <2>3, <3>1
  <2>. QED
    BY <2>1, <2>4, <2>5
<1>2. TypeInv /\ [Next]_vars =>
        [\A w \in Workers : pc[w] # "idle" =>
           /\ StepsLeft(w) \in 1 .. MaxSteps
           /\ StepsLeft(w)' <= StepsLeft(w)
           /\ Continue(w) => StepsLeft(w)' < StepsLeft(w)]_vars
  BY <1>1
<1>. QED
  BY <1>2, TypeInvariant, PTL DEF Spec, RequestAdvances

-----------------------------------------------------------------------------
(* One Execute                                                             *)

\* The result is there before the destructor, and the destructor cannot change it.
DoneInv ==
  \A w \in Workers : pc[w] = "destroy" =>
    \/ status[w] = RESULT_COMPLETE /\ answer[w] = "text"
    \/ status[w] = RESULT_COMPLETE_JSON /\ answer[w] = "json"

LEMMA DoneInvariant == Spec => []DoneInv
<1>1. Init => DoneInv
  BY DEF Init, DoneInv
<1>2. TypeInv /\ DoneInv /\ [Next]_vars => DoneInv'
  <2>. SUFFICES ASSUME TypeInv, DoneInv, [Next]_vars
                PROVE  DoneInv'
    OBVIOUS
  <2>. USE DEF TypeInv, TypeOK, DoneInv
  <2>1. ASSUME NEW w \in Workers, Begin(w)
        PROVE  DoneInv'
    BY <2>1 DEF Begin, Goto
  <2>2. ASSUME NEW w \in Workers, Content(w)
        PROVE  DoneInv'
    BY <2>2 DEF Content, ContentStatus, Goto, requestVars, RESULT_COMPLETE,
                RESULT_COMPLETE_JSON, RESULT_EXCEPTION_CAUGHT
  <2>3. ASSUME NEW w \in Workers, Continue(w), ~Content(w)
        PROVE  DoneInv'
    BY <2>3 DEF Continue, Construct, ConstructThrows, Setup, SetupThrows, NoSetup,
                MakeSession, NoRedirect, BadRedirect, Redirect, Receive, Destroy,
                Catch, Caught, Goto, requestVars
  <2>4. CASE UNCHANGED vars
    BY <2>4 DEF vars
  <2>. QED
    BY <2>1, <2>2, <2>3, <2>4 DEF Next
<1>. QED
  BY <1>1, <1>2, TypeInvariant, PTL DEF Spec

\* What a step of w leaves of the other workers.
LEMMA OthersKeep ==
  ASSUME TypeInv, NEW w \in Workers, Begin(w) \/ Continue(w),
         NEW v \in Workers, v # w
  PROVE  pc'[v] = pc[v] /\ Outcome(v)' = Outcome(v)
<1>. USE DEF TypeInv, TypeOK
<1>1. pc'[v] = pc[v] /\ status'[v] = status[v] /\ answer'[v] = answer[v]
  BY DEF Begin, Continue, Construct, ConstructThrows, Setup, SetupThrows, NoSetup,
         MakeSession, NoRedirect, BadRedirect, Redirect, Receive, Content,
         Destroy, Catch, Caught, Goto, requestVars
<1>. QED
  BY <1>1 DEF Outcome

\* A request in progress has no outcome, and one step of its worker either leaves
\* it so or ends it with one.
LEMMA OutcomeOfStep ==
  ASSUME TypeInv, DoneInv, NEW w \in Workers, Continue(w)
  PROVE  /\ pc[w] # "idle"
         /\ Outcome(w) = "none"
         /\ \/ pc'[w] # "idle" /\ Outcome(w)' = "none"
            \/ pc'[w] = "idle" /\ Outcome(w)' \in {"text", "json", "exception"}
<1>. USE DEF TypeInv, TypeOK
<1>1. pc[w] # "idle"
  BY DEF Continue, Construct, ConstructThrows, Setup, SetupThrows, NoSetup,
         MakeSession, NoRedirect, BadRedirect, Redirect, Receive, Content,
         Destroy, Catch
<1>2. Outcome(w) = "none"
  BY <1>1 DEF Outcome
<1>3. CASE pc'[w] # "idle"
  BY <1>1, <1>2, <1>3 DEF Outcome
<1>4. CASE pc'[w] = "idle"
  <2>1. \/ pc[w] = "destroy" /\ Destroy(w)
        \/ Catch(w)
    BY <1>4 DEF Continue, Construct, ConstructThrows, Setup, SetupThrows, NoSetup,
         MakeSession, NoRedirect, BadRedirect, Redirect, Receive, Content,
         Destroy, Goto
  <2>2. CASE pc[w] = "destroy" /\ Destroy(w)
    <3>1. status' = status /\ answer' = answer
      BY <2>2 DEF Destroy, requestVars
    <3>2. \/ status'[w] = 32 /\ answer'[w] = "text"
          \/ status'[w] = 33 /\ answer'[w] = "json"
      BY <2>2, <3>1 DEF DoneInv, RESULT_COMPLETE, RESULT_COMPLETE_JSON
    <3>. QED
      BY <1>1, <1>2, <1>4, <3>2
      DEF Outcome, RESULT_COMPLETE, RESULT_COMPLETE_JSON, RESULT_EXCEPTION_CAUGHT
  <2>3. CASE Catch(w)
    <3>1. status'[w] = RESULT_EXCEPTION_CAUGHT
      BY <2>3 DEF Catch, Caught
    <3>. QED
      BY <1>1, <1>2, <1>4, <3>1 DEF Outcome
  <2>. QED
    BY <2>1, <2>2, <2>3
<1>. QED
  BY <1>3, <1>4

\* A worker between requests takes a job that it can start or must reject.
LEMMA OutcomeOfBegin ==
  ASSUME TypeInv, NEW w \in Workers, Begin(w)
  PROVE  /\ pc[w] = "idle"
         /\ \/ pc'[w] # "idle" /\ Outcome(w)' = "none"
            \/ pc'[w] = "idle" /\ Outcome(w)' = "exception"
<1>1. pc[w] = "idle"
  BY DEF Begin
<1>2. \/ pc'[w] = "construct"
      \/ pc'[w] = "idle" /\ status'[w] = RESULT_EXCEPTION_CAUGHT
  BY DEF Begin, Goto, TypeInv, TypeOK
<1>3. ASSUME pc'[w] = "construct"
      PROVE  pc'[w] # "idle" /\ Outcome(w)' = "none"
  <2>1. pc'[w] # "idle"
    BY <1>3
  <2>. QED
    BY <2>1, Zenon DEF Outcome
<1>4. ASSUME pc'[w] = "idle", status'[w] = RESULT_EXCEPTION_CAUGHT
      PROVE  Outcome(w)' = "exception"
  <2>1. RESULT_EXCEPTION_CAUGHT \notin {RESULT_COMPLETE, RESULT_COMPLETE_JSON}
    BY DEF RESULT_COMPLETE, RESULT_COMPLETE_JSON, RESULT_EXCEPTION_CAUGHT
  <2>. QED
    BY <1>4, <2>1, Zenon DEF Outcome
<1>. QED
  BY <1>1, <1>2, <1>3, <1>4

(***************************************************************************)
(* However many redirects a request takes, whatever throws in it and       *)
(* whatever other workers do meanwhile, a request is one Execute: it has   *)
(* no result before its end and exactly one then.                          *)
(***************************************************************************)
THEOREM ExecutionCorrect == Spec => ImplementsExecution
<1>1. Init => Execute!Init
  <2>. SUFFICES ASSUME Init PROVE Execute!Init
    OBVIOUS
  <2>1. \A w \in Workers : pc[w] = "idle" /\ status[w] = 0
    BY DEF Init
  <2>2. 0 \notin {RESULT_COMPLETE, RESULT_COMPLETE_JSON, RESULT_EXCEPTION_CAUGHT}
    BY DEF RESULT_COMPLETE, RESULT_COMPLETE_JSON, RESULT_EXCEPTION_CAUGHT
  <2>3. \A w \in Workers : Outcome(w) = "none"
    BY <2>1, <2>2, Zenon DEF Outcome
  <2>. QED
    BY <2>1, <2>3 DEF Execute!Init
<1>2. TypeInv /\ DoneInv /\ [Next]_vars => [Execute!Next]_(Execute!vars)
  <2>. SUFFICES ASSUME TypeInv, DoneInv, [Next]_vars
                PROVE  [Execute!Next]_(Execute!vars)
    OBVIOUS
  <2>. DEFINE busy == {w \in Workers : pc[w] # "idle"}
              outcome == [w \in Workers |-> Outcome(w)]
  <2>1. ASSUME NEW w \in Workers, Begin(w)
        PROVE  Execute!Next
    <3>1. \A v \in Workers : v # w => pc'[v] = pc[v] /\ Outcome(v)' = Outcome(v)
      BY <2>1, OthersKeep
    <3>2. /\ pc[w] = "idle"
          /\ \/ pc'[w] # "idle" /\ Outcome(w)' = "none"
             \/ pc'[w] = "idle" /\ Outcome(w)' = "exception"
      BY <2>1, OutcomeOfBegin
    <3>3. CASE pc'[w] # "idle"
      <4>1. busy' = busy \cup {w} /\ w \notin busy
        BY <3>1, <3>2, <3>3
      <4>2. outcome' = [outcome EXCEPT ![w] = "none"]
        BY <3>1, <3>2, <3>3
      <4>. QED
        BY <4>1, <4>2 DEF Execute!Next, Execute!Start
    <3>4. CASE pc'[w] = "idle"
      <4>1. busy' = busy /\ w \notin busy
        BY <3>1, <3>2, <3>4
      <4>2. outcome' = [outcome EXCEPT ![w] = "exception"]
        BY <3>1, <3>2, <3>4
      <4>. QED
        BY <4>1, <4>2 DEF Execute!Next, Execute!Reject
    <3>. QED
      BY <3>3, <3>4
  <2>2. ASSUME NEW w \in Workers, Continue(w)
        PROVE  [Execute!Next]_(Execute!vars)
    <3>1. \A v \in Workers : v # w => pc'[v] = pc[v] /\ Outcome(v)' = Outcome(v)
      BY <2>2, OthersKeep
    <3>2. /\ pc[w] # "idle"
          /\ Outcome(w) = "none"
          /\ \/ pc'[w] # "idle" /\ Outcome(w)' = "none"
             \/ pc'[w] = "idle" /\ Outcome(w)' \in Execute!Outcomes
      BY <2>2, OutcomeOfStep DEF Execute!Outcomes
    <3>3. CASE pc'[w] # "idle"
      <4>1. busy' = busy
        BY <3>1, <3>2, <3>3
      <4>2. outcome' = outcome
        BY <3>1, <3>2, <3>3
      <4>. QED
        BY <4>1, <4>2 DEF Execute!vars
    <3>4. CASE pc'[w] = "idle"
      <4>1. busy' = busy \ {w} /\ w \in busy
        BY <3>1, <3>2, <3>4
      <4>2. outcome' = [outcome EXCEPT ![w] = Outcome(w)']
        BY <3>1, <3>2, <3>4
      <4>3. Outcome(w)' \in Execute!Outcomes
        BY <3>2, <3>4
      <4>. QED
        BY <4>1, <4>2, <4>3 DEF Execute!Next, Execute!Return
    <3>. QED
      BY <3>3, <3>4
  <2>3. CASE UNCHANGED vars
    <3>1. \A w \in Workers : pc'[w] = pc[w] /\ Outcome(w)' = Outcome(w)
      BY <2>3 DEF vars, Outcome
    <3>2. busy' = busy /\ outcome' = outcome
      BY <3>1
    <3>. QED
      BY <3>2 DEF Execute!vars
  <2>. QED
    BY <2>1, <2>2, <2>3 DEF Next
<1>. QED
  BY <1>1, <1>2, TypeInvariant, DoneInvariant, PTL
  DEF Spec, ImplementsExecution, Execute!Spec

-----------------------------------------------------------------------------
NothingSent ==
  /\ context = "none"
  /\ \A w \in Workers :
       /\ ~Alive(w)
       /\ status[w] \in {0, RESULT_EXCEPTION_CAUGHT}

\* In a process without an Application, which the program is, no NetRequest is
\* ever constructed and every job ends with an exception: the first constructor
\* needs a context that only a request already constructed could set up.
THEOREM NothingIsSent ==
  ASSUME ~Application
  PROVE  Spec => []NothingSent
<1> USE DEF NothingSent, Alive
<1>1. Init => NothingSent
  BY DEF Init
<1>2. TypeInv /\ NothingSent /\ [Next]_vars => NothingSent'
  <2> SUFFICES ASSUME TypeInv, NothingSent, [Next]_vars
               PROVE  NothingSent'
    OBVIOUS
  <2> USE DEF TypeInv, TypeOK
  <2>1. ASSUME NEW w \in Workers, Begin(w)
        PROVE  NothingSent'
    BY <2>1 DEF Begin, Goto, sslVars
  <2>2. ASSUME NEW w \in Workers, Construct(w)
        PROVE  NothingSent'
    BY <2>2 DEF Construct, HasDefaultContext
  <2>3. ASSUME NEW w \in Workers, ConstructThrows(w)
        PROVE  NothingSent'
    BY <2>3 DEF ConstructThrows, Goto, sslVars
  <2>4. ASSUME NEW w \in Workers, Continue(w),
               ~(Construct(w) \/ ConstructThrows(w) \/ Catch(w))
        PROVE  NothingSent'
    BY <2>4 DEF Continue, Setup, SetupThrows, NoSetup, MakeSession, NoRedirect,
                BadRedirect, Redirect, Receive, Content, Destroy
  <2>5. ASSUME NEW w \in Workers, Catch(w)
        PROVE  NothingSent'
    BY <2>5 DEF Catch, Caught, Goto, sslVars
  <2>6. CASE UNCHANGED vars
    BY <2>6 DEF vars
  <2>7. QED
    BY <2>1, <2>2, <2>3, <2>4, <2>5, <2>6 DEF Next, Continue
<1>3. QED
  BY <1>1, <1>2, TypeInvariant, PTL DEF Spec
=============================================================================
