----------------------------- MODULE NetRequest -----------------------------
(***************************************************************************)
(* What a worker does inside one step of module Scheduler, Execute: the    *)
(* GETRequest of src/src/GetRequest.cpp and the NetRequest it makes, with  *)
(* its redirects (src/src/NetRequest.cpp).  Workers run it side by side    *)
(* and share one thing, POCO's SSLManager and the client context in it.    *)
(*                                                                         *)
(* An answer of the host is one of a few kinds, told apart by what the     *)
(* code asks of it.  The context is the one NetRequest sets up ("own"),    *)
(* one POCO makes from an application's configuration ("config"), or none. *)
(* Without an Application object POCO cannot make the latter and throws    *)
(* (src/src/include/Poco/Net/SSLManager.h:52).  Nothing in src/src creates *)
(* one, so Application is FALSE in the program as it is; TRUE is a process *)
(* that has one, in which a NetRequest can be used.                        *)
(***************************************************************************)
EXTENDS Integers

CONSTANTS
  Workers,       \* the worker threads
  MAX_REDIRECTS, \* 30 in the code
  Application    \* a Poco::Util::Application exists in the process

ASSUME RedirectsAssumption == MAX_REDIRECTS \in Nat
ASSUME ApplicationAssumption == Application \in BOOLEAN

\* enum JobStatus, the members Execute leaves; 0 while it has left none
RESULT_COMPLETE == 32
RESULT_COMPLETE_JSON == 33
RESULT_EXCEPTION_CAUGHT == 49
Statuses == {0, RESULT_COMPLETE, RESULT_COMPLETE_JSON, RESULT_EXCEPTION_CAUGHT}

Schemes == {"http", "https"}
Targets == Schemes \cup {"invalid", "malformed"}

\* What a host can answer: nothing (the exchange fails), 200 with text, JSON,
\* JSON that cannot be parsed or no Content-Type, or a status that is neither
\* 200 nor a redirect.  Redirects are "moved", with or without a usable Location.
Contents == {"text", "json", "badJson", "untyped"}
Answers == Contents \cup {"failure", "other", "moved"}
NoAnswer == "none"

VARIABLES
  context,   \* the SSLManager's client context
  pc,        \* where each worker is
  target,    \* m_uri of each worker's request
  m_ssl_init,
  redirectHops,
  answer,    \* m_response
  status     \* m_status of the job

sslVars == <<context, m_ssl_init>>
requestVars == <<target, redirectHops, answer>>
vars == <<context, pc, target, m_ssl_init, redirectHops, answer, status>>

Init ==
  /\ context = "none"
  /\ pc = [w \in Workers |-> "idle"]
  /\ target = [w \in Workers |-> "invalid"]
  /\ m_ssl_init = [w \in Workers |-> FALSE]
  /\ redirectHops = [w \in Workers |-> 0]
  /\ answer = [w \in Workers |-> NoAnswer]
  /\ status = [w \in Workers |-> 0]

Goto(w, label) == pc' = [pc EXCEPT ![w] = label]

-----------------------------------------------------------------------------
\* SSLManager::defaultClientContext makes a context when there is none.
DefaultContext == IF context = "none" THEN "config" ELSE context
HasDefaultContext == context # "none" \/ Application

\* Execute starts with the next job; one that is not valid ends here.
Begin(w) ==
  /\ pc[w] = "idle"
  /\ \E t \in Targets :
       /\ target' = [target EXCEPT ![w] = t]
       /\ Goto(w, IF t = "invalid" THEN "idle" ELSE "construct")
       /\ status' = [status EXCEPT ![w] =
            IF t = "invalid" THEN RESULT_EXCEPTION_CAUGHT ELSE 0]
  /\ answer' = [answer EXCEPT ![w] = NoAnswer]
  /\ UNCHANGED <<sslVars, redirectHops>>

(***************************************************************************)
(* The constructor.  m_https_session is a member, and an HTTPSClientSession*)
(* made without a context takes the default one.  m_ssl_init is not        *)
(* initialized, so it has either value.                                    *)
(***************************************************************************)
Construct(w) ==
  /\ pc[w] = "construct"
  /\ target[w] # "malformed"
  /\ HasDefaultContext
  /\ context' = DefaultContext
  /\ \E b \in BOOLEAN : m_ssl_init' = [m_ssl_init EXCEPT ![w] = b]
  /\ redirectHops' = [redirectHops EXCEPT ![w] = 0]
  /\ Goto(w, "setup")
  /\ UNCHANGED <<target, answer, status>>

\* It throws: there is no object yet, so no destructor runs.
ConstructThrows(w) ==
  /\ pc[w] = "construct"
  /\ target[w] = "malformed" \/ ~HasDefaultContext
  /\ Goto(w, "catch")
  /\ UNCHANGED <<sslVars, requestVars, status>>

-----------------------------------------------------------------------------
\* The flag is set before SSL is.  (Mutant: it is not set.)
SslInitNotSet(w) == m_ssl_init
SslInitSet(w) == [m_ssl_init EXCEPT ![w] = TRUE]

NeedsSetup(w) == target[w] = "https" /\ ~m_ssl_init[w]

Setup(w) ==
  /\ pc[w] = "setup"
  /\ NeedsSetup(w)
  /\ m_ssl_init' = SslInitSet(w)
  /\ context' = "own"
  /\ Goto(w, "session")
  /\ UNCHANGED <<requestVars, status>>

\* new Context throws when rootcert.pem cannot be read.
SetupThrows(w) ==
  /\ pc[w] = "setup"
  /\ NeedsSetup(w)
  /\ m_ssl_init' = SslInitSet(w)
  /\ Goto(w, "unwind")
  /\ UNCHANGED <<context, requestVars, status>>

NoSetup(w) ==
  /\ pc[w] = "setup"
  /\ ~NeedsSetup(w)
  /\ Goto(w, "session")
  /\ UNCHANGED <<sslVars, requestVars, status>>

\* make_shared<HTTPSClientSession>() takes the default context, as the member
\* did, and throws if there is none to be had.
MakeSession(w) ==
  /\ pc[w] = "session"
  /\ IF target[w] = "https" /\ ~HasDefaultContext
       THEN Goto(w, "unwind") /\ context' = context
       ELSE /\ Goto(w, "exchange")
            /\ context' = IF target[w] = "https" THEN DefaultContext ELSE context
  /\ UNCHANGED <<m_ssl_init, requestVars, status>>

-----------------------------------------------------------------------------
\* sendRequest, receiveResponse and what follows them, with answer a.
Receive(w, a) ==
  /\ pc[w] = "exchange"
  /\ answer' = [answer EXCEPT ![w] = a]
  /\ UNCHANGED <<sslVars, status>>

NoRedirect(w) ==
  \E a \in Answers \ {"moved"} :
    /\ Receive(w, a)
    /\ Goto(w, IF a \in Contents THEN "content" ELSE "unwind")
    /\ UNCHANGED <<target, redirectHops>>

BadRedirect(w) ==
  /\ Receive(w, "moved")
  /\ Goto(w, "unwind")
  /\ UNCHANGED <<target, redirectHops>>

\* redirectHops++ > MAX_REDIRECTS.  (Mutants: no hop is counted, one more is
\* allowed, any number is.)
CountedNot(hops) == hops
Counted(hops) == hops + 1
TooManyLate(hops) == hops > MAX_REDIRECTS + 1
TooManyNever(hops) == FALSE
TooMany(hops) == hops > MAX_REDIRECTS

Redirect(w) ==
  /\ Receive(w, "moved")
  /\ \E t \in Schemes : target' = [target EXCEPT ![w] = t]
  /\ redirectHops' = [redirectHops EXCEPT ![w] = Counted(@)]
  /\ Goto(w, IF TooMany(redirectHops[w]) THEN "unwind" ELSE "setup")

-----------------------------------------------------------------------------
\* What Execute makes of a body: a missing Content-Type or JSON that cannot be
\* parsed throws.  (Mutant: the type is taken the wrong way round.)
ContentStatusSwapped(a) ==
  CASE a = "text" -> RESULT_COMPLETE_JSON
    [] a = "json" -> RESULT_COMPLETE
    [] OTHER -> RESULT_EXCEPTION_CAUGHT
ContentStatus(a) ==
  CASE a = "text" -> RESULT_COMPLETE
    [] a = "json" -> RESULT_COMPLETE_JSON
    [] OTHER -> RESULT_EXCEPTION_CAUGHT

Content(w) ==
  /\ pc[w] = "content"
  /\ LET s == ContentStatus(answer[w])
     IN  IF s = RESULT_EXCEPTION_CAUGHT
           THEN Goto(w, "unwind") /\ UNCHANGED status
           ELSE Goto(w, "destroy") /\ status' = [status EXCEPT ![w] = s]
  /\ UNCHANGED <<sslVars, requestVars>>

\* The destructor, at the end of the try block or on the way to a handler.
Destroy(w) ==
  /\ pc[w] \in {"destroy", "unwind"}
  /\ context' = IF m_ssl_init[w] THEN "none" ELSE context
  /\ Goto(w, IF pc[w] = "destroy" THEN "idle" ELSE "catch")
  /\ UNCHANGED <<m_ssl_init, requestVars, status>>

\* (Mutant: a handler leaves the status alone.)
CaughtNot(w) == status
Caught(w) == [status EXCEPT ![w] = RESULT_EXCEPTION_CAUGHT]

Catch(w) ==
  /\ pc[w] = "catch"
  /\ status' = Caught(w)
  /\ Goto(w, "idle")
  /\ UNCHANGED <<sslVars, requestVars>>

-----------------------------------------------------------------------------
Continue(w) ==
  \/ Construct(w) \/ ConstructThrows(w)
  \/ Setup(w) \/ SetupThrows(w) \/ NoSetup(w)
  \/ MakeSession(w)
  \/ NoRedirect(w) \/ BadRedirect(w) \/ Redirect(w)
  \/ Content(w) \/ Destroy(w) \/ Catch(w)

Next == \E w \in Workers : Begin(w) \/ Continue(w)

Spec == Init /\ [][Next]_vars

\* A thread goes on, and POCO's timeouts end every exchange one way or another.
LiveSpec == Spec /\ \A w \in Workers : WF_vars(Continue(w))

-----------------------------------------------------------------------------
TypeOK ==
  /\ context \in {"none", "config", "own"}
  /\ pc \in [Workers -> {"idle", "construct", "setup", "session", "exchange",
                         "content", "destroy", "unwind", "catch"}]
  /\ target \in [Workers -> Targets]
  /\ m_ssl_init \in [Workers -> BOOLEAN]
  /\ redirectHops \in [Workers -> 0 .. MAX_REDIRECTS + 2]
  /\ answer \in [Workers -> Answers \cup {NoAnswer}]
  /\ status \in [Workers -> Statuses]

\* A NetRequest exists.
Alive(w) == pc[w] \notin {"idle", "construct", "catch"}

\* A request is never sent to more than MAX_REDIRECTS + 1 places after the
\* first, wherever hosts redirect to.
RedirectsBounded ==
  \A w \in Workers :
    pc[w] \in {"setup", "session", "exchange"} => redirectHops[w] <= MAX_REDIRECTS + 1

\* The SSL context a request has set up does not outlive all requests: as long
\* as it is in place, some NetRequest is going to shut SSL down in its
\* destructor, on every path, exceptions included.
ContextHasOwner ==
  context = "own" => \E w \in Workers : Alive(w) /\ m_ssl_init[w]

\* A job ends complete only if the last of its answers was a 200 answer, and its
\* status says JSON exactly if that answer was JSON: a page that redirects, or an
\* error page, never makes a result.  (The text of the result is the body of that
\* answer in the code; the model has one value for both.)
ResultOfLastAnswer ==
  \A w \in Workers :
    pc[w] = "idle" =>
      /\ status[w] = RESULT_COMPLETE => answer[w] = "text"
      /\ status[w] = RESULT_COMPLETE_JSON => answer[w] = "json"
      /\ answer[w] \in {"text", "json"} => status[w] # RESULT_EXCEPTION_CAUGHT

\* Execute returns with a final status, though hosts may redirect for ever: the
\* worker is free for the next job.
RequestEnds ==
  \A w \in Workers : pc[w] = "construct" ~> pc[w] = "idle" /\ status[w] # 0

(***************************************************************************)
(* How far a worker is from the end of Execute, at most, in steps of this  *)
(* model.  A redirect goes back two steps and costs a hop, which counts    *)
(* three.                                                                  *)
(***************************************************************************)
Distance ==
  [idle |-> 0, catch |-> 1, destroy |-> 2, unwind |-> 2, content |-> 4,
   exchange |-> 5, session |-> 6, setup |-> 7]

MaxSteps == 3 * (MAX_REDIRECTS + 2) + 8

StepsLeft(w) ==
  IF pc[w] = "construct" THEN MaxSteps
  ELSE 3 * (MAX_REDIRECTS + 2 - redirectHops[w]) + Distance[pc[w]]

\* Whatever hosts answer, wherever they redirect to and whatever throws, every
\* step of a worker brings it nearer to the end of its request, which is at most
\* MaxSteps away, and no step of another worker sets it back.
RequestAdvances ==
  [][\A w \in Workers : pc[w] # "idle" =>
       /\ StepsLeft(w) \in 1 .. MaxSteps
       /\ StepsLeft(w)' <= StepsLeft(w)
       /\ Continue(w) => StepsLeft(w)' < StepsLeft(w)]_vars

\* Seen from outside, the constructor, the exchanges and the destructor of a
\* NetRequest are one Execute: a job has no result before its end and just one
\* then, which no other worker touches.
Outcome(w) ==
  CASE pc[w] # "idle" -> "none"
    [] pc[w] = "idle" /\ status[w] = RESULT_EXCEPTION_CAUGHT -> "exception"
    [] pc[w] = "idle" /\ status[w] = RESULT_COMPLETE /\ answer[w] = "text" -> "text"
    [] pc[w] = "idle" /\ status[w] = RESULT_COMPLETE_JSON /\ answer[w] = "json" -> "json"
    [] OTHER -> "none"

Execute == INSTANCE Execution WITH
  busy <- {w \in Workers : pc[w] # "idle"},
  outcome <- [w \in Workers |-> Outcome(w)]

ImplementsExecution == Execute!Spec

-----------------------------------------------------------------------------
\* NetRequest.h: "Submits a request to a remote host and stores it".  A request
\* to a proper URL that has ended has at least been sent.  Does not hold in the
\* program: without an Application the constructor always throws.
RequestIsSent ==
  \A w \in Workers :
    pc[w] = "idle" /\ status[w] # 0 /\ target[w] \in Schemes => answer[w] # NoAnswer
=============================================================================
