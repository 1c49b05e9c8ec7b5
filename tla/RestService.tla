------------------------------ MODULE RestService ------------------------------
(***************************************************************************)
(* What a REST call is to a game script, with no job, worker, table or     *)
(* slice in it: a call is made, the remote host answers it once and for    *)
(* all, and the call returns once, with that whole answer or, if things    *)
(* went badly, with the news that there is none.  Once broken is true (the *)
(* program has run into undefined behaviour) nothing is promised any more. *)
(***************************************************************************)
EXTENDS Integers

CONSTANTS
  Calls,        \* the calls scripts make
  Responses,    \* what a request can end with: [status, len]
  NoResponse

VARIABLES
  made,     \* the calls that have been made
  answer,   \* what each request has ended with, NoResponse before that
  reply,    \* what each call has returned with, NoReply before that
  broken    \* whether undefined behaviour has occurred

vars == <<made, answer, reply, broken>>

\* The reply that is the whole response r, under its own status.
Whole(r) == [status |-> r.status, of |-> r, len |-> r.len]

\* What there is without a response: nothing as long as the call lasts, status
\* 0 for a call that made no request, and "not ready".
Nothing(status) == [status |-> status, of |-> NoResponse, len |-> 0]
NoReply == Nothing(-1)
Refused == Nothing(0)
NotReady == Nothing(47)

Init ==
  /\ made = {}
  /\ answer = [c \in Calls |-> NoResponse]
  /\ reply = [c \in Calls |-> NoReply]
  /\ broken = FALSE

Call(c) ==
  /\ c \notin made
  /\ made' = made \cup {c}
  /\ reply' \in {reply, [reply EXCEPT ![c] = Refused]}
  /\ UNCHANGED answer

Answer(c) ==
  /\ c \in made
  /\ reply[c] = NoReply
  /\ answer[c] = NoResponse
  /\ \E r \in Responses : answer' = [answer EXCEPT ![c] = r]
  /\ UNCHANGED <<made, reply>>

\* A call returns only after its request has been answered, also when it
\* returns without that answer.
Return(c) ==
  /\ c \in made
  /\ reply[c] = NoReply
  /\ answer[c] # NoResponse
  /\ \E r \in {Whole(answer[c]), NotReady} :
       reply' = [reply EXCEPT ![c] = r]
  /\ UNCHANGED <<made, answer>>

Next ==
  \/ /\ broken' = broken
     /\ \E c \in Calls : Call(c) \/ Answer(c) \/ Return(c)
  \/ broken'

Spec == Init /\ [][Next]_vars
=============================================================================
