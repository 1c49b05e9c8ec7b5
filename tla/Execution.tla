------------------------------- MODULE Execution -------------------------------
(***************************************************************************)
(* What Job::Execute is to a worker, with no request, redirect or SSL in   *)
(* it: it is given a job and some time later is done with it, and only     *)
(* then the job has a result, one for each job.  Module Scheduler takes it *)
(* for a single step.                                                      *)
(***************************************************************************)
CONSTANT Workers

VARIABLES
  busy,     \* the workers that are in Execute
  outcome   \* the result of each worker's last job, "none" while there is none

vars == <<busy, outcome>>

Outcomes == {"text", "json", "exception"}

Init ==
  /\ busy = {}
  /\ outcome = [w \in Workers |-> "none"]

Start(w) ==
  /\ w \notin busy
  /\ busy' = busy \cup {w}
  /\ outcome' = [outcome EXCEPT ![w] = "none"]

\* A job that is not valid: there is nothing to do.
Reject(w) ==
  /\ w \notin busy
  /\ outcome' = [outcome EXCEPT ![w] = "exception"]
  /\ UNCHANGED busy

Return(w) ==
  /\ w \in busy
  /\ busy' = busy \ {w}
  /\ \E o \in Outcomes : outcome' = [outcome EXCEPT ![w] = o]

Next == \E w \in Workers : Start(w) \/ Reject(w) \/ Return(w)

Spec == Init /\ [][Next]_vars
=============================================================================
