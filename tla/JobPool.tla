------------------------------- MODULE JobPool -------------------------------
(***************************************************************************)
(* What the scheduler and its workers promise together: a job that is      *)
(* added waits its turn, is taken by exactly one worker, and ends once,    *)
(* the jobs being taken in the order in which they were added.  Once       *)
(* broken is true (the program has run into undefined behaviour) nothing   *)
(* is promised any more.                                                   *)
(***************************************************************************)
EXTENDS Sequences, SequencesExt

CONSTANT Jobs

VARIABLES
  waiting,  \* the jobs nobody has taken yet, oldest first
  running,  \* the jobs some worker has taken
  ended,    \* the jobs that have run and were handed back
  broken    \* whether undefined behaviour has occurred

vars == <<waiting, running, ended, broken>>

Init ==
  /\ waiting = <<>>
  /\ running = {}
  /\ ended = {}
  /\ broken = FALSE

Add(j) ==
  /\ j \notin ToSet(waiting) \cup running \cup ended
  /\ waiting' = Append(waiting, j)
  /\ UNCHANGED <<running, ended>>

Take ==
  /\ waiting # <<>>
  /\ Head(waiting) \notin running \cup ended
  /\ running' = running \cup {Head(waiting)}
  /\ waiting' = Tail(waiting)
  /\ UNCHANGED ended

End(j) ==
  /\ j \in running
  /\ running' = running \ {j}
  /\ ended' = ended \cup {j}
  /\ UNCHANGED waiting

Next ==
  \/ /\ broken' = broken
     /\ \/ \E j \in Jobs : Add(j)
        \/ Take
        \/ \E j \in Jobs : End(j)
  \/ broken'

Spec == Init /\ [][Next]_vars
=============================================================================
