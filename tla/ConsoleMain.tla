----------------------------- MODULE ConsoleMain -----------------------------
(***************************************************************************)
(* The console program of src/src/Main.cpp: a main thread that adds jobs,  *)
(* then looks for finished ones again and again, prints their results and  *)
(* disposes of them, while the workers run (module Scheduler).  It is the  *)
(* only caller of Scheduler::Dispose.  The program adds one job; a loop    *)
(* over a hundred is commented out, so it may add more, up to all of Jobs. *)
(*                                                                         *)
(* Dispose writes the table of finished jobs without the lock insert()     *)
(* holds.  When the two overlap the program has undefined behaviour, which *)
(* tableRace remembers; nothing is claimed after it.                       *)
(***************************************************************************)
EXTENDS Integers, Sequences

CONSTANTS
  Jobs,      \* the jobs main may add
  Workers, Results, NoJob, NoResult, NoWorker

ASSUME NamesAssumption ==
  /\ NoJob \notin Jobs
  /\ NoResult \notin Results
  /\ NoWorker \notin Workers

VARIABLES
  queue, counter, finished, acqLock, compLock, jobId, result, adding, addPc,
  pc, cur, key, taken, race, exposed,   \* see module Scheduler
  g_jobs,     \* the ids of the jobs added
  mpc,        \* where the main thread is
  i,          \* how many of g_jobs this call of gCheckJobs has looked at
  job,        \* the job gCheckJobs has found
  jobsLeft,   \* some job was not found in this call of gCheckJobs
  freed,      \* the jobs that were deleted
  tableRace   \* history: Dispose wrote m_finished_jobs during an insert

schedulerVars == <<queue, counter, finished, acqLock, compLock, jobId, result,
                   adding, addPc, pc, cur, key, taken, race, exposed>>
checkVars == <<i, job, jobsLeft>>
mainVars == <<g_jobs, mpc, checkVars, freed, tableRace>>
vars == <<schedulerVars, mainVars>>

S == INSTANCE Scheduler

Init ==
  /\ S!Init
  /\ g_jobs = <<>>
  /\ mpc = "add"
  /\ i = 0
  /\ job = NoJob
  /\ jobsLeft = FALSE
  /\ freed = {}
  /\ tableRace = FALSE

-----------------------------------------------------------------------------
AddJob(j) ==
  /\ mpc = "add"
  /\ S!PushBegin(j)
  /\ UNCHANGED mainVars

AddJobPush == S!PushEnd /\ UNCHANGED mainVars

\* AddJob returns the id, which is pushed to g_jobs.  The loop, if there is one,
\* goes on.
AddJobReturn ==
  /\ S!AssignId
  /\ g_jobs' = Append(g_jobs, jobId'[adding])
  /\ mpc' \in {"sleep"} \cup {"add" : j \in {k \in Jobs : jobId'[k] = S!NoId}}
  /\ UNCHANGED <<checkVars, freed, tableRace>>

\* gCheckJobs is called, for the first time or after sleep_for(3s).
\* (Mutant: jobsLeft keeps its value from the call before.)
JobsLeftKept == jobsLeft
JobsLeftAtStart == FALSE
StartCheck ==
  /\ mpc = "sleep"
  /\ mpc' = "check"
  /\ i' = 0
  /\ jobsLeft' = JobsLeftAtStart
  /\ UNCHANGED <<schedulerVars, g_jobs, job, freed, tableRace>>

\* GetCompletedJob finds the next job, whose result is printed, and jobsLeft
\* stays as it was ...  (Mutant: the last job decides.)
JobsLeftLast == FALSE
JobsLeftFound == jobsLeft
FindJob ==
  /\ mpc = "check"
  /\ i < Len(g_jobs)
  /\ \E j \in S!GetCompletedJob(g_jobs[i + 1]) \ {NoJob} : job' = j
  /\ jobsLeft' = JobsLeftFound
  /\ mpc' = "dispose"
  /\ UNCHANGED <<schedulerVars, g_jobs, i, freed, tableRace>>

\* ... or it does not.
MissJob ==
  /\ mpc = "check"
  /\ i < Len(g_jobs)
  /\ NoJob \in S!GetCompletedJob(g_jobs[i + 1])
  /\ jobsLeft' = TRUE
  /\ i' = i + 1
  /\ UNCHANGED <<schedulerVars, g_jobs, mpc, job, freed, tableRace>>

\* m_finished_jobs[jobId] = nullptr.  (Mutant: forgotten.)
ClearedNot(f, id) == f
Cleared(f, id) == [k \in DOMAIN f \cup {id} |-> IF k = id THEN NoJob ELSE f[k]]

\* Dispose(job): an id of 0 counts as no id at all.
Disposable(id) == id # 0 /\ S!GetCompletedJob(id) # {NoJob}

Dispose ==
  /\ mpc = "dispose"
  /\ \/ /\ Disposable(jobId[job])
        /\ freed' = freed \cup {job}
        /\ finished' = Cleared(finished, jobId[job])
        /\ tableRace' = (tableRace \/ compLock # NoWorker)
     \/ /\ \/ ~Disposable(jobId[job])
           \/ NoJob \in S!GetCompletedJob(jobId[job])
        /\ UNCHANGED <<freed, finished, tableRace>>
  /\ job' = NoJob
  /\ i' = i + 1
  /\ mpc' = "check"
  /\ UNCHANGED <<queue, counter, acqLock, compLock, jobId, result, adding, addPc,
                 pc, cur, key, taken, race, exposed, g_jobs, jobsLeft>>

\* gCheckJobs returns jobsLeft.
EndCheck ==
  /\ mpc = "check"
  /\ i = Len(g_jobs)
  /\ mpc' = IF jobsLeft THEN "sleep" ELSE "done"
  /\ UNCHANGED <<schedulerVars, g_jobs, checkVars, freed, tableRace>>

Main ==
  \/ \E j \in Jobs : AddJob(j)
  \/ AddJobPush
  \/ AddJobReturn
  \/ StartCheck
  \/ FindJob
  \/ MissJob
  \/ Dispose
  \/ EndCheck

Work(w) == S!Work(w) /\ UNCHANGED mainVars

Next == Main \/ \E w \in Workers : Work(w)

\* No thread stops.
Fairness ==
  /\ WF_vars(Main)
  /\ \A w \in Workers : WF_vars(Work(w))

Spec == Init /\ [][Next]_vars /\ Fairness

-----------------------------------------------------------------------------
(* Properties                                                              *)

Sound == S!Sound /\ ~tableRace

(***************************************************************************)
(* A job that was deleted is not used again: it is not in the queue, no    *)
(* worker is about to run it or to file it, the table has no entry for it, *)
(* and it is not the one gCheckJobs is printing and disposing of.          *)
(***************************************************************************)
NoUseAfterFree ==
  Sound => \A j \in freed :
    /\ j # job
    /\ \A k \in DOMAIN queue : queue[k] # j
    /\ \A w \in Workers : cur[w] = j => pc[w] \in {"insert", "sleep"}
    /\ \A k \in DOMAIN finished : finished[k] # j

(***************************************************************************)
(* Nothing is deleted that has not run to its end: gCheckJobs finds a job  *)
(* as early as the moment it is being filed, and even then its result is   *)
(* there.                                                                  *)
(***************************************************************************)
OnlyFinishedFreed ==
  Sound => \A j \in (freed \cup {job}) \ {NoJob} : result[j] # NoResult

(***************************************************************************)
(* The program ends only after every job it has added has run to its end,  *)
(* though it never sees all of them at a time: jobs finish while it looks, *)
(* and what it has found it deletes, one by one.                           *)
(***************************************************************************)
EndsWithAllDone ==
  Sound /\ mpc = "done" => \A j \in Jobs : jobId[j] # S!NoId => result[j] # NoResult

(***************************************************************************)
(* The program ends, whatever jobs it finds, deletes and finds gone in     *)
(* which call of gCheckJobs, with three exceptions: a data race on queue   *)
(* or table; a worker that reads the id of its job before AddJob assigns   *)
(* it, and so files it under none; and gCheckJobs going to sleep after it  *)
(* has deleted a job.  It then takes the nullptr in that job's place for a *)
(* job that is not finished, for ever.  The program as it is cannot: its   *)
(* one job has the id 0, which Dispose never deletes.                      *)
(***************************************************************************)
MainEnds ==
  <>(\/ mpc = "done"
     \/ ~Sound
     \/ exposed # {}
     \/ freed # {} /\ mpc = "sleep")

-----------------------------------------------------------------------------
(***************************************************************************)
(* Dispose returns "true on successful deletion, false on failure/already  *)
(* removed/unfinished jobs": a finished job that is disposed of for the    *)
(* first time is deleted.                                                  *)
(***************************************************************************)
FinishedIsDisposed ==
  [][mpc = "dispose" /\ mpc' # "dispose" /\ S!Lookup(jobId[job]) = job
       /\ compLock = NoWorker => job \in freed']_vars
=============================================================================
