------------------------------ MODULE Scheduler ------------------------------
(***************************************************************************)
(* The job scheduler of the extension (src/src/Scheduler.cpp), the worker  *)
(* threads that empty it (src/src/Worker.cpp) and the part of a job they   *)
(* share (src/src/Job.cpp).                                                *)
(*                                                                         *)
(* One thread, the engine's, calls AddJob; the worker threads call         *)
(* AcquireJob and CompleteJob.  AddJob takes no lock and it gives the job  *)
(* its id only after the job is in the queue, so the model has the engine  *)
(* thread stop inside queue.push and between the push and AssignId, and a  *)
(* worker stop inside queue.pop and inside finished_jobs.insert.           *)
(*                                                                         *)
(* std::queue::push without the lock that protects std::queue::pop is a    *)
(* data race.  Its outcomes are those of an element counter updated by two *)
(* threads (operator Torn); race remembers that one happened, because what *)
(* the scheduler promises it promises only as long as none did.            *)
(***************************************************************************)
EXTENDS Integers, SequencesExt

CONSTANTS
  Jobs,      \* the Job objects that are ever allocated
  Workers,   \* the worker threads
  Results,   \* what Job::Execute can leave in m_status and m_result
  NoJob,     \* nullptr
  NoResult,  \* m_completed is still false
  NoWorker   \* the owner of a free mutex

ASSUME ConstantsAssumption ==
  /\ NoJob \notin Jobs
  /\ NoResult \notin Results
  /\ NoWorker \notin Workers

NoId == -1   \* m_id before AssignId

VARIABLES
  queue,     \* m_job_queue
  counter,   \* m_job_counter
  finished,  \* m_finished_jobs, a function on the ids it has an entry for
  acqLock,   \* owner of m_acquisition_lock
  compLock,  \* owner of m_completion_lock
  jobId,     \* m_id of each job
  result,    \* m_status and m_result of each job, NoResult until m_completed
  adding,    \* the job AddJob was called with, while the call lasts
  addPc,     \* where the engine thread is in AddJob
  pc,        \* where each worker is in WorkLoop
  cur,       \* m_cur_job of each worker
  key,       \* the id a worker read for the pair it is inserting
  taken,     \* history: the jobs AcquireJob has returned so far
  race,      \* history: "none", "now" (a push and a pop overlap), "past"
  exposed    \* history: the jobs another thread met before AddJob was through
             \* with them: a pop overlapped their push, or their id was read
             \* before it was assigned

vars == <<queue, counter, finished, acqLock, compLock, jobId, result, adding,
          addPc, pc, cur, key, taken, race, exposed>>

engineVars == <<counter, jobId, adding, addPc>>
workerVars == <<acqLock, compLock, finished, result, pc, cur, key, taken>>

Init ==
  /\ queue = <<>>
  /\ counter = 0
  /\ finished = [k \in {} |-> NoJob]
  /\ acqLock = NoWorker
  /\ compLock = NoWorker
  /\ jobId = [j \in Jobs |-> NoId]
  /\ result = [j \in Jobs |-> NoResult]
  /\ adding = NoJob
  /\ addPc = "idle"
  /\ pc = [w \in Workers |-> "sleep"]
  /\ cur = [w \in Workers |-> NoJob]
  /\ key = [w \in Workers |-> NoId]
  /\ taken = {}
  /\ race = "none"
  /\ exposed = {}

-----------------------------------------------------------------------------
(***************************************************************************)
(* What the queue may hold after a push and a pop that overlapped, q being *)
(* what it would hold had they been ordered.  The element count is read,   *)
(* changed and written back by both, and the offset is reset by the pop    *)
(* that sees the count reach zero.  So the count may come out one too low  *)
(* (the pushed job is cut off), one too high (the slot after the last      *)
(* element, with a pointer popped earlier, becomes an element), or right   *)
(* over the wrong slot.                                                    *)
(***************************************************************************)
Torn(q) ==
  {q, Front(q)}
    \cup {Append(q, s) : s \in taken}
    \cup {<<s>> : s \in {t \in taken : Len(q) = 1}}

Pushing == addPc = "push"
Popping == acqLock # NoWorker

\* The queue after an operation whose outcome would be q: the operation that
\* ends last of an overlapping pair finds the damage.
QueueAfter(q, otherActive) ==
  IF race = "now" /\ ~otherActive
  THEN queue' \in Torn(q) /\ race' = "past"
  ELSE queue' = q /\ race' = race

-----------------------------------------------------------------------------
(* The engine thread: Scheduler::AddJob                                    *)

Fresh(j) == jobId[j] = NoId /\ j # adding

\* The engine thread is in no call of AddJob.
EngineIdle == addPc = "idle"

\* A new job is handed to AddJob, which enters m_job_queue.push(job).
PushBegin(j) ==
  /\ EngineIdle
  /\ Fresh(j)
  /\ adding' = j
  /\ addPc' = "push"
  /\ race' = IF Popping THEN "now" ELSE race
  /\ exposed' = IF Popping THEN exposed \cup {j} ELSE exposed
  /\ UNCHANGED <<queue, counter, jobId, workerVars>>

PushEnd ==
  /\ Pushing
  /\ QueueAfter(Append(queue, adding), Popping)
  /\ addPc' = "assign"
  /\ UNCHANGED <<exposed, counter, jobId, adding, workerVars>>

\* GetNewId: m_job_counter++.  (Mutants: decremented, not changed.)
NextCounterDown == counter - 1
NextCounterSame == counter
NextCounter == counter + 1

\* job->AssignId(GetNewId()); return job->GetId()
\* (Mutant: a job that is complete by now is not numbered.)
AssignIdIfIncomplete ==
  /\ addPc = "assign"
  /\ jobId' = [jobId EXCEPT ![adding] =
                 IF result[adding] = NoResult THEN counter ELSE @]
  /\ counter' = counter + 1
  /\ adding' = NoJob
  /\ addPc' = "idle"
  /\ UNCHANGED <<queue, race, exposed, workerVars>>
AssignId ==
  /\ addPc = "assign"
  /\ jobId' = [jobId EXCEPT ![adding] = counter]
  /\ counter' = NextCounter
  /\ adding' = NoJob
  /\ addPc' = "idle"
  /\ UNCHANGED <<queue, race, exposed, workerVars>>

-----------------------------------------------------------------------------
(* A worker thread: Worker::WorkLoop                                       *)

Goto(w, from, to) ==
  /\ pc[w] = from
  /\ pc' = [pc EXCEPT ![w] = to]

\* sleep_for(100ms) is over and the loop starts again with no current job.
Wake(w) ==
  /\ Goto(w, "sleep", "poll")
  /\ UNCHANGED <<queue, race, exposed, engineVars, acqLock, compLock,
                 finished, result, cur, key, taken>>

\* AcquireJob takes the lock and finds the queue empty.  empty() during a push
\* reads the element count, one word, from before the push or from after it,
\* and damages nothing: from before is this action, from after is PopBegin once
\* PushEnd has been.
AcquireNothing(w) ==
  /\ acqLock = NoWorker
  /\ queue = <<>>
  /\ Goto(w, "poll", "sleep")
  /\ UNCHANGED <<queue, race, exposed, engineVars, acqLock, compLock,
                 finished, result, cur, key, taken>>

\* m_job_queue.front() and what pop() leaves.  (Mutants: the newest job is
\* taken; the job is not removed.)
NextJobNewest(q) == Last(q)
NextJob(q) == Head(q)
AfterPopSame(q) == q
AfterPop(q) == Tail(q)

\* AcquireJob takes the lock, finds a job and enters front() and pop().
PopBegin(w) ==
  /\ acqLock = NoWorker
  /\ queue # <<>>
  /\ Goto(w, "poll", "pop")
  /\ acqLock' = w
  /\ race' = IF Pushing THEN "now" ELSE race
  /\ exposed' = IF Pushing THEN exposed \cup {adding} ELSE exposed
  /\ UNCHANGED <<queue, engineVars, compLock, finished, result, cur, key,
                 taken>>

PopEnd(w) ==
  /\ Goto(w, "pop", "execute")
  /\ QueueAfter(AfterPop(queue), Pushing)
  /\ cur' = [cur EXCEPT ![w] = NextJob(queue)]
  /\ taken' = taken \cup {NextJob(queue)}
  /\ acqLock' = NoWorker
  /\ UNCHANGED <<exposed, engineVars, compLock, finished, result, key>>

\* Execute() returns: the job has its status and result and is complete.
\* (Mutant: it returns before that and IsComplete() is not asked.)
ExecuteAsync(w) ==
  /\ Goto(w, "execute", "deposit")
  /\ UNCHANGED <<queue, race, exposed, engineVars, acqLock, compLock,
                 finished, result, cur, key, taken>>
Execute(w) ==
  /\ Goto(w, "execute", "deposit")
  /\ \E r \in Results : result' = [result EXCEPT ![cur[w]] = r]
  /\ UNCHANGED <<queue, race, exposed, engineVars, acqLock, compLock,
                 finished, cur, key, taken>>

\* CompleteJob takes the lock, reads the id and enters insert().
InsertBegin(w) ==
  /\ compLock = NoWorker
  /\ Goto(w, "deposit", "insert")
  /\ compLock' = w
  /\ key' = [key EXCEPT ![w] = jobId[cur[w]]]
  /\ exposed' = IF jobId[cur[w]] = NoId THEN exposed \cup {cur[w]} ELSE exposed
  /\ UNCHANGED <<queue, race, engineVars, acqLock, finished, result, cur,
                 taken>>

\* unordered_map::insert leaves an entry that is already there alone.
\* (Mutant: nothing is stored.)
InsertedNot(f, k, j) == f
Inserted(f, k, j) ==
  IF k \in DOMAIN f
  THEN f
  ELSE [i \in DOMAIN f \cup {k} |-> IF i = k THEN j ELSE f[i]]

\* (Mutant: the lock is kept.)
InsertEndLocked(w) ==
  /\ Goto(w, "insert", "sleep")
  /\ finished' = Inserted(finished, key[w], cur[w])
  /\ cur' = [cur EXCEPT ![w] = NoJob]
  /\ UNCHANGED <<queue, race, exposed, engineVars, acqLock, compLock, result,
                 key, taken>>
InsertEnd(w) ==
  /\ Goto(w, "insert", "sleep")
  /\ finished' = Inserted(finished, key[w], cur[w])
  /\ compLock' = NoWorker
  /\ cur' = [cur EXCEPT ![w] = NoJob]
  /\ UNCHANGED <<queue, race, exposed, engineVars, acqLock, result, key,
                 taken>>

-----------------------------------------------------------------------------
(***************************************************************************)
(* Scheduler::GetCompletedJob(id), which takes no lock.  While no worker   *)
(* is inside insert() the answer is the table's.  While one is, the entry  *)
(* it adds may be seen already, and a lookup that walks the bucket lists   *)
(* as the insert relinks them may miss any entry.                          *)
(***************************************************************************)
Lookup(id) == IF id \in DOMAIN finished THEN finished[id] ELSE NoJob

GetCompletedJob(id) ==
  {Lookup(id)}
    \cup {NoJob : w \in {v \in Workers : compLock = v}}
    \cup {cur[w] : w \in {v \in Workers : compLock = v /\ key[v] = id}}

-----------------------------------------------------------------------------
Work(w) ==
  \/ Wake(w)
  \/ AcquireNothing(w)
  \/ PopBegin(w)
  \/ PopEnd(w)
  \/ Execute(w)
  \/ InsertBegin(w)
  \/ InsertEnd(w)

Next ==
  \/ \E j \in Jobs : PushBegin(j)
  \/ PushEnd
  \/ AssignId
  \/ \E w \in Workers : Work(w)

\* A call to AddJob returns and no thread stops for ever; Execute returns
\* because the HTTP session's timeouts end a request nobody answers.
Fairness ==
  /\ WF_vars(PushEnd)
  /\ WF_vars(AssignId)
  /\ \A w \in Workers : WF_vars(Work(w))

Spec == Init /\ [][Next]_vars /\ Fairness
-----------------------------------------------------------------------------
(* Properties                                                              *)

Sound == race = "none"                       \* no data race on the queue yet

Held(j) == \E w \in Workers : cur[w] = j

TypeOK ==
  /\ queue \in Seq(Jobs)
  /\ counter \in Nat
  /\ DOMAIN finished \subseteq Nat \cup {NoId}
  /\ \A k \in DOMAIN finished : finished[k] \in Jobs
  /\ acqLock \in Workers \cup {NoWorker}
  /\ compLock \in Workers \cup {NoWorker}
  /\ jobId \in [Jobs -> Nat \cup {NoId}]
  /\ result \in [Jobs -> Results \cup {NoResult}]
  /\ adding \in Jobs \cup {NoJob}
  /\ addPc \in {"idle", "push", "assign"}
  /\ pc \in [Workers -> {"sleep", "poll", "pop", "execute", "deposit", "insert"}]
  /\ cur \in [Workers -> Jobs \cup {NoJob}]
  /\ key \in [Workers -> Nat \cup {NoId}]
  /\ taken \subseteq Jobs
  /\ race \in {"none", "now", "past"}
  /\ exposed \subseteq Jobs

(***************************************************************************)
(* No two jobs have the same id, and an entry of the table of finished     *)
(* jobs is the job with the id it is filed under, unless it is filed       *)
(* under the id a job has before AddJob numbers it.  GetCompletedJob(id)   *)
(* therefore never yields the job of another call, although a worker reads *)
(* the id without a lock the engine thread takes.  Holds after a data race *)
(* on the queue too.                                                       *)
(***************************************************************************)
TableMatchesIds ==
  /\ \A i, j \in Jobs : jobId[i] = jobId[j] /\ jobId[i] # NoId => i = j
  /\ \A k \in DOMAIN finished : k # NoId => jobId[finished[k]] = k

(***************************************************************************)
(* The only job a worker can meet without an id is the one AddJob is still *)
(* busy with: whatever was added earlier is numbered, so a call to AddJob  *)
(* can spoil its own job and no other.                                     *)
(***************************************************************************)
OnlyAddingLacksId ==
  \A j \in taken \cup ToSet(queue) : jobId[j] = NoId => j = adding

(***************************************************************************)
(* As long as no push raced with a pop, a job is in one place: once in the *)
(* queue, or with one worker, or handed back.                              *)
(***************************************************************************)
SingleCustody ==
  Sound =>
    /\ IsInjective(queue)
    /\ ToSet(queue) \cap taken = {}
    /\ \A v, w \in Workers : cur[v] = cur[w] /\ cur[v] # NoJob => v = w

(***************************************************************************)
(* A job that has its id is waiting, or with a worker, or in the table     *)
(* under that id, data races on the queue included.  Only a job whose own  *)
(* push overlapped a pop, or whose own id was read before AddJob assigned  *)
(* it, can be missing: what AddJob does without a lock, and in the wrong   *)
(* order, never costs another call its job.                                *)
(***************************************************************************)
NothingLost ==
  \A j \in Jobs : jobId[j] # NoId =>
    \/ j \in ToSet(queue)
    \/ Held(j)
    \/ Lookup(jobId[j]) = j
    \/ j \in exposed

(***************************************************************************)
(* A result, once there, is not written again, not even with the same      *)
(* value.  The engine thread reads m_result and m_status of a finished job *)
(* without a lock; this is why it may.                                     *)
(***************************************************************************)
ResultStable ==
  [][Sound' => \A j \in Jobs : result[j] # NoResult =>
       /\ result'[j] = result[j]
       /\ \A w \in Workers : Execute(w) => cur[w] # j]_vars

(***************************************************************************)
(* AcquireJob "returns the oldest job": the job a worker takes has a lower *)
(* id than every job it leaves in the queue, whichever workers compete.    *)
(***************************************************************************)
OldestFirst ==
  [][\A w \in Workers : PopEnd(w) /\ Sound' =>
       \A j \in ToSet(queue') : jobId[j] # NoId => jobId[cur'[w]] < jobId[j]]_vars

(***************************************************************************)
(* A job that was given an id is executed and handed back, unless its own  *)
(* push was in a data race on the queue or its id was read too early: what *)
(* goes wrong for one job does not keep the workers from the others.       *)
(***************************************************************************)
EveryJobEnds ==
  \A j \in Jobs : jobId[j] # NoId ~>
    (j \in exposed \/ (j \in taken /\ result[j] # NoResult /\ ~Held(j)))

\* Scheduler and workers implement the abstract pool of jobs.
Pool == INSTANCE JobPool WITH
  waiting <- queue,
  running <- {j \in Jobs : Held(j)},
  ended <- {j \in taken : ~Held(j)},
  broken <- ~Sound

ImplementsPool == Pool!Spec

-----------------------------------------------------------------------------
(* What the comments of Scheduler.h say and the code does not keep         *)

(***************************************************************************)
(* CompleteJob "deposits" a job "into completed jobs storage", from which  *)
(* GetCompletedJob returns it by its id: a job that was handed back and    *)
(* numbered can be found.                                                  *)
(***************************************************************************)
DepositedIsFindable ==
  Sound => \A j \in taken : ~Held(j) /\ jobId[j] # NoId => Lookup(jobId[j]) = j

(***************************************************************************)
(* AcquireJob "removes it from the queue": no job is returned twice.       *)
(***************************************************************************)
AcquiredOnce ==
  [][\A w \in Workers : PopEnd(w) => cur'[w] \notin taken]_vars
=============================================================================
