-------------------------- MODULE ConsoleMainProofs --------------------------
(***************************************************************************)
(* Proofs of the safety properties of module ConsoleMain, for every set of *)
(* jobs, workers and results.                                              *)
(*                                                                         *)
(* Dispose takes jobs out of the table, which no step of the scheduler     *)
(* does, so the invariants of SchedulerProofs are not invariants here.     *)
(* They are invariants of the table as it would be without Dispose, which  *)
(* can be told from the ids of the jobs: Kept.                             *)
(***************************************************************************)
EXTENDS ConsoleMain, TLAPS

JobOf(k) == CHOOSE j \in Jobs : jobId[j] = k
Kept == [k \in DOMAIN finished |-> IF finished[k] = NoJob THEN JobOf(k) ELSE finished[k]]

SP == INSTANCE SchedulerProofs WITH finished <- Kept

-----------------------------------------------------------------------------
(* The invariant                                                           *)

SchedulerInv ==
  /\ SP!TypeInv
  /\ SP!IdInv
  /\ SP!OnlyAddingLacksId
  /\ SP!Custody
  /\ SP!ResultInv
  /\ SP!FiledInv
  /\ SP!HandedBack

(***************************************************************************)
(* The entries that are nullptr are those of the jobs that were deleted.   *)
(***************************************************************************)
Cleaned ==
  /\ \A k \in DOMAIN finished :
       finished[k] = NoJob => \E j \in freed : jobId[j] = k
  /\ \A j \in freed :
       /\ j \in Jobs /\ jobId[j] # S!NoId
       /\ jobId[j] \in DOMAIN finished /\ finished[jobId[j]] = NoJob

(***************************************************************************)
(* The job gCheckJobs has found is in the table, or the worker that files  *)
(* it is still in insert().  Main adds no job while it looks for others.   *)
(***************************************************************************)
BeingFiled(j) ==
  \E w \in Workers : compLock = w /\ cur[w] = j /\ key[w] = jobId[j]

FoundInv ==
  /\ g_jobs \in Seq(Nat)
  /\ i \in Nat
  /\ mpc = "dispose" <=> job # NoJob
  /\ addPc # "idle" => mpc = "add"
  /\ job # NoJob =>
       /\ job \in Jobs \ freed /\ jobId[job] \in Nat
       /\ S!Lookup(jobId[job]) = job \/ BeingFiled(job)

Inv == SchedulerInv /\ Cleaned /\ FoundInv

-----------------------------------------------------------------------------
(* The table without Dispose                                               *)

LEMMA SchedulerAssumption == SP!ConstantsAssumption
  BY NamesAssumption DEF SP!ConstantsAssumption

LEMMA ChosenJob ==
  ASSUME NEW id, NEW k, NEW j \in Jobs, id[j] = k,
         \A h \in Jobs : id[h] = k => h = j
  PROVE  (CHOOSE h \in Jobs : id[h] = k) = j
  OBVIOUS

(***************************************************************************)
(* What the kept table has for an id: the job of the table, or the one     *)
(* that was deleted.                                                       *)
(***************************************************************************)
LEMMA KeptEntry ==
  ASSUME SchedulerInv, Cleaned
  PROVE  /\ DOMAIN Kept = DOMAIN finished
         /\ \A k \in DOMAIN finished : finished[k] # NoJob => Kept[k] = finished[k]
         /\ \A j \in freed : Kept[jobId[j]] = j
<1>1. ASSUME NEW j \in freed
      PROVE  Kept[jobId[j]] = j
  <2>1. /\ j \in Jobs /\ jobId[j] \in DOMAIN finished /\ finished[jobId[j]] = NoJob
        /\ jobId[j] # S!NoId
    BY DEF Cleaned
  <2>2. \A h \in Jobs : jobId[h] = jobId[j] => h = j
    BY <2>1 DEF SchedulerInv, SP!IdInv, SP!TableMatchesIds, S!NoId, SP!NoId
  <2>3. JobOf(jobId[j]) = j
    BY <2>1, <2>2, ChosenJob DEF JobOf
  <2>. QED
    BY <2>1, <2>3 DEF Kept
<1>. QED
  BY <1>1 DEF Kept

\* No job that was found, or was deleted, is anywhere else.
LEMMA KeptAlone ==
  ASSUME SchedulerInv, S!Sound, NEW k \in DOMAIN Kept, NEW j, Kept[k] = j
  PROVE  /\ j \in Jobs /\ result[j] # NoResult
         /\ \A w \in Workers : cur[w] # j
         /\ \A q \in DOMAIN queue : queue[q] # j
         /\ \A l \in DOMAIN Kept : Kept[l] = j => l = k
<1>1. j \in Jobs /\ result[j] # NoResult
  BY DEF SchedulerInv, SP!TypeInv, SP!TypeOK, SP!FiledInv
<1>2. /\ j \in taken
      /\ ~SP!Held(j)
      /\ \A l \in DOMAIN Kept : Kept[l] = j => l = k
  BY DEF SchedulerInv, SP!HandedBack, SP!Sound, S!Sound
<1>3. j \notin SP!ToSet(queue)
  BY <1>2 DEF SchedulerInv, SP!Custody, SP!SingleCustody, SP!Sound, S!Sound
<1>. QED
  BY <1>1, <1>2, <1>3 DEF SP!ToSet, SP!Held

(***************************************************************************)
(* Steps that write neither the table nor an id leave the kept table, and  *)
(* so does the numbering of a job: it was not deleted.                     *)
(***************************************************************************)
LEMMA KeptSame == UNCHANGED <<finished, jobId>> => UNCHANGED Kept
  BY DEF Kept, JobOf

LEMMA KeptInAssign ==
  ASSUME SchedulerInv, Cleaned, S!AssignId
  PROVE  UNCHANGED Kept
<1>1. /\ adding \in Jobs /\ jobId[adding] = S!NoId
      /\ jobId' = [jobId EXCEPT ![adding] = counter]
      /\ finished' = finished
  BY SchedulerAssumption
     DEF SchedulerInv, SP!TypeInv, SP!TypeOK, SP!Control, SP!IdInv, S!AssignId,
         S!workerVars, S!NoId, SP!NoId, SP!ConstantsAssumption
<1>2. ASSUME NEW k \in DOMAIN finished, finished[k] = NoJob
      PROVE  JobOf(k)' = JobOf(k)
  <2>1. PICK j \in freed : jobId[j] = k
    BY <1>2 DEF Cleaned
  <2>2. j \in Jobs /\ k # S!NoId
    BY <2>1 DEF Cleaned
  <2>3. \A h \in Jobs : jobId[h] = k => h = j
    BY <2>1, <2>2 DEF SchedulerInv, SP!IdInv, SP!TableMatchesIds, S!NoId, SP!NoId
  <2>4. k # counter /\ jobId'[j] = k
    BY <1>1, <2>1, <2>2 DEF SchedulerInv, SP!TypeInv, SP!TypeOK, SP!IdInv, S!NoId, SP!NoId
  <2>5. \A h \in Jobs : jobId'[h] = k => h = j
    BY <1>1, <2>2, <2>3, <2>4 DEF SchedulerInv, SP!TypeInv, SP!TypeOK
  <2>6. JobOf(k) = j
    BY <2>1, <2>2, <2>3, ChosenJob DEF JobOf
  <2>7. (CHOOSE h \in Jobs : jobId'[h] = k) = j
    BY <2>2, <2>4, <2>5, ChosenJob
  <2>. QED
    BY <2>6, <2>7 DEF JobOf
<1>. QED
  BY <1>1, <1>2 DEF Kept

\* Dispose takes the job it deletes out of the table.
LEMMA KeptInDispose ==
  ASSUME Inv, Dispose, ~tableRace'
  PROVE  /\ UNCHANGED Kept
         /\ Cleaned'
         /\ job' = NoJob /\ mpc' = "check"
         /\ UNCHANGED <<compLock, jobId, cur, key, race>>
<1>. USE DEF Inv, Cleaned
<1>1. /\ job' = NoJob /\ mpc' = "check" /\ job # NoJob
      /\ UNCHANGED <<compLock, jobId, cur, key, race>>
  BY DEF Dispose, FoundInv
<1>2. CASE UNCHANGED <<freed, finished>>
  BY <1>1, <1>2, KeptSame
<1>3. CASE /\ freed' = freed \cup {job}
           /\ finished' = Cleared(finished, jobId[job])
           /\ tableRace' = (tableRace \/ compLock # NoWorker)
  <2>1. ~BeingFiled(job)
    BY <1>3, NamesAssumption DEF BeingFiled
  <2>2. /\ job \in Jobs /\ jobId[job] \in Nat
        /\ jobId[job] \in DOMAIN finished /\ finished[jobId[job]] = job
    BY <1>1, <2>1 DEF FoundInv, S!Lookup
  <2>3. /\ DOMAIN finished' = DOMAIN finished
        /\ finished'[jobId[job]] = NoJob
        /\ \A k \in DOMAIN finished : k # jobId[job] => finished'[k] = finished[k]
        /\ finished' = [k \in DOMAIN finished |->
                          IF k = jobId[job] THEN NoJob ELSE finished[k]]
    BY <1>3, <2>2 DEF Cleared
  <2>4. \A h \in Jobs : jobId[h] = jobId[job] => h = job
    BY <2>2 DEF SchedulerInv, SP!IdInv, SP!TableMatchesIds, SP!NoId
  <2>5. JobOf(jobId[job]) = job
    BY <2>2, <2>4, ChosenJob DEF JobOf
  <2>6. \A k : JobOf(k)' = JobOf(k)
    BY <1>1 DEF JobOf
  <2>7. UNCHANGED Kept
    BY <1>1, <2>2, <2>3, <2>5, <2>6 DEF Kept
  <2>8. Cleaned'
    BY <1>1, <1>3, <2>2, <2>3 DEF S!NoId
  <2>. QED
    BY <1>1, <2>7, <2>8
<1>. QED
  BY <1>1, <1>2, <1>3 DEF Dispose

-----------------------------------------------------------------------------
(* Steps of the program as steps of the scheduler with the kept table      *)

LEMMA SameTorn == ASSUME NEW q PROVE S!Torn(q) = SP!Torn(q)
  BY DEF S!Torn, SP!Torn, S!Front, SP!Front

LEMMA SameInit == Init => SP!Init
<1>1. Init => Kept = [k \in {} |-> NoJob]
  BY DEF Init, S!Init, Kept
<1>. QED
  BY <1>1 DEF Init, S!Init, SP!Init, S!NoId, SP!NoId

LEMMA SameAddJob ==
  ASSUME SchedulerInv, Cleaned
  PROVE  /\ \A j \in Jobs : S!PushBegin(j) => SP!PushBegin(j)
         /\ S!PushEnd => SP!PushEnd
         /\ S!AssignId => SP!AssignId
<1>1. ASSUME NEW j \in Jobs, S!PushBegin(j)
      PROVE  SP!PushBegin(j)
  <2>1. UNCHANGED Kept
    BY <1>1, KeptSame DEF S!PushBegin, S!workerVars
  <2>. QED
    BY <1>1, <2>1, Zenon
       DEF S!PushBegin, SP!PushBegin, S!EngineIdle, SP!EngineIdle, S!Fresh, SP!Fresh,
           S!NoId, SP!NoId, S!Popping, SP!Popping, S!workerVars, SP!workerVars
<1>2. ASSUME S!PushEnd
      PROVE  SP!PushEnd
  <2>1. UNCHANGED Kept
    BY <1>2, KeptSame DEF S!PushEnd, S!workerVars
  <2>. QED
    BY <1>2, <2>1, SameTorn
       DEF S!PushEnd, SP!PushEnd, S!Pushing, SP!Pushing, S!QueueAfter, SP!QueueAfter,
           S!Popping, SP!Popping, S!workerVars, SP!workerVars
<1>3. ASSUME S!AssignId
      PROVE  SP!AssignId
  BY <1>3, KeptInAssign, Zenon
     DEF S!AssignId, SP!AssignId, S!NextCounter, SP!NextCounter, S!workerVars,
         SP!workerVars
<1>. QED
  BY <1>1, <1>2, <1>3

\* insert() finds the same entries in both tables.
LEMMA KeptInInsert ==
  ASSUME NEW w \in Workers, S!InsertEnd(w), cur[w] # NoJob
  PROVE  Kept' = SP!Inserted(Kept, key[w], cur[w])
<1>1. finished' = S!Inserted(finished, key[w], cur[w]) /\ jobId' = jobId
  BY DEF S!InsertEnd, S!engineVars
<1>2. DOMAIN Kept = DOMAIN finished
  BY DEF Kept
<1>3. CASE key[w] \in DOMAIN finished
  BY <1>1, <1>2, <1>3, KeptSame DEF S!Inserted, SP!Inserted
<1>4. CASE key[w] \notin DOMAIN finished
  <2>1. finished' = [k \in DOMAIN finished \cup {key[w]} |->
                       IF k = key[w] THEN cur[w] ELSE finished[k]]
    BY <1>1, <1>4 DEF S!Inserted
  <2>2. \A k : JobOf(k)' = JobOf(k)
    BY <1>1 DEF JobOf
  <2>3. Kept' = [k \in DOMAIN finished \cup {key[w]} |->
                   IF k = key[w] THEN cur[w] ELSE Kept[k]]
    BY <2>1, <2>2, <1>4 DEF Kept
  <2>. QED
    BY <1>2, <1>4, <2>3 DEF SP!Inserted
<1>. QED
  BY <1>3, <1>4

LEMMA SameWork ==
  ASSUME SchedulerInv, NEW w \in Workers, S!Work(w)
  PROVE  SP!Work(w)
<1>. USE DEF S!Goto, SP!Goto, S!engineVars, SP!engineVars
<1>1. CASE S!InsertEnd(w)
  <2>1. cur[w] # NoJob
    BY <1>1 DEF S!InsertEnd, SchedulerInv, SP!TypeInv, SP!Control
  <2>2. SP!InsertEnd(w)
    BY <1>1, <2>1, KeptInInsert, Zenon DEF S!InsertEnd, SP!InsertEnd
  <2>. QED
    BY <2>2 DEF SP!Work
<1>2. CASE ~S!InsertEnd(w)
  <2>1. UNCHANGED Kept
    BY <1>2, KeptSame
       DEF S!Work, S!Wake, S!AcquireNothing, S!PopBegin, S!PopEnd, S!Execute,
           S!InsertBegin
  <2>2. S!Wake(w) => SP!Wake(w)
    BY <2>1, Zenon DEF S!Wake, SP!Wake
  <2>3. S!AcquireNothing(w) => SP!AcquireNothing(w)
    BY <2>1, Zenon DEF S!AcquireNothing, SP!AcquireNothing
  <2>4. S!PopBegin(w) => SP!PopBegin(w)
    BY <2>1, Zenon DEF S!PopBegin, SP!PopBegin, S!Pushing, SP!Pushing
  <2>5. S!PopEnd(w) => SP!PopEnd(w)
    BY <2>1, SameTorn
       DEF S!PopEnd, SP!PopEnd, S!QueueAfter, SP!QueueAfter, S!AfterPop, SP!AfterPop,
           S!NextJob, SP!NextJob, S!Pushing, SP!Pushing
  <2>6. S!Execute(w) => SP!Execute(w)
    BY <2>1, Zenon DEF S!Execute, SP!Execute
  <2>7. S!InsertBegin(w) => SP!InsertBegin(w)
    BY <2>1, Zenon DEF S!InsertBegin, SP!InsertBegin, S!NoId, SP!NoId
  <2>. QED
    BY <1>2, <2>2, <2>3, <2>4, <2>5, <2>6, <2>7 DEF S!Work, SP!Work
<1>. QED
  BY <1>1, <1>2

LEMMA SchedulerStep ==
  ASSUME Inv, [Next]_vars, ~tableRace'
  PROVE  [SP!Next]_(SP!vars)
<1>. USE DEF Inv
<1>1. ASSUME NEW j \in Jobs, AddJob(j)
      PROVE  SP!Next
  BY <1>1, SameAddJob DEF AddJob, SP!Next
<1>2. ASSUME AddJobPush \/ AddJobReturn
      PROVE  SP!Next
  BY <1>2, SameAddJob DEF AddJobPush, AddJobReturn, SP!Next
<1>3. CASE Dispose
  BY <1>3, KeptInDispose DEF Dispose, SP!vars
<1>4. CASE StartCheck \/ FindJob \/ MissJob \/ EndCheck \/ UNCHANGED vars
  BY <1>4, KeptSame
     DEF StartCheck, FindJob, MissJob, EndCheck, vars, schedulerVars, SP!vars
<1>5. ASSUME NEW w \in Workers, Work(w)
      PROVE  SP!Next
  BY <1>5, SameWork DEF Work, SP!Next
<1>. QED
  BY <1>1, <1>2, <1>3, <1>4, <1>5 DEF Next, Main

LEMMA SchedulerInvInit == Init => SchedulerInv
  BY SameInit, SchedulerAssumption, SP!TypeInit, SP!IdInit, SP!LacksIdInit,
     SP!CustodyInit, SP!ResultInit, SP!FiledInit, SP!HandedBackInit
     DEF SchedulerInv

LEMMA SchedulerInvStep ==
  ASSUME Inv, [Next]_vars, ~tableRace'
  PROVE  SchedulerInv'
  BY SchedulerStep, SchedulerAssumption, SP!TypeStep, SP!IdStep, SP!LacksIdStep,
     SP!CustodyStep, SP!ResultStep, SP!FiledStep, SP!HandedBackStep
     DEF Inv, SchedulerInv

\* No race by the end of a step, none at its beginning.
LEMMA SoundKept == [Next]_vars /\ Sound' => Sound
<1>. SUFFICES ASSUME [Next]_vars, Sound'
              PROVE  Sound
  OBVIOUS
<1>1. ~tableRace
  BY DEF Next, Main, AddJob, AddJobPush, AddJobReturn, StartCheck, FindJob, MissJob,
         Dispose, EndCheck, Work, vars, mainVars, Sound
<1>2. race' = "none"
  BY DEF Sound, S!Sound
<1>3. race = "none"
  BY <1>2
     DEF Next, Main, AddJob, AddJobPush, AddJobReturn, StartCheck, FindJob, MissJob,
         Dispose, EndCheck, Work, vars, schedulerVars, S!PushBegin, S!PushEnd,
         S!AssignId, S!Work, S!Wake, S!AcquireNothing, S!PopBegin, S!PopEnd, S!Execute,
         S!InsertBegin, S!InsertEnd, S!QueueAfter
<1>. QED
  BY <1>1, <1>3 DEF Sound, S!Sound

-----------------------------------------------------------------------------
(* The steps of main                                                       *)

\* What GetCompletedJob finds under an id from g_jobs.
LEMMA FoundFacts ==
  ASSUME Inv, S!Sound, NEW id \in Nat, NEW j \in S!GetCompletedJob(id), j # NoJob
  PROVE  /\ j \in Jobs \ freed /\ jobId[j] = id
         /\ S!Lookup(id) = j \/ BeingFiled(j)
<1>. USE DEF Inv
<1>1. CASE j = S!Lookup(id)
  <2>1. id \in DOMAIN finished /\ finished[id] = j
    BY <1>1 DEF S!Lookup
  <2>2. id \in DOMAIN Kept /\ Kept[id] = j
    BY <2>1, KeptEntry
  <2>3. j \in Jobs /\ jobId[j] = id
    BY <2>2 DEF SchedulerInv, SP!TypeInv, SP!TypeOK, SP!IdInv, SP!TableMatchesIds,
                SP!NoId
  <2>4. j \notin freed
    BY <2>1, <2>3 DEF Cleaned
  <2>. QED
    BY <1>1, <2>3, <2>4
<1>2. ASSUME NEW w \in Workers, compLock = w, key[w] = id, j = cur[w]
      PROVE  j \in Jobs \ freed /\ jobId[j] = id /\ BeingFiled(j)
  <2>1. pc[w] = "insert"
    BY <1>2 DEF SchedulerInv, SP!FiledInv
  <2>2. j \in Jobs /\ jobId[j] = id
    BY <1>2, <2>1 DEF SchedulerInv, SP!TypeInv, SP!TypeOK, SP!IdInv, SP!NoId
  <2>3. j \notin freed
    BY <1>2, KeptEntry, KeptAlone DEF Cleaned
  <2>. QED
    BY <1>2, <2>2, <2>3 DEF BeingFiled
<1>. QED
  BY <1>1, <1>2 DEF S!GetCompletedJob

(***************************************************************************)
(* The job main has found stays findable while main prints its result: the *)
(* worker that is filing it puts it into the table, and nobody else has it.*)
(***************************************************************************)
LEMMA FoundStays ==
  ASSUME Inv, S!Sound, NEW w \in Workers, S!Work(w), job # NoJob, UNCHANGED job
  PROVE  jobId'[job] = jobId[job] /\ (S!Lookup(jobId[job]) = job \/ BeingFiled(job))'
<1>. USE DEF Inv
<1>1. job \in Jobs \ freed /\ jobId[job] \in Nat
  BY DEF FoundInv
<1>2. jobId' = jobId
  BY DEF S!Work, S!Wake, S!AcquireNothing, S!PopBegin, S!PopEnd, S!Execute,
         S!InsertBegin, S!InsertEnd, S!engineVars
<1>3. CASE S!Lookup(jobId[job]) = job
  <2>1. jobId[job] \in DOMAIN finished /\ finished[jobId[job]] = job
    BY <1>1, <1>3, NamesAssumption DEF S!Lookup
  <2>2. jobId[job] \in DOMAIN finished' /\ finished'[jobId[job]] = job
    BY <2>1 DEF S!Work, S!Wake, S!AcquireNothing, S!PopBegin, S!PopEnd, S!Execute,
                S!InsertBegin, S!InsertEnd, S!Inserted
  <2>. QED
    BY <1>2, <2>2 DEF S!Lookup
<1>4. ASSUME NEW v \in Workers, compLock = v, cur[v] = job, key[v] = jobId[job]
      PROVE  (S!Lookup(jobId[job]) = job \/ BeingFiled(job))'
  <2>1. pc[v] = "insert"
    BY <1>4 DEF SchedulerInv, SP!FiledInv
  <2>2. CASE S!InsertEnd(w)
    <3>1. w = v
      BY <1>4, <2>2 DEF S!InsertEnd, S!Goto, SchedulerInv, SP!TypeInv, SP!Control
    <3>2. jobId[job] \notin DOMAIN finished
      <4>1. ASSUME jobId[job] \in DOMAIN finished
            PROVE  FALSE
        <5>1. jobId[job] \in DOMAIN Kept /\ jobId[Kept[jobId[job]]] = jobId[job]
          BY <1>1, <4>1, KeptEntry
             DEF SchedulerInv, SP!IdInv, SP!TableMatchesIds, SP!NoId
        <5>2. Kept[jobId[job]] \in Jobs
          BY <5>1 DEF SchedulerInv, SP!TypeInv, SP!TypeOK
        <5>3. Kept[jobId[job]] = job
          BY <1>1, <5>1, <5>2 DEF SchedulerInv, SP!IdInv, SP!TableMatchesIds, SP!NoId
        <5>. QED
          BY <1>4, <5>1, <5>3, KeptAlone
      <4>. QED
        BY <4>1
    <3>. QED
      BY <1>2, <1>4, <2>2, <3>1, <3>2 DEF S!InsertEnd, S!Inserted, S!Lookup
  <2>3. CASE ~S!InsertEnd(w)
    <3>1. compLock' = v
      BY <1>4, <2>3, NamesAssumption
         DEF S!Work, S!Wake, S!AcquireNothing, S!PopBegin, S!PopEnd, S!Execute,
             S!InsertBegin
    <3>2. cur'[v] = job /\ key'[v] = key[v]
      BY <1>4, <2>1, <2>3, NamesAssumption
         DEF S!Work, S!Wake, S!AcquireNothing, S!PopBegin, S!PopEnd, S!Execute,
             S!InsertBegin, S!Goto, S!engineVars, SchedulerInv, SP!TypeInv, SP!TypeOK
    <3>. QED
      BY <1>2, <1>4, <3>1, <3>2 DEF BeingFiled
  <2>. QED
    BY <2>2, <2>3
<1>. QED
  BY <1>2, <1>3, <1>4 DEF FoundInv, BeingFiled

LEMMA CleanedStep ==
  ASSUME Inv, [Next]_vars, ~tableRace'
  PROVE  Cleaned'
<1>. USE DEF Inv, Cleaned
<1>1. CASE Dispose
  BY <1>1, KeptInDispose
<1>2. CASE S!AssignId /\ UNCHANGED freed
  <2>1. jobId' = [jobId EXCEPT ![adding] = counter] /\ UNCHANGED finished
    BY <1>2 DEF S!AssignId, S!workerVars
  <2>2. \A j \in freed : jobId'[j] = jobId[j]
    BY <2>1, SchedulerAssumption
       DEF SchedulerInv, SP!TypeInv, SP!TypeOK, SP!IdInv, S!AssignId, SP!Control,
           S!NoId, SP!NoId, SP!ConstantsAssumption
  <2>. QED
    BY <1>2, <2>1, <2>2
<1>3. ASSUME NEW w \in Workers, Work(w)
      PROVE  Cleaned'
  <2>1. UNCHANGED <<jobId, freed>>
    BY <1>3 DEF Work, mainVars, S!Work, S!Wake, S!AcquireNothing, S!PopBegin, S!PopEnd,
                S!Execute, S!InsertBegin, S!InsertEnd, S!engineVars
  <2>2. CASE S!InsertEnd(w)
    <3>1. cur[w] # NoJob
      BY <2>2 DEF S!InsertEnd, S!Goto, SchedulerInv, SP!TypeInv, SP!Control
    <3>2. finished' = S!Inserted(finished, key[w], cur[w])
      BY <2>2 DEF S!InsertEnd
    <3>. QED
      BY <2>1, <3>1, <3>2 DEF S!Inserted
  <2>3. CASE ~S!InsertEnd(w)
    <3>1. UNCHANGED finished
      BY <1>3, <2>3 DEF Work, S!Work, S!Wake, S!AcquireNothing, S!PopBegin, S!PopEnd,
                        S!Execute, S!InsertBegin
    <3>. QED
      BY <2>1, <3>1
  <2>. QED
    BY <2>2, <2>3
<1>4. CASE UNCHANGED <<finished, jobId, freed>>
  BY <1>4
<1>. QED
  BY <1>1, <1>2, <1>3, <1>4
     DEF Next, Main, AddJob, AddJobPush, AddJobReturn, StartCheck, FindJob, MissJob,
         EndCheck, vars, mainVars, schedulerVars, S!PushBegin, S!PushEnd, S!workerVars

LEMMA FoundStep ==
  ASSUME Inv, [Next]_vars, Sound, Sound'
  PROVE  FoundInv'
<1>. USE DEF Inv, FoundInv
<1>1. ASSUME NEW j \in Jobs, AddJob(j)
      PROVE  FoundInv'
  BY <1>1 DEF AddJob, S!PushBegin, S!EngineIdle, S!workerVars, mainVars, checkVars,
              S!Lookup, BeingFiled
<1>2. CASE AddJobPush
  BY <1>2 DEF AddJobPush, S!PushEnd, S!Pushing, S!workerVars, mainVars, checkVars,
              S!Lookup, BeingFiled
<1>3. CASE AddJobReturn
  <2>1. adding \in Jobs /\ counter \in Nat /\ jobId \in [Jobs -> Nat \cup {S!NoId}]
    BY <1>3, SchedulerAssumption
       DEF AddJobReturn, S!AssignId, SchedulerInv, SP!TypeInv, SP!TypeOK, SP!Control,
           S!NoId, SP!NoId, SP!ConstantsAssumption
  <2>2. g_jobs' = Append(g_jobs, counter)
    BY <1>3, <2>1 DEF AddJobReturn, S!AssignId
  <2>3. g_jobs' \in Seq(Nat)
    BY <2>1, <2>2
  <2>4. mpc = "add" /\ mpc' \in {"sleep", "add"} /\ addPc' = "idle"
    BY <1>3 DEF AddJobReturn, S!AssignId
  <2>5. job = NoJob /\ job' = NoJob /\ i' = i
    BY <1>3, <2>4 DEF AddJobReturn, checkVars
  <2>. QED
    BY <2>3, <2>4, <2>5
<1>4. CASE StartCheck
  BY <1>4 DEF StartCheck, schedulerVars
<1>5. CASE FindJob
  <2>1. /\ i \in 0 .. Len(g_jobs) - 1
        /\ mpc = "check" /\ mpc' = "dispose"
        /\ UNCHANGED <<g_jobs, i, freed, jobId, finished, compLock, cur, key, addPc>>
    BY <1>5 DEF FindJob, schedulerVars
  <2>2. PICK j \in S!GetCompletedJob(g_jobs[i + 1]) \ {NoJob} : job' = j
    BY <1>5 DEF FindJob
  <2>3. g_jobs[i + 1] \in Nat
    BY <2>1
  <2>4. /\ j \in Jobs \ freed /\ jobId[j] = g_jobs[i + 1]
        /\ S!Lookup(jobId[j]) = j \/ BeingFiled(j)
    BY <2>2, <2>3, FoundFacts DEF Sound
  <2>5. (S!Lookup(jobId[job]) = job \/ BeingFiled(job))'
    BY <2>1, <2>2, <2>4 DEF S!Lookup, BeingFiled
  <2>. QED
    BY <2>1, <2>2, <2>3, <2>4, <2>5, NamesAssumption
<1>6. CASE MissJob
  BY <1>6 DEF MissJob, schedulerVars
<1>7. CASE Dispose
  <2>1. g_jobs' = g_jobs /\ i' = i + 1 /\ addPc' = addPc /\ mpc = "dispose"
    BY <1>7 DEF Dispose
  <2>. QED
    BY <1>7, <2>1, KeptInDispose DEF Sound
<1>8. CASE EndCheck
  BY <1>8 DEF EndCheck, schedulerVars, checkVars
<1>9. ASSUME NEW w \in Workers, Work(w)
      PROVE  FoundInv'
  <2>1. S!Work(w) /\ UNCHANGED <<g_jobs, i, mpc, job, freed, addPc>>
    BY <1>9 DEF Work, mainVars, checkVars, S!Work, S!Wake, S!AcquireNothing, S!PopBegin,
                S!PopEnd, S!Execute, S!InsertBegin, S!InsertEnd, S!engineVars
  <2>2. CASE job = NoJob
    BY <2>1, <2>2
  <2>3. CASE job # NoJob
    BY <2>1, <2>3, FoundStays DEF Sound
  <2>. QED
    BY <2>2, <2>3
<1>10. CASE UNCHANGED vars
  BY <1>10 DEF vars, schedulerVars, mainVars, checkVars, S!Lookup, BeingFiled
<1>. QED
  BY <1>1, <1>2, <1>3, <1>4, <1>5, <1>6, <1>7, <1>8, <1>9, <1>10 DEF Next, Main

SoundInv == Sound => Inv

LEMMA SoundInvAlways == Spec => []SoundInv
<1>1. Init => SoundInv
  <2>1. Init => Cleaned
    BY NamesAssumption DEF Init, S!Init, Cleaned
  <2>2. Init => FoundInv
    BY DEF Init, S!Init, FoundInv
  <2>. QED
    BY <2>1, <2>2, SchedulerInvInit DEF SoundInv, Inv
<1>2. SoundInv /\ [Next]_vars => SoundInv'
  <2>. SUFFICES ASSUME SoundInv, [Next]_vars, Sound'
                PROVE  Inv'
    BY DEF SoundInv
  <2>1. Sound /\ Inv /\ ~tableRace'
    BY SoundKept DEF SoundInv, Sound
  <2>. QED
    BY <2>1, SchedulerInvStep, CleanedStep, FoundStep DEF Inv
<1>. QED
  BY <1>1, <1>2, PTL DEF Spec

-----------------------------------------------------------------------------
(***************************************************************************)
(* Main deletes no job that the queue, a worker, the table or main itself  *)
(* still has, as long as neither a push raced with a pop nor Dispose with  *)
(* an insert.                                                              *)
(***************************************************************************)
THEOREM FreedCorrect == Spec => []NoUseAfterFree
<1>1. ASSUME Inv, Sound, NEW j \in freed
      PROVE  /\ j # job
             /\ \A k \in DOMAIN queue : queue[k] # j
             /\ \A w \in Workers : cur[w] # j
             /\ \A k \in DOMAIN finished : finished[k] # j
  <2>1. /\ j \in Jobs /\ jobId[j] \in DOMAIN finished /\ finished[jobId[j]] = NoJob
        /\ Kept[jobId[j]] = j /\ DOMAIN Kept = DOMAIN finished
    BY <1>1, KeptEntry DEF Inv, Cleaned
  <2>2. j # job
    BY <1>1, <2>1, NamesAssumption DEF Inv, FoundInv
  <2>3. /\ \A k \in DOMAIN queue : queue[k] # j
        /\ \A w \in Workers : cur[w] # j
        /\ \A k \in DOMAIN Kept : Kept[k] = j => k = jobId[j]
    BY <1>1, <2>1, KeptAlone DEF Inv, Sound
  <2>4. \A k \in DOMAIN finished : finished[k] # j
    BY <1>1, <2>1, <2>3, KeptEntry, NamesAssumption DEF Inv
  <2>. QED
    BY <2>2, <2>3, <2>4
<1>2. SoundInv => NoUseAfterFree
  BY <1>1 DEF SoundInv, NoUseAfterFree
<1>. QED
  BY <1>2, SoundInvAlways, PTL

\* The job main has found has its result.
LEMMA FoundHasResult ==
  ASSUME Inv, Sound, job # NoJob
  PROVE  result[job] # NoResult
<1>1. CASE S!Lookup(jobId[job]) = job
  <2>1. jobId[job] \in DOMAIN Kept /\ Kept[jobId[job]] = job
    BY <1>1, KeptEntry DEF Inv, S!Lookup
  <2>. QED
    BY <2>1, KeptAlone DEF Inv, Sound
<1>2. CASE BeingFiled(job)
  BY <1>2 DEF Inv, BeingFiled, SchedulerInv, SP!FiledInv
<1>. QED
  BY <1>1, <1>2 DEF Inv, FoundInv

(***************************************************************************)
(* Main deletes only jobs that have their result, although it finds a job  *)
(* as early as the moment a worker files it.                               *)
(***************************************************************************)
THEOREM FinishedCorrect == Spec => []OnlyFinishedFreed
<1>1. ASSUME Inv, Sound, NEW j \in freed
      PROVE  result[j] # NoResult
  BY <1>1, KeptEntry, KeptAlone DEF Inv, Cleaned, Sound
<1>2. SoundInv => OnlyFinishedFreed
  BY <1>1, FoundHasResult DEF SoundInv, OnlyFinishedFreed
<1>. QED
  BY <1>2, SoundInvAlways, PTL

-----------------------------------------------------------------------------
(* The end of main                                                         *)

Checked(n) == \A j \in Jobs : jobId[j] = g_jobs[n] => result[j] # NoResult

(***************************************************************************)
(* main knows the ids of all its jobs, and as long as this call of         *)
(* gCheckJobs has missed none, every one it has looked at has its result:  *)
(* results are never taken back, deleted or not.                           *)
(***************************************************************************)
ListInv ==
  /\ \A j \in Jobs : jobId[j] # S!NoId => \E n \in DOMAIN g_jobs : g_jobs[n] = jobId[j]
  /\ mpc \in {"check", "dispose"} =>
       i <= Len(g_jobs) /\ (~jobsLeft => \A n \in 1 .. i : Checked(n))
  /\ mpc = "dispose" => i < Len(g_jobs) /\ jobId[job] = g_jobs[i + 1]
  /\ mpc = "done" => \A n \in DOMAIN g_jobs : Checked(n)

LEMMA ListInit == Init => ListInv
  BY DEF Init, S!Init, ListInv

\* A step of a worker leaves the results that are there.
LEMMA ListInWork ==
  ASSUME Inv, ListInv, NEW w \in Workers, Work(w)
  PROVE  ListInv'
<1>1. UNCHANGED <<jobId, g_jobs, mpc, i, job, jobsLeft>>
  BY DEF Work, mainVars, checkVars, S!Work, S!Wake, S!AcquireNothing, S!PopBegin,
         S!PopEnd, S!Execute, S!InsertBegin, S!InsertEnd, S!engineVars
<1>2. \A j \in Jobs : result[j] # NoResult => result'[j] # NoResult
  <2>1. CASE S!Execute(w)
    <3>1. PICK r \in Results : result' = [result EXCEPT ![cur[w]] = r]
      BY <2>1 DEF S!Execute
    <3>2. DOMAIN result = Jobs
      BY DEF Inv, SchedulerInv, SP!TypeInv, SP!TypeOK
    <3>. QED
      BY <3>1, <3>2, NamesAssumption
  <2>2. CASE ~S!Execute(w)
    <3>1. UNCHANGED result
      BY <2>2 DEF Work, S!Work, S!Wake, S!AcquireNothing, S!PopBegin, S!PopEnd,
                  S!InsertBegin, S!InsertEnd
    <3>. QED
      BY <3>1
  <2>. QED
    BY <2>1, <2>2
<1>3. \A n : Checked(n) => Checked(n)'
  BY <1>1, <1>2 DEF Checked
<1>. QED
  BY <1>1, <1>3 DEF ListInv

LEMMA ListStep ==
  ASSUME Inv, Sound, ListInv, [Next]_vars
  PROVE  ListInv'
<1>. USE DEF ListInv, Checked
<1>1. ASSUME NEW j \in Jobs, AddJob(j)
      PROVE  ListInv'
  BY <1>1 DEF AddJob, S!PushBegin, S!workerVars, mainVars, checkVars
<1>2. CASE AddJobPush
  BY <1>2 DEF AddJobPush, S!PushEnd, S!Pushing, S!workerVars, mainVars, checkVars
<1>3. CASE AddJobReturn
  <2>1. /\ adding \in Jobs /\ DOMAIN jobId = Jobs
        /\ jobId' = [jobId EXCEPT ![adding] = counter]
        /\ mpc' \in {"sleep", "add"}
    BY <1>3, SchedulerAssumption
       DEF AddJobReturn, S!AssignId, Inv, SchedulerInv, SP!TypeInv, SP!TypeOK,
           SP!Control, SP!ConstantsAssumption
  <2>2. g_jobs' = Append(g_jobs, counter)
    BY <1>3, <2>1 DEF AddJobReturn
  <2>3. /\ DOMAIN g_jobs' = 1 .. Len(g_jobs) + 1
        /\ g_jobs'[Len(g_jobs) + 1] = counter
        /\ \A n \in DOMAIN g_jobs : g_jobs'[n] = g_jobs[n]
        /\ DOMAIN g_jobs = 1 .. Len(g_jobs) /\ Len(g_jobs) \in Nat
    BY <1>3, <2>2 DEF Inv, FoundInv, AddJobReturn, S!AssignId, SchedulerInv, SP!TypeInv,
                      SP!TypeOK
  <2>4. ASSUME NEW j \in Jobs, jobId'[j] # S!NoId
        PROVE  \E n \in DOMAIN g_jobs' : g_jobs'[n] = jobId'[j]
    <3>1. CASE j = adding
      BY <2>1, <2>3, <3>1
    <3>2. CASE j # adding
      BY <2>1, <2>3, <2>4, <3>2
    <3>. QED
      BY <3>1, <3>2
  <2>. QED
    BY <2>1, <2>4
<1>4. CASE StartCheck
  BY <1>4 DEF StartCheck, schedulerVars, Inv, FoundInv
<1>5. CASE FindJob
  <2>1. /\ i < Len(g_jobs) /\ i \in Nat /\ Len(g_jobs) \in Nat
        /\ g_jobs[i + 1] \in Nat
    BY <1>5 DEF FindJob, Inv, FoundInv
  <2>2. jobId[job'] = g_jobs[i + 1]
    BY <1>5, <2>1, FoundFacts DEF FindJob, Sound
  <2>3. /\ UNCHANGED <<g_jobs, i, jobId, result, jobsLeft>>
        /\ mpc = "check" /\ mpc' = "dispose"
    BY <1>5 DEF FindJob, JobsLeftFound, schedulerVars
  <2>. QED
    BY <2>1, <2>2, <2>3
<1>6. CASE MissJob
  BY <1>6 DEF MissJob, schedulerVars, Inv, FoundInv
<1>7. CASE Dispose
  <2>1. /\ UNCHANGED <<g_jobs, jobId, result, jobsLeft>>
        /\ i' = i + 1 /\ mpc = "dispose" /\ mpc' = "check"
    BY <1>7 DEF Dispose
  <2>2. job \in Jobs /\ jobId[job] \in Nat /\ result[job] # NoResult /\ i \in Nat
    BY <2>1, FoundHasResult DEF Inv, FoundInv
  <2>3. Checked(i + 1)
    <3>1. \A j \in Jobs : jobId[j] = jobId[job] => j = job
      BY <2>2 DEF Inv, SchedulerInv, SP!IdInv, SP!TableMatchesIds, SP!NoId
    <3>. QED
      BY <2>1, <2>2, <3>1
  <2>4. Len(g_jobs) \in Nat
    BY DEF Inv, FoundInv
  <2>5. \A n \in 1 .. i + 1 : n \in 1 .. i \/ n = i + 1
    BY <2>2
  <2>. QED
    BY <2>1, <2>2, <2>3, <2>4, <2>5
<1>8. CASE EndCheck
  <2>1. i = Len(g_jobs) /\ DOMAIN g_jobs = 1 .. Len(g_jobs)
    BY <1>8 DEF EndCheck, Inv, FoundInv
  <2>2. /\ UNCHANGED <<g_jobs, jobId, result, jobsLeft, i>>
        /\ mpc = "check" /\ mpc' = IF jobsLeft THEN "sleep" ELSE "done"
    BY <1>8 DEF EndCheck, schedulerVars, checkVars
  <2>. QED
    BY <2>1, <2>2
<1>9. CASE UNCHANGED vars
  BY <1>9 DEF vars, schedulerVars, mainVars, checkVars
<1>. QED
  BY <1>1, <1>2, <1>3, <1>4, <1>5, <1>6, <1>7, <1>8, <1>9, ListInWork DEF Next, Main

(***************************************************************************)
(* main ends only when all jobs it has added have run to their end, for    *)
(* any number of them, whatever they do while it looks at the others.      *)
(***************************************************************************)
THEOREM EndCorrect == Spec => []EndsWithAllDone
<1>1. SoundInv /\ (Sound => ListInv) /\ [Next]_vars => (Sound => ListInv)'
  BY SoundKept, ListStep DEF SoundInv
<1>2. Sound /\ ListInv => EndsWithAllDone
  BY DEF ListInv, Checked, EndsWithAllDone
<1>3. (Sound => ListInv) => EndsWithAllDone
  BY <1>2 DEF EndsWithAllDone
<1>. QED
  BY <1>1, <1>3, ListInit, SoundInvAlways, PTL DEF Spec

-----------------------------------------------------------------------------
(* The abstract pool                                                       *)

Pool == INSTANCE JobPool WITH
  waiting <- queue,
  running <- {j \in Jobs : S!Held(j)},
  ended <- {j \in taken : ~S!Held(j)},
  broken <- ~Sound

LEMMA PoolInit == Init => Pool!Init
<1>. SUFFICES ASSUME Init
              PROVE  Pool!Init
  OBVIOUS
<1>1. queue = <<>> /\ taken = {} /\ Sound
  BY DEF Init, S!Init, Sound, S!Sound
<1>2. \A j \in Jobs : ~S!Held(j)
  <2>1. cur = [w \in Workers |-> NoJob]
    BY DEF Init, S!Init
  <2>. QED
    BY <2>1, NamesAssumption DEF S!Held
<1>. QED
  BY <1>1, <1>2 DEF Pool!Init

LEMMA PoolStep == SoundInv /\ [Next]_vars => [Pool!Next]_(Pool!vars)
<1>. SUFFICES ASSUME SoundInv, [Next]_vars, Sound'
              PROVE  [Pool!Next]_(Pool!vars)
  BY DEF Pool!Next
<1>1. Sound /\ Inv /\ ~tableRace' /\ S!Sound /\ S!Sound'
  BY SoundKept DEF SoundInv, Sound
<1>2. [SP!Pool!Next]_(SP!Pool!vars)
  BY <1>1, SchedulerStep, SchedulerAssumption, SP!PoolStep DEF Inv, SchedulerInv
<1>3. /\ {j \in Jobs : S!Held(j)} = {j \in Jobs : SP!Held(j)}
      /\ {j \in Jobs : S!Held(j)}' = {j \in Jobs : SP!Held(j)}'
      /\ {j \in taken : ~S!Held(j)} = {j \in taken : ~SP!Held(j)}
      /\ {j \in taken : ~S!Held(j)}' = {j \in taken : ~SP!Held(j)}'
      /\ SP!Sound /\ SP!Sound'
  BY <1>1 DEF S!Held, SP!Held, S!Sound, SP!Sound
<1>4. CASE UNCHANGED SP!Pool!vars
  BY <1>1, <1>3, <1>4 DEF SP!Pool!vars, Pool!vars
<1>5. ASSUME NEW j \in Jobs, SP!Pool!Add(j)
      PROVE  Pool!Add(j)
  BY <1>3, <1>5 DEF SP!Pool!Add, Pool!Add, SP!Pool!ToSet, Pool!ToSet
<1>6. ASSUME SP!Pool!Take
      PROVE  Pool!Take
  BY <1>3, <1>6 DEF SP!Pool!Take, Pool!Take
<1>7. ASSUME NEW j \in Jobs, SP!Pool!End(j)
      PROVE  Pool!End(j)
  BY <1>3, <1>7 DEF SP!Pool!End, Pool!End
<1>. QED
  BY <1>1, <1>2, <1>3, <1>4, <1>5, <1>6, <1>7 DEF SP!Pool!Next, Pool!Next

(***************************************************************************)
(* The console program gives its jobs to the abstract pool, too: that main *)
(* takes finished jobs out of the table and deletes them while others are  *)
(* waiting or running is not to be seen there, so a Dispose disturbs no    *)
(* job but its own, as long as it does not overlap with an insert.         *)
(***************************************************************************)
THEOREM PoolUsed == Spec => Pool!Spec
  BY PoolInit, PoolStep, SoundInvAlways, PTL DEF Spec, Pool!Spec
=============================================================================
