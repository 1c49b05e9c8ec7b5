--------------------------- MODULE SchedulerProofs ---------------------------
(***************************************************************************)
(* Proofs of the safety properties of module Scheduler, for every set of   *)
(* jobs, workers and results.                                              *)
(***************************************************************************)
EXTENDS Scheduler, SequenceTheorems, TLAPS

-----------------------------------------------------------------------------
(* Facts about sequences                                                   *)

(***************************************************************************)
(* Appending a job to the queue, what AddJob's push does.                  *)
(***************************************************************************)
LEMMA AppendFacts ==
  ASSUME NEW S, NEW q \in Seq(S), NEW e \in S
  PROVE  /\ Append(q, e) \in Seq(S)
         /\ Append(q, e) # <<>>
         /\ Len(Append(q, e)) = Len(q) + 1
         /\ \A i \in 1 .. Len(q) : Append(q, e)[i] = q[i]
         /\ Append(q, e)[Len(q) + 1] = e
         /\ ToSet(Append(q, e)) = ToSet(q) \cup {e}
<1>1. /\ Append(q, e) \in Seq(S)
      /\ Len(Append(q, e)) = Len(q) + 1
      /\ \A i \in 1 .. Len(q) : Append(q, e)[i] = q[i]
      /\ Append(q, e)[Len(q) + 1] = e
  OBVIOUS
<1>2. Append(q, e) # <<>>
  BY <1>1, EmptySeq
<1>3. ToSet(Append(q, e)) = ToSet(q) \cup {e}
  <2>1. DOMAIN Append(q, e) = DOMAIN q \cup {Len(q) + 1}
    BY <1>1, LenProperties
  <2>2. DOMAIN q = 1 .. Len(q)
    BY LenProperties
  <2>. QED
    BY <1>1, <2>1, <2>2 DEF ToSet
<1>. QED
  BY <1>1, <1>2, <1>3

(***************************************************************************)
(* Taking the first job off the queue, what AcquireJob's front and pop do. *)
(***************************************************************************)
LEMMA TailFacts ==
  ASSUME NEW S, NEW q \in Seq(S), q # <<>>
  PROVE  /\ Head(q) \in S
         /\ Tail(q) \in Seq(S)
         /\ Len(q) \in Nat \ {0}
         /\ Len(Tail(q)) = Len(q) - 1
         /\ Head(q) = q[1]
         /\ \A i \in 1 .. Len(Tail(q)) : Tail(q)[i] = q[i + 1]
         /\ ToSet(q) = ToSet(Tail(q)) \cup {Head(q)}
<1>1. /\ Head(q) \in S
      /\ Tail(q) \in Seq(S)
      /\ Len(Tail(q)) = Len(q) - 1
      /\ \A i \in 1 .. Len(Tail(q)) : Tail(q)[i] = q[i + 1]
  BY HeadTailProperties
<1>2. Len(q) \in Nat \ {0}
  BY EmptySeq
<1>3. Head(q) = q[1]
  OBVIOUS
<1>4. ToSet(q) = ToSet(Tail(q)) \cup {Head(q)}
  <2>1. DOMAIN q = 1 .. Len(q) /\ DOMAIN Tail(q) = 1 .. Len(q) - 1
    BY <1>1, LenProperties
  <2>2. ASSUME NEW i \in 1 .. Len(q)
        PROVE  q[i] \in ToSet(Tail(q)) \cup {Head(q)}
    <3>1. CASE i = 1
      BY <3>1, <1>3
    <3>2. CASE i # 1
      <4>1. i - 1 \in 1 .. Len(q) - 1 /\ Tail(q)[i - 1] = q[i]
        BY <3>2, <1>1, <1>2
      <4>. QED
        BY <4>1, <2>1 DEF ToSet
    <3>. QED
      BY <3>1, <3>2
  <2>3. ASSUME NEW i \in 1 .. Len(q) - 1
        PROVE  Tail(q)[i] \in ToSet(q)
    <3>1. i + 1 \in 1 .. Len(q) /\ Tail(q)[i] = q[i + 1]
      BY <1>1, <1>2
    <3>. QED
      BY <3>1, <2>1 DEF ToSet
  <2>4. Head(q) \in ToSet(q)
    BY <1>2, <1>3, <2>1 DEF ToSet
  <2>. QED
    BY <2>1, <2>2, <2>3, <2>4 DEF ToSet
<1>. QED
  BY <1>1, <1>2, <1>3, <1>4

(***************************************************************************)
(* A queue without its last job, one outcome of a push that races a pop.   *)
(***************************************************************************)
LEMMA FrontFacts ==
  ASSUME NEW S, NEW q \in Seq(S)
  PROVE  /\ Front(q) \in Seq(S)
         /\ ToSet(Front(q)) \subseteq ToSet(q)
<1>. DEFINE f == SubSeq(q, 1, Len(q) - 1)
<1>1. f \in Seq(S) /\ \A i \in 1 .. Len(q) - 1 : f[i] = q[i]
  OBVIOUS
<1>2. DOMAIN q = 1 .. Len(q) /\ DOMAIN f = 1 .. Len(f)
  BY <1>1, LenProperties
<1>3. ASSUME NEW i \in 1 .. Len(f)
      PROVE  f[i] \in ToSet(q)
  <2>1. i \in 1 .. Len(q) - 1 /\ i \in 1 .. Len(q)
    OBVIOUS
  <2>2. f[i] = q[i]
    BY <1>1, <2>1
  <2>. QED
    BY <1>2, <2>1, <2>2 DEF ToSet
<1>. HIDE DEF f
<1>4. ToSet(f) \subseteq ToSet(q)
  BY <1>2, <1>3 DEF ToSet
<1>. QED
  BY <1>1, <1>4 DEF f, Front

-----------------------------------------------------------------------------
(* Types                                                                   *)

(***************************************************************************)
(* What ties the program counters to the data they stand for.  A queue     *)
(* that had a job when pop was entered still has one when it ends: no      *)
(* other pop can run, and a push only adds to it.                          *)
(***************************************************************************)
Control ==
  /\ addPc = "idle" <=> adding = NoJob
  /\ \A w \in Workers : pc[w] = "pop" => acqLock = w /\ queue # <<>>
  /\ \A w \in Workers :
       pc[w] \in {"execute", "deposit", "insert"} <=> cur[w] # NoJob
  /\ \A w \in Workers : pc[w] = "insert" => compLock = w

TypeInv == TypeOK /\ Control

(***************************************************************************)
(* What the end of a push or a pop leaves in the queue are jobs, also      *)
(* after a data race.                                                      *)
(***************************************************************************)
LEMMA QueueAfterType ==
  ASSUME TypeOK, NEW q \in Seq(Jobs), NEW other \in BOOLEAN,
         QueueAfter(q, other)
  PROVE  queue' \in Seq(Jobs) /\ race' \in {"none", "now", "past"}
<1>1. CASE race = "now" /\ ~other
  <2>1. queue' \in Torn(q) /\ race' = "past"
    BY <1>1 DEF QueueAfter
  <2>2. Front(q) \in Seq(Jobs)
    BY FrontFacts
  <2>3. ASSUME NEW s \in taken
        PROVE  Append(q, s) \in Seq(Jobs) /\ <<s>> \in Seq(Jobs)
    BY AppendFacts DEF TypeOK
  <2>4. Torn(q) \subseteq Seq(Jobs)
    BY <2>2, <2>3 DEF Torn
  <2>. QED
    BY <2>1, <2>4
<1>2. CASE ~(race = "now" /\ ~other)
  BY <1>2 DEF QueueAfter, TypeOK
<1>. QED
  BY <1>1, <1>2

(***************************************************************************)
(* The variables of module Scheduler keep their types: Scheduler::AddJob,  *)
(* AcquireJob and CompleteJob called from any number of threads.           *)
(***************************************************************************)
LEMMA TypeInit == Init => TypeInv
  BY ConstantsAssumption, EmptySeq DEF Init, TypeInv, TypeOK, Control, NoId

LEMMA TypeStep == TypeInv /\ [Next]_vars => TypeInv'
<1>. SUFFICES ASSUME TypeInv, [Next]_vars
              PROVE  TypeInv'
  OBVIOUS
<1>. USE ConstantsAssumption DEF TypeInv
<1>1. ASSUME NEW j \in Jobs, PushBegin(j)
      PROVE  TypeInv'
  BY <1>1 DEF PushBegin, EngineIdle, Fresh, workerVars, TypeOK, Control
<1>2. CASE PushEnd
  <2>1. adding \in Jobs /\ addPc = "push"
    BY <1>2 DEF PushEnd, Pushing, TypeOK, Control
  <2>2. Append(queue, adding) \in Seq(Jobs) /\ Append(queue, adding) # <<>>
    BY <2>1, AppendFacts DEF TypeOK
  <2>3. queue' \in Seq(Jobs) /\ race' \in {"none", "now", "past"}
    BY <1>2, <2>2, QueueAfterType DEF PushEnd, Popping
  <2>4. TypeOK'
    BY <1>2, <2>3 DEF PushEnd, workerVars, TypeOK
  <2>5. ASSUME NEW w \in Workers, pc[w] = "pop"
        PROVE  queue' # <<>>
    <3>1. Popping
      BY <2>5 DEF Control, Popping
    <3>. QED
      BY <1>2, <2>2, <3>1 DEF PushEnd, QueueAfter
  <2>6. Control'
    BY <1>2, <2>1, <2>5 DEF PushEnd, workerVars, Control
  <2>. QED
    BY <2>4, <2>6
<1>3. CASE AssignId
  BY <1>3 DEF AssignId, NextCounter, workerVars, TypeOK, Control
<1>4. ASSUME NEW w \in Workers, Wake(w)
      PROVE  TypeInv'
  BY <1>4 DEF Wake, Goto, engineVars, TypeOK, Control
<1>5. ASSUME NEW w \in Workers, AcquireNothing(w)
      PROVE  TypeInv'
  BY <1>5 DEF AcquireNothing, Goto, engineVars, TypeOK, Control
<1>6. ASSUME NEW w \in Workers, PopBegin(w)
      PROVE  TypeInv'
  <2>1. Pushing => adding \in Jobs
    BY DEF Pushing, TypeOK, Control
  <2>. QED
    BY <1>6, <2>1 DEF PopBegin, Goto, engineVars, TypeOK, Control
<1>7. ASSUME NEW w \in Workers, PopEnd(w)
      PROVE  TypeInv'
  <2>1. queue # <<>> /\ acqLock = w /\ pc[w] = "pop"
    BY <1>7 DEF PopEnd, Goto, Control
  <2>2. Tail(queue) \in Seq(Jobs) /\ Head(queue) \in Jobs
    BY <2>1, TailFacts DEF TypeOK
  <2>3. queue' \in Seq(Jobs) /\ race' \in {"none", "now", "past"}
    BY <1>7, <2>2, QueueAfterType DEF PopEnd, AfterPop, Pushing
  <2>4. TypeOK'
    BY <1>7, <2>2, <2>3 DEF PopEnd, Goto, NextJob, engineVars, TypeOK
  <2>5. Control'
    BY <1>7, <2>1, <2>2 DEF PopEnd, Goto, NextJob, engineVars, TypeOK, Control
  <2>. QED
    BY <2>4, <2>5
<1>8. ASSUME NEW w \in Workers, Execute(w)
      PROVE  TypeInv'
  BY <1>8 DEF Execute, Goto, engineVars, TypeOK, Control
<1>9. ASSUME NEW w \in Workers, InsertBegin(w)
      PROVE  TypeInv'
  BY <1>9 DEF InsertBegin, Goto, engineVars, TypeOK, Control
<1>10. ASSUME NEW w \in Workers, InsertEnd(w)
       PROVE  TypeInv'
  <2>1. cur[w] \in Jobs /\ key[w] \in Nat \cup {NoId}
    BY <1>10 DEF InsertEnd, Goto, TypeOK, Control
  <2>2. /\ DOMAIN finished' \subseteq Nat \cup {NoId}
        /\ \A k \in DOMAIN finished' : finished'[k] \in Jobs
    BY <1>10, <2>1 DEF InsertEnd, Inserted, TypeOK
  <2>3. TypeOK'
    BY <1>10, <2>2 DEF InsertEnd, Goto, engineVars, TypeOK
  <2>4. Control'
    BY <1>10 DEF InsertEnd, Goto, engineVars, TypeOK, Control
  <2>. QED
    BY <2>3, <2>4
<1>11. CASE UNCHANGED vars
  BY <1>11 DEF vars, TypeOK, Control
<1>. QED
  BY <1>1, <1>2, <1>3, <1>4, <1>5, <1>6, <1>7, <1>8, <1>9, <1>10, <1>11
     DEF Next, Work

THEOREM TypeCorrect == Spec => []TypeOK
<1>1. Spec => []TypeInv
  BY TypeInit, TypeStep, PTL DEF Spec
<1>. QED
  BY <1>1, PTL DEF TypeInv

-----------------------------------------------------------------------------
(* Ids and the table of finished jobs                                      *)

(***************************************************************************)
(* Why TableMatchesIds holds.  Ids come from a counter that only grows,    *)
(* and AddJob numbers a job that has no id yet, so an id read by a worker  *)
(* before it files the job is either no id or the job's id for good.       *)
(***************************************************************************)
IdInv ==
  /\ TableMatchesIds
  /\ \A j \in Jobs : jobId[j] < counter
  /\ adding # NoJob => jobId[adding] = NoId
  /\ \A w \in Workers :
       pc[w] = "insert" /\ key[w] # NoId => jobId[cur[w]] = key[w]

LEMMA IdInit == Init => IdInv
  BY DEF Init, IdInv, TableMatchesIds, NoId

LEMMA IdStep == TypeInv /\ IdInv /\ [Next]_vars => IdInv'
<1>. SUFFICES ASSUME TypeInv, IdInv, [Next]_vars
              PROVE  IdInv'
  OBVIOUS
<1>. USE ConstantsAssumption DEF TypeInv
<1>1. ASSUME NEW j \in Jobs, PushBegin(j)
      PROVE  IdInv'
  BY <1>1 DEF PushBegin, EngineIdle, Fresh, workerVars, IdInv, TableMatchesIds
<1>2. CASE PushEnd
  BY <1>2 DEF PushEnd, workerVars, IdInv, TableMatchesIds
<1>3. CASE AssignId
  <2>1. adding \in Jobs /\ jobId[adding] = NoId
    BY <1>3 DEF AssignId, TypeOK, Control, IdInv
  <2>2. /\ counter' = counter + 1
        /\ adding' = NoJob
        /\ jobId' = [jobId EXCEPT ![adding] = counter]
        /\ UNCHANGED <<finished, pc, key, cur>>
    BY <1>3 DEF AssignId, NextCounter, workerVars
  <2>3. \A j \in Jobs : jobId'[j] < counter'
    BY <2>1, <2>2 DEF TypeOK, IdInv, NoId
  <2>4. \A i, j \in Jobs : jobId'[i] = jobId'[j] /\ jobId'[i] # NoId => i = j
    BY <2>1, <2>2 DEF TypeOK, IdInv, TableMatchesIds, NoId
  <2>5. \A k \in DOMAIN finished' : k # NoId => jobId'[finished'[k]] = k
    BY <2>1, <2>2 DEF TypeOK, IdInv, TableMatchesIds
  <2>6. \A w \in Workers :
          pc'[w] = "insert" /\ key'[w] # NoId => jobId'[cur'[w]] = key'[w]
    BY <2>1, <2>2 DEF TypeOK, Control, IdInv
  <2>. QED
    BY <2>2, <2>3, <2>4, <2>5, <2>6 DEF IdInv, TableMatchesIds
<1>4. ASSUME NEW w \in Workers, Wake(w)
      PROVE  IdInv'
  BY <1>4 DEF Wake, Goto, engineVars, TypeOK, IdInv, TableMatchesIds
<1>5. ASSUME NEW w \in Workers, AcquireNothing(w)
      PROVE  IdInv'
  BY <1>5 DEF AcquireNothing, Goto, engineVars, TypeOK, IdInv, TableMatchesIds
<1>6. ASSUME NEW w \in Workers, PopBegin(w)
      PROVE  IdInv'
  BY <1>6 DEF PopBegin, Goto, engineVars, TypeOK, IdInv, TableMatchesIds
<1>7. ASSUME NEW w \in Workers, PopEnd(w)
      PROVE  IdInv'
  BY <1>7 DEF PopEnd, Goto, engineVars, TypeOK, IdInv, TableMatchesIds
<1>8. ASSUME NEW w \in Workers, Execute(w)
      PROVE  IdInv'
  BY <1>8 DEF Execute, Goto, engineVars, TypeOK, IdInv, TableMatchesIds
<1>9. ASSUME NEW w \in Workers, InsertBegin(w)
      PROVE  IdInv'
  BY <1>9 DEF InsertBegin, Goto, engineVars, TypeOK, IdInv, TableMatchesIds
<1>10. ASSUME NEW w \in Workers, InsertEnd(w)
       PROVE  IdInv'
  <2>1. cur[w] \in Jobs /\ (key[w] # NoId => jobId[cur[w]] = key[w])
    BY <1>10 DEF InsertEnd, Goto, TypeOK, Control, IdInv
  <2>2. \A k \in DOMAIN finished' : k # NoId => jobId[finished'[k]] = k
    BY <1>10, <2>1 DEF InsertEnd, Inserted, IdInv, TableMatchesIds
  <2>3. UNCHANGED <<jobId, counter, adding, key>>
    BY <1>10 DEF InsertEnd, engineVars
  <2>4. \A v \in Workers : pc'[v] = "insert" => pc[v] = "insert" /\ cur'[v] = cur[v]
    BY <1>10 DEF InsertEnd, Goto, TypeOK
  <2>. QED
    BY <2>2, <2>3, <2>4 DEF IdInv, TableMatchesIds
<1>11. CASE UNCHANGED vars
  BY <1>11 DEF vars, IdInv, TableMatchesIds
<1>. QED
  BY <1>1, <1>2, <1>3, <1>4, <1>5, <1>6, <1>7, <1>8, <1>9, <1>10, <1>11
     DEF Next, Work

(***************************************************************************)
(* Whatever the engine thread and the workers do, data races on the queue  *)
(* included, GetCompletedJob never yields the job of another call.         *)
(***************************************************************************)
THEOREM TableCorrect == Spec => []TableMatchesIds
<1>1. Spec => [](TypeInv /\ IdInv)
  BY TypeInit, TypeStep, IdInit, IdStep, PTL DEF Spec
<1>. QED
  BY <1>1, PTL DEF IdInv

-----------------------------------------------------------------------------
(* Jobs without an id                                                      *)

(***************************************************************************)
(* The end of a push or a pop leaves nothing in the queue but what belongs *)
(* there and, after a data race, jobs that were popped before.             *)
(***************************************************************************)
LEMMA QueueAfterMembers ==
  ASSUME TypeOK, NEW q \in Seq(Jobs), NEW other \in BOOLEAN,
         QueueAfter(q, other)
  PROVE  ToSet(queue') \subseteq ToSet(q) \cup taken
<1>1. CASE race = "now" /\ ~other
  <2>1. queue' \in Torn(q)
    BY <1>1 DEF QueueAfter
  <2>2. ToSet(Front(q)) \subseteq ToSet(q)
    BY FrontFacts
  <2>3. ASSUME NEW s \in taken
        PROVE  /\ ToSet(Append(q, s)) \subseteq ToSet(q) \cup taken
               /\ ToSet(<<s>>) \subseteq taken
    <3>1. s \in Jobs
      BY DEF TypeOK
    <3>2. ToSet(Append(q, s)) = ToSet(q) \cup {s}
      BY <3>1, AppendFacts
    <3>3. ToSet(<<s>>) = {s}
      BY DEF ToSet
    <3>. QED
      BY <3>2, <3>3
  <2>. QED
    BY <2>1, <2>2, <2>3 DEF Torn
<1>2. CASE ~(race = "now" /\ ~other)
  BY <1>2 DEF QueueAfter
<1>. QED
  BY <1>1, <1>2

LEMMA LacksIdInit == Init => OnlyAddingLacksId
  BY DEF Init, OnlyAddingLacksId, ToSet

LEMMA LacksIdStep ==
  TypeInv /\ OnlyAddingLacksId /\ [Next]_vars => OnlyAddingLacksId'
<1>. SUFFICES ASSUME TypeInv, OnlyAddingLacksId, [Next]_vars
              PROVE  OnlyAddingLacksId'
  OBVIOUS
<1>. USE ConstantsAssumption DEF TypeInv
<1>0. taken \cup ToSet(queue) \subseteq Jobs
  BY LenProperties, ElementOfSeq DEF TypeOK, ToSet
<1>1. ASSUME NEW j \in Jobs, PushBegin(j)
      PROVE  OnlyAddingLacksId'
  BY <1>0, <1>1 DEF PushBegin, EngineIdle, workerVars, Control, OnlyAddingLacksId
<1>2. CASE PushEnd
  <2>1. adding \in Jobs
    BY <1>2 DEF PushEnd, Pushing, TypeOK, Control
  <2>2. /\ Append(queue, adding) \in Seq(Jobs)
        /\ ToSet(Append(queue, adding)) = ToSet(queue) \cup {adding}
    BY <2>1, AppendFacts DEF TypeOK
  <2>3. ToSet(queue') \subseteq ToSet(queue) \cup {adding} \cup taken
    BY <1>2, <2>2, QueueAfterMembers DEF PushEnd, Popping
  <2>. QED
    BY <1>2, <2>3 DEF PushEnd, workerVars, OnlyAddingLacksId
<1>3. CASE AssignId
  BY <1>0, <1>3 DEF AssignId, workerVars, TypeOK, Control, OnlyAddingLacksId, NoId
<1>4. ASSUME NEW w \in Workers, PopEnd(w)
      PROVE  OnlyAddingLacksId'
  <2>1. queue # <<>>
    BY <1>4 DEF PopEnd, Goto, Control
  <2>2. /\ Tail(queue) \in Seq(Jobs)
        /\ ToSet(queue) = ToSet(Tail(queue)) \cup {Head(queue)}
    BY <2>1, TailFacts DEF TypeOK
  <2>3. ToSet(queue') \subseteq ToSet(queue) \cup taken
    BY <1>4, <2>2, QueueAfterMembers DEF PopEnd, AfterPop, Pushing
  <2>. QED
    BY <1>4, <2>2, <2>3 DEF PopEnd, NextJob, engineVars, OnlyAddingLacksId
<1>5. ASSUME NEW w \in Workers,
             Wake(w) \/ AcquireNothing(w) \/ PopBegin(w) \/ Execute(w)
               \/ InsertBegin(w) \/ InsertEnd(w)
      PROVE  OnlyAddingLacksId'
  BY <1>5 DEF Wake, AcquireNothing, PopBegin, Execute, InsertBegin, InsertEnd,
              engineVars, OnlyAddingLacksId
<1>6. CASE UNCHANGED vars
  BY <1>6 DEF vars, OnlyAddingLacksId
<1>. QED
  BY <1>1, <1>2, <1>3, <1>4, <1>5, <1>6 DEF Next, Work

(***************************************************************************)
(* A call to AddJob that a worker overtakes spoils its own job only.       *)
(***************************************************************************)
THEOREM LacksIdCorrect == Spec => []OnlyAddingLacksId
  BY TypeInit, TypeStep, LacksIdInit, LacksIdStep, PTL DEF Spec

-----------------------------------------------------------------------------
(* Custody, results and order while no push has raced with a pop           *)

(***************************************************************************)
(* The strengthening of SingleCustody: the job AddJob is pushing is        *)
(* nowhere else, and a job a worker holds was taken.                       *)
(***************************************************************************)
Custody ==
  /\ SingleCustody
  /\ Sound /\ addPc = "push" => adding \notin ToSet(queue) \cup taken
  /\ \A w \in Workers : cur[w] # NoJob => cur[w] \in taken

\* The queue is as it should be if no race has happened by the end.
LEMMA QueueAfterSound ==
  ASSUME NEW q, NEW other, QueueAfter(q, other), Sound'
  PROVE  queue' = q /\ Sound
  BY DEF QueueAfter, Sound

LEMMA CustodyInit == Init => Custody
  BY DEF Init, Custody, SingleCustody, IsInjective, ToSet

LEMMA CustodyStep ==
  TypeInv /\ OnlyAddingLacksId /\ Custody /\ [Next]_vars => Custody'
<1>. SUFFICES ASSUME TypeInv, OnlyAddingLacksId, Custody, [Next]_vars
              PROVE  Custody'
  OBVIOUS
<1>. USE ConstantsAssumption DEF TypeInv
<1>1. ASSUME NEW j \in Jobs, PushBegin(j)
      PROVE  Custody'
  <2>1. j \notin taken \cup ToSet(queue)
    BY <1>1 DEF PushBegin, Fresh, OnlyAddingLacksId
  <2>2. Sound' => Sound
    BY <1>1 DEF PushBegin, Sound
  <2>. QED
    BY <1>1, <2>1, <2>2 DEF PushBegin, workerVars, Custody, SingleCustody
<1>2. CASE PushEnd
  <2>1. adding \in Jobs /\ addPc = "push" /\ addPc' = "assign"
    BY <1>2 DEF PushEnd, Pushing, TypeOK, Control
  <2>2. UNCHANGED <<taken, cur>>
    BY <1>2 DEF PushEnd, workerVars
  <2>3. ASSUME Sound'
        PROVE  IsInjective(queue') /\ ToSet(queue') \cap taken = {}
    <3>1. queue' = Append(queue, adding) /\ Sound
      BY <1>2, <2>3, QueueAfterSound DEF PushEnd
    <3>2. /\ IsInjective(queue)
          /\ ToSet(queue) \cap taken = {}
          /\ adding \notin ToSet(queue) \cup taken
      BY <2>1, <3>1 DEF Custody, SingleCustody
    <3>3. /\ ToSet(queue') = ToSet(queue) \cup {adding}
          /\ queue \in Seq(Jobs) /\ queue' \in Seq(Jobs)
          /\ Len(queue') = Len(queue) + 1
          /\ \A i \in 1 .. Len(queue) : queue'[i] = queue[i]
          /\ queue'[Len(queue) + 1] = adding
      BY <2>1, <3>1, AppendFacts DEF TypeOK
    <3>4. DOMAIN queue = 1 .. Len(queue) /\ DOMAIN queue' = 1 .. Len(queue) + 1
      BY <3>3, LenProperties
    <3>5. \A i \in 1 .. Len(queue) : queue[i] # adding
      BY <3>2, <3>4 DEF ToSet
    <3>6. IsInjective(queue')
      BY <3>2, <3>3, <3>4, <3>5 DEF IsInjective
    <3>. QED
      BY <3>2, <3>3, <3>6
  <2>4. Sound' => Sound
    BY <1>2, QueueAfterSound DEF PushEnd
  <2>. QED
    BY <2>1, <2>2, <2>3, <2>4 DEF Custody, SingleCustody
<1>3. CASE AssignId
  BY <1>3 DEF AssignId, workerVars, Custody, SingleCustody, Sound
<1>4. ASSUME NEW w \in Workers, PopEnd(w)
      PROVE  Custody'
  <2>1. queue # <<>> /\ queue \in Seq(Jobs)
    BY <1>4 DEF PopEnd, Goto, Control, TypeOK
  <2>2. /\ cur' = [cur EXCEPT ![w] = Head(queue)]
        /\ taken' = taken \cup {Head(queue)}
        /\ UNCHANGED <<addPc, adding>>
    BY <1>4 DEF PopEnd, NextJob, engineVars
  <2>3. ASSUME Sound'
        PROVE  /\ Sound
               /\ IsInjective(queue')
               /\ ToSet(queue') \subseteq ToSet(queue)
               /\ Head(queue) \in ToSet(queue)
               /\ Head(queue) \notin ToSet(queue')
    <3>1. queue' = Tail(queue) /\ Sound
      BY <1>4, <2>3, QueueAfterSound DEF PopEnd, AfterPop
    <3>2. IsInjective(queue)
      BY <3>1 DEF Custody, SingleCustody
    <3>3. /\ queue' \in Seq(Jobs)
          /\ Len(queue) \in Nat \ {0}
          /\ Len(queue') = Len(queue) - 1
          /\ Head(queue) = queue[1]
          /\ \A i \in 1 .. Len(queue') : queue'[i] = queue[i + 1]
          /\ ToSet(queue) = ToSet(queue') \cup {Head(queue)}
      BY <2>1, <3>1, TailFacts
    <3>4. DOMAIN queue = 1 .. Len(queue) /\ DOMAIN queue' = 1 .. Len(queue) - 1
      BY <2>1, <3>3, LenProperties
    <3>5. IsInjective(queue')
      BY <3>2, <3>3, <3>4 DEF IsInjective
    <3>6. Head(queue) \notin ToSet(queue')
      BY <3>2, <3>3, <3>4 DEF IsInjective, ToSet
    <3>. QED
      BY <3>1, <3>3, <3>5, <3>6
  <2>4. \A v \in Workers : cur'[v] # NoJob => cur'[v] \in taken'
    BY <2>2 DEF Custody, TypeOK
  <2>5. ASSUME Sound'
        PROVE  ToSet(queue') \cap taken' = {}
    BY <2>2, <2>3, <2>5 DEF Custody, SingleCustody
  <2>6. ASSUME Sound', NEW u \in Workers, NEW v \in Workers,
               cur'[u] = cur'[v], cur'[u] # NoJob
        PROVE  u = v
    <3>1. \A x \in Workers : cur[x] # Head(queue)
      BY <2>1, <2>3, <2>6, TailFacts DEF Custody, SingleCustody
    <3>2. Sound
      BY <2>3, <2>6
    <3>. QED
      BY <2>2, <2>6, <3>1, <3>2 DEF Custody, SingleCustody, TypeOK
  <2>7. Sound' /\ addPc' = "push" => adding' \notin ToSet(queue') \cup taken'
    BY <2>2, <2>3 DEF Custody
  <2>. QED
    BY <2>3, <2>4, <2>5, <2>6, <2>7 DEF Custody, SingleCustody
<1>5. ASSUME NEW w \in Workers, InsertEnd(w)
      PROVE  Custody'
  <2>1. /\ cur' = [cur EXCEPT ![w] = NoJob]
        /\ UNCHANGED <<queue, race, taken, addPc, adding>>
    BY <1>5 DEF InsertEnd, engineVars
  <2>. QED
    BY <2>1 DEF Custody, SingleCustody, Sound, TypeOK
<1>6. ASSUME NEW w \in Workers,
             Wake(w) \/ AcquireNothing(w) \/ PopBegin(w) \/ Execute(w)
               \/ InsertBegin(w)
      PROVE  Custody'
  <2>1. /\ UNCHANGED <<queue, taken, cur, addPc, adding>>
        /\ Sound' => Sound
    BY <1>6 DEF Wake, AcquireNothing, PopBegin, Execute, InsertBegin,
                engineVars, Sound
  <2>. QED
    BY <2>1 DEF Custody, SingleCustody
<1>7. CASE UNCHANGED vars
  BY <1>7 DEF vars, Custody, SingleCustody, Sound
<1>. QED
  BY <1>1, <1>2, <1>3, <1>4, <1>5, <1>6, <1>7 DEF Next, Work

(***************************************************************************)
(* No job is in the queue twice, with two workers, or taken and still in   *)
(* the queue, until a push of AddJob races with a pop of AcquireJob.       *)
(***************************************************************************)
THEOREM CustodyCorrect == Spec => []SingleCustody
<1>1. Spec => [](TypeInv /\ OnlyAddingLacksId /\ Custody)
  BY TypeInit, TypeStep, LacksIdInit, LacksIdStep, CustodyInit, CustodyStep, PTL
     DEF Spec
<1>. QED
  BY <1>1, PTL DEF Custody

(***************************************************************************)
(* The strengthening of ResultStable: a job with a result was taken, and   *)
(* the worker that executes next has another job.                          *)
(***************************************************************************)
ResultInv ==
  Sound => \A j \in Jobs : result[j] # NoResult =>
    /\ j \in taken
    /\ \A w \in Workers : pc[w] = "execute" => cur[w] # j

LEMMA ResultInit == Init => ResultInv
  BY DEF Init, ResultInv

LEMMA ResultStep ==
  TypeInv /\ Custody /\ ResultInv /\ [Next]_vars => ResultInv'
<1>. SUFFICES ASSUME TypeInv, Custody, ResultInv, [Next]_vars, Sound'
              PROVE  ResultInv'
  BY DEF ResultInv
<1>. USE ConstantsAssumption DEF TypeInv
<1>1. ASSUME NEW j \in Jobs, PushBegin(j)
      PROVE  ResultInv'
  BY <1>1 DEF PushBegin, workerVars, ResultInv, Sound
<1>2. CASE PushEnd
  <2>1. Sound
    BY <1>2, QueueAfterSound DEF PushEnd
  <2>. QED
    BY <1>2, <2>1 DEF PushEnd, workerVars, ResultInv
<1>3. CASE AssignId
  BY <1>3 DEF AssignId, workerVars, ResultInv, Sound
<1>4. ASSUME NEW w \in Workers, PopEnd(w)
      PROVE  ResultInv'
  <2>1. /\ cur' = [cur EXCEPT ![w] = Head(queue)]
        /\ pc' = [pc EXCEPT ![w] = "execute"]
        /\ taken' = taken \cup {Head(queue)}
        /\ result' = result
    BY <1>4 DEF PopEnd, Goto, NextJob
  <2>2. Head(queue) \in ToSet(queue)
    <3>1. queue # <<>>
      BY <1>4 DEF PopEnd, Goto, Control
    <3>. QED
      BY <3>1, TailFacts DEF TypeOK
  <2>3. Sound
    BY <1>4, QueueAfterSound DEF PopEnd
  <2>4. Head(queue) \notin taken
    BY <2>2, <2>3 DEF Custody, SingleCustody
  <2>. QED
    BY <2>1, <2>3, <2>4 DEF ResultInv, TypeOK
<1>5. ASSUME NEW w \in Workers, Execute(w)
      PROVE  ResultInv'
  <2>1. Sound /\ pc[w] = "execute" /\ cur[w] \in taken
    BY <1>5 DEF Execute, Goto, Sound, Control, Custody
  <2>2. PICK r \in Results : result' = [result EXCEPT ![cur[w]] = r]
    BY <1>5 DEF Execute
  <2>3. /\ pc' = [pc EXCEPT ![w] = "deposit"]
        /\ UNCHANGED <<cur, taken>>
    BY <1>5 DEF Execute, Goto
  <2>4. \A v \in Workers : pc[v] = "execute" /\ cur[v] = cur[w] => v = w
    BY <2>1 DEF Control, Custody, SingleCustody
  <2>. QED
    BY <2>1, <2>2, <2>3, <2>4 DEF ResultInv, TypeOK
<1>6. ASSUME NEW w \in Workers, InsertEnd(w)
      PROVE  ResultInv'
  BY <1>6 DEF InsertEnd, Goto, ResultInv, Sound, TypeOK
<1>7. ASSUME NEW w \in Workers,
             Wake(w) \/ AcquireNothing(w) \/ PopBegin(w) \/ InsertBegin(w)
      PROVE  ResultInv'
  <2>1. Sound /\ UNCHANGED <<result, taken, cur>>
    BY <1>7 DEF Wake, AcquireNothing, PopBegin, InsertBegin, Sound
  <2>2. \A v \in Workers : pc'[v] = "execute" => pc[v] = "execute"
    BY <1>7 DEF Wake, AcquireNothing, PopBegin, InsertBegin, Goto, TypeOK
  <2>. QED
    BY <2>1, <2>2 DEF ResultInv
<1>8. CASE UNCHANGED vars
  BY <1>8 DEF vars, ResultInv, Sound
<1>. QED
  BY <1>1, <1>2, <1>3, <1>4, <1>5, <1>6, <1>7, <1>8 DEF Next, Work

\* No race by the end of a step, no race at its beginning.
LEMMA SoundKept == [Next]_vars /\ Sound' => Sound
<1>1. QueueAfter(Append(queue, adding), Popping) /\ Sound' => Sound
  BY QueueAfterSound
<1>2. QueueAfter(AfterPop(queue), Pushing) /\ Sound' => Sound
  BY QueueAfterSound
<1>. QED
  BY <1>1, <1>2 DEF Next, Work, PushBegin, PushEnd, AssignId, Wake, AcquireNothing,
     PopBegin, PopEnd, Execute, InsertBegin, InsertEnd, Sound, vars

(***************************************************************************)
(* A step that leaves no race behind leaves every result as it is.         *)
(***************************************************************************)
LEMMA ResultKept ==
  ASSUME TypeInv, ResultInv, [Next]_vars, Sound', NEW j \in Jobs, result[j] # NoResult
  PROVE  /\ result'[j] = result[j]
         /\ \A w \in Workers : Execute(w) => cur[w] # j
<1>1. ASSUME NEW w \in Workers, Execute(w)
      PROVE  cur[w] # j
  BY <1>1 DEF Execute, Goto, Sound, ResultInv
<1>2. ASSUME NEW w \in Workers, Execute(w)
      PROVE  result'[j] = result[j]
  BY <1>1, <1>2 DEF Execute, TypeInv, TypeOK
<1>3. CASE ~\E w \in Workers : Execute(w)
  BY <1>3 DEF Next, Work, PushBegin, PushEnd, AssignId, Wake, AcquireNothing,
              PopBegin, PopEnd, InsertBegin, InsertEnd, vars, workerVars
<1>. QED
  BY <1>1, <1>2, <1>3

(***************************************************************************)
(* Only Execute writes m_status and m_result, and it runs once for a job,  *)
(* which is why RVExtensionArgs may read them without a lock.              *)
(***************************************************************************)
THEOREM ResultCorrect == Spec => ResultStable
<1>1. Spec => [](TypeInv /\ OnlyAddingLacksId /\ Custody /\ ResultInv)
  BY TypeInit, TypeStep, LacksIdInit, LacksIdStep, CustodyInit, CustodyStep,
     ResultInit, ResultStep, PTL DEF Spec
<1>2. TypeInv /\ ResultInv /\ [Next]_vars
        => [Sound' => \A j \in Jobs : result[j] # NoResult =>
              /\ result'[j] = result[j]
              /\ \A w \in Workers : Execute(w) => cur[w] # j]_vars
  BY ResultKept
<1>. QED
  BY <1>1, <1>2, PTL DEF Spec, ResultStable

-----------------------------------------------------------------------------
(* What GetCompletedJob finds                                              *)

(***************************************************************************)
(* A job that is being filed or was filed has a result, and so has every   *)
(* job that was taken and is with no worker any more.  In any case, data   *)
(* races included.                                                         *)
(***************************************************************************)
FiledInv ==
  /\ \A w \in Workers : compLock = w => pc[w] = "insert"
  /\ \A w \in Workers : pc[w] \in {"deposit", "insert"} => result[cur[w]] # NoResult
  /\ \A k \in DOMAIN finished : result[finished[k]] # NoResult
  /\ \A j \in taken : Held(j) \/ result[j] # NoResult

LEMMA FiledInit == Init => FiledInv
  BY ConstantsAssumption DEF Init, FiledInv

LEMMA FiledStep == TypeInv /\ FiledInv /\ [Next]_vars => FiledInv'
<1>. SUFFICES ASSUME TypeInv, FiledInv, [Next]_vars
              PROVE  FiledInv'
  OBVIOUS
<1>. USE ConstantsAssumption DEF TypeInv
<1>1. ASSUME NEW j \in Jobs, PushBegin(j)
      PROVE  FiledInv'
  BY <1>1 DEF PushBegin, workerVars, FiledInv, Held
<1>2. CASE PushEnd
  BY <1>2 DEF PushEnd, workerVars, FiledInv, Held
<1>3. CASE AssignId
  BY <1>3 DEF AssignId, workerVars, FiledInv, Held
<1>4. ASSUME NEW w \in Workers, Wake(w) \/ AcquireNothing(w) \/ PopBegin(w)
      PROVE  FiledInv'
  <2>1. UNCHANGED <<compLock, finished, result, cur, taken>>
    BY <1>4 DEF Wake, AcquireNothing, PopBegin
  <2>2. \A v \in Workers : pc'[v] = pc[v] \/ (v = w /\
          pc[v] \in {"sleep", "poll"} /\ pc'[v] \in {"sleep", "poll", "pop"})
    BY <1>4 DEF Wake, AcquireNothing, PopBegin, Goto, TypeOK
  <2>. QED
    BY <2>1, <2>2 DEF FiledInv, Held
<1>5. ASSUME NEW w \in Workers, PopEnd(w)
      PROVE  FiledInv'
  <2>1. /\ pc[w] = "pop" /\ cur[w] = NoJob
        /\ pc' = [pc EXCEPT ![w] = "execute"]
        /\ cur' = [cur EXCEPT ![w] = Head(queue)]
        /\ taken' = taken \cup {Head(queue)}
        /\ UNCHANGED <<compLock, finished, result>>
    BY <1>5 DEF PopEnd, Goto, NextJob, Control
  <2>2. taken \subseteq Jobs
    BY DEF TypeOK
  <2>3. ASSUME NEW j \in taken', result[j] = NoResult
        PROVE  Held(j)'
    <3>1. CASE j = Head(queue)
      BY <2>1, <3>1 DEF Held, TypeOK
    <3>2. CASE j # Head(queue)
      <4>1. PICK v \in Workers : cur[v] = j
        BY <2>1, <2>3, <3>2 DEF FiledInv, Held
      <4>2. cur'[v] = j
        BY <2>1, <2>2, <2>3, <3>2, <4>1 DEF TypeOK
      <4>. QED
        BY <4>2 DEF Held
    <3>. QED
      BY <3>1, <3>2
  <2>. QED
    BY <2>1, <2>3 DEF FiledInv, TypeOK
<1>6. ASSUME NEW w \in Workers, Execute(w)
      PROVE  FiledInv'
  <2>1. PICK r \in Results : result' = [result EXCEPT ![cur[w]] = r]
    BY <1>6 DEF Execute
  <2>2. /\ pc[w] = "execute" /\ cur[w] \in Jobs
        /\ pc' = [pc EXCEPT ![w] = "deposit"]
        /\ UNCHANGED <<compLock, finished, cur, taken>>
    BY <1>6 DEF Execute, Goto, TypeOK, Control
  <2>3. \A j \in Jobs : result[j] # NoResult => result'[j] # NoResult
    BY <2>1 DEF TypeOK
  <2>4. result'[cur[w]] # NoResult
    BY <2>1, <2>2 DEF TypeOK
  <2>5. \A v \in Workers : pc[v] \in {"deposit", "insert"} => cur[v] \in Jobs
    BY DEF TypeOK, Control
  <2>. QED
    BY <2>2, <2>3, <2>4, <2>5 DEF FiledInv, Held, TypeOK
<1>7. ASSUME NEW w \in Workers, InsertBegin(w)
      PROVE  FiledInv'
  BY <1>7 DEF InsertBegin, Goto, FiledInv, Held, TypeOK
<1>8. ASSUME NEW w \in Workers, InsertEnd(w)
      PROVE  FiledInv'
  <2>1. /\ pc[w] = "insert" /\ result[cur[w]] # NoResult
        /\ pc' = [pc EXCEPT ![w] = "sleep"]
        /\ compLock' = NoWorker
        /\ cur' = [cur EXCEPT ![w] = NoJob]
        /\ finished' = Inserted(finished, key[w], cur[w])
        /\ UNCHANGED <<result, taken>>
    BY <1>8 DEF InsertEnd, Goto, FiledInv
  <2>2. \A k \in DOMAIN finished' : result[finished'[k]] # NoResult
    BY <2>1 DEF Inserted, FiledInv
  <2>3. \A j \in taken : result[j] = NoResult => Held(j)'
    BY <2>1 DEF FiledInv, Held, TypeOK
  <2>. QED
    BY <2>1, <2>2, <2>3 DEF FiledInv, TypeOK
<1>9. CASE UNCHANGED vars
  BY <1>9 DEF vars, FiledInv, Held
<1>. QED
  BY <1>1, <1>2, <1>3, <1>4, <1>5, <1>6, <1>7, <1>8, <1>9 DEF Next, Work

(***************************************************************************)
(* GetCompletedJob(id) yields nothing or the job of that id, which has its *)
(* result, even while a worker is inserting.                               *)
(***************************************************************************)
LEMMA FoundFacts ==
  ASSUME TypeInv, IdInv, FiledInv, NEW id \in Nat,
         NEW j \in GetCompletedJob(id), j # NoJob
  PROVE  j \in Jobs /\ jobId[j] = id /\ result[j] # NoResult
<1>1. CASE j = Lookup(id)
  BY <1>1 DEF Lookup, TypeInv, TypeOK, IdInv, TableMatchesIds, FiledInv, NoId
<1>2. CASE \E w \in Workers : compLock = w /\ key[w] = id /\ j = cur[w]
  BY <1>2 DEF TypeInv, TypeOK, Control, IdInv, FiledInv, NoId
<1>. QED
  BY <1>1, <1>2 DEF GetCompletedJob

(***************************************************************************)
(* What is in the table was taken and is with no worker any more, and is   *)
(* there once, until a push races with a pop.                              *)
(***************************************************************************)
HandedBack ==
  Sound => \A k \in DOMAIN finished :
    /\ finished[k] \in taken
    /\ ~Held(finished[k])
    /\ \A l \in DOMAIN finished : finished[k] = finished[l] => k = l

LEMMA HandedBackInit == Init => HandedBack
  BY DEF Init, HandedBack

LEMMA HandedBackStep ==
  TypeInv /\ Custody /\ HandedBack /\ [Next]_vars => HandedBack'
<1>. SUFFICES ASSUME TypeInv, Custody, HandedBack, [Next]_vars, Sound'
              PROVE  HandedBack'
  BY DEF HandedBack
<1>. USE ConstantsAssumption DEF TypeInv
<1>1. Sound
  BY SoundKept
<1>2. ASSUME NEW w \in Workers, PopEnd(w)
      PROVE  HandedBack'
  <2>1. queue \in Seq(Jobs) /\ queue # <<>>
    BY <1>2 DEF PopEnd, Goto, TypeOK, Control
  <2>2. Head(queue) \in ToSet(queue)
    BY <2>1, TailFacts
  <2>3. Head(queue) \notin taken
    BY <1>1, <2>2 DEF Custody, SingleCustody
  <2>4. /\ cur' = [cur EXCEPT ![w] = Head(queue)]
        /\ taken' = taken \cup {Head(queue)}
        /\ finished' = finished
    BY <1>2 DEF PopEnd, NextJob
  <2>. QED
    BY <1>1, <2>3, <2>4 DEF HandedBack, Held, TypeOK
<1>3. ASSUME NEW w \in Workers, InsertEnd(w)
      PROVE  HandedBack'
  <2>1. /\ cur[w] \in Jobs /\ cur[w] \in taken
        /\ cur' = [cur EXCEPT ![w] = NoJob]
        /\ finished' = Inserted(finished, key[w], cur[w])
        /\ taken' = taken
    BY <1>3 DEF InsertEnd, Goto, TypeOK, Control, Custody
  <2>2. ASSUME NEW k \in DOMAIN finished
        PROVE  finished[k] # cur[w] /\ \A v \in Workers : cur'[v] # finished[k]
    BY <1>1, <2>1, <2>2 DEF HandedBack, Held, TypeOK
  <2>3. \A v \in Workers : cur'[v] # cur[w]
    BY <1>1, <2>1 DEF Custody, SingleCustody, TypeOK
  <2>4. CASE key[w] \in DOMAIN finished
    <3>1. finished' = finished
      BY <2>1, <2>4 DEF Inserted
    <3>. QED
      BY <1>1, <2>1, <2>2, <3>1 DEF HandedBack, Held
  <2>5. CASE key[w] \notin DOMAIN finished
    <3>1. /\ DOMAIN finished' = DOMAIN finished \cup {key[w]}
          /\ finished'[key[w]] = cur[w]
          /\ \A k \in DOMAIN finished : finished'[k] = finished[k]
      BY <2>1, <2>5 DEF Inserted
    <3>2. \A k \in DOMAIN finished' : ~Held(finished[k])'
      BY <2>2, <2>3, <3>1 DEF Held
    <3>. QED
      BY <1>1, <2>1, <2>2, <3>1, <3>2 DEF HandedBack
  <2>. QED
    BY <2>4, <2>5
<1>4. CASE UNCHANGED <<finished, taken, cur>>
  BY <1>1, <1>4 DEF HandedBack, Held
<1>. QED
  BY <1>2, <1>3, <1>4
     DEF Next, Work, PushBegin, PushEnd, AssignId, Wake, AcquireNothing, PopBegin,
         Execute, InsertBegin, workerVars, vars

(***************************************************************************)
(* The strengthening of OldestFirst: ids grow along the queue, and only    *)
(* its last job can be the one AddJob is about to number.                  *)
(***************************************************************************)
InOrder(q) ==
  \A i, k \in 1 .. Len(q) : i < k =>
    /\ q[i] # adding
    /\ jobId[q[k]] # NoId => jobId[q[i]] < jobId[q[k]]

QueueOrder == Sound => InOrder(queue)

LEMMA OrderInit == Init => QueueOrder
  BY EmptySeq DEF Init, QueueOrder, InOrder

LEMMA OrderStep ==
  TypeInv /\ IdInv /\ OnlyAddingLacksId /\ Custody /\ QueueOrder /\ [Next]_vars
    => QueueOrder'
<1>. SUFFICES ASSUME TypeInv, IdInv, OnlyAddingLacksId, Custody, QueueOrder,
                     [Next]_vars, Sound'
              PROVE  InOrder(queue)'
  BY DEF QueueOrder
<1>. USE ConstantsAssumption DEF TypeInv
<1>0. /\ queue \in Seq(Jobs)
      /\ Len(queue) \in Nat
      /\ \A i \in 1 .. Len(queue) : queue[i] \in Jobs /\ queue[i] \in ToSet(queue)
  BY LenProperties, ElementOfSeq DEF TypeOK, ToSet
<1>1. ASSUME NEW j \in Jobs, PushBegin(j)
      PROVE  InOrder(queue)'
  <2>1. j \notin ToSet(queue)
    BY <1>1 DEF PushBegin, Fresh, OnlyAddingLacksId
  <2>2. Sound /\ adding' = j /\ UNCHANGED <<queue, jobId>>
    BY <1>1 DEF PushBegin, Sound
  <2>. QED
    BY <1>0, <2>1, <2>2 DEF QueueOrder, InOrder
<1>2. CASE PushEnd
  <2>1. /\ adding \in Jobs /\ addPc = "push" /\ jobId[adding] = NoId
        /\ UNCHANGED <<adding, jobId>>
    BY <1>2 DEF PushEnd, Pushing, TypeOK, Control, IdInv
  <2>2. queue' = Append(queue, adding) /\ Sound
    BY <1>2, QueueAfterSound DEF PushEnd
  <2>3. /\ Len(queue') = Len(queue) + 1
        /\ \A i \in 1 .. Len(queue) : queue'[i] = queue[i]
        /\ queue'[Len(queue) + 1] = adding
    BY <1>0, <2>1, <2>2, AppendFacts
  <2>4. \A i \in 1 .. Len(queue) : queue[i] # adding
    BY <1>0, <2>1, <2>2 DEF Custody
  <2>. QED
    BY <1>0, <2>1, <2>2, <2>3, <2>4 DEF QueueOrder, InOrder
<1>3. CASE AssignId
  <2>1. /\ adding \in Jobs /\ adding' = NoJob /\ queue' = queue
        /\ jobId' = [jobId EXCEPT ![adding] = counter]
        /\ Sound
    BY <1>3 DEF AssignId, TypeOK, Control, Sound
  <2>2. ASSUME NEW i \in 1 .. Len(queue), NEW k \in 1 .. Len(queue), i < k,
               jobId'[queue[k]] # NoId
        PROVE  jobId'[queue[i]] < jobId'[queue[k]]
    <3>1. /\ queue[i] \in Jobs /\ queue[k] \in Jobs
          /\ jobId'[queue[i]] = jobId[queue[i]]
          /\ jobId[queue[i]] < counter
          /\ jobId[queue[k]] # NoId => jobId[queue[i]] < jobId[queue[k]]
      BY <1>0, <2>1, <2>2 DEF QueueOrder, InOrder, IdInv, TypeOK
    <3>2. CASE queue[k] = adding
      BY <2>1, <3>1, <3>2 DEF TypeOK
    <3>3. CASE queue[k] # adding
      BY <2>1, <2>2, <3>1, <3>3 DEF TypeOK
    <3>. QED
      BY <3>2, <3>3
  <2>3. \A i \in 1 .. Len(queue) : queue[i] # NoJob
    BY <1>0
  <2>. QED
    BY <2>1, <2>2, <2>3 DEF InOrder
<1>4. ASSUME NEW w \in Workers, PopEnd(w)
      PROVE  InOrder(queue)'
  <2>1. queue' = Tail(queue) /\ Sound /\ UNCHANGED <<adding, jobId>>
    BY <1>4, QueueAfterSound DEF PopEnd, AfterPop, engineVars
  <2>2. queue # <<>>
    BY <1>4 DEF PopEnd, Goto, Control
  <2>3. /\ Len(queue') = Len(queue) - 1
        /\ \A i \in 1 .. Len(queue') : queue'[i] = queue[i + 1]
    BY <1>0, <2>1, <2>2, TailFacts
  <2>4. ASSUME NEW i \in 1 .. Len(queue'), NEW k \in 1 .. Len(queue'), i < k
        PROVE  /\ queue'[i] # adding
               /\ jobId[queue'[k]] # NoId => jobId[queue'[i]] < jobId[queue'[k]]
    <3>1. /\ i + 1 \in 1 .. Len(queue) /\ k + 1 \in 1 .. Len(queue) /\ i + 1 < k + 1
          /\ queue'[i] = queue[i + 1] /\ queue'[k] = queue[k + 1]
      BY <1>0, <2>3, <2>4
    <3>. QED
      BY <2>1, <3>1 DEF QueueOrder, InOrder
  <2>. QED
    BY <2>1, <2>4 DEF InOrder
<1>5. ASSUME NEW w \in Workers,
             Wake(w) \/ AcquireNothing(w) \/ PopBegin(w) \/ Execute(w)
               \/ InsertBegin(w) \/ InsertEnd(w)
      PROVE  InOrder(queue)'
  <2>1. Sound /\ UNCHANGED <<queue, adding, jobId>>
    BY <1>5 DEF Wake, AcquireNothing, PopBegin, Execute, InsertBegin, InsertEnd,
                engineVars, Sound
  <2>. QED
    BY <2>1 DEF QueueOrder, InOrder
<1>6. CASE UNCHANGED vars
  BY <1>6 DEF vars, QueueOrder, InOrder, Sound
<1>. QED
  BY <1>1, <1>2, <1>3, <1>4, <1>5, <1>6 DEF Next, Work

(***************************************************************************)
(* AcquireJob returns the oldest job of the queue, until a push races with *)
(* a pop.                                                                  *)
(***************************************************************************)
THEOREM OrderCorrect == Spec => OldestFirst
<1>. DEFINE Oldest == \A w \in Workers : PopEnd(w) /\ Sound' =>
       \A j \in ToSet(queue') : jobId[j] # NoId => jobId[cur'[w]] < jobId[j]
<1>1. Spec => [](TypeInv /\ IdInv /\ OnlyAddingLacksId /\ Custody /\ QueueOrder)
  BY TypeInit, TypeStep, IdInit, IdStep, LacksIdInit, LacksIdStep, CustodyInit,
     CustodyStep, OrderInit, OrderStep, PTL DEF Spec
<1>2. TypeInv /\ QueueOrder => Oldest
  <2>. SUFFICES ASSUME TypeInv, QueueOrder, NEW w \in Workers, PopEnd(w), Sound',
                       NEW j \in ToSet(queue'), jobId[j] # NoId
                PROVE  jobId[cur'[w]] < jobId[j]
    OBVIOUS
  <2>1. queue' = Tail(queue) /\ Sound /\ cur'[w] = Head(queue)
    BY QueueAfterSound DEF PopEnd, AfterPop, NextJob, TypeInv, TypeOK
  <2>2. queue # <<>> /\ queue \in Seq(Jobs)
    BY DEF PopEnd, Goto, TypeInv, TypeOK, Control
  <2>3. /\ Len(queue) \in Nat \ {0}
        /\ Len(queue') = Len(queue) - 1
        /\ Head(queue) = queue[1]
        /\ \A i \in 1 .. Len(queue') : queue'[i] = queue[i + 1]
        /\ DOMAIN queue' = 1 .. Len(queue')
    BY <2>1, <2>2, TailFacts, LenProperties
  <2>4. PICK i \in 1 .. Len(queue') : j = queue[i + 1]
    BY <2>3 DEF ToSet
  <2>5. 1 \in 1 .. Len(queue) /\ i + 1 \in 1 .. Len(queue) /\ 1 < i + 1
    BY <2>3
  <2>. QED
    BY <2>1, <2>3, <2>4, <2>5 DEF QueueOrder, InOrder
<1>. QED
  BY <1>1, <1>2, PTL DEF OldestFirst

-----------------------------------------------------------------------------
(* Where a job is                                                          *)

(***************************************************************************)
(* Whatever a push and a pop that overlapped leave, only the last job of   *)
(* the queue can be missing.                                               *)
(***************************************************************************)
LEMMA TornFacts ==
  ASSUME NEW S, NEW q \in Seq(S), NEW t \in Torn(q), taken \subseteq S,
         NEW x \in ToSet(q), x # q[Len(q)]
  PROVE  x \in ToSet(t)
<1>1. DOMAIN q = 1 .. Len(q) /\ Len(q) \in Nat
  BY LenProperties
<1>2. PICK i \in 1 .. Len(q) : x = q[i]
  BY <1>1 DEF ToSet
<1>3. i \in 1 .. Len(q) - 1 /\ Len(q) # 1
  BY <1>1, <1>2
<1>4. CASE t = q
  BY <1>4
<1>5. CASE t = Front(q)
  <2>. DEFINE f == SubSeq(q, 1, Len(q) - 1)
  <2>1. f \in Seq(S) /\ Len(f) = Len(q) - 1 /\ f[i] = q[i]
    BY <1>1, <1>3
  <2>2. DOMAIN f = 1 .. Len(f)
    BY <2>1, LenProperties
  <2>3. i \in DOMAIN f
    BY <1>3, <2>1, <2>2
  <2>. HIDE DEF f
  <2>4. x \in ToSet(f)
    BY <1>2, <2>1, <2>3 DEF ToSet
  <2>. QED
    BY <1>5, <2>4 DEF f, Front
<1>6. ASSUME NEW s \in taken, t = Append(q, s)
      PROVE  x \in ToSet(t)
  BY <1>6, AppendFacts
<1>. QED
  BY <1>3, <1>4, <1>5, <1>6 DEF Torn

(***************************************************************************)
(* While an overlap has not ended, the job at the end of the queue, or the *)
(* one about to get there, is one whose own push is part of it; and behind *)
(* the job that is popped there is another.                                *)
(***************************************************************************)
Overlap ==
  /\ \A w \in Workers : acqLock = w => pc[w] = "pop"
  /\ race = "now" =>
       IF Pushing THEN adding \in exposed
       ELSE Popping /\ Len(queue) > 1 /\ queue[Len(queue)] \in exposed

\* A worker that files a job under no id has found it unnumbered.
Unnumbered == \A w \in Workers : pc[w] = "insert" /\ key[w] = NoId => cur[w] \in exposed

(***************************************************************************)
(* The strengthening of NothingLost: it holds of the job AddJob has pushed *)
(* and not numbered yet, too.                                              *)
(***************************************************************************)
Filed(j) == jobId[j] # NoId /\ Lookup(jobId[j]) = j

Added(j) == jobId[j] # NoId \/ (j = adding /\ addPc = "assign")

Somewhere(j) == j \in ToSet(queue) \/ Held(j) \/ Filed(j) \/ j \in exposed

Accounted ==
  /\ Overlap
  /\ Unnumbered
  /\ \A j \in Jobs : Added(j) => Somewhere(j)

LEMMA AccountedInit == Init => Accounted
  BY ConstantsAssumption DEF Init, Accounted, Added, Overlap, Unnumbered

(***************************************************************************)
(* How the end of a push or a pop leaves the queue: what should be in it   *)
(* is, but for a job whose own push overlapped a pop.                      *)
(***************************************************************************)
LEMMA QueueAfterKeeps ==
  ASSUME NEW q \in Seq(Jobs), NEW other \in BOOLEAN, QueueAfter(q, other),
         taken \subseteq Jobs, exposed' = exposed,
         race = "now" /\ ~other => q[Len(q)] \in exposed
  PROVE  \A x \in ToSet(q) : x \in ToSet(queue') \/ x \in exposed'
<1>1. CASE race = "now" /\ ~other
  <2>1. queue' \in Torn(q)
    BY <1>1 DEF QueueAfter
  <2>. QED
    BY <1>1, <2>1, TornFacts
<1>2. CASE ~(race = "now" /\ ~other)
  BY <1>2 DEF QueueAfter
<1>. QED
  BY <1>1, <1>2

LEMMA OverlapStep ==
  TypeInv /\ Overlap /\ [Next]_vars => Overlap'
<1>. SUFFICES ASSUME TypeInv, Overlap, [Next]_vars
              PROVE  Overlap'
  OBVIOUS
<1>. USE ConstantsAssumption DEF TypeInv
<1>1. ASSUME NEW i \in Jobs, PushBegin(i)
      PROVE  Overlap'
  BY <1>1 DEF PushBegin, workerVars, Pushing, EngineIdle, Overlap
<1>2. CASE PushEnd
  <2>1. /\ adding \in Jobs /\ ~Pushing' /\ Pushing
        /\ UNCHANGED <<acqLock, pc, adding, exposed>>
    BY <1>2 DEF PushEnd, Pushing, workerVars, TypeOK, Control
  <2>2. ASSUME race' = "now"
        PROVE  Popping' /\ Len(queue') > 1 /\ queue'[Len(queue')] \in exposed'
    <3>1. queue' = Append(queue, adding) /\ race = "now" /\ Popping
      BY <1>2, <2>2 DEF PushEnd, QueueAfter
    <3>2. queue \in Seq(Jobs) /\ queue # <<>>
      BY <3>1 DEF Popping, Overlap, TypeOK, Control
    <3>3. Len(queue) \in Nat \ {0}
      BY <3>2, TailFacts
    <3>4. adding \in exposed
      BY <2>1, <3>1 DEF Overlap
    <3>5. Len(queue') = Len(queue) + 1 /\ queue'[Len(queue) + 1] = adding
      BY <2>1, <3>1, <3>2, AppendFacts
    <3>. QED
      BY <2>1, <3>1, <3>3, <3>4, <3>5 DEF Popping
  <2>. QED
    BY <2>1, <2>2 DEF Overlap
<1>3. CASE AssignId
  BY <1>3 DEF AssignId, workerVars, Pushing, Popping, Overlap
<1>4. ASSUME NEW w \in Workers, PopBegin(w)
      PROVE  Overlap'
  <2>1. \A v \in Workers : acqLock' = v => pc'[v] = "pop"
    BY <1>4 DEF PopBegin, Goto, TypeOK
  <2>2. race' = "now" => Pushing' /\ adding' \in exposed'
    BY <1>4 DEF PopBegin, engineVars, Pushing, Popping, Overlap
  <2>. QED
    BY <2>1, <2>2 DEF Overlap
<1>5. ASSUME NEW w \in Workers, PopEnd(w)
      PROVE  Overlap'
  <2>1. acqLock' = NoWorker /\ UNCHANGED <<adding, addPc, exposed>>
    BY <1>5 DEF PopEnd, engineVars
  <2>2. race' = "now" => Pushing /\ race = "now"
    BY <1>5 DEF PopEnd, QueueAfter
  <2>. QED
    BY <2>1, <2>2 DEF Overlap, Pushing
<1>6. ASSUME NEW w \in Workers,
             Wake(w) \/ AcquireNothing(w) \/ Execute(w) \/ InsertEnd(w)
      PROVE  Overlap'
  <2>1. /\ UNCHANGED <<queue, race, exposed, adding, addPc, acqLock>>
        /\ pc[w] # "pop" /\ \A v \in Workers : v # w => pc'[v] = pc[v]
    BY <1>6 DEF Wake, AcquireNothing, Execute, InsertEnd, Goto, engineVars, TypeOK
  <2>. QED
    BY <2>1 DEF Overlap, Pushing, Popping
<1>7. ASSUME NEW w \in Workers, InsertBegin(w)
      PROVE  Overlap'
  <2>1. /\ UNCHANGED <<queue, race, adding, addPc, acqLock>>
        /\ exposed \subseteq exposed'
        /\ pc[w] # "pop" /\ \A v \in Workers : v # w => pc'[v] = pc[v]
    BY <1>7 DEF InsertBegin, Goto, engineVars, TypeOK
  <2>. QED
    BY <2>1 DEF Overlap, Pushing, Popping
<1>8. CASE UNCHANGED vars
  BY <1>8 DEF vars, Overlap, Pushing, Popping
<1>. QED
  BY <1>1, <1>2, <1>3, <1>4, <1>5, <1>6, <1>7, <1>8 DEF Next, Work

LEMMA UnnumberedStep ==
  TypeInv /\ Unnumbered /\ [Next]_vars => Unnumbered'
<1>. SUFFICES ASSUME TypeInv, Unnumbered, [Next]_vars
              PROVE  Unnumbered'
  OBVIOUS
<1>. USE DEF TypeInv
<1>1. exposed \subseteq exposed'
  BY DEF Next, Work, PushBegin, PushEnd, AssignId, Wake, AcquireNothing, PopBegin,
         PopEnd, Execute, InsertBegin, InsertEnd, vars
<1>2. CASE PushEnd \/ AssignId \/ UNCHANGED vars \/ \E j \in Jobs : PushBegin(j)
  BY <1>1, <1>2 DEF PushEnd, AssignId, PushBegin, workerVars, vars, Unnumbered
<1>3. ASSUME NEW w \in Workers,
             Wake(w) \/ AcquireNothing(w) \/ PopBegin(w) \/ PopEnd(w) \/ Execute(w)
               \/ InsertEnd(w)
      PROVE  Unnumbered'
  <2>1. /\ UNCHANGED key /\ pc'[w] # "insert"
        /\ \A v \in Workers : v # w => pc'[v] = pc[v] /\ cur'[v] = cur[v]
    BY <1>3 DEF Wake, AcquireNothing, PopBegin, PopEnd, Execute, InsertEnd, Goto, TypeOK
  <2>. QED
    BY <1>1, <2>1 DEF Unnumbered
<1>4. ASSUME NEW w \in Workers, InsertBegin(w)
      PROVE  Unnumbered'
  <2>1. /\ UNCHANGED cur
        /\ key'[w] = NoId => cur[w] \in exposed'
        /\ \A v \in Workers : v # w => pc'[v] = pc[v] /\ key'[v] = key[v]
    BY <1>4 DEF InsertBegin, Goto, TypeOK
  <2>. QED
    BY <1>1, <2>1 DEF Unnumbered
<1>. QED
  BY <1>2, <1>3, <1>4 DEF Next, Work

LEMMA AccountedStep ==
  TypeInv /\ IdInv /\ Accounted /\ [Next]_vars => Accounted'
<1>. SUFFICES ASSUME TypeInv, IdInv, Accounted, [Next]_vars,
                     NEW j \in Jobs, Added(j)'
              PROVE  Somewhere(j)'
  BY OverlapStep, UnnumberedStep DEF Accounted
<1>. USE ConstantsAssumption DEF TypeInv
<1>1. ASSUME NEW i \in Jobs, PushBegin(i)
      PROVE  Somewhere(j)'
  BY <1>1 DEF PushBegin, workerVars, Accounted, Added, Somewhere, Held, Filed, Lookup
<1>2. CASE PushEnd
  <2>1. adding \in Jobs /\ UNCHANGED <<finished, jobId, cur, adding, exposed>>
    BY <1>2 DEF PushEnd, Pushing, workerVars, TypeOK, Control
  <2>. DEFINE q == Append(queue, adding)
  <2>2. q \in Seq(Jobs) /\ ToSet(q) = ToSet(queue) \cup {adding} /\ q[Len(q)] = adding
    BY <2>1, AppendFacts DEF TypeOK
  <2>3. race = "now" => adding \in exposed
    BY <1>2 DEF PushEnd, Accounted, Overlap
  <2>4. QueueAfter(q, Popping) /\ Popping \in BOOLEAN /\ taken \subseteq Jobs
    BY <1>2 DEF PushEnd, Popping, TypeOK
  <2>. HIDE DEF q
  <2>5. \A x \in ToSet(q) : x \in ToSet(queue') \/ x \in exposed'
    BY <2>1, <2>2, <2>3, <2>4, QueueAfterKeeps
  <2>6. CASE j = adding
    BY <2>2, <2>5, <2>6 DEF Somewhere
  <2>7. CASE j # adding
    BY <2>1, <2>2, <2>5, <2>7 DEF Accounted, Added, Somewhere, Held, Filed, Lookup
  <2>. QED
    BY <2>6, <2>7
<1>3. CASE AssignId
  <2>1. /\ adding \in Jobs
        /\ UNCHANGED <<queue, finished, cur, exposed>>
        /\ jobId' = [jobId EXCEPT ![adding] = counter]
        /\ adding' = NoJob
        /\ addPc = "assign"
    BY <1>3 DEF AssignId, workerVars, TypeOK, Control
  <2>2. CASE j = adding
    <3>1. Somewhere(j) /\ ~Filed(j)
      BY <2>1, <2>2 DEF Accounted, Added, Filed, IdInv
    <3>. QED
      BY <2>1, <3>1 DEF Somewhere, Held
  <2>3. CASE j # adding
    BY <2>1, <2>3 DEF Accounted, Added, Somewhere, Held, Filed, Lookup, TypeOK
  <2>. QED
    BY <2>2, <2>3
<1>4. ASSUME NEW w \in Workers, PopEnd(w)
      PROVE  Somewhere(j)'
  <2>1. /\ cur' = [cur EXCEPT ![w] = Head(queue)]
        /\ UNCHANGED <<finished, jobId, adding, addPc, exposed>>
    BY <1>4 DEF PopEnd, NextJob, engineVars
  <2>2. queue \in Seq(Jobs) /\ queue # <<>> /\ cur[w] = NoJob
    BY <1>4 DEF PopEnd, Goto, TypeOK, Control
  <2>. DEFINE q == Tail(queue)
  <2>3. /\ q \in Seq(Jobs) /\ ToSet(queue) = ToSet(q) \cup {Head(queue)}
        /\ Len(queue) > 1 => q[Len(q)] = queue[Len(queue)]
    BY <2>2, TailFacts
  <2>4. /\ QueueAfter(q, Pushing) /\ Pushing \in BOOLEAN /\ taken \subseteq Jobs
    BY <1>4 DEF PopEnd, AfterPop, Pushing, TypeOK
  <2>5. race = "now" /\ ~Pushing => q[Len(q)] \in exposed
    BY <2>3 DEF Accounted, Overlap
  <2>. HIDE DEF q
  <2>6. \A x \in ToSet(q) : x \in ToSet(queue') \/ x \in exposed'
    BY <2>1, <2>3, <2>4, <2>5, QueueAfterKeeps
  <2>7. j = Head(queue) => Held(j)'
    BY <2>1 DEF Held, TypeOK
  <2>8. Held(j) => Held(j)'
    BY <2>1, <2>2 DEF Held, TypeOK
  <2>9. Filed(j) => Filed(j)'
    BY <2>1 DEF Filed, Lookup
  <2>10. Somewhere(j)
    BY <2>1 DEF Accounted, Added
  <2>. QED
    BY <2>1, <2>3, <2>6, <2>7, <2>8, <2>9, <2>10 DEF Somewhere
<1>5. ASSUME NEW w \in Workers, InsertEnd(w)
      PROVE  Somewhere(j)'
  <2>1. /\ finished' = Inserted(finished, key[w], cur[w])
        /\ cur' = [cur EXCEPT ![w] = NoJob]
        /\ UNCHANGED <<queue, jobId, adding, addPc, exposed>>
    BY <1>5 DEF InsertEnd, engineVars
  <2>2. /\ cur[w] \in Jobs /\ pc[w] = "insert"
        /\ key[w] # NoId => jobId[cur[w]] = key[w]
    BY <1>5 DEF InsertEnd, Goto, TypeOK, Control, IdInv
  <2>3. /\ DOMAIN finished' = DOMAIN finished \cup {key[w]}
        /\ \A k \in DOMAIN finished : finished'[k] = finished[k]
        /\ key[w] \notin DOMAIN finished => finished'[key[w]] = cur[w]
    BY <2>1 DEF Inserted
  <2>4. Somewhere(j)
    BY <2>1 DEF Accounted, Added
  <2>5. Filed(j) => Filed(j)'
    BY <2>1, <2>3 DEF Filed, Lookup
  <2>6. CASE j = cur[w]
    <3>1. CASE key[w] = NoId
      BY <2>1, <2>2, <2>6, <3>1 DEF Accounted, Unnumbered, Somewhere
    <3>2. CASE key[w] # NoId
      <4>1. jobId[j] = key[w] /\ jobId'[j] = key[w]
        BY <2>1, <2>2, <2>6, <3>2
      <4>2. key[w] \in DOMAIN finished => finished[key[w]] = j
        BY <3>2, <4>1 DEF IdInv, TableMatchesIds, TypeOK
      <4>3. finished'[key[w]] = j /\ key[w] \in DOMAIN finished'
        BY <2>3, <2>6, <4>2
      <4>. QED
        BY <3>2, <4>1, <4>3 DEF Filed, Lookup, Somewhere
    <3>. QED
      BY <3>1, <3>2
  <2>7. CASE j # cur[w]
    <3>1. Held(j) => Held(j)'
      BY <2>1, <2>7 DEF Held, TypeOK
    <3>. QED
      BY <2>1, <2>4, <2>5, <3>1 DEF Somewhere
  <2>. QED
    BY <2>6, <2>7
<1>6. ASSUME NEW w \in Workers,
             Wake(w) \/ AcquireNothing(w) \/ PopBegin(w) \/ Execute(w)
               \/ InsertBegin(w)
      PROVE  Somewhere(j)'
  <2>1. /\ UNCHANGED <<queue, finished, cur, jobId, adding, addPc>>
        /\ exposed \subseteq exposed'
    BY <1>6 DEF Wake, AcquireNothing, PopBegin, Execute, InsertBegin, engineVars
  <2>. QED
    BY <2>1 DEF Accounted, Added, Somewhere, Held, Filed, Lookup
<1>7. CASE UNCHANGED vars
  BY <1>7 DEF vars, Accounted, Added, Somewhere, Held, Filed, Lookup
<1>. QED
  BY <1>1, <1>2, <1>3, <1>4, <1>5, <1>6, <1>7 DEF Next, Work

(***************************************************************************)
(* Every numbered job waits, runs, or can be found by its id, unless its   *)
(* own push overlapped a pop or its own id was read before AddJob assigned *)
(* it: a data race of one call never loses the job of another.             *)
(***************************************************************************)
THEOREM NothingLostCorrect == Spec => []NothingLost
<1>1. Spec => [](TypeInv /\ IdInv /\ Accounted)
  BY TypeInit, TypeStep, IdInit, IdStep, AccountedInit, AccountedStep, PTL
     DEF Spec
<1>2. Accounted => NothingLost
  BY DEF Accounted, Added, Somewhere, Filed, NothingLost
<1>. QED
  BY <1>1, <1>2, PTL

-----------------------------------------------------------------------------
(* What the scheduler has been given                                       *)

\* AddJob was called with j.
Entered(j) == j = adding \/ j \in ToSet(queue) \/ j \in taken

LEMMA EnteredInit == Init => \A j \in Jobs : ~Entered(j)
<1>1. ToSet(<<>>) = {}
  BY DEF ToSet
<1>. QED
  BY <1>1, ConstantsAssumption DEF Init, Entered

(***************************************************************************)
(* As long as no push raced with a pop, nothing turns up in the scheduler  *)
(* that AddJob was not called with.                                        *)
(***************************************************************************)
LEMMA EnteredStep ==
  ASSUME TypeInv, [Next]_vars, Sound', NEW j \in Jobs, Entered(j)'
  PROVE  Entered(j) \/ PushBegin(j)
<1>. USE ConstantsAssumption DEF TypeInv
<1>1. ASSUME NEW i \in Jobs, PushBegin(i)
      PROVE  Entered(j) \/ PushBegin(j)
  BY <1>1 DEF PushBegin, workerVars, Entered
<1>2. CASE PushEnd
  <2>1. queue' = Append(queue, adding) /\ adding \in Jobs
    BY <1>2, QueueAfterSound DEF PushEnd, Pushing, TypeOK, Control
  <2>2. ToSet(queue') = ToSet(queue) \cup {adding}
    BY <2>1, AppendFacts DEF TypeOK
  <2>. QED
    BY <1>2, <2>2 DEF PushEnd, workerVars, Entered
<1>3. CASE AssignId
  BY <1>3 DEF AssignId, workerVars, Entered
<1>4. ASSUME NEW w \in Workers, PopEnd(w)
      PROVE  Entered(j)
  <2>1. /\ queue # <<>> /\ queue' = Tail(queue)
        /\ taken' = taken \cup {Head(queue)} /\ UNCHANGED adding
    BY <1>4, QueueAfterSound
       DEF PopEnd, Goto, Control, AfterPop, NextJob, engineVars
  <2>2. ToSet(queue) = ToSet(queue') \cup {Head(queue)}
    BY <2>1, TailFacts DEF TypeOK
  <2>. QED
    BY <2>1, <2>2 DEF Entered
<1>5. ASSUME NEW w \in Workers,
             Wake(w) \/ AcquireNothing(w) \/ PopBegin(w) \/ Execute(w)
               \/ InsertBegin(w) \/ InsertEnd(w)
      PROVE  Entered(j)
  BY <1>5 DEF Wake, AcquireNothing, PopBegin, Execute, InsertBegin, InsertEnd,
              engineVars, Entered
<1>6. CASE UNCHANGED vars
  BY <1>6 DEF vars, Entered
<1>. QED
  BY <1>1, <1>2, <1>3, <1>4, <1>5, <1>6 DEF Next, Work

-----------------------------------------------------------------------------
(* Refinement                                                              *)

LEMMA PoolInit == Init => Pool!Init
<1>. SUFFICES ASSUME Init
              PROVE  Pool!Init
  OBVIOUS
<1>1. queue = <<>> /\ taken = {} /\ Sound
  BY DEF Init, Sound
<1>2. \A j \in Jobs : ~Held(j)
  BY ConstantsAssumption DEF Init, Held
<1>. QED
  BY <1>1, <1>2 DEF Pool!Init

LEMMA PoolStep ==
  TypeInv /\ Custody /\ [Next]_vars => [Pool!Next]_(Pool!vars)
<1>. SUFFICES ASSUME TypeInv, Custody, [Next]_vars
              PROVE  [Pool!Next]_(Pool!vars)
  OBVIOUS
<1>. USE ConstantsAssumption DEF TypeInv
<1>1. CASE ~Sound'
  BY <1>1 DEF Pool!Next
<1>2. CASE Sound'
  <2>1. ASSUME NEW j \in Jobs, PushBegin(j)
        PROVE  UNCHANGED Pool!vars
    BY <1>2, <2>1 DEF PushBegin, workerVars, Held, Sound, Pool!vars
  <2>2. CASE PushEnd
    <3>1. adding \in Jobs /\ addPc = "push" /\ UNCHANGED <<taken, cur>>
      BY <2>2 DEF PushEnd, Pushing, workerVars, TypeOK, Control
    <3>2. queue' = Append(queue, adding) /\ Sound
      BY <1>2, <2>2, QueueAfterSound DEF PushEnd
    <3>3. adding \notin ToSet(queue) \cup taken /\ ~Held(adding)
      BY <3>1, <3>2 DEF Custody, Held
    <3>4. Pool!Add(adding)
      BY <3>1, <3>2, <3>3 DEF Pool!Add, Pool!ToSet, ToSet, Held
    <3>. QED
      BY <1>2, <3>1, <3>2, <3>4 DEF Pool!Next
  <2>3. CASE AssignId
    BY <1>2, <2>3 DEF AssignId, workerVars, Held, Sound, Pool!vars
  <2>4. ASSUME NEW w \in Workers, PopEnd(w)
        PROVE  Pool!Next
    <3>1. /\ queue' = Tail(queue) /\ Sound
          /\ cur' = [cur EXCEPT ![w] = Head(queue)]
          /\ taken' = taken \cup {Head(queue)}
      BY <1>2, <2>4, QueueAfterSound DEF PopEnd, AfterPop, NextJob
    <3>2. queue # <<>> /\ cur[w] = NoJob
      BY <2>4 DEF PopEnd, Goto, Control
    <3>3. Head(queue) \in Jobs /\ Head(queue) \in ToSet(queue)
      BY <3>2, TailFacts DEF TypeOK
    <3>4. Head(queue) \notin taken /\ ~Held(Head(queue))
      BY <3>1, <3>3 DEF Custody, SingleCustody, Held
    <3>5. \A j \in Jobs : Held(j)' <=> Held(j) \/ j = Head(queue)
      BY <3>1, <3>2 DEF Held, TypeOK
    <3>6. Pool!Take
      BY <3>1, <3>2, <3>3, <3>4, <3>5 DEF Pool!Take, TypeOK
    <3>. QED
      BY <1>2, <3>1, <3>6 DEF Pool!Next
  <2>5. ASSUME NEW w \in Workers, InsertEnd(w)
        PROVE  Pool!Next
    <3>1. /\ cur' = [cur EXCEPT ![w] = NoJob]
          /\ UNCHANGED <<queue, taken>>
          /\ Sound
      BY <1>2, <2>5 DEF InsertEnd, Sound
    <3>2. cur[w] \in Jobs /\ cur[w] \in taken
      BY <2>5 DEF InsertEnd, Goto, TypeOK, Control, Custody
    <3>3. \A j \in Jobs : Held(j)' <=> Held(j) /\ j # cur[w]
      BY <3>1, <3>2 DEF Held, TypeOK, Custody, SingleCustody
    <3>4. Held(cur[w])
      BY DEF Held
    <3>5. Pool!End(cur[w])
      BY <3>1, <3>2, <3>3, <3>4 DEF Pool!End, TypeOK
    <3>. QED
      BY <1>2, <3>1, <3>2, <3>5 DEF Pool!Next
  <2>6. ASSUME NEW w \in Workers,
               Wake(w) \/ AcquireNothing(w) \/ PopBegin(w) \/ Execute(w)
                 \/ InsertBegin(w)
        PROVE  UNCHANGED Pool!vars
    BY <1>2, <2>6 DEF Wake, AcquireNothing, PopBegin, Execute, InsertBegin, Held,
                      Sound, Pool!vars
  <2>7. CASE UNCHANGED vars
    BY <2>7 DEF vars, Held, Sound, Pool!vars
  <2>. QED
    BY <2>1, <2>2, <2>3, <2>4, <2>5, <2>6, <2>7 DEF Next, Work
<1>. QED
  BY <1>1, <1>2

(***************************************************************************)
(* Scheduler and Worker implement the abstract pool: first in, first out,  *)
(* every job run by one worker and ended once, until a push races a pop.   *)
(***************************************************************************)
THEOREM PoolCorrect == Spec => ImplementsPool
<1>1. Spec => [](TypeInv /\ OnlyAddingLacksId /\ Custody)
  BY TypeInit, TypeStep, LacksIdInit, LacksIdStep, CustodyInit, CustodyStep, PTL
     DEF Spec
<1>. QED
  BY <1>1, PoolInit, PoolStep, PTL DEF Spec, ImplementsPool, Pool!Spec
=============================================================================
