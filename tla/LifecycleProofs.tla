--------------------------- MODULE LifecycleProofs ---------------------------
(***************************************************************************)
(* Proofs of the safety properties of module Lifecycle, for every number   *)
(* of workers and of requests.                                             *)
(***************************************************************************)
EXTENDS Lifecycle, TLAPS

Types ==
  /\ left \in Nat /\ created \in Nat /\ joined \in Nat
  /\ thread \in [Workers -> {"none", "starting", "loop", "acquire", "execute",
                             "sleep", "leaving", "ended"}]
  /\ DOMAIN m_terminate = Workers
  /\ late \in [Workers -> Nat]

\* The worker that is made and not yet in the vector.
Making == IF engine = "push" THEN 1 ELSE 0

(***************************************************************************)
(* Start-up creates workers only if there was no logger, and nothing that  *)
(* makes a worker, or asks for one thing, leaves it that way: what it is   *)
(* about to add to the vector was counted when the vector was empty.       *)
(***************************************************************************)
Counted ==
  /\ ~logger => created = 0 /\ left = 0
  /\ engine \in {"creating", "push", "discard"} => logger
  /\ created + Making + left <= gc_numWorkers

(***************************************************************************)
(* Nobody is told to terminate before start-up is over, and a worker that  *)
(* ended a job after it was told to is on its way out.                     *)
(***************************************************************************)
Quiet == \A w \in Workers : ~m_terminate[w] /\ late[w] = 0

OnTheWayOut ==
  /\ ~logger \/ engine \in {"creating", "push"} => Quiet
  /\ \A w \in Workers : late[w] # 0 =>
       /\ late[w] = 1 /\ m_terminate[w]
       /\ thread[w] \in {"sleep", "loop", "leaving", "ended"}

Inv == Types /\ Counted /\ OnTheWayOut

LEMMA InvInit == Init => Inv
<1>1. Init => Types
  BY DEF Init, Types
<1>2. Init => Counted
  BY WorkersAssumption DEF Init, Counted, Making
<1>3. Init => OnTheWayOut
  BY DEF Init, OnTheWayOut, Quiet
<1>. QED
  BY <1>1, <1>2, <1>3 DEF Inv

-----------------------------------------------------------------------------
(* The steps                                                               *)

LEMMA StartStep ==
  ASSUME Inv, InitializeLogging \/ InitializeLoggingThrows \/ Start \/ GETRequest
  PROVE  Inv'
<1>. USE WorkersAssumption
     DEF Inv, Types, Counted, Making, OnTheWayOut, Quiet, startVars, unloadVars,
         requestVars
<1>1. CASE InitializeLogging
  BY <1>1 DEF InitializeLogging, CreatesLogger
<1>2. CASE InitializeLoggingThrows
  BY <1>2 DEF InitializeLoggingThrows
<1>3. CASE MakeWorker
  <2>1. Quiet /\ m_terminate' = [m_terminate EXCEPT ![created + 1] = FALSE]
    BY <1>3 DEF MakeWorker, TerminateAtStart
  <2>2. late' = late /\ engine' = "push"
    BY <1>3 DEF MakeWorker
  <2>3. Types'
    <3>1. left' \in Nat /\ UNCHANGED <<created, joined, late>>
      BY <1>3 DEF MakeWorker
    <3>2. /\ DOMAIN m_terminate' = Workers
          /\ thread' = [thread EXCEPT ![created + 1] = "starting"]
      BY <1>3, <2>1 DEF MakeWorker
    <3>. QED
      BY <3>1, <3>2
  <2>4. Counted'
    BY <1>3 DEF MakeWorker
  <2>5. Quiet'
    BY <2>1, <2>2
  <2>. QED
    BY <2>2, <2>3, <2>4, <2>5
<1>4. CASE MakeWorkerThrows
  BY <1>4 DEF MakeWorkerThrows
<1>5. CASE PushBack
  BY <1>5 DEF PushBack
<1>6. CASE PushBackThrows
  <2>1. Types' /\ Counted'
    BY <1>6 DEF PushBackThrows, Terminated
  <2>2. OnTheWayOut'
    BY <1>6 DEF PushBackThrows, Terminated
  <2>. QED
    BY <2>1, <2>2
<1>7. CASE JoinDiscarded
  BY <1>7 DEF JoinDiscarded
<1>8. CASE ReturnVersion
  BY <1>8 DEF ReturnVersion
<1>9. CASE GETRequest
  BY <1>9 DEF GETRequest
<1>. QED
  BY <1>1, <1>2, <1>3, <1>4, <1>5, <1>6, <1>7, <1>8, <1>9 DEF Start

LEMMA WorkStep ==
  ASSUME Inv, NEW w \in Workers, Work(w)
  PROVE  Inv'
<1>. USE DEF Inv, Types, Counted, Making, OnTheWayOut, Quiet, Goto, startVars, unloadVars
<1>1. CASE Begin(w)
  BY <1>1 DEF Begin
<1>2. CASE StayInLoop(w)
  BY <1>2 DEF StayInLoop, ShouldExit
<1>3. CASE LeaveLoop(w)
  BY <1>3 DEF LeaveLoop, ShouldExit
<1>4. CASE EndThread(w)
  BY <1>4 DEF EndThread
<1>5. CASE GetNextJob(w)
  BY <1>5 DEF GetNextJob
<1>6. CASE CompleteJob(w)
  <2>1. thread[w] = "execute" /\ late[w] = 0
    BY <1>6 DEF CompleteJob
  <2>. QED
    BY <1>6, <2>1 DEF CompleteJob
<1>7. CASE Wake(w)
  BY <1>7 DEF Wake
<1>8. CASE Crash(w)
  <2>1. \A v \in Workers :
          /\ thread'[v] \in {"none", "ended"}
          /\ late[v] # 0 => thread'[v] = "ended"
    BY <1>8 DEF Crash, Ended
  <2>2. /\ thread' \in [Workers -> {"none", "ended"}]
        /\ engine' = "crashed"
        /\ UNCHANGED <<logger, left, created, joined, m_terminate, late>>
    BY <1>8, <2>1 DEF Crash
  <2>3. Types' /\ Counted'
    <3>1. Types'
      BY <2>2
    <3>2. Counted'
      BY <2>2, WorkersAssumption
    <3>. QED
      BY <3>1, <3>2
  <2>4. OnTheWayOut'
    BY <2>1, <2>2
  <2>. QED
    BY <2>3, <2>4
<1>. QED
  BY <1>1, <1>2, <1>3, <1>4, <1>5, <1>6, <1>7, <1>8 DEF Work

LEMMA UnloadStep ==
  ASSUME Inv, ExitProcess \/ FreeLibrary \/ Unload
  PROVE  Inv'
<1>. USE DEF Inv, Types, Counted, Making, OnTheWayOut, Quiet, startVars, unloadVars
<1>1. CASE ExitProcess
  <2>1. \A w \in Workers :
          /\ thread'[w] \in {"none", "ended"}
          /\ thread[w] = "ended" \/ thread'[w] = thread[w] \/ thread'[w] = "ended"
          /\ late[w] # 0 => thread'[w] = "ended"
    BY <1>1 DEF ExitProcess, Ended
  <2>2. thread' \in [Workers -> {"none", "ended"}]
    BY <1>1, <2>1 DEF ExitProcess
  <2>. QED
    BY <1>1, <2>1, <2>2 DEF ExitProcess
<1>2. CASE FreeLibrary
  BY <1>2 DEF FreeLibrary
<1>3. CASE DestroyScheduler
  BY <1>3 DEF DestroyScheduler
<1>4. CASE Terminate
  <2>1. /\ m_terminate' = [m_terminate EXCEPT ![joined + 1] = TRUE]
        /\ engine = "destroy" /\ engine' = "join"
        /\ UNCHANGED <<logger, left, created, thread, late, joined>>
    BY <1>4 DEF Terminate, Terminated
  <2>2. Types' /\ Counted'
    BY <2>1
  <2>3. logger
    BY <1>4 DEF Terminate
  <2>4. OnTheWayOut'
    BY <2>1, <2>3
  <2>. QED
    BY <2>2, <2>4
<1>5. CASE Join
  BY <1>5 DEF Join
<1>6. CASE Gone
  BY <1>6 DEF Gone
<1>. QED
  BY <1>1, <1>2, <1>3, <1>4, <1>5, <1>6 DEF Unload

LEMMA InvAlways == Spec => []Inv
<1>1. Inv /\ [Next]_vars => Inv'
  <2>. SUFFICES ASSUME Inv, [Next]_vars
                PROVE  Inv'
    OBVIOUS
  <2>1. CASE UNCHANGED vars
    BY <2>1 DEF vars, startVars, unloadVars, Inv, Types, Counted, Making, OnTheWayOut,
                Quiet
  <2>. QED
    BY <2>1, StartStep, WorkStep, UnloadStep DEF Next
<1>. QED
  BY <1>1, InvInit, PTL DEF Spec

-----------------------------------------------------------------------------
(***************************************************************************)
(* However often RVExtensionVersion is called, and whatever fails in it,   *)
(* there are at most gc_numWorkers workers.                                *)
(***************************************************************************)
THEOREM BoundCorrect == Spec => []WorkersBounded
<1>1. Inv => WorkersBounded
  BY WorkersAssumption DEF Inv, Types, Counted, Making, WorkersBounded
<1>. QED
  BY <1>1, InvAlways, PTL

(***************************************************************************)
(* Whoever joins a worker waits for one request at the most.               *)
(***************************************************************************)
THEOREM OneMoreCorrect == Spec => []OneMoreJob
<1>1. Inv => OneMoreJob
  BY DEF Inv, Types, OnTheWayOut, OneMoreJob
<1>. QED
  BY <1>1, InvAlways, PTL

-----------------------------------------------------------------------------
(* Waiting for a worker                                                    *)

(***************************************************************************)
(* Every worker that was made has had a thread, and the one the engine     *)
(* thread waits for was told to terminate.                                 *)
(***************************************************************************)
Told ==
  /\ created <= MaxWorkers /\ joined <= created
  /\ \A w \in Workers : w <= created => thread[w] # "none"
  /\ engine \in {"push", "discard"} =>
       created < MaxWorkers /\ thread[created + 1] # "none"
  /\ engine = "discard" => m_terminate[created + 1]
  /\ engine = "join" => joined < created /\ m_terminate[joined + 1]
  /\ engine \in {"ready", "creating", "push", "discard"} => joined = 0

LEMMA ToldInit == Init => Told
  BY WorkersAssumption DEF Init, Told, Workers

LEMMA ToldInStart ==
  ASSUME Inv, Told, InitializeLogging \/ InitializeLoggingThrows \/ Start \/ GETRequest
  PROVE  Told'
<1>. USE WorkersAssumption DEF Inv, Types, Told, Workers, startVars, unloadVars
<1>1. CASE InitializeLogging
  BY <1>1 DEF InitializeLogging
<1>2. CASE InitializeLoggingThrows
  BY <1>2 DEF InitializeLoggingThrows
<1>3. CASE MakeWorker
  <2>1. /\ thread' = [thread EXCEPT ![created + 1] = "starting"]
        /\ created + 1 \in Workers /\ created < MaxWorkers
        /\ engine = "creating" /\ engine' = "push"
        /\ UNCHANGED <<created, joined>>
    BY <1>3 DEF MakeWorker
  <2>. QED
    BY <2>1
<1>4. CASE MakeWorkerThrows
  BY <1>4 DEF MakeWorkerThrows
<1>5. CASE PushBack
  <2>1. engine = "push" /\ created' = created + 1 /\ engine' = "creating"
        /\ UNCHANGED <<thread, joined>>
    BY <1>5 DEF PushBack
  <2>. QED
    BY <2>1
<1>6. CASE PushBackThrows
  <2>1. /\ m_terminate' = [m_terminate EXCEPT ![created + 1] = TRUE]
        /\ engine = "push" /\ engine' = "discard"
        /\ UNCHANGED <<created, thread, joined>>
    BY <1>6 DEF PushBackThrows, Terminated
  <2>. QED
    BY <2>1
<1>7. CASE JoinDiscarded
  BY <1>7 DEF JoinDiscarded
<1>8. CASE ReturnVersion
  BY <1>8 DEF ReturnVersion
<1>9. CASE GETRequest
  BY <1>9 DEF GETRequest
<1>. QED
  BY <1>1, <1>2, <1>3, <1>4, <1>5, <1>6, <1>7, <1>8, <1>9 DEF Start

\* A step of a thread, and what becomes of its distance from the end.  Of the
\* other threads it can only make an end.
LEMMA WorkAdvances ==
  ASSUME Inv, NEW w \in Workers, Work(w)
  PROVE  /\ thread[w] # "none" /\ thread'[w] # "none"
         /\ \A v \in Workers : v # w => thread'[v] \in {thread[v], Ended(thread[v])}
         /\ m_terminate[w] => StepsLeft(w)' < StepsLeft(w)
         /\ engine' \in {engine, "crashed"}
         /\ UNCHANGED <<created, joined, m_terminate>>
<1>. USE DEF Inv, Types, Goto, startVars, unloadVars, StepsLeft
<1>1. CASE Begin(w)
  BY <1>1 DEF Begin
<1>2. CASE StayInLoop(w)
  BY <1>2 DEF StayInLoop, ShouldExit
<1>3. CASE LeaveLoop(w)
  BY <1>3 DEF LeaveLoop, ShouldExit
<1>4. CASE EndThread(w)
  BY <1>4 DEF EndThread
<1>5. CASE GetNextJob(w)
  BY <1>5 DEF GetNextJob
<1>6. CASE CompleteJob(w)
  BY <1>6 DEF CompleteJob
<1>7. CASE Wake(w)
  BY <1>7 DEF Wake
<1>8. CASE Crash(w)
  <2>1. /\ thread[w] \in {"acquire", "execute"} /\ engine' = "crashed"
        /\ \A v \in Workers : thread'[v] = Ended(thread[v])
        /\ UNCHANGED <<created, joined, m_terminate>>
    BY <1>8 DEF Crash
  <2>2. thread'[w] = "ended"
    BY <2>1 DEF Ended
  <2>. QED
    BY <2>1, <2>2
<1>. QED
  BY <1>1, <1>2, <1>3, <1>4, <1>5, <1>6, <1>7, <1>8 DEF Work

LEMMA ToldInUnload ==
  ASSUME Inv, Told, ExitProcess \/ FreeLibrary \/ Unload
  PROVE  Told'
<1>. USE WorkersAssumption DEF Inv, Types, Told, Workers, startVars, unloadVars
<1>1. CASE ExitProcess
  <2>1. \A w \in Workers : thread[w] # "none" => thread'[w] # "none"
    BY <1>1 DEF ExitProcess, Ended
  <2>. QED
    BY <1>1, <2>1 DEF ExitProcess
<1>2. CASE FreeLibrary
  BY <1>2 DEF FreeLibrary
<1>3. CASE DestroyScheduler
  BY <1>3 DEF DestroyScheduler
<1>4. CASE Terminate
  <2>1. /\ m_terminate' = [m_terminate EXCEPT ![joined + 1] = TRUE]
        /\ joined < created /\ engine' = "join"
        /\ UNCHANGED <<created, thread, joined>>
    BY <1>4 DEF Terminate, Terminated
  <2>. QED
    BY <2>1
<1>5. CASE Join
  BY <1>5 DEF Join
<1>6. CASE Gone
  BY <1>6 DEF Gone
<1>. QED
  BY <1>1, <1>2, <1>3, <1>4, <1>5, <1>6 DEF Unload

LEMMA ToldAlways == Spec => [](Inv /\ Told)
<1>1. Inv /\ Told /\ [Next]_vars => Told'
  <2>. SUFFICES ASSUME Inv, Told, [Next]_vars
                PROVE  Told'
    OBVIOUS
  <2>1. CASE UNCHANGED vars
    BY <2>1 DEF vars, startVars, unloadVars, Told
  <2>2. ASSUME NEW w \in Workers, Work(w)
        PROVE  Told'
    <3>1. engine' \in {engine, "crashed"} /\ UNCHANGED <<created, joined, m_terminate>>
      BY <2>2, WorkAdvances
    <3>2. \A v \in Workers : thread[v] # "none" => thread'[v] # "none"
      BY <2>2, WorkAdvances DEF Ended
    <3>. QED
      BY <3>1, <3>2, WorkersAssumption DEF Told, Workers, Inv, Types
  <2>. QED
    BY <2>1, <2>2, ToldInStart, ToldInUnload DEF Next
<1>. QED
  BY <1>1, ToldInit, InvAlways, PTL DEF Spec

(***************************************************************************)
(* A destructor of a worker, in start-up or in unloading, waits for a      *)
(* thread that was told to terminate and that is at most five of its own   *)
(* steps from its end, for any number of workers and requests.             *)
(***************************************************************************)
THEOREM JoinCorrect == Spec => JoinAdvances
<1>1. ASSUME Inv, Told, [Next]_vars, NEW w \in Workers, Awaited(w)
      PROVE  /\ thread[w] # "none" /\ m_terminate[w]
             /\ StepsLeft(w)' <= StepsLeft(w)
             /\ Work(w) => StepsLeft(w)' < StepsLeft(w)
  <2>1. thread[w] # "none" /\ m_terminate[w]
    BY <1>1 DEF Told, Awaited, Inv, Types
  <2>2. Work(w) => StepsLeft(w)' < StepsLeft(w)
    BY <1>1, <2>1, WorkAdvances
  <2>3. StepsLeft(w)' <= StepsLeft(w)
    <3>1. StepsLeft(w) \in Nat
      BY <1>1 DEF StepsLeft, Inv, Types
    <3>2. ASSUME thread'[w] = thread[w]
          PROVE  StepsLeft(w)' <= StepsLeft(w)
      BY <3>1, <3>2 DEF StepsLeft
    <3>3. ASSUME NEW v \in Workers, Work(v)
          PROVE  StepsLeft(w)' <= StepsLeft(w)
      <4>1. CASE v = w
        <5>1. StepsLeft(w)' < StepsLeft(w) /\ thread'[w] # "none"
          BY <1>1, <2>1, <3>3, <4>1, WorkAdvances
        <5>2. StepsLeft(w)' \in Nat
          BY <1>1, <3>3, WorkStep DEF StepsLeft, Inv, Types
        <5>. QED
          BY <3>1, <5>1, <5>2
      <4>2. CASE v # w
        <5>1. thread'[w] \in {thread[w], Ended(thread[w])}
          BY <1>1, <3>3, <4>2, WorkAdvances
        <5>2. ASSUME thread'[w] = Ended(thread[w])
              PROVE  StepsLeft(w)' <= StepsLeft(w)
          BY <1>1, <3>1, <5>2 DEF Ended, StepsLeft, Inv, Types
        <5>. QED
          BY <3>2, <5>1, <5>2
      <4>. QED
        BY <4>1, <4>2
    <3>4. CASE thread' = thread
      BY <3>2, <3>4
    <3>5. thread' = thread \/ \E v \in Workers : Work(v)
      BY <1>1, <3>2 DEF Next, vars, Awaited, Start, Unload, InitializeLogging,
         InitializeLoggingThrows, MakeWorker, MakeWorkerThrows, PushBack, PushBackThrows,
         JoinDiscarded, ReturnVersion, GETRequest, ExitProcess, FreeLibrary,
         DestroyScheduler, Terminate, Join, Gone
    <3>. QED
      BY <3>3, <3>4, <3>5
  <2>. QED
    BY <2>1, <2>2, <2>3
<1>2. Inv /\ Told /\ [Next]_vars
        => [\A w \in Workers : Awaited(w) =>
              /\ thread[w] # "none" /\ m_terminate[w]
              /\ StepsLeft(w)' <= StepsLeft(w)
              /\ Work(w) => StepsLeft(w)' < StepsLeft(w)]_vars
  BY <1>1
<1>. QED
  BY <1>2, ToldAlways, PTL DEF Spec, JoinAdvances
=============================================================================
