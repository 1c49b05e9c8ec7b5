------------------------------ MODULE Lifecycle ------------------------------
(***************************************************************************)
(* The extension from load to unload: RVExtensionVersion, which opens the  *)
(* log and creates the workers (src/src/RVExtension.cpp), the worker       *)
(* threads with their end (src/src/Worker.cpp), and the destruction of the *)
(* static objects when the library goes (src/src/DllMain.cpp does nothing  *)
(* then).  Of requests only their number is kept; the scheduler itself is  *)
(* in module Scheduler.                                                    *)
(*                                                                         *)
(* A library goes when the process exits, and then Windows has ended all   *)
(* other threads before, or when it is freed, and then they run on.  In    *)
(* either case its static objects are destroyed under the loader lock,     *)
(* which a thread needs to begin and to end.                               *)
(***************************************************************************)
EXTENDS Integers, FiniteSets

CONSTANTS
  gc_numWorkers,
  MaxWorkers,     \* the Worker objects there can be; bounds the model only
  MaxRequests     \* bound on the requests

ASSUME WorkersAssumption ==
  /\ gc_numWorkers \in Nat
  /\ MaxWorkers \in Nat

Workers == 1 .. MaxWorkers

VARIABLES
  engine,       \* where the engine thread is
  logger,       \* the logger "FileLogger" exists
  left,         \* how often the loop of InitializeWorkers has still to turn
  created,      \* g_ExtensionWorkers.size()
  thread,       \* where each worker's thread is
  m_terminate,
  scheduler,    \* the static Scheduler
  unloading,    \* "no", or how the library goes: "exit", "free"
  joined,       \* how many workers are destroyed
  pending, served, asked,    \* requests in the queue, filed, and in all
  late          \* history: the jobs each worker ran to the end after Terminate

startVars == <<logger, left, created>>
unloadVars == <<unloading, joined>>
requestVars == <<pending, served, asked>>
vars == <<engine, startVars, thread, m_terminate, scheduler, unloadVars,
          requestVars, late>>

\* DllMain has been called with DLL_PROCESS_ATTACH.
Init ==
  /\ engine = "ready"
  /\ logger = FALSE
  /\ left = 0
  /\ created = 0
  /\ thread = [w \in Workers |-> "none"]
  /\ m_terminate = [w \in Workers |-> FALSE]
  /\ scheduler = "unmade"
  /\ unloading = "no"
  /\ joined = 0
  /\ pending = 0 /\ served = 0 /\ asked = 0
  /\ late = [w \in Workers |-> 0]

-----------------------------------------------------------------------------
(* RVExtensionVersion: once when the game loads the extension, at every    *)
(* push of a button in the test window                                     *)

\* Logger::create throws when the logger is there.  (Mutant: it does not.)
CreatesAlways == TRUE
CreatesLogger == ~logger

\* InitializeWorkers: gc_numWorkers more unless there are that many.
InitializeLogging ==
  /\ engine = "ready" /\ unloading = "no"
  /\ CreatesLogger
  /\ logger' = TRUE
  /\ left' = IF created # gc_numWorkers THEN gc_numWorkers ELSE 0
  /\ engine' = "creating"
  /\ UNCHANGED <<created, thread, m_terminate, scheduler, unloadVars, requestVars, late>>

\* The file cannot be opened, or there is a logger already.  The handler asks
\* for the logger to tell it, which makes one.
InitializeLoggingThrows ==
  /\ engine = "ready" /\ unloading = "no"
  /\ logger' = TRUE
  /\ UNCHANGED <<engine, left, created, thread, m_terminate, scheduler, unloadVars,
                 requestVars, late>>

\* The constructor of Worker.  (Mutant: m_terminate is not initialized.)
TerminateAtStartAny == BOOLEAN
TerminateAtStart == {FALSE}

MakeWorker ==
  /\ engine = "creating"
  /\ left > 0 /\ created < MaxWorkers
  /\ left' = left - 1
  /\ engine' = "push"
  /\ thread' = [thread EXCEPT ![created + 1] = "starting"]
  /\ \E b \in TerminateAtStart : m_terminate' = [m_terminate EXCEPT ![created + 1] = b]
  /\ UNCHANGED <<logger, created, scheduler, unloadVars, requestVars, late>>

\* No thread to be had: the exception ends the loop.
MakeWorkerThrows ==
  /\ engine = "creating"
  /\ left > 0
  /\ left' = 0
  /\ engine' = "ready"
  /\ UNCHANGED <<logger, created, thread, m_terminate, scheduler, unloadVars,
                 requestVars, late>>

PushBack ==
  /\ engine = "push"
  /\ created' = created + 1
  /\ engine' = "creating"
  /\ UNCHANGED <<logger, left, thread, m_terminate, scheduler, unloadVars,
                 requestVars, late>>

\* Terminate in ~Worker.  (Mutant: it is not called.)
TerminatedNot(w) == m_terminate
Terminated(w) == [m_terminate EXCEPT ![w] = TRUE]

\* No memory for the vector to grow: the worker just made is destroyed, and
\* that waits for its thread.
PushBackThrows ==
  /\ engine = "push"
  /\ m_terminate' = Terminated(created + 1)
  /\ left' = 0
  /\ engine' = "discard"
  /\ UNCHANGED <<logger, created, thread, scheduler, unloadVars, requestVars, late>>

JoinDiscarded ==
  /\ engine = "discard"
  /\ thread[created + 1] = "ended"
  /\ engine' = "ready"
  /\ UNCHANGED <<startVars, thread, m_terminate, scheduler, unloadVars, requestVars,
                 late>>

ReturnVersion ==
  /\ engine = "creating"
  /\ left = 0
  /\ engine' = "ready"
  /\ UNCHANGED <<startVars, thread, m_terminate, scheduler, unloadVars, requestVars, late>>

\* RVExtensionArgs with GETRequest.  Nothing asks whether start-up was called
\* or succeeded; the line for the log makes a logger if there is none.
Instance == IF scheduler = "unmade" THEN "alive" ELSE scheduler

GETRequest ==
  /\ engine = "ready" /\ unloading = "no"
  /\ asked < MaxRequests
  /\ asked' = asked + 1
  /\ pending' = pending + 1
  /\ scheduler' = Instance
  /\ logger' = TRUE
  /\ UNCHANGED <<engine, left, created, thread, m_terminate, unloadVars, served, late>>

-----------------------------------------------------------------------------
(* A worker thread                                                         *)

LoaderLocked == unloading # "no" /\ engine # "gone"

Goto(w, from, to) ==
  /\ thread[w] = from
  /\ thread' = [thread EXCEPT ![w] = to]
  /\ UNCHANGED <<engine, startVars, m_terminate, unloadVars, asked>>

Begin(w) ==
  /\ ~LoaderLocked
  /\ Goto(w, "starting", "loop")
  /\ UNCHANGED <<scheduler, pending, served, late>>

\* while (!ShouldExit()).  (Mutant: not while there is work.)
ShouldExitWhenIdle(w) == m_terminate[w] /\ pending = 0
ShouldExit(w) == m_terminate[w]

StayInLoop(w) ==
  /\ ~ShouldExit(w)
  /\ Goto(w, "loop", "acquire")
  /\ UNCHANGED <<scheduler, pending, served, late>>

LeaveLoop(w) ==
  /\ ShouldExit(w)
  /\ Goto(w, "loop", "leaving")
  /\ UNCHANGED <<scheduler, pending, served, late>>

\* The loader lock is for the notifications of a thread's end.
EndThread(w) ==
  /\ ~LoaderLocked
  /\ Goto(w, "leaving", "ended")
  /\ UNCHANGED <<scheduler, pending, served, late>>

(***************************************************************************)
(* On a library that is freed a worker may use the scheduler after its     *)
(* destructor ran, or while it runs, which is undefined: AcquireJob finds  *)
(* the queue as it was or empty, CompleteJob has an effect or none, or the *)
(* process crashes.                                                        *)
(***************************************************************************)
Destroyed == scheduler = "destroyed"

GetNextJob(w) ==
  /\ \/ pending > 0 /\ Goto(w, "acquire", "execute") /\ pending' = pending - 1
     \/ pending = 0 /\ Goto(w, "acquire", "sleep") /\ pending' = pending
     \/ Destroyed /\ Goto(w, "acquire", "sleep") /\ pending' = pending
  /\ scheduler' = Instance
  /\ UNCHANGED <<served, late>>

CompleteJob(w) ==
  /\ Goto(w, "execute", "sleep")
  /\ \/ served' = served + 1
     \/ Destroyed /\ served' = served
  /\ late' = IF m_terminate[w] THEN [late EXCEPT ![w] = @ + 1] ELSE late
  /\ UNCHANGED <<scheduler, pending>>

Ended(place) == IF place \in {"none", "ended"} THEN place ELSE "ended"

Crash(w) ==
  /\ Destroyed
  /\ thread[w] \in {"acquire", "execute"}
  /\ engine' = "crashed"
  /\ thread' = [v \in Workers |-> Ended(thread[v])]
  /\ UNCHANGED <<startVars, m_terminate, scheduler, unloadVars, requestVars, late>>

Wake(w) ==
  /\ Goto(w, "sleep", "loop")
  /\ UNCHANGED <<scheduler, pending, served, late>>

Work(w) ==
  \/ Begin(w) \/ StayInLoop(w) \/ LeaveLoop(w) \/ EndThread(w)
  \/ GetNextJob(w) \/ CompleteJob(w) \/ Wake(w) \/ Crash(w)

-----------------------------------------------------------------------------
(* The library goes                                                        *)

ExitProcess ==
  /\ engine = "ready" /\ unloading = "no"
  /\ unloading' = "exit"
  /\ engine' = "detach"
  /\ thread' = [w \in Workers |-> Ended(thread[w])]
  /\ UNCHANGED <<startVars, m_terminate, scheduler, joined, requestVars, late>>

FreeLibrary ==
  /\ engine = "ready" /\ unloading = "no"
  /\ unloading' = "free"
  /\ engine' = "detach"
  /\ UNCHANGED <<startVars, thread, m_terminate, scheduler, joined, requestVars, late>>

\* DllMain does nothing; of the static objects the scheduler, which was made
\* last, is destroyed first.
DestroyScheduler ==
  /\ engine = "detach"
  /\ scheduler' = IF scheduler = "alive" THEN "destroyed" ELSE scheduler
  /\ engine' = "destroy"
  /\ UNCHANGED <<startVars, thread, m_terminate, unloadVars, requestVars, late>>

\* ~Worker of the next element of g_ExtensionWorkers.
Terminate ==
  /\ engine = "destroy"
  /\ joined < created
  /\ m_terminate' = Terminated(joined + 1)
  /\ engine' = "join"
  /\ UNCHANGED <<startVars, thread, scheduler, unloadVars, requestVars, late>>

Join ==
  /\ engine = "join"
  /\ thread[joined + 1] = "ended"
  /\ joined' = joined + 1
  /\ engine' = "destroy"
  /\ UNCHANGED <<startVars, thread, m_terminate, scheduler, unloading, requestVars, late>>

Gone ==
  /\ engine = "destroy"
  /\ joined = created
  /\ engine' = "gone"
  /\ UNCHANGED <<startVars, thread, m_terminate, scheduler, unloadVars, requestVars, late>>

-----------------------------------------------------------------------------
Start ==
  \/ MakeWorker \/ MakeWorkerThrows \/ PushBack \/ PushBackThrows
  \/ JoinDiscarded \/ ReturnVersion
Unload == DestroyScheduler \/ Terminate \/ Join \/ Gone

Next ==
  \/ InitializeLogging \/ InitializeLoggingThrows \/ Start
  \/ GETRequest
  \/ \E w \in Workers : Work(w)
  \/ ExitProcess \/ FreeLibrary \/ Unload

\* Threads go on; nobody has to call, or to unload.
Fairness ==
  /\ WF_vars(Start)
  /\ WF_vars(Unload)
  /\ \A w \in Workers : WF_vars(Work(w))

Spec == Init /\ [][Next]_vars /\ Fairness

-----------------------------------------------------------------------------
(* Properties                                                              *)

(***************************************************************************)
(* There are never more than gc_numWorkers workers, however often          *)
(* RVExtensionVersion is called and whatever fails in it.  InitializeWorkers*)
(* alone does not see to that: it adds gc_numWorkers to a number that is   *)
(* only different.                                                         *)
(***************************************************************************)
WorkersBounded == created <= gc_numWorkers

(***************************************************************************)
(* Requests are served as long as one worker came to be, whatever failed   *)
(* after it: a start-up that stops half way costs workers and not answers. *)
(***************************************************************************)
RequestsServed ==
  asked > served ~> (asked = served \/ created = 0 \/ unloading # "no")

(***************************************************************************)
(* A worker runs at most one job to its end after it was told to           *)
(* terminate, although it reads the flag without a lock and long before it *)
(* asks for a job: whoever joins it waits for one request.                 *)
(***************************************************************************)
OneMoreJob == \A w \in Workers : late[w] <= 1

(***************************************************************************)
(* RVExtensionVersion returns, also when the engine thread has to wait in  *)
(* it for a worker it could not keep: nobody holds the loader lock then.   *)
(***************************************************************************)
StartReturns == engine \in {"creating", "push", "discard"} ~> engine = "ready"

(***************************************************************************)
(* The library comes to its end, always when the process exits.  When it   *)
(* is freed, two things can happen instead: a worker waits for the loader  *)
(* lock while its destructor, under that lock, waits for the worker, for   *)
(* ever; or a worker uses the destroyed scheduler and the process crashes. *)
(***************************************************************************)
UnloadEnds ==
  engine = "detach" ~>
    \/ engine = "gone"
    \/ /\ unloading = "free" /\ engine = "join"
       /\ thread[joined + 1] \in {"starting", "leaving"}
    \/ unloading = "free" /\ engine = "crashed"

\* How far a worker that is told to terminate is from its end, in steps.
StepsLeft(w) ==
  [none |-> 0, ended |-> 0, leaving |-> 1, loop |-> 2, starting |-> 3, sleep |-> 3,
   execute |-> 4, acquire |-> 5][thread[w]]

\* The destructor of w waits for it.
Awaited(w) ==
  \/ engine = "discard" /\ w = created + 1
  \/ engine = "join" /\ w = joined + 1

(***************************************************************************)
(* A destructor only waits for a thread that there is and that was told to *)
(* terminate, and every step of that thread brings it nearer to its end,   *)
(* five steps away at most, wherever it was when it was told: it asks for  *)
(* one more job, and nothing that other threads do makes the way longer.   *)
(***************************************************************************)
JoinAdvances ==
  [][\A w \in Workers : Awaited(w) =>
       /\ thread[w] # "none" /\ m_terminate[w]
       /\ StepsLeft(w)' <= StepsLeft(w)
       /\ Work(w) => StepsLeft(w)' < StepsLeft(w)]_vars
=============================================================================
