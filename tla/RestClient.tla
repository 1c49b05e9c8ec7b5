----------------------------- MODULE RestClient -----------------------------
(***************************************************************************)
(* A REST call from the game to its answer: the SQF functions              *)
(* OZK_fnc_createJobAsync and OZK_fnc_createJobSyncSimple, the functions   *)
(* RVExtensionArgs dispatches to (src/src/RVExtension.cpp), and below them *)
(* the scheduler and its workers (module Scheduler).                       *)
(*                                                                         *)
(* Scripts take turns on the engine thread and a callExtension is not      *)
(* interrupted by another script, only by the worker threads.  Every       *)
(* script makes one call, so the job a script creates bears its name.      *)
(* A response is its status and its length; of what a script has put       *)
(* together the model keeps which response it is a beginning of and how    *)
(* long, or that it is the beginning of none (Garbled).                    *)
(***************************************************************************)
EXTENDS Integers, Sequences

CONSTANTS
  Scripts,     \* the script instances, each making one call
  Workers,     \* the worker threads
  Responses,   \* what a request can end with: [status, len]
  OutputSize,  \* the size of the engine's output buffer, NUL included
  Nobody, NoWorker, NoResponse

\* enum JobStatus, the members a script can be answered with
RESULT_COMPLETE == 32
RESULT_COMPLETE_JSON == 33
RESULT_SLICED == 34
RESULT_NOTREADY == 47
RESULT_EXCEPTION_CAUGHT == 49

FinalStatus == {RESULT_COMPLETE, RESULT_COMPLETE_JSON, RESULT_EXCEPTION_CAUGHT}

ASSUME ResponsesAssumption ==
  /\ Responses \subseteq [status : FinalStatus, len : Nat]
  /\ NoResponse \notin Responses

ASSUME NamesAssumption == Nobody \notin Scripts /\ NoWorker \notin Workers

\* 10240 in the game; with room for the NUL only, no slice would advance.
ASSUME OutputSizeAssumption == OutputSize \in Nat /\ OutputSize > 1

VARIABLES
  queue, counter, finished, acqLock, compLock, jobId, result, adding, addPc,
  pc, cur, key, taken, race, exposed,   \* see module Scheduler
  offset,   \* m_result_offset of each job
  spc,      \* where each script is
  status,   \* (_clientResult#1) of each script, 0 before the first answer
  text      \* _result of each script

schedulerVars == <<queue, counter, finished, acqLock, compLock, jobId, result,
                   adding, addPc, pc, cur, key, taken, race, exposed>>
scriptVars == <<offset, spc, status, text>>
vars == <<schedulerVars, scriptVars>>

S == INSTANCE Scheduler WITH
  Jobs <- Scripts, Results <- Responses,
  NoJob <- Nobody, NoResult <- NoResponse

Empty == [of |-> NoResponse, len |-> 0]
Garbled == [of |-> NoResponse, len |-> -1]

Init ==
  /\ S!Init
  /\ offset = [j \in Scripts |-> 0]
  /\ spc = [s \in Scripts |-> "start"]
  /\ status = [s \in Scripts |-> 0]
  /\ text = [s \in Scripts |-> Empty]

-----------------------------------------------------------------------------
(***************************************************************************)
(* The "GetResult" branch of RVExtensionArgs for a result of len bytes of  *)
(* which off have been fetched: the bytes from + 1 to upto are copied to   *)
(* the output buffer.                                                      *)
(***************************************************************************)
WholeFits(len) == len < OutputSize
RestFitsExactly(len, off) == len - off <= OutputSize    \* mutant: no room for the NUL
RestFits(len, off) == len - off < OutputSize

\* UpdateResultOffset.  (Mutants: the NUL is counted, the position is not
\* moved, it is moved back.)
NextOffsetWithNul(off) == off + OutputSize
NextOffsetSame(off) == off
NextOffsetBack(off) == off - (OutputSize - 1)
NextOffset(off) == off + (OutputSize - 1)

Slice(r, off) ==
  IF WholeFits(r.len)
    THEN [from |-> 0, upto |-> r.len, next |-> off, status |-> r.status]
  ELSE IF RestFits(r.len, off)
    THEN [from |-> off, upto |-> r.len, next |-> 0, status |-> r.status]
  ELSE [from |-> off, upto |-> off + (OutputSize - 1),
        next |-> NextOffset(off), status |-> RESULT_SLICED]

\* The text t with a slice of r added to its end.
Appended(t, r, slice) ==
  IF t.len = slice.from /\ t.of \in {r, NoResponse}
  THEN [of |-> r, len |-> slice.upto]
  ELSE Garbled

-----------------------------------------------------------------------------
(* The script                                                              *)

Goto(s, from, to) ==
  /\ spc[s] = from
  /\ spc' = [spc EXCEPT ![s] = to]

\* "extension" callExtension ["GETRequest", ...] creates the job and adds it.
Request(s) ==
  /\ Goto(s, "start", "add")
  /\ S!PushBegin(s)
  /\ UNCHANGED <<offset, status, text>>

\* Any other method: _id stays -1 and the script ends with an error text.
Refuse(s) ==
  /\ S!EngineIdle
  /\ Goto(s, "start", "done")
  /\ UNCHANGED <<schedulerVars, offset, status, text>>

AddJobPush ==
  /\ S!PushEnd
  /\ UNCHANGED scriptVars

AddJobReturn ==
  /\ S!AssignId
  /\ Goto(adding, "add", "wait")
  /\ UNCHANGED <<offset, status, text>>

\* waitUntil { CheckJob == JOB_COMPLETE } lets the script go on.
CheckJob(s) ==
  /\ S!EngineIdle
  /\ S!GetCompletedJob(jobId[s]) # {Nobody}
  /\ Goto(s, "wait", "get")
  /\ UNCHANGED <<schedulerVars, offset, status, text>>

\* The "GetResult" branch when GetCompletedJob has returned the job j.  (With
\* a position past the end substr throws, and the program with it.)
GetResult(s, j) ==
  LET slice == Slice(result[j], offset[j]) IN
  /\ slice.from <= slice.upto
  /\ offset' = [offset EXCEPT ![j] = slice.next]
  /\ status' = [status EXCEPT ![s] = slice.status]
  /\ text' = [text EXCEPT ![s] = Appended(@, result[j], slice)]

\* The "GetResult" branch when it has returned nullptr: output is not touched.
GetNothing(s) ==
  /\ status' = [status EXCEPT ![s] = RESULT_NOTREADY]
  /\ UNCHANGED <<offset, text>>

\* while { (_clientResult#1) != RESULT_COMPLETE } do ... after a first slice
KeepsReading(code) == code # RESULT_COMPLETE

\* The first GetResult; anything but a slice is taken for the whole answer.
GetFirst(s) ==
  /\ S!EngineIdle
  /\ spc[s] = "get"
  /\ \E j \in S!GetCompletedJob(jobId[s]) :
       IF j = Nobody THEN GetNothing(s) ELSE GetResult(s, j)
  /\ spc' = [spc EXCEPT ![s] =
               IF status'[s] = RESULT_SLICED /\ KeepsReading(status'[s])
               THEN "more" ELSE "done"]
  /\ UNCHANGED schedulerVars

\* One turn of the loop that fetches the remaining slices.
GetMore(s) ==
  /\ S!EngineIdle
  /\ spc[s] = "more"
  /\ \E j \in S!GetCompletedJob(jobId[s]) :
       IF j = Nobody THEN GetNothing(s) ELSE GetResult(s, j)
  /\ spc' = [spc EXCEPT ![s] =
               IF KeepsReading(status'[s]) THEN "more" ELSE "done"]
  /\ UNCHANGED schedulerVars

Turn(s) == CheckJob(s) \/ GetFirst(s) \/ GetMore(s)

Work(w) == S!Work(w) /\ UNCHANGED scriptVars

Next ==
  \/ \E s \in Scripts : Request(s) \/ Refuse(s) \/ Turn(s)
  \/ AddJobPush
  \/ AddJobReturn
  \/ \E w \in Workers : Work(w)

\* The game runs every waiting script again and again, and no thread stops.
Fairness ==
  /\ WF_vars(AddJobPush)
  /\ WF_vars(AddJobReturn)
  /\ \A s \in Scripts : WF_vars(Turn(s))
  /\ \A w \in Workers : WF_vars(Work(w))

Spec == Init /\ [][Next]_vars /\ Fairness

-----------------------------------------------------------------------------
(* Properties                                                              *)

TypeOK ==
  /\ S!TypeOK
  /\ offset \in [Scripts -> Nat]
  /\ spc \in [Scripts -> {"start", "add", "wait", "get", "more", "done"}]
  /\ status \in [Scripts -> FinalStatus \cup {0, RESULT_SLICED, RESULT_NOTREADY}]
  /\ text \in [Scripts -> [of : Responses \cup {NoResponse}, len : Nat \cup {-1}]]

(***************************************************************************)
(* A script that ends with a final status holds the whole response to its  *)
(* own request, every slice once and in order, and that response's status. *)
(***************************************************************************)
AnswersOwnCall ==
  S!Sound => \A s \in Scripts :
    spc[s] = "done" /\ status[s] \in FinalStatus =>
      /\ text[s] = [of |-> result[s], len |-> result[s].len]
      /\ status[s] = result[s].status

(***************************************************************************)
(* Whatever GetResult is about to copy for a finished job fits the output  *)
(* buffer with its NUL, starts inside the result, and is not empty when    *)
(* more is to come: strcpy_s and substr are never called with a string too *)
(* long or a position past the end, and every slice makes progress.        *)
(***************************************************************************)
NextSliceIsSafe ==
  S!Sound => \A j \in taken : ~S!Held(j) =>
    LET slice == Slice(result[j], offset[j]) IN
    /\ slice.from <= slice.upto /\ slice.upto <= result[j].len
    /\ slice.upto - slice.from < OutputSize
    /\ slice.status = RESULT_SLICED => slice.upto > slice.from

(***************************************************************************)
(* The fetch position the engine side keeps in the job and the text the    *)
(* script has put together agree while the script reads on, also when a    *)
(* turn in between found the job table busy and got nothing.               *)
(***************************************************************************)
OffsetTracksText ==
  S!Sound => \A s \in Scripts :
    spc[s] = "more" /\ result[s].status = RESULT_COMPLETE
      => text[s] = [of |-> result[s], len |-> offset[s]]

(***************************************************************************)
(* Every GetResult of a script brings the rest of a text response, or      *)
(* OutputSize - 1 bytes more while there is a rest, or finds that a worker *)
(* is just filing some job, and is then lost: a response is fetched in as  *)
(* many turns as it has slices and as many as met a worker, and nothing    *)
(* else ever makes a job that CheckJob has found disappear again.          *)
(***************************************************************************)
FetchAdvances ==
  [][\A s \in Scripts :
       S!Sound /\ (GetFirst(s) \/ GetMore(s)) /\ result[s].status = RESULT_COMPLETE =>
         \/ compLock # NoWorker /\ status'[s] = RESULT_NOTREADY /\ text'[s] = text[s]
         \/ /\ spc'[s] = "done"
            /\ text'[s] = [of |-> result[s], len |-> result[s].len]
         \/ /\ spc'[s] = "more"
            /\ text'[s] = [of |-> result[s], len |-> text[s].len + (OutputSize - 1)]
            /\ text'[s].len < result[s].len]_vars

\* The response needs slices and its last slice is not RESULT_COMPLETE.
Endless(s) == result[s].status # RESULT_COMPLETE /\ ~WholeFits(result[s].len)

(***************************************************************************)
(* A call returns.  The only things that keep one from returning are the   *)
(* data race on the queue, a worker that reads the id of its job before    *)
(* AddJob assigns it, and so files it under none, and a sliced response    *)
(* that ends in RESULT_COMPLETE_JSON or RESULT_EXCEPTION_CAUGHT.           *)
(***************************************************************************)
CallReturns ==
  \A s \in Scripts : spc[s] = "add" ~>
    \/ spc[s] = "done"
    \/ ~S!Sound
    \/ s \in exposed
    \/ result[s] # NoResponse /\ Endless(s)

(***************************************************************************)
(* Scripts, extension, scheduler and workers together are the abstract     *)
(* service: a call that returns brings the whole of the one answer its own *)
(* request had, or brings nothing; no call returns before its request is   *)
(* answered, no answer changes, and no step of one script or worker        *)
(* touches the call of another.                                            *)
(***************************************************************************)
Reply(s) ==
  [status |-> IF spc[s] = "done" THEN status[s] ELSE -1,
   of     |-> IF spc[s] = "done" THEN text[s].of ELSE NoResponse,
   len    |-> IF spc[s] = "done" THEN text[s].len ELSE 0]

Service == INSTANCE RestService WITH
  Calls <- Scripts,
  made <- {s \in Scripts : spc[s] # "start"},
  answer <- result,
  reply <- [s \in Scripts |-> Reply(s)],
  broken <- ~S!Sound

ImplementsService == Service!Spec

-----------------------------------------------------------------------------
(* What comments and scripts say and the code does not keep                *)

(***************************************************************************)
(* RESULT_SLICED "will give remaining chunks on subsequent calls", and     *)
(* RESULT_COMPLETE_JSON is a complete result: a script that has begun to   *)
(* fetch slices comes to an end.                                           *)
(***************************************************************************)
SlicedCallReturns ==
  \A s \in Scripts : spc[s] = "more" ~> (spc[s] = "done" \/ ~S!Sound)

(***************************************************************************)
(* RESULT_NOTREADY means "Job not complete": a script to which CheckJob    *)
(* has said JOB_COMPLETE does not get it for an answer.                    *)
(***************************************************************************)
CompleteJobIsReady ==
  S!Sound => \A s \in Scripts : spc[s] = "done" => status[s] # RESULT_NOTREADY
=============================================================================
