-------------------------- MODULE RestClientProofs --------------------------
(***************************************************************************)
(* Proofs of the safety properties of module RestClient, for every set of  *)
(* scripts, workers and responses and every size of the output buffer.     *)
(* What they need to know of the scheduler is proved in SchedulerProofs.   *)
(***************************************************************************)
EXTENDS RestClient, TLAPS

SP == INSTANCE SchedulerProofs WITH
  Jobs <- Scripts, Results <- Responses,
  NoJob <- Nobody, NoResult <- NoResponse

-----------------------------------------------------------------------------
(* The scheduler below                                                     *)

LEMMA SchedulerAssumption == SP!ConstantsAssumption
  BY ResponsesAssumption, NamesAssumption DEF SP!ConstantsAssumption

(***************************************************************************)
(* SchedulerProofs is about the scheduler RestClient uses: the operators   *)
(* of both instances are the same.                                         *)
(***************************************************************************)
LEMMA SameInit == S!Init <=> SP!Init
  BY DEF S!Init, SP!Init, S!NoId, SP!NoId

LEMMA SameTorn == ASSUME NEW q PROVE S!Torn(q) = SP!Torn(q)
  BY DEF S!Torn, SP!Torn, S!Front, SP!Front

LEMMA SameAddJob ==
  /\ \A s \in Scripts : S!PushBegin(s) <=> SP!PushBegin(s)
  /\ S!PushEnd <=> SP!PushEnd
  /\ S!AssignId <=> SP!AssignId
<1>1. ASSUME NEW s \in Scripts
      PROVE  S!PushBegin(s) <=> SP!PushBegin(s)
  BY Zenon DEF S!PushBegin, SP!PushBegin, S!EngineIdle, SP!EngineIdle, S!Fresh,
     SP!Fresh, S!NoId, SP!NoId, S!Popping, SP!Popping, S!workerVars, SP!workerVars
<1>2. S!PushEnd <=> SP!PushEnd
  BY SameTorn DEF S!PushEnd, SP!PushEnd, S!Pushing, SP!Pushing, S!QueueAfter,
     SP!QueueAfter,  S!Popping, SP!Popping, S!workerVars, SP!workerVars
<1>3. S!AssignId <=> SP!AssignId
  BY Zenon DEF S!AssignId, SP!AssignId, S!NextCounter, SP!NextCounter, S!workerVars,
     SP!workerVars
<1>. QED
  BY <1>1, <1>2, <1>3

LEMMA SameWork == ASSUME NEW w \in Workers PROVE S!Work(w) <=> SP!Work(w)
<1>. USE DEF S!Goto, SP!Goto, S!engineVars, SP!engineVars
<1>1. S!Wake(w) <=> SP!Wake(w)
  BY Zenon DEF S!Wake, SP!Wake
<1>2. S!AcquireNothing(w) <=> SP!AcquireNothing(w)
  BY Zenon DEF S!AcquireNothing, SP!AcquireNothing
<1>3. S!PopBegin(w) <=> SP!PopBegin(w)
  BY Zenon DEF S!PopBegin, SP!PopBegin, S!Pushing, SP!Pushing
<1>4. S!PopEnd(w) <=> SP!PopEnd(w)
  BY SameTorn DEF S!PopEnd, SP!PopEnd, S!QueueAfter, SP!QueueAfter, S!AfterPop,
     SP!AfterPop, S!NextJob, SP!NextJob, S!Pushing, SP!Pushing
<1>5. S!Execute(w) <=> SP!Execute(w)
  BY Zenon DEF S!Execute, SP!Execute
<1>6. S!InsertBegin(w) <=> SP!InsertBegin(w)
  BY Zenon DEF S!InsertBegin, SP!InsertBegin, S!NoId, SP!NoId
<1>7. S!InsertEnd(w) <=> SP!InsertEnd(w)
  BY Zenon DEF S!InsertEnd, SP!InsertEnd, S!Inserted, SP!Inserted
<1>. QED
  BY <1>1, <1>2, <1>3, <1>4, <1>5, <1>6, <1>7 DEF S!Work, SP!Work

\* What a script does is a step of the scheduler or none.
LEMMA SchedulerStep == [Next]_vars => [SP!Next]_(SP!vars)
  BY SameAddJob, SameWork
     DEF Next, Request, Refuse, Turn, CheckJob, GetFirst, GetMore, AddJobPush,
         AddJobReturn, Work, vars, schedulerVars, SP!Next, SP!vars

(***************************************************************************)
(* The part of the invariant that speaks of the scheduler alone.           *)
(***************************************************************************)
SchedulerInv ==
  /\ SP!TypeInv
  /\ SP!IdInv
  /\ SP!OnlyAddingLacksId
  /\ SP!Custody
  /\ SP!ResultInv
  /\ SP!FiledInv

LEMMA SchedulerInvInit == Init => SchedulerInv
  BY SameInit, SchedulerAssumption, SP!TypeInit, SP!IdInit, SP!LacksIdInit,
     SP!CustodyInit, SP!ResultInit, SP!FiledInit
     DEF Init, SchedulerInv

LEMMA SchedulerInvStep == SchedulerInv /\ [Next]_vars => SchedulerInv'
  BY SchedulerStep, SchedulerAssumption, SP!TypeStep, SP!IdStep, SP!LacksIdStep,
     SP!CustodyStep, SP!ResultStep, SP!FiledStep
     DEF SchedulerInv

\* What a script's call can count on.
LEMMA Found ==
  ASSUME SchedulerInv, NEW s \in Scripts, jobId[s] # S!NoId,
         NEW j \in S!GetCompletedJob(jobId[s]), j # Nobody
  PROVE  j = s /\ result[s] \in Responses
<1>1. j \in SP!GetCompletedJob(jobId[s])
  BY DEF S!GetCompletedJob, SP!GetCompletedJob, S!Lookup, SP!Lookup
<1>2. jobId[s] \in Nat
  BY DEF SchedulerInv, SP!TypeInv, SP!TypeOK, SP!NoId, S!NoId
<1>3. j \in Scripts /\ jobId[j] = jobId[s] /\ result[j] # NoResponse
  BY <1>1, <1>2, SchedulerAssumption, SP!FoundFacts DEF SchedulerInv
<1>. QED
  BY <1>3 DEF SchedulerInv, SP!TypeInv, SP!TypeOK, SP!IdInv, SP!TableMatchesIds,
              SP!NoId, S!NoId

\* What the scheduler keeps in a step.
LEMMA Kept ==
  ASSUME SchedulerInv, [Next]_vars
  PROVE  /\ \A s \in Scripts : jobId[s] # S!NoId => jobId'[s] # S!NoId
         /\ S!Sound' => S!Sound
         /\ S!Sound' => \A s \in Scripts :
              result[s] # NoResponse => result'[s] = result[s]
<1>1. [SP!Next]_(SP!vars)
  BY SchedulerStep
<1>2. S!Sound' => S!Sound
  BY <1>1, SchedulerAssumption, SP!SoundKept DEF S!Sound, SP!Sound
<1>3. S!Sound' => \A s \in Scripts : result[s] # NoResponse => result'[s] = result[s]
  BY <1>1, SchedulerAssumption, SP!ResultKept DEF S!Sound, SP!Sound, SchedulerInv
<1>4. ASSUME NEW s \in Scripts, jobId[s] # S!NoId
      PROVE  jobId'[s] # S!NoId
  <2>1. CASE SP!AssignId
    BY <1>4, <2>1 DEF SP!AssignId, SchedulerInv, SP!TypeInv, SP!TypeOK, S!NoId, SP!NoId
  <2>2. CASE ~SP!AssignId
    BY <1>1, <1>4, <2>2
       DEF SP!Next, SP!Work, SP!PushBegin, SP!PushEnd, SP!Wake, SP!AcquireNothing,
           SP!PopBegin, SP!PopEnd, SP!Execute, SP!InsertBegin, SP!InsertEnd, SP!vars,
           SP!engineVars
  <2>. QED
    BY <2>1, <2>2
<1>. QED
  BY <1>2, <1>3, <1>4

-----------------------------------------------------------------------------
(* Slices                                                                  *)

(***************************************************************************)
(* The arithmetic of the GetResult branch, for a position in the response: *)
(* the slice starts there unless the whole response fits, does not pass    *)
(* the end, leaves room for the NUL, and is not empty if more is to come.  *)
(***************************************************************************)
LEMMA SliceFacts ==
  ASSUME NEW r \in Responses, NEW off \in Nat, off <= r.len
  PROVE  LET slice == Slice(r, off) IN
         /\ slice.from \in Nat /\ slice.upto \in Nat /\ slice.next \in Nat
         /\ slice.from <= slice.upto /\ slice.upto <= r.len
         /\ slice.next <= r.len
         /\ slice.upto - slice.from < OutputSize
         /\ slice.status = RESULT_SLICED =>
              /\ ~WholeFits(r.len)
              /\ slice.from = off /\ slice.upto > off /\ slice.next = slice.upto
         /\ slice.status # RESULT_SLICED =>
              /\ slice.status = r.status /\ slice.upto = r.len
              /\ slice.from = IF WholeFits(r.len) THEN 0 ELSE off
<1>1. r.len \in Nat /\ r.status \in FinalStatus
  BY ResponsesAssumption
<1>2. r.status # RESULT_SLICED
  BY <1>1 DEF FinalStatus, RESULT_COMPLETE, RESULT_COMPLETE_JSON, RESULT_SLICED,
     RESULT_EXCEPTION_CAUGHT
<1>. QED
  BY <1>1, <1>2, OutputSizeAssumption DEF Slice, WholeFits, RestFits, NextOffset

\* The same where the position may be anywhere, as after a data race.
LEMMA SliceType ==
  ASSUME NEW r \in Responses, NEW off \in Nat
  PROVE  LET slice == Slice(r, off) IN
         /\ slice.from \in Nat /\ slice.upto \in Nat /\ slice.next \in Nat
         /\ slice.status \in FinalStatus \cup {RESULT_SLICED}
<1>1. r.len \in Nat /\ r.status \in FinalStatus
  BY ResponsesAssumption
<1>. QED
  BY <1>1, OutputSizeAssumption DEF Slice, WholeFits, RestFits, NextOffset

-----------------------------------------------------------------------------
(* The scripts                                                             *)

(***************************************************************************)
(* A script that asks for a job has its id.                                *)
(***************************************************************************)
HasId == \A s \in Scripts : spc[s] \in {"wait", "get", "more"} => jobId[s] # S!NoId

ScriptTypes ==
  /\ offset \in [Scripts -> Nat]
  /\ spc \in [Scripts -> {"start", "add", "wait", "get", "more", "done"}]
  /\ status \in [Scripts -> FinalStatus \cup {0, RESULT_SLICED, RESULT_NOTREADY}]
  /\ text \in [Scripts -> [of : Responses \cup {NoResponse}, len : Nat \cup {-1}]]

(***************************************************************************)
(* What a script, its text and the position in its job agree on: nothing   *)
(* is fetched before the first GetResult, the position is in the response, *)
(* and only a response that does not fit is read on.                       *)
(***************************************************************************)
Agree(s) ==
  /\ offset[s] # 0 => result[s] # NoResponse /\ offset[s] <= result[s].len
  /\ spc[s] \in {"start", "add", "wait", "get"} =>
       offset[s] = 0 /\ text[s] = Empty /\ status[s] = 0
  /\ spc[s] = "more" => result[s] # NoResponse /\ ~WholeFits(result[s].len)
  /\ spc[s] = "more" /\ result[s].status = RESULT_COMPLETE =>
       text[s] = [of |-> result[s], len |-> offset[s]]
  /\ spc[s] = "done" /\ status[s] \in FinalStatus =>
       /\ result[s] # NoResponse
       /\ text[s] = [of |-> result[s], len |-> result[s].len]
       /\ status[s] = result[s].status

ScriptInv == ScriptTypes /\ HasId /\ (S!Sound => \A s \in Scripts : Agree(s))

RestInv == SchedulerInv /\ ScriptInv

LEMMA ScriptInit == Init => ScriptInv
<1>. SUFFICES ASSUME Init PROVE ScriptInv
  OBVIOUS
<1>1. ScriptTypes
  BY DEF Init, ScriptTypes, Empty
<1>2. HasId
  BY DEF Init, HasId
<1>3. ASSUME NEW s \in Scripts PROVE Agree(s)
  BY DEF Init, Agree, FinalStatus, RESULT_COMPLETE, RESULT_COMPLETE_JSON,
         RESULT_EXCEPTION_CAUGHT
<1>. QED
  BY <1>1, <1>2, <1>3 DEF ScriptInv

\* A step that leaves the scripts alone.
LEMMA ScriptsUntouched ==
  ASSUME RestInv, [Next]_vars, UNCHANGED scriptVars
  PROVE  ScriptInv'
<1>1. ScriptTypes' /\ HasId'
  BY Kept DEF RestInv, ScriptInv, ScriptTypes, HasId, scriptVars
<1>2. ASSUME S!Sound', NEW s \in Scripts
      PROVE  Agree(s)'
  <2>1. Agree(s)
    BY <1>2, Kept DEF RestInv, ScriptInv
  <2>2. result[s] # NoResponse => result'[s] = result[s]
    BY <1>2, Kept DEF RestInv
  <2>3. UNCHANGED <<offset, spc, status, text>>
    BY DEF scriptVars
  <2>. QED
    BY <2>1, <2>2, <2>3 DEF Agree
<1>. QED
  BY <1>1, <1>2 DEF ScriptInv

\* What GetResult, or its failure, leaves of the script's variables.
Fetch(s, j) == IF j = Nobody THEN GetNothing(s) ELSE GetResult(s, j)

LEMMA FetchTypes ==
  ASSUME RestInv, NEW s \in Scripts, spc[s] \in {"get", "more"},
         NEW j \in S!GetCompletedJob(jobId[s]), Fetch(s, j)
  PROVE  /\ offset' \in [Scripts -> Nat]
         /\ status' \in [Scripts -> FinalStatus \cup {0, RESULT_SLICED, RESULT_NOTREADY}]
         /\ text' \in [Scripts -> [of : Responses \cup {NoResponse}, len : Nat \cup {-1}]]
<1>. USE DEF RestInv, ScriptInv, ScriptTypes
<1>1. CASE j = Nobody
  BY <1>1 DEF Fetch, GetNothing
<1>2. CASE j # Nobody
  <2>1. j = s /\ result[s] \in Responses
    BY <1>2, Found DEF HasId
  <2>. DEFINE slice == Slice(result[s], offset[s])
  <2>2. /\ slice.from \in Nat /\ slice.upto \in Nat /\ slice.next \in Nat
        /\ slice.status \in FinalStatus \cup {RESULT_SLICED}
    BY <2>1, SliceType
  <2>3. /\ offset' = [offset EXCEPT ![s] = slice.next]
        /\ status' = [status EXCEPT ![s] = slice.status]
        /\ text' = [text EXCEPT ![s] = Appended(text[s], result[s], slice)]
    BY <1>2, <2>1 DEF Fetch, GetResult
  <2>. HIDE DEF slice
  <2>4. Appended(text[s], result[s], slice)
          \in [of : Responses \cup {NoResponse}, len : Nat \cup {-1}]
    BY <2>1, <2>2 DEF Appended, Garbled
  <2>. QED
    BY <2>2, <2>3, <2>4
<1>. QED
  BY <1>1, <1>2

(***************************************************************************)
(* Only the script that asks is touched.                                   *)
(***************************************************************************)
LEMMA FetchOthers ==
  ASSUME RestInv, NEW s \in Scripts, spc[s] \in {"get", "more"},
         NEW j \in S!GetCompletedJob(jobId[s]), Fetch(s, j),
         NEW t \in Scripts, t # s
  PROVE  offset'[t] = offset[t] /\ status'[t] = status[t] /\ text'[t] = text[t]
<1>1. CASE j = Nobody
  BY <1>1 DEF RestInv, ScriptInv, ScriptTypes, Fetch, GetNothing
<1>2. CASE j # Nobody
  <2>1. j = s
    BY <1>2, Found DEF RestInv, ScriptInv, HasId
  <2>. DEFINE slice == Slice(result[s], offset[s])
  <2>2. /\ offset' = [offset EXCEPT ![s] = slice.next]
        /\ status' = [status EXCEPT ![s] = slice.status]
        /\ text' = [text EXCEPT ![s] = Appended(text[s], result[s], slice)]
    BY <1>2, <2>1 DEF Fetch, GetResult
  <2>. HIDE DEF slice
  <2>. QED
    BY <2>2 DEF RestInv, ScriptInv, ScriptTypes
<1>. QED
  BY <1>1, <1>2

(***************************************************************************)
(* What the script that asks gets: nothing, or the next slice.             *)
(***************************************************************************)
LEMMA FetchOwn ==
  ASSUME RestInv, S!Sound, NEW s \in Scripts, spc[s] \in {"get", "more"},
         NEW j \in S!GetCompletedJob(jobId[s]), Fetch(s, j)
  PROVE  \/ /\ status'[s] = RESULT_NOTREADY
            /\ offset'[s] = offset[s] /\ text'[s] = text[s]
         \/ /\ result[s] \in Responses
            /\ offset[s] \in Nat /\ offset[s] <= result[s].len
            /\ status'[s] = Slice(result[s], offset[s]).status
            /\ offset'[s] = Slice(result[s], offset[s]).next
            /\ text'[s] = Appended(text[s], result[s], Slice(result[s], offset[s]))
<1>. USE DEF RestInv, ScriptInv, ScriptTypes
<1>1. CASE j = Nobody
  BY <1>1 DEF Fetch, GetNothing
<1>2. CASE j # Nobody
  <2>1. j = s /\ result[s] \in Responses
    BY <1>2, Found DEF HasId
  <2>2. result[s].len \in Nat
    BY <2>1, ResponsesAssumption
  <2>3. offset[s] \in Nat /\ offset[s] <= result[s].len
    BY <2>2 DEF Agree
  <2>. QED
    BY <1>2, <2>1, <2>3 DEF Fetch, GetResult
<1>. QED
  BY <1>1, <1>2

(***************************************************************************)
(* A turn of the loop, or the first GetResult, of a script.                *)
(***************************************************************************)
LEMMA FetchAgrees ==
  ASSUME RestInv, S!Sound, NEW s \in Scripts, spc[s] \in {"get", "more"},
         NEW j \in S!GetCompletedJob(jobId[s]), Fetch(s, j), UNCHANGED result,
         spc'[s] = IF spc[s] = "get"
                   THEN IF status'[s] = RESULT_SLICED THEN "more" ELSE "done"
                   ELSE IF status'[s] = RESULT_COMPLETE THEN "done" ELSE "more"
  PROVE  Agree(s)'
<1>. USE DEF FinalStatus, RESULT_COMPLETE, RESULT_COMPLETE_JSON, RESULT_SLICED,
             RESULT_EXCEPTION_CAUGHT, RESULT_NOTREADY
<1>1. Agree(s)
  BY DEF RestInv, ScriptInv
<1>2. CASE /\ status'[s] = RESULT_NOTREADY
           /\ offset'[s] = offset[s] /\ text'[s] = text[s]
  BY <1>1, <1>2 DEF Agree
<1>3. CASE /\ result[s] \in Responses
           /\ offset[s] \in Nat /\ offset[s] <= result[s].len
           /\ status'[s] = Slice(result[s], offset[s]).status
           /\ offset'[s] = Slice(result[s], offset[s]).next
           /\ text'[s] = Appended(text[s], result[s], Slice(result[s], offset[s]))
  <2>. DEFINE r == result[s]
              slice == Slice(r, offset[s])
  <2>1. /\ slice.next \in Nat /\ slice.next <= r.len
        /\ slice.status = RESULT_SLICED =>
             /\ ~WholeFits(r.len)
             /\ slice.from = offset[s] /\ slice.next = slice.upto
        /\ slice.status # RESULT_SLICED =>
             /\ slice.status = r.status /\ slice.upto = r.len
             /\ slice.from = IF WholeFits(r.len) THEN 0 ELSE offset[s]
    BY <1>3, SliceFacts
  <2>2. /\ r # NoResponse /\ r.status \in FinalStatus
        /\ result'[s] = r
        /\ status'[s] = slice.status
        /\ offset'[s] = slice.next
        /\ text'[s] = Appended(text[s], r, slice)
    BY <1>3, ResponsesAssumption
  <2>. HIDE DEF r, slice
  <2>3. ASSUME text[s].len = slice.from, text[s].of \in {r, NoResponse}
        PROVE  text'[s] = [of |-> r, len |-> slice.upto]
    BY <2>2, <2>3 DEF Appended
  <2>4. CASE spc[s] = "get"
    <3>1. offset[s] = 0 /\ text[s] = Empty
      BY <1>1, <2>4 DEF Agree
    <3>2. text'[s] = [of |-> r, len |-> slice.upto]
      BY <2>1, <2>3, <3>1 DEF Empty
    <3>. QED
      BY <2>1, <2>2, <2>4, <3>2 DEF Agree
  <2>5. CASE spc[s] = "more"
    <3>1. ~WholeFits(r.len)
      BY <1>1, <2>5 DEF Agree, r
    <3>2. ASSUME r.status = RESULT_COMPLETE
          PROVE  text'[s] = [of |-> r, len |-> slice.upto]
      <4>1. text[s] = [of |-> r, len |-> offset[s]]
        BY <1>1, <2>5, <3>2 DEF Agree, r
      <4>. QED
        BY <2>1, <2>3, <3>1, <4>1
    <3>3. CASE status'[s] = RESULT_COMPLETE
      BY <2>1, <2>2, <2>5, <3>2, <3>3 DEF Agree
    <3>4. CASE status'[s] # RESULT_COMPLETE
      BY <2>1, <2>2, <2>5, <3>1, <3>2, <3>4 DEF Agree
    <3>. QED
      BY <3>3, <3>4
  <2>. QED
    BY <2>4, <2>5
<1>. QED
  BY <1>2, <1>3, FetchOwn

LEMMA FetchStep ==
  ASSUME RestInv, [Next]_vars, NEW s \in Scripts, GetFirst(s) \/ GetMore(s)
  PROVE  ScriptInv'
<1>. USE DEF RestInv, ScriptInv
<1>1. /\ spc[s] \in {"get", "more"}
      /\ UNCHANGED <<jobId, result, race>>
      /\ spc' = [spc EXCEPT ![s] =
           IF spc[s] = "get"
           THEN IF status'[s] = RESULT_SLICED THEN "more" ELSE "done"
           ELSE IF status'[s] = RESULT_COMPLETE THEN "done" ELSE "more"]
  BY DEF GetFirst, GetMore, KeepsReading, schedulerVars, RESULT_SLICED, RESULT_COMPLETE
<1>2. PICK j \in S!GetCompletedJob(jobId[s]) : Fetch(s, j)
  BY DEF GetFirst, GetMore, Fetch
<1>3. ScriptTypes'
  BY <1>1, <1>2, FetchTypes DEF ScriptTypes
<1>4. HasId'
  BY <1>1 DEF HasId, ScriptTypes
<1>5. ASSUME S!Sound', NEW t \in Scripts
      PROVE  Agree(t)'
  <2>1. S!Sound
    BY <1>1, <1>5 DEF S!Sound
  <2>2. CASE t = s
    BY <1>1, <1>2, <2>1, <2>2, FetchAgrees DEF ScriptTypes
  <2>3. CASE t # s
    <3>1. /\ offset'[t] = offset[t] /\ status'[t] = status[t] /\ text'[t] = text[t]
      BY <1>1, <1>2, <2>3, FetchOthers
    <3>2. spc'[t] = spc[t] /\ result'[t] = result[t]
      BY <1>1, <2>3 DEF ScriptTypes
    <3>. QED
      BY <2>1, <3>1, <3>2 DEF Agree
  <2>. QED
    BY <2>2, <2>3
<1>. QED
  BY <1>3, <1>4, <1>5

\* A step that moves a script and fetches nothing.
LEMMA MoveStep ==
  ASSUME RestInv, [Next]_vars, NEW s \in Scripts,
         UNCHANGED <<offset, status, text>>,
         \/ spc[s] = "start" /\ spc' = [spc EXCEPT ![s] = "add"]
         \/ spc[s] = "start" /\ spc' = [spc EXCEPT ![s] = "done"]
         \/ /\ spc[s] = "add" /\ spc' = [spc EXCEPT ![s] = "wait"]
            /\ jobId'[s] # S!NoId
         \/ spc[s] = "wait" /\ spc' = [spc EXCEPT ![s] = "get"]
  PROVE  ScriptInv'
<1>. USE DEF RestInv, ScriptInv
<1>1. ScriptTypes' /\ HasId'
  BY Kept DEF ScriptTypes, HasId
<1>2. ASSUME S!Sound', NEW t \in Scripts
      PROVE  Agree(t)'
  <2>1. Agree(t) /\ (result[t] # NoResponse => result'[t] = result[t])
    BY <1>2, Kept
  <2>2. spc'[t] = spc[t] \/ (spc[t] \in {"start", "add", "wait"}
                             /\ spc'[t] \in {"add", "wait", "get", "done"})
    BY DEF ScriptTypes
  <2>. QED
    BY <2>1, <2>2 DEF Agree, FinalStatus, RESULT_COMPLETE, RESULT_COMPLETE_JSON,
                      RESULT_EXCEPTION_CAUGHT
<1>. QED
  BY <1>1, <1>2

LEMMA ScriptStep == RestInv /\ [Next]_vars => ScriptInv'
<1>. SUFFICES ASSUME RestInv, [Next]_vars
              PROVE  ScriptInv'
  OBVIOUS
<1>1. ASSUME NEW s \in Scripts, Request(s) \/ Refuse(s) \/ CheckJob(s)
      PROVE  ScriptInv'
  BY <1>1, MoveStep DEF Request, Refuse, CheckJob, Goto
<1>2. CASE AddJobPush
  BY <1>2, ScriptsUntouched DEF AddJobPush
<1>3. CASE AddJobReturn
  <2>1. adding \in Scripts /\ jobId'[adding] # S!NoId
    BY <1>3, SameAddJob, SchedulerAssumption
       DEF AddJobReturn, SP!AssignId, RestInv, SchedulerInv, SP!TypeInv, SP!TypeOK,
           SP!Control, S!NoId, SP!NoId
  <2>. QED
    BY <1>3, <2>1, MoveStep DEF AddJobReturn, Goto
<1>4. ASSUME NEW s \in Scripts, GetFirst(s) \/ GetMore(s)
      PROVE  ScriptInv'
  BY <1>4, FetchStep
<1>5. ASSUME NEW w \in Workers, Work(w)
      PROVE  ScriptInv'
  BY <1>5, ScriptsUntouched DEF Work
<1>6. CASE UNCHANGED vars
  BY <1>6, ScriptsUntouched DEF vars, scriptVars
<1>. QED
  BY <1>1, <1>2, <1>3, <1>4, <1>5, <1>6 DEF Next, Turn

LEMMA RestAlways == Spec => []RestInv
<1>1. Init => RestInv
  BY SchedulerInvInit, ScriptInit DEF RestInv
<1>2. RestInv /\ [Next]_vars => RestInv'
  BY SchedulerInvStep, ScriptStep DEF RestInv
<1>. QED
  BY <1>1, <1>2, PTL DEF Spec

-----------------------------------------------------------------------------
(***************************************************************************)
(* The variables keep their types, after a data race on the queue too.     *)
(***************************************************************************)
THEOREM TypeCorrect == Spec => []TypeOK
<1>1. RestInv => TypeOK
  BY DEF RestInv, SchedulerInv, ScriptInv, ScriptTypes, TypeOK, SP!TypeInv, SP!TypeOK,
         S!TypeOK, SP!NoId, S!NoId
<1>. QED
  BY <1>1, RestAlways, PTL

(***************************************************************************)
(* Whoever gets a final status has the whole response to his own request,  *)
(* for every size of the buffer and every length of a response.            *)
(***************************************************************************)
THEOREM AnswerCorrect == Spec => []AnswersOwnCall
<1>1. RestInv => AnswersOwnCall
  BY DEF RestInv, ScriptInv, Agree, AnswersOwnCall
<1>. QED
  BY <1>1, RestAlways, PTL

(***************************************************************************)
(* GetResult never copies more than fits, from behind the end, or nothing  *)
(* while more is to come.                                                  *)
(***************************************************************************)
THEOREM SliceCorrect == Spec => []NextSliceIsSafe
<1>1. ASSUME RestInv, S!Sound, NEW j \in taken, ~S!Held(j)
      PROVE  LET slice == Slice(result[j], offset[j]) IN
             /\ slice.from <= slice.upto /\ slice.upto <= result[j].len
             /\ slice.upto - slice.from < OutputSize
             /\ slice.status = RESULT_SLICED => slice.upto > slice.from
  <2>1. j \in Scripts /\ result[j] \in Responses
    BY <1>1 DEF RestInv, SchedulerInv, SP!TypeInv, SP!TypeOK, SP!FiledInv, S!Held,
                SP!Held
  <2>2. result[j].len \in Nat
    BY <2>1, ResponsesAssumption
  <2>3. offset[j] \in Nat /\ offset[j] <= result[j].len
    BY <1>1, <2>1, <2>2 DEF RestInv, ScriptInv, ScriptTypes, Agree
  <2>. DEFINE slice == Slice(result[j], offset[j])
  <2>4. /\ slice.from \in Nat /\ slice.upto \in Nat
        /\ slice.from <= slice.upto /\ slice.upto <= result[j].len
        /\ slice.upto - slice.from < OutputSize
        /\ slice.status = RESULT_SLICED => slice.from = offset[j] /\ slice.upto > offset[j]
    BY <2>1, <2>3, SliceFacts
  <2>. QED
    BY <2>4
<1>2. RestInv => NextSliceIsSafe
  BY <1>1 DEF NextSliceIsSafe
<1>. QED
  BY <1>2, RestAlways, PTL

(***************************************************************************)
(* The position in the job and the text of the script agree between the    *)
(* turns of the loop.                                                      *)
(***************************************************************************)
THEOREM OffsetCorrect == Spec => []OffsetTracksText
<1>1. RestInv => OffsetTracksText
  BY DEF RestInv, ScriptInv, Agree, OffsetTracksText
<1>. QED
  BY <1>1, RestAlways, PTL

-----------------------------------------------------------------------------
(* The abstract service                                                    *)

(***************************************************************************)
(* A request that is under way belongs to a script that waits for it, and  *)
(* a script that fetches has a request that was answered: a call never     *)
(* ends while a worker may still write its answer.                         *)
(***************************************************************************)
Open(s) ==
  /\ SP!Entered(s) /\ result[s] = NoResponse => spc[s] \in {"add", "wait"}
  /\ spc[s] \in {"get", "more"} => result[s] # NoResponse

CallInv == S!Sound => \A s \in Scripts : Open(s)

LEMMA CallInit == Init => CallInv
<1>1. Init => \A s \in Scripts : ~SP!Entered(s)
  BY Zenon, SameInit, SchedulerAssumption, SP!EnteredInit DEF Init
<1>. QED
  BY Zenon, <1>1 DEF Init, CallInv, Open

\* The worker that executes has a job without a response.
LEMMA WorkerHasOpen ==
  ASSUME RestInv, CallInv, S!Sound, NEW w \in Workers, SP!Execute(w)
  PROVE  /\ cur[w] \in Scripts
         /\ result[cur[w]] = NoResponse
         /\ spc[cur[w]] \in {"add", "wait"}
<1>1. pc[w] = "execute"
  BY DEF SP!Execute, SP!Goto
<1>2. cur[w] \in Scripts /\ cur[w] \in taken
  BY <1>1 DEF RestInv, SchedulerInv, SP!TypeInv, SP!TypeOK, SP!Control, SP!Custody
<1>3. result[cur[w]] = NoResponse
  BY <1>1, <1>2 DEF RestInv, SchedulerInv, SP!ResultInv, SP!Sound, S!Sound
<1>. QED
  BY <1>2, <1>3 DEF CallInv, Open, SP!Entered

\* Only Execute writes a response, for the worker's own job.
LEMMA ResultFrame ==
  ASSUME RestInv, [Next]_vars
  PROVE  \/ UNCHANGED result
         \/ \E w \in Workers : SP!Execute(w) /\ Work(w)
<1>1. ASSUME NEW w \in Workers, Work(w)
      PROVE  SP!Execute(w) \/ UNCHANGED result
  <2>1. SP!Work(w)
    BY <1>1, SameWork DEF Work
  <2>. QED
    BY <2>1 DEF SP!Work, SP!Wake, SP!AcquireNothing, SP!PopBegin, SP!PopEnd,
                SP!InsertBegin, SP!InsertEnd
<1>2. CASE AddJobPush \/ AddJobReturn
  BY <1>2, SameAddJob DEF AddJobPush, AddJobReturn, SP!PushEnd, SP!AssignId,
     SP!workerVars
<1>3. ASSUME NEW s \in Scripts, Request(s)
      PROVE  UNCHANGED result
  BY <1>3, SameAddJob DEF Request, SP!PushBegin, SP!workerVars
<1>4. ASSUME NEW s \in Scripts, Refuse(s) \/ Turn(s)
      PROVE  UNCHANGED result
  BY <1>4 DEF Refuse, Turn, CheckJob, GetFirst, GetMore, schedulerVars
<1>. QED
  BY <1>1, <1>2, <1>3, <1>4 DEF Next, vars, schedulerVars

LEMMA CallStep == RestInv /\ CallInv /\ [Next]_vars => CallInv'
<1>. SUFFICES ASSUME RestInv, CallInv, [Next]_vars, S!Sound', NEW s \in Scripts
              PROVE  Open(s)'
  BY DEF CallInv
<1>1. /\ S!Sound
      /\ result[s] # NoResponse => result'[s] = result[s]
  BY Kept DEF RestInv
<1>2. Open(s) /\ spc \in [Scripts -> {"start", "add", "wait", "get", "more", "done"}]
  BY <1>1 DEF CallInv, RestInv, ScriptInv, ScriptTypes
<1>3. SP!Entered(s)' => SP!Entered(s) \/ SP!PushBegin(s)
  BY SchedulerStep, SchedulerAssumption, SP!EnteredStep
     DEF RestInv, SchedulerInv, S!Sound, SP!Sound
<1>4. SP!PushBegin(s) => addPc = "idle" /\ addPc' = "push" /\ adding' = s
  BY DEF SP!PushBegin, SP!EngineIdle
<1>5. SP!PushBegin(s) => Request(s)
  <2>1. ASSUME SP!PushBegin(s), NEW t \in Scripts, Request(t)
        PROVE  t = s
    BY <2>1, <1>4, SameAddJob DEF Request, SP!PushBegin
  <2>2. ASSUME SP!PushBegin(s), AddJobPush \/ AddJobReturn
        PROVE  FALSE
    BY <2>2, <1>4, SameAddJob DEF AddJobPush, AddJobReturn, SP!PushEnd, SP!Pushing,
       SP!AssignId
  <2>3. ASSUME SP!PushBegin(s), NEW w \in Workers, Work(w)
        PROVE  FALSE
    <3>1. SP!Work(w)
      BY <2>3, SameWork DEF Work
    <3>. QED
      BY <3>1, <2>3, <1>4 DEF SP!Work, SP!Wake, SP!AcquireNothing, SP!PopBegin,
         SP!PopEnd, SP!Execute, SP!InsertBegin, SP!InsertEnd, SP!engineVars
  <2>4. ASSUME SP!PushBegin(s),
               \/ UNCHANGED schedulerVars
        PROVE  FALSE
    BY <2>4, <1>4 DEF schedulerVars
  <2>. QED
    BY <2>1, <2>2, <2>3, <2>4
       DEF Next, Refuse, Turn, CheckJob, GetFirst, GetMore, vars
<1>6. CASE Request(s)
  BY <1>2, <1>6 DEF Request, Goto, Open
<1>7. CASE ~Request(s)
  <2>1. SP!Entered(s)' => SP!Entered(s)
    BY <1>3, <1>5, <1>7
  <2>2. \/ spc'[s] = spc[s]
        \/ spc[s] = "start" /\ Refuse(s)
        \/ spc[s] = "add" /\ spc'[s] = "wait"
        \/ CheckJob(s)
        \/ spc[s] \in {"get", "more"}
    BY <1>2, <1>7 DEF Next, Request, Refuse, AddJobPush, AddJobReturn, Work, Turn,
       CheckJob, GetFirst, GetMore, Goto, vars, scriptVars
  <2>3. CASE spc'[s] = spc[s]
    BY <1>1, <1>2, <2>1, <2>3 DEF Open
  <2>4. CASE spc[s] = "start" /\ Refuse(s)
    BY <1>1, <1>2, <2>1, <2>4 DEF Open, Refuse, Goto
  <2>5. CASE spc[s] = "add" /\ spc'[s] = "wait"
    BY <2>5 DEF Open
  <2>6. CASE CheckJob(s)
    <3>1. PICK j \in S!GetCompletedJob(jobId[s]) : j # Nobody
      BY <2>6 DEF CheckJob, S!GetCompletedJob
    <3>2. spc[s] = "wait" /\ jobId[s] # S!NoId
      BY <2>6 DEF CheckJob, Goto, RestInv, ScriptInv, HasId
    <3>3. result[s] # NoResponse
      BY <3>1, <3>2, Found, ResponsesAssumption DEF RestInv
    <3>. QED
      BY <1>1, <1>2, <3>3 DEF Open
  <2>7. CASE spc[s] \in {"get", "more"}
    BY <1>1, <1>2, <2>7 DEF Open
  <2>. QED
    BY <2>2, <2>3, <2>4, <2>5, <2>6, <2>7
<1>. QED
  BY <1>6, <1>7

(***************************************************************************)
(* What the calls show of a step that moves the script s and no other.     *)
(***************************************************************************)
LEMMA OnlyOneCall ==
  ASSUME RestInv, NEW s \in Scripts, NEW to,
         to # "start", spc' = [spc EXCEPT ![s] = to],
         \A t \in Scripts \ {s} : status'[t] = status[t] /\ text'[t] = text[t]
  PROVE  /\ {t \in Scripts : spc'[t] # "start"} = {t \in Scripts : spc[t] # "start"} \cup {s}
         /\ [t \in Scripts |-> Reply(t)'] = [[t \in Scripts |-> Reply(t)] EXCEPT ![s] = Reply(s)']
<1>1. \A t \in Scripts \ {s} : spc'[t] = spc[t]
  BY DEF RestInv, ScriptInv, ScriptTypes
<1>2. spc'[s] = to
  BY DEF RestInv, ScriptInv, ScriptTypes
<1>3. \A t \in Scripts \ {s} : Reply(t)' = Reply(t)
  BY <1>1 DEF Reply
<1>. QED
  BY <1>1, <1>2, <1>3

\* A script that goes on with its call, or ends it.
LEMMA GoesOn ==
  ASSUME RestInv, NEW s \in Scripts, NEW to \in {"wait", "get", "more"},
         spc[s] \in {"add", "wait", "get", "more"}, spc' = [spc EXCEPT ![s] = to],
         \A t \in Scripts \ {s} : status'[t] = status[t] /\ text'[t] = text[t],
         UNCHANGED result, S!Sound, S!Sound'
  PROVE  UNCHANGED Service!vars
<1>1. spc'[s] = to
  BY DEF RestInv, ScriptInv, ScriptTypes
<1>2. Reply(s)' = Reply(s)
  BY <1>1 DEF Reply
<1>3. [t \in Scripts |-> Reply(t)'] = [t \in Scripts |-> Reply(t)]
  BY <1>2, OnlyOneCall
<1>4. {t \in Scripts : spc'[t] # "start"} = {t \in Scripts : spc[t] # "start"}
  BY OnlyOneCall
<1>. QED
  BY <1>3, <1>4 DEF Service!vars

LEMMA Ends ==
  ASSUME RestInv, CallInv, NEW s \in Scripts,
         spc[s] \in {"get", "more"}, spc' = [spc EXCEPT ![s] = "done"],
         \A t \in Scripts \ {s} : status'[t] = status[t] /\ text'[t] = text[t],
         UNCHANGED result, S!Sound, S!Sound', Agree(s)',
         \/ status'[s] \in FinalStatus
         \/ spc[s] = "get" /\ status'[s] = RESULT_NOTREADY /\ text'[s] = text[s]
  PROVE  Service!Return(s)
<1>1. spc'[s] = "done" /\ Agree(s) /\ Open(s)
  BY DEF RestInv, ScriptInv, ScriptTypes, CallInv
<1>2. /\ [t \in Scripts |-> Reply(t)'] = [[t \in Scripts |-> Reply(t)] EXCEPT ![s] = Reply(s)']
      /\ {t \in Scripts : spc'[t] # "start"} = {t \in Scripts : spc[t] # "start"}
  BY OnlyOneCall
<1>3. Reply(s) = Service!NoReply
  BY DEF Reply, Service!NoReply, Service!Nothing
<1>4. CASE status'[s] \in FinalStatus
  <2>1. Reply(s)' = Service!Whole(result[s])
    BY <1>1, <1>4 DEF Agree, Reply, Service!Whole
  <2>. QED
    BY <1>1, <1>2, <1>3, <2>1 DEF Service!Return, Open
<1>5. CASE spc[s] = "get" /\ status'[s] = RESULT_NOTREADY /\ text'[s] = text[s]
  <2>1. Reply(s)' = Service!NotReady
    BY <1>1, <1>5 DEF Agree, Reply, Empty, Service!NotReady, Service!Nothing,
       RESULT_NOTREADY
  <2>. QED
    BY <1>1, <1>2, <1>3, <2>1 DEF Service!Return, Open
<1>. QED
  BY <1>4, <1>5

LEMMA FetchServes ==
  ASSUME RestInv, CallInv, [Next]_vars, S!Sound', NEW s \in Scripts,
         GetFirst(s) \/ GetMore(s)
  PROVE  UNCHANGED Service!vars \/ Service!Return(s)
<1>. USE DEF FinalStatus, RESULT_COMPLETE, RESULT_COMPLETE_JSON, RESULT_SLICED,
             RESULT_EXCEPTION_CAUGHT, RESULT_NOTREADY
<1>1. /\ spc[s] \in {"get", "more"} /\ S!Sound /\ UNCHANGED result
      /\ spc' = [spc EXCEPT ![s] =
           IF spc[s] = "get"
           THEN IF status'[s] = RESULT_SLICED THEN "more" ELSE "done"
           ELSE IF status'[s] = RESULT_COMPLETE THEN "done" ELSE "more"]
  BY DEF GetFirst, GetMore, KeepsReading, schedulerVars, S!Sound
<1>2. PICK j \in S!GetCompletedJob(jobId[s]) : Fetch(s, j)
  BY DEF GetFirst, GetMore, Fetch
<1>3. \A t \in Scripts \ {s} : status'[t] = status[t] /\ text'[t] = text[t]
  BY <1>1, <1>2, FetchOthers
<1>4. Agree(s)'
  BY ScriptStep DEF ScriptInv
<1>5. \/ status'[s] = RESULT_NOTREADY /\ text'[s] = text[s]
      \/ status'[s] \in FinalStatus \cup {RESULT_SLICED}
  <2>1. \A r \in Responses : Slice(r, offset[s]).status \in FinalStatus \cup {RESULT_SLICED}
    BY SliceType DEF RestInv, ScriptInv, ScriptTypes
  <2>. QED
    BY <1>1, <1>2, <2>1, FetchOwn
<1>6. CASE spc' = [spc EXCEPT ![s] = "more"]
  BY <1>1, <1>3, <1>6, GoesOn
<1>7. CASE spc' = [spc EXCEPT ![s] = "done"]
  <2>1. spc'[s] = "done"
    BY <1>7 DEF RestInv, ScriptInv, ScriptTypes
  <2>2. \/ status'[s] \in FinalStatus
        \/ spc[s] = "get" /\ status'[s] = RESULT_NOTREADY /\ text'[s] = text[s]
    BY <1>1, <1>5, <2>1 DEF RestInv, ScriptInv, ScriptTypes
  <2>. QED
    BY <1>1, <1>3, <1>4, <1>7, <2>2, Ends
<1>. QED
  BY <1>1, <1>6, <1>7

LEMMA ServiceInit == Init => Service!Init
<1>. SUFFICES ASSUME Init PROVE Service!Init
  OBVIOUS
<1>1. S!Sound /\ result = [s \in Scripts |-> NoResponse]
  BY DEF Init, S!Init, S!Sound
<1>2. spc = [s \in Scripts |-> "start"]
  BY DEF Init
<1>3. \A s \in Scripts : Reply(s) = Service!NoReply
  BY <1>2 DEF Reply, Service!NoReply, Service!Nothing
<1>4. {s \in Scripts : spc[s] # "start"} = {}
  BY <1>2
<1>5. [s \in Scripts |-> Reply(s)] = [s \in Scripts |-> Service!NoReply]
  BY <1>3
<1>. QED
  BY Zenon, <1>1, <1>4, <1>5 DEF Service!Init

LEMMA ServiceStep ==
  RestInv /\ CallInv /\ [Next]_vars => [Service!Next]_(Service!vars)
<1>. SUFFICES ASSUME RestInv, CallInv, [Next]_vars, S!Sound'
              PROVE  [Service!Next]_(Service!vars)
  BY DEF Service!Next
<1>1. S!Sound
  BY Kept DEF RestInv
<1>2. ASSUME NEW s \in Scripts, Request(s) \/ Refuse(s)
      PROVE  Service!Call(s)
  <2>. DEFINE to == IF Request(s) THEN "add" ELSE "done"
  <2>1. /\ spc[s] = "start" /\ spc' = [spc EXCEPT ![s] = to]
        /\ UNCHANGED <<status, text, result>>
    BY <1>2, SameAddJob DEF Request, Refuse, Goto, SP!PushBegin, SP!workerVars,
       schedulerVars
  <2>2. spc'[s] = to /\ Agree(s) /\ to # "start"
    BY <1>1, <2>1 DEF RestInv, ScriptInv, ScriptTypes
  <2>3. Reply(s)' \in {Reply(s), Service!Refused}
    BY <2>1, <2>2 DEF Reply, Agree, Empty, Service!Refused, Service!Nothing
  <2>4. /\ {t \in Scripts : spc'[t] # "start"} = {t \in Scripts : spc[t] # "start"} \cup {s}
        /\ [t \in Scripts |-> Reply(t)'] = [[t \in Scripts |-> Reply(t)] EXCEPT ![s] = Reply(s)']
    BY <2>1, <2>2, OnlyOneCall
  <2>5. [[t \in Scripts |-> Reply(t)] EXCEPT ![s] = Reply(s)] = [t \in Scripts |-> Reply(t)]
    OBVIOUS
  <2>. HIDE DEF to
  <2>. QED
    BY <2>1, <2>3, <2>4, <2>5 DEF Service!Call
<1>3. CASE AddJobPush
  BY <1>1, <1>3, SameAddJob
     DEF AddJobPush, scriptVars, SP!PushEnd, SP!workerVars, Service!vars, Reply
<1>4. CASE AddJobReturn
  <2>1. adding \in Scripts /\ UNCHANGED result
    BY <1>4, SameAddJob, SchedulerAssumption
       DEF AddJobReturn, SP!AssignId, SP!workerVars, RestInv, SchedulerInv,
           SP!TypeInv, SP!TypeOK, SP!Control
  <2>. QED
    BY <1>1, <1>4, <2>1, GoesOn DEF AddJobReturn, Goto
<1>5. ASSUME NEW s \in Scripts, CheckJob(s)
      PROVE  UNCHANGED Service!vars
  BY <1>1, <1>5, GoesOn DEF CheckJob, Goto, schedulerVars
<1>6. ASSUME NEW s \in Scripts, GetFirst(s) \/ GetMore(s)
      PROVE  UNCHANGED Service!vars \/ Service!Return(s)
  BY <1>6, FetchServes
<1>7. ASSUME NEW w \in Workers, Work(w)
      PROVE  UNCHANGED Service!vars \/ \E s \in Scripts : Service!Answer(s)
  <2>1. UNCHANGED scriptVars
    BY <1>7 DEF Work
  <2>2. CASE UNCHANGED result
    BY <1>1, <2>1, <2>2 DEF scriptVars, Service!vars, Reply
  <2>3. ASSUME NEW v \in Workers, SP!Execute(v)
        PROVE  Service!Answer(cur[v])
    <3>1. /\ cur[v] \in Scripts /\ result[cur[v]] = NoResponse
          /\ spc[cur[v]] \in {"add", "wait"}
      BY <1>1, <2>3, WorkerHasOpen
    <3>2. \E r \in Responses : result' = [result EXCEPT ![cur[v]] = r]
      BY <2>3 DEF SP!Execute
    <3>3. Reply(cur[v]) = Service!NoReply
      BY <3>1 DEF Reply, Service!NoReply, Service!Nothing
    <3>. QED
      BY <2>1, <3>1, <3>2, <3>3 DEF scriptVars, Service!Answer, Reply
  <2>. QED
    BY <2>2, <2>3, ResultFrame, <1>1, WorkerHasOpen
<1>8. CASE UNCHANGED vars
  BY <1>1, <1>8 DEF vars, schedulerVars, scriptVars, Service!vars, Reply
<1>. QED
  BY <1>1, <1>2, <1>3, <1>4, <1>5, <1>6, <1>7, <1>8 DEF Next, Turn, Service!Next

(***************************************************************************)
(* Every behavior of scripts, extension, scheduler and workers is one of   *)
(* the abstract service, for every number of calls and workers and every   *)
(* size of the output buffer: whatever a call returns with is the whole of *)
(* the one answer to its own request, or nothing.                          *)
(***************************************************************************)
THEOREM ServiceCorrect == Spec => ImplementsService
<1>1. Init => RestInv /\ CallInv
  BY SchedulerInvInit, ScriptInit, CallInit DEF RestInv
<1>2. RestInv /\ CallInv /\ [Next]_vars => (RestInv /\ CallInv)'
  BY SchedulerInvStep, ScriptStep, CallStep DEF RestInv
<1>. QED
  BY <1>1, <1>2, ServiceInit, ServiceStep, PTL DEF Spec, ImplementsService, Service!Spec

-----------------------------------------------------------------------------
(* Turns of the loop                                                       *)

(***************************************************************************)
(* A job that CheckJob has found is in the table, or the worker that files *)
(* it is still in insert().                                                *)
(***************************************************************************)
BeingFiled(s) == \E w \in Workers : compLock = w /\ cur[w] = s /\ key[w] = jobId[s]
Findable(s) == S!Lookup(jobId[s]) = s \/ BeingFiled(s)
FindInv == \A s \in Scripts : spc[s] \in {"get", "more"} => Findable(s)

LEMMA FindInit == Init => FindInv
  BY DEF Init, FindInv

\* A step of a worker leaves what can be found.
LEMMA FindableInWork ==
  ASSUME RestInv, NEW w \in Workers, S!Work(w),
         NEW s \in Scripts, jobId[s] # S!NoId, Findable(s)
  PROVE  Findable(s)'
<1>. USE DEF RestInv
<1>1. jobId' = jobId /\ jobId[s] \in Nat
  BY DEF S!Work, S!Wake, S!AcquireNothing, S!PopBegin, S!PopEnd, S!Execute,
         S!InsertBegin, S!InsertEnd, S!engineVars, SchedulerInv, SP!TypeInv, SP!TypeOK,
         SP!NoId, S!NoId
<1>2. CASE S!Lookup(jobId[s]) = s
  <2>1. jobId[s] \in DOMAIN finished /\ finished[jobId[s]] = s
    BY <1>2, NamesAssumption DEF S!Lookup
  <2>2. jobId[s] \in DOMAIN finished' /\ finished'[jobId[s]] = s
    BY <2>1 DEF S!Work, S!Wake, S!AcquireNothing, S!PopBegin, S!PopEnd, S!Execute,
                S!InsertBegin, S!InsertEnd, S!Inserted
  <2>. QED
    BY <1>1, <2>2 DEF Findable, S!Lookup
<1>3. ASSUME NEW v \in Workers, compLock = v, cur[v] = s, key[v] = jobId[s]
      PROVE  Findable(s)'
  <2>1. pc[v] = "insert"
    BY <1>3 DEF SchedulerInv, SP!FiledInv
  <2>2. CASE S!InsertEnd(w)
    <3>1. w = v
      BY <1>3, <2>2 DEF S!InsertEnd, S!Goto, SchedulerInv, SP!TypeInv, SP!Control
    <3>2. ASSUME jobId[s] \in DOMAIN finished
          PROVE  finished[jobId[s]] = s
      <4>1. /\ finished[jobId[s]] \in Scripts
            /\ jobId[finished[jobId[s]]] = jobId[s]
        BY <1>1, <3>2 DEF SchedulerInv, SP!TypeInv, SP!TypeOK, SP!IdInv,
                          SP!TableMatchesIds, SP!NoId
      <4>. QED
        BY <1>1, <4>1 DEF SchedulerInv, SP!IdInv, SP!TableMatchesIds, SP!NoId
    <3>. QED
      BY <1>1, <1>3, <2>2, <3>1, <3>2 DEF S!InsertEnd, S!Inserted, S!Lookup, Findable
  <2>3. CASE ~S!InsertEnd(w)
    <3>1. compLock' = v
      BY <1>3, <2>3, NamesAssumption
         DEF S!Work, S!Wake, S!AcquireNothing, S!PopBegin, S!PopEnd, S!Execute,
             S!InsertBegin
    <3>2. cur'[v] = s /\ key'[v] = key[v]
      BY <1>3, <2>1, <2>3, NamesAssumption
         DEF S!Work, S!Wake, S!AcquireNothing, S!PopBegin, S!PopEnd, S!Execute,
             S!InsertBegin, S!Goto, S!engineVars, SchedulerInv, SP!TypeInv, SP!TypeOK
    <3>. QED
      BY <1>1, <1>3, <3>1, <3>2 DEF BeingFiled, Findable
  <2>. QED
    BY <2>2, <2>3
<1>. QED
  BY <1>2, <1>3 DEF Findable, BeingFiled

LEMMA FindStep == RestInv /\ FindInv /\ [Next]_vars => FindInv'
<1>. SUFFICES ASSUME RestInv, FindInv, [Next]_vars, NEW s \in Scripts,
                     spc'[s] \in {"get", "more"}
              PROVE  Findable(s)'
  BY DEF FindInv
<1>. USE DEF RestInv, ScriptInv, ScriptTypes
<1>1. ASSUME spc[s] \in {"get", "more"}, UNCHANGED <<finished, compLock, cur, key>>,
             jobId'[s] = jobId[s]
      PROVE  Findable(s)'
  BY <1>1 DEF FindInv, Findable, BeingFiled, S!Lookup
<1>2. ASSUME NEW t \in Scripts, Request(t) \/ Refuse(t)
      PROVE  Findable(s)'
  BY <1>1, <1>2 DEF Request, Refuse, Goto, S!PushBegin, S!workerVars, schedulerVars
<1>3. CASE AddJobPush
  BY <1>1, <1>3 DEF AddJobPush, S!PushEnd, S!workerVars, scriptVars
<1>4. CASE AddJobReturn
  <2>1. spc[adding] = "add" /\ spc' = [spc EXCEPT ![adding] = "wait"]
        /\ jobId' = [jobId EXCEPT ![adding] = counter]
        /\ UNCHANGED <<finished, compLock, cur, key>>
    BY <1>4 DEF AddJobReturn, Goto, S!AssignId, S!workerVars
  <2>2. s # adding /\ spc'[s] = spc[s]
    BY <2>1
  <2>3. jobId'[s] = jobId[s]
    BY <2>1, <2>2 DEF SchedulerInv, SP!TypeInv, SP!TypeOK
  <2>. QED
    BY <1>1, <2>1, <2>2, <2>3
<1>5. ASSUME NEW t \in Scripts, CheckJob(t)
      PROVE  Findable(s)'
  <2>1. /\ spc[t] = "wait" /\ spc' = [spc EXCEPT ![t] = "get"]
        /\ UNCHANGED <<finished, compLock, cur, key, jobId>>
    BY <1>5 DEF CheckJob, Goto, schedulerVars
  <2>2. CASE s # t
    BY <1>1, <2>1, <2>2
  <2>3. CASE s = t
    <3>1. PICK j \in S!GetCompletedJob(jobId[s]) : j # Nobody
      BY <1>5, <2>3 DEF CheckJob, S!GetCompletedJob
    <3>2. j = s
      BY <2>1, <2>3, <3>1, Found DEF HasId
    <3>3. Findable(s)
      BY <3>1, <3>2 DEF S!GetCompletedJob, Findable, BeingFiled
    <3>. QED
      BY <2>1, <3>3 DEF Findable, BeingFiled, S!Lookup
  <2>. QED
    BY <2>2, <2>3
<1>6. ASSUME NEW t \in Scripts, GetFirst(t) \/ GetMore(t)
      PROVE  Findable(s)'
  <2>1. spc[s] \in {"get", "more"}
    BY <1>6 DEF GetFirst, GetMore
  <2>. QED
    BY <1>1, <1>6, <2>1 DEF GetFirst, GetMore, schedulerVars
<1>7. ASSUME NEW w \in Workers, Work(w)
      PROVE  Findable(s)'
  <2>1. spc[s] \in {"get", "more"} /\ S!Work(w)
    BY <1>7 DEF Work, scriptVars
  <2>. QED
    BY <2>1, FindableInWork DEF FindInv, HasId
<1>8. CASE UNCHANGED vars
  BY <1>1, <1>8 DEF vars, schedulerVars, scriptVars
<1>. QED
  BY <1>2, <1>3, <1>4, <1>5, <1>6, <1>7, <1>8 DEF Next, Turn

\* Only somebody inside insert() can hide the job from its script.
LEMMA FoundOrBusy ==
  ASSUME RestInv, FindInv, NEW s \in Scripts, spc[s] \in {"get", "more"},
         Nobody \in S!GetCompletedJob(jobId[s])
  PROVE  compLock # NoWorker
<1>1. CASE BeingFiled(s)
  BY <1>1, NamesAssumption DEF BeingFiled
<1>2. CASE S!Lookup(jobId[s]) = s
  <2>1. \/ \E w \in Workers : compLock = w
        \/ Nobody = s
    BY <1>2 DEF S!GetCompletedJob
  <2>. QED
    BY <2>1, NamesAssumption
<1>. QED
  BY <1>1, <1>2 DEF FindInv, Findable

(***************************************************************************)
(* For every buffer, and every length of a response, a GetResult brings a  *)
(* full slice more or the end, unless a worker is just filing a job.       *)
(***************************************************************************)
THEOREM FetchCorrect == Spec => FetchAdvances
<1>1. ASSUME RestInv, FindInv, [Next]_vars, NEW s \in Scripts, S!Sound,
             GetFirst(s) \/ GetMore(s), result[s].status = RESULT_COMPLETE
      PROVE  \/ compLock # NoWorker /\ status'[s] = RESULT_NOTREADY /\ text'[s] = text[s]
             \/ /\ spc'[s] = "done"
                /\ text'[s] = [of |-> result[s], len |-> result[s].len]
             \/ /\ spc'[s] = "more"
                /\ text'[s] = [of |-> result[s], len |-> text[s].len + (OutputSize - 1)]
                /\ text'[s].len < result[s].len
  <2>. USE DEF RestInv, ScriptInv, ScriptTypes
  <2>1. /\ spc[s] \in {"get", "more"}
        /\ spc' = [spc EXCEPT ![s] =
             IF spc[s] = "get"
             THEN IF status'[s] = RESULT_SLICED THEN "more" ELSE "done"
             ELSE IF status'[s] = RESULT_COMPLETE THEN "done" ELSE "more"]
    BY <1>1 DEF GetFirst, GetMore, KeepsReading, RESULT_SLICED, RESULT_COMPLETE
  <2>2. PICK j \in S!GetCompletedJob(jobId[s]) : Fetch(s, j)
    BY <1>1 DEF GetFirst, GetMore, Fetch
  <2>3. CASE j = Nobody
    BY <1>1, <2>1, <2>2, <2>3, FoundOrBusy DEF Fetch, GetNothing
  <2>4. CASE j # Nobody
    <3>1. j = s /\ result[s] \in Responses
      BY <1>1, <2>1, <2>2, <2>4, Found DEF HasId
    <3>2. /\ result[s].len \in Nat /\ offset[s] \in Nat /\ offset[s] <= result[s].len
          /\ result[s] # NoResponse
      BY <1>1, <3>1, ResponsesAssumption DEF Agree
    <3>. DEFINE r == result[s]
                slice == Slice(r, offset[s])
    <3>3. /\ status'[s] = slice.status
          /\ text'[s] = Appended(text[s], r, slice)
      BY <1>1, <2>2, <2>4, <3>1 DEF Fetch, GetResult
    <3>4. /\ slice.from = IF WholeFits(r.len) THEN 0 ELSE offset[s]
          /\ slice.status # RESULT_SLICED =>
               slice.status = RESULT_COMPLETE /\ slice.upto = r.len
          /\ slice.status = RESULT_SLICED =>
               /\ ~WholeFits(r.len)
               /\ slice.upto = offset[s] + (OutputSize - 1)
               /\ slice.upto < r.len
      BY <1>1, <3>2, OutputSizeAssumption
         DEF Slice, WholeFits, RestFits, RESULT_COMPLETE, RESULT_SLICED
    <3>5. text[s].len = slice.from /\ text[s].of \in {r, NoResponse}
          /\ (slice.status = RESULT_SLICED => text[s].len = offset[s])
      BY <1>1, <2>1, <3>2, <3>4 DEF Agree, Empty
    <3>6. text'[s] = [of |-> r, len |-> slice.upto]
      BY <3>3, <3>5 DEF Appended
    <3>. HIDE DEF slice
    <3>7. CASE slice.status = RESULT_SLICED
      <4>1. spc'[s] = "more"
        BY <1>1, <2>1, <3>3, <3>7 DEF RESULT_COMPLETE, RESULT_SLICED
      <4>. QED
        BY <3>4, <3>5, <3>6, <3>7, <4>1
    <3>8. CASE slice.status # RESULT_SLICED
      <4>1. spc'[s] = "done"
        BY <1>1, <2>1, <3>3, <3>4, <3>8 DEF RESULT_COMPLETE, RESULT_SLICED
      <4>. QED
        BY <3>4, <3>6, <3>8, <4>1
    <3>. QED
      BY <3>7, <3>8
  <2>. QED
    BY <2>3, <2>4
<1>2. RestInv /\ FindInv /\ [Next]_vars =>
        [\A s \in Scripts :
           S!Sound /\ (GetFirst(s) \/ GetMore(s)) /\ result[s].status = RESULT_COMPLETE =>
             \/ compLock # NoWorker /\ status'[s] = RESULT_NOTREADY /\ text'[s] = text[s]
             \/ /\ spc'[s] = "done"
                /\ text'[s] = [of |-> result[s], len |-> result[s].len]
             \/ /\ spc'[s] = "more"
                /\ text'[s] = [of |-> result[s], len |-> text[s].len + (OutputSize - 1)]
                /\ text'[s].len < result[s].len]_vars
  BY <1>1
<1>. QED
  BY <1>2, RestAlways, FindInit, FindStep, PTL DEF Spec, FetchAdvances

-----------------------------------------------------------------------------
(* The scheduler below, as the scripts use it                              *)

(***************************************************************************)
(* The scripts and RVExtensionArgs drive the scheduler through its own     *)
(* operations only: seen from below, a run of the whole program is a run   *)
(* of module Scheduler, and so has the safety properties proved of that.   *)
(***************************************************************************)
THEOREM SchedulerUsed == Spec => S!Init /\ [][S!Next]_(S!vars)
<1>1. Init => S!Init
  BY DEF Init
<1>2. [Next]_vars => [S!Next]_(S!vars)
  BY DEF Next, Request, Refuse, Turn, CheckJob, GetFirst, GetMore, AddJobPush,
         AddJobReturn, Work, vars, schedulerVars, S!Next, S!vars
<1>. QED
  BY <1>1, <1>2, PTL DEF Spec

(***************************************************************************)
(* In particular the jobs the scripts create go through the abstract pool: *)
(* each waits its turn, is taken by one worker and ends once.              *)
(***************************************************************************)
THEOREM PoolUsed == Spec => SP!ImplementsPool
<1>1. Init => SP!Pool!Init
  BY SameInit, SchedulerAssumption, SP!PoolInit DEF Init
<1>2. RestInv /\ [Next]_vars => [SP!Pool!Next]_(SP!Pool!vars)
  BY SchedulerStep, SchedulerAssumption, SP!PoolStep DEF RestInv, SchedulerInv
<1>. QED
  BY <1>1, <1>2, RestAlways, PTL DEF Spec, SP!ImplementsPool, SP!Pool!Spec
=============================================================================
