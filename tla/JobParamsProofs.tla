-------------------------- MODULE JobParamsProofs --------------------------
(***************************************************************************)
(* Theorems about JobParams, for any URLs, texts and arguments.            *)
(*                                                                         *)
(* The properties speak of the end of a job's way.  JobInv says what each  *)
(* stage has left for the next: the target, what the length test made of   *)
(* it, which nothing after it touches, and the query.                      *)
(***************************************************************************)
EXTENDS JobParams, TLAPS

Target == IF Has(0) THEN Trim(params.url) ELSE NoUrl
Query == IF Has(1) THEN QueryOf(params.query) ELSE <<>>

\* What the length test has decided.
Decided ==
  IF Length(Target) < 3 THEN ~m_valid /\ m_result = "URL too short"
                        ELSE m_valid /\ m_result = ""

JobInv ==
  /\ params \in [count : 0 .. 3, url : Urls, query : Arguments, arguments : Arguments]
  /\ stage \in {"target", "length", "query", "arguments", "built", "executed"}
  /\ stage = "target" => m_valid /\ m_result = ""
  /\ stage # "target" => m_query_target = Target
  /\ stage = "length" /\ Has(0) => m_valid /\ m_result = ""
  /\ stage \notin {"target", "length"} => Decided
  /\ stage \in {"arguments", "built", "executed"} => m_query_params = Query
  /\ stage # "executed" => sent = NotSent
  /\ stage = "executed" =>
       sent = IF Length(Target) < 3 THEN NotSent ELSE [target |-> Target, query |-> Query]

LEMMA TargetLength ==
  ASSUME params \in [count : 0 .. 3, url : Urls, query : Arguments, arguments : Arguments]
  PROVE  /\ Target = [chars |-> IF Has(0) THEN params.url.chars ELSE 0, blanks |-> 0]
         /\ Length(Target) = IF Has(0) THEN params.url.chars ELSE 0
         /\ ~Has(0) => Length(Target) < 3
  BY ArgumentsAssumption DEF Target, Trim, Length, NoUrl

LEMMA JobInvariant == ParamsSpec => []JobInv
<1>1. ParamsInit => JobInv
  BY DEF ParamsInit, JobInv
<1>2. JobInv /\ [ParamsNext]_jobVars => JobInv'
  <2>. SUFFICES ASSUME JobInv, [ParamsNext]_jobVars
                PROVE  JobInv'
    OBVIOUS
  <2>1. params' = params /\ Target' = Target /\ Query' = Query /\ Has(0)' = Has(0)
    BY DEF ParamsNext, jobVars, ReadTarget, CheckLength, ReadQuery, ReadArguments,
           ExecuteInvalid, ApplyQueryParameters, Target, Query, Has
  <2>. USE <2>1 DEF JobInv
  <2>2. CASE ReadTarget
    <3>1. CASE Has(0)
      BY <2>2, <3>1 DEF ReadTarget, Target
    <3>2. CASE ~Has(0)
      BY <2>2, <3>2 DEF ReadTarget, Target
    <3>. QED
      BY <3>1, <3>2
  <2>3. CASE CheckLength
    <3>1. m_query_target = Target /\ (Has(0) => m_valid /\ m_result = "")
      BY <2>3 DEF CheckLength
    <3>2. ~Has(0) => Length(Target) < 3
      <4>1. params \in [count : 0 .. 3, url : Urls, query : Arguments,
                        arguments : Arguments]
        OBVIOUS
      <4>. QED
        BY <4>1, TargetLength, Zenon
    <3>3. CASE Length(Target) < 3
      <4>1. TooShort /\ ~m_valid' /\ m_result' = "URL too short"
        BY <2>3, <3>1, <3>3 DEF CheckLength, TooShort
      <4>2. Decided'
        BY <3>3, <4>1 DEF Decided
      <4>. QED
        BY <2>3, <4>2 DEF CheckLength
    <3>4. CASE ~(Length(Target) < 3)
      <4>1. /\ m_valid /\ m_result = "" /\ ~TooShort
            /\ m_valid' = m_valid /\ m_result' = m_result
        BY <2>3, <3>1, <3>2, <3>4 DEF CheckLength, TooShort
      <4>2. Decided'
        BY <3>4, <4>1 DEF Decided
      <4>. QED
        BY <2>3, <4>2 DEF CheckLength
    <3>. QED
      BY <3>3, <3>4
  <2>4. CASE ReadQuery
    BY <2>4 DEF ReadQuery, Query, Decided
  <2>5. CASE ReadArguments
    BY <2>5 DEF ReadArguments, Decided
  <2>6. CASE ExecuteInvalid
    BY <2>6 DEF ExecuteInvalid, Decided
  <2>7. CASE ApplyQueryParameters
    BY <2>7 DEF ApplyQueryParameters, Decided
  <2>8. CASE UNCHANGED jobVars
    BY <2>8 DEF jobVars, Decided
  <2>. QED
    BY <2>2, <2>3, <2>4, <2>5, <2>6, <2>7, <2>8 DEF ParamsNext
<1>. QED
  BY <1>1, <1>2, PTL DEF ParamsSpec

(***************************************************************************)
(* Whatever the arguments of a call are and however many, what is not a    *)
(* URL is not sent and leaves a text, and what is one is sent without its  *)
(* blanks if no exception was caught on the way.                           *)
(***************************************************************************)
THEOREM UrlCorrect == ParamsSpec => []OnlyUrlsSent
<1>1. ASSUME JobInv, stage = "executed"
      PROVE  OnlyUrlsSent
  <2>. DEFINE chars == IF Has(0) THEN params.url.chars ELSE 0
  <2>1. Length(Target) = chars /\ Target = [chars |-> chars, blanks |-> 0]
    BY <1>1, TargetLength DEF JobInv
  <2>2. Decided
    BY <1>1 DEF JobInv
  <2>3. sent = IF Length(Target) < 3 THEN NotSent ELSE [target |-> Target, query |-> Query]
    BY <1>1 DEF JobInv
  <2>4. chars \in Nat
    BY <1>1, ArgumentsAssumption DEF JobInv
  <2>5. CASE Length(Target) < 3
    <3>1. sent = NotSent /\ m_result # ""
      BY <2>2, <2>3, <2>5 DEF Decided
    <3>2. chars < 3 /\ ~(chars >= 3)
      BY <2>1, <2>4, <2>5
    <3>. QED
      BY <3>1, <3>2 DEF OnlyUrlsSent
  <2>6. CASE ~(Length(Target) < 3)
    BY <2>1, <2>2, <2>3, <2>6 DEF OnlyUrlsSent, Decided
  <2>. QED
    BY <2>5, <2>6
<1>2. JobInv => OnlyUrlsSent
  BY <1>1 DEF OnlyUrlsSent
<1>. QED
  BY <1>2, JobInvariant, PTL

\* What ParseSQFArray makes of an argument: all pairs if it can be parsed, and
\* none otherwise.
LEMMA QueryOfArgument ==
  ASSUME NEW arg \in SQFArrays, Parsable(arg) \/ QueryOf(arg) # <<>>
  PROVE  /\ arg.kind = "array"
         /\ Len(QueryOf(arg)) = Len(arg.members)
         /\ \A i \in DOMAIN QueryOf(arg) :
              /\ QueryOf(arg)[i].key = arg.members[i].members[1]
              /\ QueryOf(arg)[i].value = arg.members[i].members[2]
<1>1. Parsable(arg)
  BY DEF QueryOf
<1>2. QueryOf(arg) = [i \in 1 .. Len(arg.members) |-> Pair(arg.members[i])]
  BY <1>1 DEF QueryOf, ParsePairs, SQFArrays
<1>3. Len(arg.members) \in Nat
  BY DEF SQFArrays
<1>. QED
  BY <1>1, <1>2, <1>3 DEF Parsable, Pair

(***************************************************************************)
(* However many query parameters a call passes and whatever they are, the  *)
(* query its request carries, and has to carry if the argument could be    *)
(* parsed, is all of them in their order.                                  *)
(***************************************************************************)
THEOREM QueryCorrect == ParamsSpec => []QueryAsAsked
<1>1. JobInv => QueryAsAsked
  <2>. SUFFICES ASSUME JobInv, sent # NotSent, Parsable(Asked) \/ sent.query # <<>>
                PROVE  /\ Asked.kind = "array"
                       /\ Len(sent.query) = Len(Asked.members)
                       /\ \A i \in DOMAIN sent.query :
                            /\ sent.query[i].key = Asked.members[i].members[1]
                            /\ sent.query[i].value = Asked.members[i].members[2]
    BY DEF QueryAsAsked
  <2>1. sent.query = Query
    <3>1. /\ stage = "executed"
          /\ sent = IF Length(Target) < 3 THEN NotSent
                    ELSE [target |-> Target, query |-> Query]
      BY DEF JobInv
    <3>2. sent = [target |-> Target, query |-> Query]
      BY <3>1
    <3>. QED
      BY <3>2
  <2>2. Has(1)
    <3>1. CASE ~Has(1)
      <4>1. Query = <<>> /\ ~Parsable(Asked)
        BY <3>1 DEF Query, Asked, Malformed, Parsable
      <4>. QED
        BY <2>1, <4>1
    <3>. QED
      BY <3>1
  <2>3. Asked = params.query /\ Query = QueryOf(params.query)
    BY <2>2 DEF Asked, Query
  <2>4. params.query \in SQFArrays
    BY ArgumentsAssumption DEF JobInv
  <2>5. Parsable(params.query) \/ QueryOf(params.query) # <<>>
    BY <2>1, <2>3
  <2>. QED
    BY <2>1, <2>3, <2>4, <2>5, QueryOfArgument
<1>. QED
  BY <1>1, JobInvariant, PTL
=============================================================================
