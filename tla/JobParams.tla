------------------------------ MODULE JobParams ------------------------------
(***************************************************************************)
(* A job from the arguments of the call to what is sent: the constructor   *)
(* of Job (src/src/Job.cpp), whose try blocks are an action each, and the  *)
(* beginning of GETRequest::Execute with ApplyQueryParameters.             *)
(*                                                                         *)
(* The arguments are a URL and two texts that may be JSON (module Util),   *)
(* and the engine, the console program and the test window call with any   *)
(* number of them.                                                         *)
(***************************************************************************)
EXTENDS Util, FiniteSetsExt

CONSTANTS
  Urls,       \* first arguments
  Arguments   \* second and third arguments

ASSUME ArgumentsAssumption ==
  /\ Urls \subseteq [chars : Nat, blanks : Nat]
  /\ Arguments \subseteq SQFArrays

VARIABLES
  params,             \* the arguments and how many of them there are
  stage,              \* where the job is
  m_query_target,
  m_query_params,
  m_query_arguments,
  m_valid,
  m_result,
  sent                \* the URL and query a NetRequest has, or NotSent

jobVars == <<params, stage, m_query_target, m_query_params, m_query_arguments,
             m_valid, m_result, sent>>

NoUrl == [chars |-> 0, blanks |-> 0]
NotSent == [target |-> NoUrl, query |-> <<>>]

ParamsInit ==
  /\ params \in [count : 0 .. 3, url : Urls, query : Arguments, arguments : Arguments]
  /\ stage = "target"
  /\ m_query_target = NoUrl
  /\ m_query_params = <<>>
  /\ m_query_arguments = {}
  /\ m_valid = TRUE
  /\ m_result = ""
  /\ sent = NotSent

\* params.at(n) does not throw.
Has(n) == n < params.count

-----------------------------------------------------------------------------
\* params.at(0) and Trim.
ReadTarget ==
  /\ stage = "target"
  /\ stage' = "length"
  /\ IF Has(0)
       THEN m_query_target' = Trim(params.url) /\ UNCHANGED <<m_valid, m_result>>
       ELSE /\ m_query_target' = NoUrl
            /\ m_valid' = FALSE
            /\ m_result' = "Missing valid URL as a first parameter"
  /\ UNCHANGED <<params, m_query_params, m_query_arguments, sent>>

\* m_query_target.length() < 3.  (Mutant: the untrimmed length counts.)
TooShortUntrimmed == ~Has(0) \/ Length(params.url) < 3
TooShort == Length(m_query_target) < 3

CheckLength ==
  /\ stage = "length"
  /\ stage' = "query"
  /\ IF TooShort THEN m_valid' = FALSE /\ m_result' = "URL too short"
                 ELSE UNCHANGED <<m_valid, m_result>>
  /\ UNCHANGED <<params, m_query_target, m_query_params, m_query_arguments, sent>>

(***************************************************************************)
(* params.at(1) is parsed as pairs.  An argument that is missing or cannot *)
(* be parsed is logged, and the job goes on without.  (Mutant: the pairs   *)
(* before the one that throws are kept.)                                   *)
(***************************************************************************)
QueryOfSome(arg) ==
  IF arg.kind # "array" THEN <<>>
  ELSE LET bad == {i \in DOMAIN arg.members : ~IsPair(arg.members[i])}
           end == IF bad = {} THEN Len(arg.members) ELSE Min(bad) - 1
       IN  [i \in 1 .. end |-> Pair(arg.members[i])]
QueryOf(arg) == IF Parsable(arg) THEN ParsePairs(arg) ELSE <<>>

ReadQuery ==
  /\ stage = "query"
  /\ stage' = "arguments"
  /\ m_query_params' = IF Has(1) THEN QueryOf(params.query) ELSE <<>>
  /\ UNCHANGED <<params, m_query_target, m_query_arguments, m_valid, m_result, sent>>

\* params.at(2) is parsed as a map.
ReadArguments ==
  /\ stage = "arguments"
  /\ stage' = "built"
  /\ m_query_arguments' =
       IF Has(2) /\ Parsable(params.arguments) THEN ParseMap(params.arguments) ELSE {}
  /\ UNCHANGED <<params, m_query_target, m_query_params, m_valid, m_result, sent>>

\* Execute of a job that is not valid leaves its result alone.
ExecuteInvalid ==
  /\ stage = "built"
  /\ ~m_valid
  /\ stage' = "executed"
  /\ UNCHANGED <<params, m_query_target, m_query_params, m_query_arguments, m_valid,
                 m_result, sent>>

\* The NetRequest gets the URL and, in their order, the query parameters.  The
\* arguments of the request are read by nobody.
ApplyQueryParameters ==
  /\ stage = "built"
  /\ m_valid
  /\ stage' = "executed"
  /\ sent' = [target |-> m_query_target, query |-> m_query_params]
  /\ UNCHANGED <<params, m_query_target, m_query_params, m_query_arguments, m_valid,
                 m_result>>

ParamsNext ==
  \/ ReadTarget
  \/ CheckLength
  \/ ReadQuery
  \/ ReadArguments
  \/ ExecuteInvalid
  \/ ApplyQueryParameters

ParamsSpec == ParamsInit /\ [][ParamsNext]_jobVars

-----------------------------------------------------------------------------
(* Properties                                                              *)

Asked == IF Has(1) THEN params.query ELSE Malformed

(***************************************************************************)
(* The query a request carries is the one its caller has passed, all its   *)
(* parameters in their order and each as often as it was passed: never a   *)
(* part of them, and none at all only where the argument could not be      *)
(* parsed.  Whether a job whose argument could not be parsed should be     *)
(* sent is not said: Job.h, line 68, has it that such a job is not valid,  *)
(* and the constructor's catch clauses leave it valid.                     *)
(***************************************************************************)
QueryAsAsked ==
  sent # NotSent /\ (Parsable(Asked) \/ sent.query # <<>>) =>
    /\ Asked.kind = "array"
    /\ Len(sent.query) = Len(Asked.members)
    /\ \A i \in DOMAIN sent.query :
         /\ sent.query[i].key = Asked.members[i].members[1]
         /\ sent.query[i].value = Asked.members[i].members[2]

\* The constructor catches no exception.
NothingCaught == Has(2) /\ Parsable(params.query) /\ Parsable(params.arguments)

(***************************************************************************)
(* What is not a URL is not sent, whatever else is wrong with the call,    *)
(* and its caller gets a text, set long before; what is one is sent        *)
(* without its blanks if no exception was caught.  (Of one whose other     *)
(* arguments have thrown nothing is said, as above.)                       *)
(***************************************************************************)
OnlyUrlsSent ==
  stage = "executed" =>
    LET chars == IF Has(0) THEN params.url.chars ELSE 0
    IN  /\ chars < 3 => sent = NotSent /\ m_result # ""
        /\ chars >= 3 /\ NothingCaught =>
             sent.target = [chars |-> chars, blanks |-> 0] /\ m_result = ""
=============================================================================
