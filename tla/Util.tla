-------------------------------- MODULE Util --------------------------------
(***************************************************************************)
(* Trim and ParseSQFArray of src/src/Util.cpp: what Job makes of the       *)
(* arguments of a call.                                                    *)
(*                                                                         *)
(* A URL is how many characters it has that count and how many blanks, the *)
(* tabs, spaces and quotes anywhere in it.  An argument is a text that may *)
(* be JSON, and then should be an array of arrays; of a member of one of   *)
(* those matters its text, as toString gives it, or that it is null.       *)
(***************************************************************************)
EXTENDS Integers, Sequences

CONSTANT Scalars   \* the texts of keys and values

Null == "null"
Params == [kind : {"array", "other"}, members : Seq(Scalars \cup {Null})]
SQFArrays == [kind : {"array", "other", "malformed"}, members : Seq(Params)]

\* parser.parse of something that is no JSON: an exception.
Malformed == [kind |-> "malformed", members |-> <<>>]

Trim(str) == [str EXCEPT !.blanks = 0]
Length(str) == str.chars + str.blanks

-----------------------------------------------------------------------------
(***************************************************************************)
(* ParseSQFArray: the pairs, or that it throws.  param->get(1) of a shorter*)
(* array is an empty Var, and toString of that, or of null, throws.  In    *)
(* mode Map emplace leaves a key that is already there alone.              *)
(***************************************************************************)
IsPair(param) ==
  /\ param.kind = "array"
  /\ Len(param.members) >= 2
  /\ param.members[1] # Null /\ param.members[2] # Null

Pair(param) == [key |-> param.members[1], value |-> param.members[2]]

Parsable(arg) == arg.kind = "array" /\ \A i \in DOMAIN arg.members : IsPair(arg.members[i])

ParsePairs(arg) == [i \in DOMAIN arg.members |-> Pair(arg.members[i])]

ParseMap(arg) ==
  LET pairs == ParsePairs(arg)
  IN  {pairs[i] : i \in {n \in DOMAIN pairs :
                           \A k \in 1 .. n - 1 : pairs[k].key # pairs[n].key}}
=============================================================================
