----------------------------- MODULE JsonElement -----------------------------
(***************************************************************************)
(* A JSON answer on its way to a script: StringifyJSONtoSQF in the worker  *)
(* (module SQFier), call compile in the script, and then                   *)
(* OZK_fnc_getJsonElement, which follows a path of keys and indexes into   *)
(* it.  An action is one of these, or one turn of the function's loop.     *)
(*                                                                         *)
(* A script can also pass the elements of the answer in place of it        *)
(* (JSON_ARRAY#1); that is what the default branch is for.  Elements that  *)
(* begin with the string "a" or "o" would pass for a node; they are left   *)
(* out.                                                                    *)
(*                                                                         *)
(* Where SQF meets an operand of the wrong type or an undefined variable   *)
(* it reports an error and the function has no answer worth anything: the  *)
(* outcome is "undefined".                                                 *)
(***************************************************************************)
EXTENDS SQFier

CONSTANTS
  Paths,         \* paths, as splitString "." leaves them
  ParseNumber,   \* parseNumber of a key: 0 if it is no number
  Lowercase,     \* SQF compares strings without regard to case
  Numerals       \* the keys that are indexes

ASSUME PathsAssumption ==
  /\ Paths \subseteq Seq(Texts)
  /\ ParseNumber \in [Texts -> Int]
  /\ Lowercase \in [Texts -> Texts]
  /\ Numerals \subseteq Texts

VARIABLES
  document,      \* what the host has sent
  step,          \* how far it has come
  answer,        \* what has become of it
  given,         \* the script passes the "answer" or its "elements"
  node,          \* _currentNode
  path,          \* _pathArray
  depth,         \* _currentPathDepth
  outcome        \* what getJsonElement ends with

callVars == <<given, node, path, depth, outcome>>
jsonVars == <<document, step, answer, callVars>>

JsonInit ==
  /\ document \in Documents
  /\ step = "received"
  /\ answer = document
  /\ given = "answer"
  /\ node = Root
  /\ path = <<>>
  /\ depth = 0
  /\ outcome = "none"

-----------------------------------------------------------------------------
StringifyJSONtoSQF ==
  /\ step = "received"
  /\ answer' = Stringify(Parse(document))
  /\ step' = "stringified"
  /\ UNCHANGED <<document, callVars>>

CallCompile ==
  /\ step = "stringified"
  /\ IF Compiles(answer)
       THEN answer' = Compile(answer) /\ step' = "compiled"
       ELSE answer' = answer /\ step' = "unreadable"
  /\ UNCHANGED <<document, callVars>>

Current == answer[node]

\* _currentNode#0 of the elements would be a tag.
PassForNode ==
  /\ Current.kind = "a" /\ Current.members # <<>>
  /\ LET first == answer[Current.members[1].value]
     IN  first.kind = "string" /\ first.text \in {"a", "o"}

\* getJsonElement is called.
Call ==
  /\ step = "compiled"
  /\ step' = "search"
  /\ path' \in Paths
  /\ given' \in {"answer"} \cup {g \in {"elements"} : ~PassForNode}
  /\ UNCHANGED <<document, answer, node, depth, outcome>>

End(result) ==
  /\ outcome' = result
  /\ step' = "done"
  /\ UNCHANGED <<document, answer, given, node, path, depth>>

Key == path[depth + 1]
HasKey == depth < Len(path)

Search(kind) == step = "search" /\ given = "answer" /\ HasKey /\ Current.kind = kind

\* _pathDepth == _currentPathDepth, after a turn.  (Mutant: one turn late.)
PathUsedUpLate(d) == d = Len(path) + 1
PathUsedUp(d) == d = Len(path)

Enter(next) ==
  /\ node' = next
  /\ depth' = depth + 1
  /\ IF PathUsedUp(depth + 1)
       THEN step' = "done" /\ outcome' = "found"
       ELSE UNCHANGED <<step, outcome>>
  /\ UNCHANGED <<document, answer, given, path>>

\* _index > _curNodeCount - 1
OutOfBounds(index) == index > Len(Current.members) - 1

SearchArray ==
  /\ Search("a")
  /\ LET index == ParseNumber[Key]
     IN  IF OutOfBounds(index) THEN End("outOfBounds")
         ELSE IF index < 0 THEN End("undefined")
         ELSE Enter(Current.members[index + 1].value)

\* The turns of objKeySearch: the members whose key SQF takes for equal, of
\* which the first is found.  (Mutant: any member, whatever its key.)
MatchesAny(key) == DOMAIN Current.members
Matches(key) ==
  {k \in DOMAIN Current.members : Lowercase[Current.members[k].key] = Lowercase[key]}

SearchObject ==
  /\ Search("o")
  /\ \/ /\ DOMAIN Current.members = {}     \* no turn, so no -1 either
        /\ End("undefined")
     \/ /\ DOMAIN Current.members # {}
        /\ Matches(Key) = {}
        /\ End("keyNotFound")
     \/ \E k \in Matches(Key) :
          /\ \A l \in Matches(Key) : Rank[k] <= Rank[l]
          /\ Enter(Current.members[k].value)

\* _currentNode#0 of the elements is undefined.
NoElement ==
  \A k \in DOMAIN Current.members :
    Current.kind = "a" /\ (k = 1 => answer[Current.members[k].value].kind = "null")

\* The default branch: _currentNode#0 is there and neither "a" nor "o".
SearchCorrupt ==
  /\ step = "search" /\ given = "elements"
  /\ ~NoElement
  /\ End("corrupt")

\* There is nothing to search, or no key to go on with.
SearchUndefined ==
  /\ step = "search"
  /\ IF given = "elements" THEN NoElement
     ELSE Current.kind \notin {"a", "o"} \/ ~HasKey
  /\ End("undefined")

JsonNext ==
  \/ StringifyJSONtoSQF
  \/ CallCompile
  \/ Call
  \/ SearchArray
  \/ SearchObject
  \/ SearchCorrupt
  \/ SearchUndefined

JsonSpec == JsonInit /\ [][JsonNext]_jsonVars

-----------------------------------------------------------------------------
(* Properties                                                              *)

\* The reference, in terms of the document alone: c is what key means in value v
\* of doc, the member that comes last or the element at that index.
Means(doc, v, key, c) ==
  LET members == doc[v].members
  IN  \/ /\ doc[v].kind = "object"
         /\ \E i \in DOMAIN members :
              /\ members[i] = Member(key, c)
              /\ \A j \in DOMAIN members : j > i => members[j].key # key
      \/ /\ doc[v].kind = "array"
         /\ key \in Numerals
         /\ ParseNumber[key] + 1 \in DOMAIN members
         /\ c = members[ParseNumber[key] + 1].value

\* The first d of the keys lead from Root to v.
LeadsTo(doc, keys, d, v) ==
  \E walk \in [0 .. d -> DOMAIN doc] :
    /\ walk[0] = Root
    /\ walk[d] = v
    /\ \A i \in 1 .. d : Means(doc, walk[i - 1], keys[i], walk[i])

\* An object has a key that SQF takes for the one it looks for, or has changed
\* it, or an array meets a key that is no index.
ConfusedAt(doc, v, key) ==
  \/ /\ doc[v].kind = "object"
     /\ \E k \in KeysOf(doc[v].members) :
          Lowercase[AsRead[k]] = Lowercase[key] <=> k # key
  \/ doc[v].kind = "array" /\ key \notin Numerals

Confused(doc, keys) ==
  \E d \in 0 .. Len(keys) - 1 : \E v \in DOMAIN doc :
    LeadsTo(doc, keys, d, v) /\ ConfusedAt(doc, v, keys[d + 1])

\* a stands for value v of doc.
StandsFor(a, doc, v) ==
  LET members == doc[v].members
  IN  CASE doc[v].kind = "object" ->
             /\ a.kind = "o"
             /\ {<<a.members[k].key, a.members[k].value>> : k \in DOMAIN a.members}
                  = {<<AsRead[members[i].key], members[i].value>> :
                       i \in {n \in DOMAIN members :
                                Means(doc, v, members[n].key, members[n].value)}}
        [] doc[v].kind = "array" ->
             a.kind = "a" /\ a.members = members
        [] doc[v].kind = "string" ->
             a.kind = "string" /\ a.text = AsRead[doc[v].text]
        [] OTHER -> a = doc[v]

(***************************************************************************)
(* The answer a script has compiled stands for the document the host sent: *)
(* every key with the value that came last, every element in its place, and*)
(* so on in whatever they hold.  A script cannot compile an answer only if *)
(* some string or key in the document has a double quote in it.            *)
(***************************************************************************)
AnswerStandsForDocument ==
  /\ step \in {"compiled", "search", "done"} =>
       /\ Root \in DOMAIN answer
       /\ \A v \in DOMAIN answer :
            Children(answer[v]) \subseteq DOMAIN answer /\ StandsFor(answer[v], document, v)
  /\ step = "unreadable" =>
       \E v \in DOMAIN document :
         \/ document[v].kind = "string" /\ document[v].text \in Quoted
         \/ document[v].kind = "object" /\ KeysOf(document[v].members) \cap Quoted # {}

(***************************************************************************)
(* getJsonElement finds the element the path means in the document, and    *)
(* finds it whenever it is there; what it finds otherwise comes of keys    *)
(* that differ in case only, keys with characters JSON escapes, and words  *)
(* taken for an index.                                                     *)
(***************************************************************************)
FindsTheElement ==
  step = "done" /\ given = "answer" /\ path # <<>> /\ ~Confused(document, path) =>
    IF outcome = "found" THEN LeadsTo(document, path, Len(path), node)
    ELSE \A v \in DOMAIN document : ~LeadsTo(document, path, Len(path), v)

(***************************************************************************)
(* An element that is not there is reported as missing.  The function has  *)
(* no answer at all only if it is given nothing to search or no path, if   *)
(* the path goes on below a number, a string or null or into an object     *)
(* without members, or if an index is negative.                            *)
(***************************************************************************)
MissingIsReported ==
  outcome = "undefined" =>
    \/ given = "elements" /\ NoElement
    \/ path = <<>>
    \/ Current.kind \notin {"a", "o"}
    \/ HasKey /\ (IF Current.kind = "o" THEN DOMAIN Current.members = {}
                                        ELSE ParseNumber[Key] < 0)
=============================================================================
