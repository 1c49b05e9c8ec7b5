------------------------------- MODULE SQFier -------------------------------
(***************************************************************************)
(* StringifyJSONtoSQF (src/src/Util.cpp), from the JSON a host has sent to *)
(* the value a script has when it has compiled the text.                   *)
(*                                                                         *)
(* A document is its values, the Vars, Objects and Arrays POCO makes of it *)
(* one by one: a function from their names to what each is (kind), its     *)
(* text and its members, each a key (for the members of an object) and the *)
(* name of a value.  Booleans count as numbers.  No name of a value        *)
(* changes on the way, so what becomes of one is found under its name.     *)
(***************************************************************************)
EXTENDS Integers, Sequences, Functions

CONSTANTS
  Texts,      \* the keys and strings that occur
  Quoted,     \* those with a double quote inside
  AsRead,     \* what SQF reads of a string toJSON has written, if it can
  Rank,       \* the order of std::string on Texts
  Root,       \* the name of the outermost value
  Documents   \* the documents a host may send

Kinds == {"object", "array", "string", "number", "null"}

ASSUME TextsAssumption ==
  /\ Quoted \subseteq Texts
  /\ AsRead \in [Texts -> Texts]
  /\ Rank \in [Texts -> Nat]
  /\ IsInjective(Rank)

\* Util.cpp:61: "json root element is always either array or object"
ASSUME DocumentsAssumption ==
  \A doc \in Documents :
    /\ Root \in DOMAIN doc
    /\ doc[Root].kind \in {"object", "array"}
    /\ \A v \in DOMAIN doc :
         doc[v] \in [kind : Kinds, text : Texts,
                     members : Seq([key : Texts, value : DOMAIN doc])]

Value(kind, text, members) == [kind |-> kind, text |-> text, members |-> members]
Member(key, v) == [key |-> key, value |-> v]

-----------------------------------------------------------------------------
(***************************************************************************)
(* What Poco::JSON::Parser makes of a document: an object is a std::map    *)
(* from keys to members, of members with the same key the last.  The other *)
(* ones are gone, with all that is only in them.                           *)
(***************************************************************************)
KeysOf(members) == {members[i].key : i \in DOMAIN members}
Places(members, key) == {i \in DOMAIN members : members[i].key = key}

LastMember(members, key) ==
  members[CHOOSE i \in Places(members, key) : \A j \in Places(members, key) : j <= i]

ParseMembers(v) ==
  IF v.kind = "object" THEN [k \in KeysOf(v.members) |-> LastMember(v.members, k)]
                       ELSE v.members

Children(v) == {v.members[i].value : i \in DOMAIN v.members}

\* The values in values that Root leads to.
Kept(values) ==
  {v \in DOMAIN values :
     \A S \in SUBSET DOMAIN values :
       Root \in S /\ (\A u \in S : Children(values[u]) \subseteq S) => v \in S}

Parse(doc) ==
  LET values == [v \in DOMAIN doc |->
                   Value(doc[v].kind, doc[v].text, ParseMembers(doc[v]))]
  IN  [v \in Kept(values) |-> values[v]]

-----------------------------------------------------------------------------
(***************************************************************************)
(* SQFier::stringify, stringifyObj and stringifyArr: an object becomes an  *)
(* array of "o" and key-value pairs, in the order of the map, and an array *)
(* one of "a" and its elements, kinds "o" and "a" here.  (Mutant: both are *)
(* written with the same tag.)                                             *)
(***************************************************************************)
TagCopied(kind) == IF kind \in {"object", "array"} THEN "o" ELSE kind
Tag(kind) == CASE kind = "object" -> "o" [] kind = "array" -> "a" [] OTHER -> kind

Stringify(values) ==
  [v \in DOMAIN values |->
     Value(Tag(values[v].kind), values[v].text, values[v].members)]

(***************************************************************************)
(* call compile of that text.  Strings are written with JSON's escapes     *)
(* (toJSON), of which SQF knows none: a backslash stays a backslash, and   *)
(* the quote after one ends the string, so that the text falls apart.  In  *)
(* SQF null is an undefined variable.                                      *)
(***************************************************************************)
IsQuoted(v) ==
  \/ v.kind = "string" /\ v.text \in Quoted
  \/ v.kind = "o" /\ \E k \in DOMAIN v.members : v.members[k].key \in Quoted

Compiles(values) == \A v \in DOMAIN values : ~IsQuoted(values[v])

CompileMembers(v) ==
  IF v.kind = "o"
  THEN [k \in DOMAIN v.members |->
          Member(AsRead[v.members[k].key], v.members[k].value)]
  ELSE v.members

Compile(values) ==
  [v \in DOMAIN values |->
     Value(values[v].kind,
           IF values[v].kind = "string" THEN AsRead[values[v].text] ELSE values[v].text,
           CompileMembers(values[v]))]
=============================================================================
