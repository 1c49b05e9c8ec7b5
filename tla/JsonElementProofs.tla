------------------------- MODULE JsonElementProofs -------------------------
(***************************************************************************)
(* Theorems about JsonElement, for any documents, texts and paths.         *)
(*                                                                         *)
(* First the conversion: what an answer is, value by value, and that it is *)
(* whole.  Then the reference: walks in a document, one key at a time.     *)
(* Then the search: SearchInv says that it stands, after depth turns,      *)
(* where the first depth keys lead and nowhere else, unless the path is    *)
(* one that confuses it.                                                   *)
(***************************************************************************)
EXTENDS JsonElement, WellFoundedInduction, TLAPS

\* A set of places has a last one.
LEMMA GreatestExists ==
  ASSUME NEW n \in Nat, NEW S \in SUBSET (1 .. n), S # {}
  PROVE  \E l \in S : \A j \in S : j <= l
<1>. DEFINE R == OpToRel(<, Nat)
            T == {n - j : j \in S}
<1>1. T \subseteq Nat
  OBVIOUS
<1>2. T # {}
  <2>1. PICK j \in S : TRUE
    OBVIOUS
  <2>2. n - j \in T
    BY <2>1
  <2>. QED
    BY <2>2
<1>3. PICK x \in T : \A y \in T : ~(<<y, x>> \in R)
  BY <1>1, <1>2, NatLessThanWellFounded, WFMin, Zenon
<1>4. \A y \in T : ~(y < x)
  BY <1>1, <1>3 DEF OpToRel
<1>5. PICK l \in S : x = n - l
  OBVIOUS
<1>6. \A j \in S : n - j \in T
  OBVIOUS
<1>7. ASSUME NEW j \in S
      PROVE  j <= l
  <2>. HIDE DEF T
  <2>1. ~(n - j < n - l)
    BY <1>4, <1>5, <1>6
  <2>. QED
    BY <2>1
<1>. QED
  BY <1>7

LEMMA ElementOfSeq ==
  ASSUME NEW S, NEW s \in Seq(S), NEW i \in DOMAIN s
  PROVE  s[i] \in S
  OBVIOUS

-----------------------------------------------------------------------------
(* The conversion                                                          *)

\* The members of a value lead to values of its document.
LEMMA MembersOfValue ==
  ASSUME NEW doc \in Documents, NEW v \in DOMAIN doc
  PROVE  /\ doc[v].members \in Seq([key : Texts, value : DOMAIN doc])
         /\ \A i \in DOMAIN doc[v].members :
              /\ doc[v].members[i] = Member(doc[v].members[i].key, doc[v].members[i].value)
              /\ doc[v].members[i].key \in Texts
              /\ doc[v].members[i].value \in DOMAIN doc
<1>1. doc[v].members \in Seq([key : Texts, value : DOMAIN doc])
  BY DocumentsAssumption
<1>. DEFINE members == doc[v].members
<1>. HIDE DEF members
<1>2. ASSUME NEW i \in DOMAIN members, members \in Seq([key : Texts, value : DOMAIN doc])
      PROVE  /\ members[i] = Member(members[i].key, members[i].value)
             /\ members[i].key \in Texts
             /\ members[i].value \in DOMAIN doc
  <2>. DEFINE M == [key : Texts, value : DOMAIN doc]
  <2>1. members[i] \in M
    <3>. HIDE DEF M
    <3>1. members \in Seq(M)
      BY <1>2 DEF M
    <3>. QED
      BY <1>2, <3>1, ElementOfSeq
  <2>. QED
    BY <2>1 DEF Member
<1>. QED
  BY <1>1, <1>2 DEF members

\* Of the members with a key, LastMember is the one after which there is none.
LEMMA LastMemberIsLast ==
  ASSUME NEW S, NEW members \in Seq(S), NEW key \in KeysOf(members)
  PROVE  \E l \in DOMAIN members :
           /\ LastMember(members, key) = members[l]
           /\ members[l].key = key
           /\ \A j \in DOMAIN members : j > l => members[j].key # key
<1>1. Places(members, key) # {} /\ Places(members, key) \subseteq 1 .. Len(members)
  BY DEF KeysOf, Places
<1>2. \E l \in Places(members, key) : \A j \in Places(members, key) : j <= l
  <2>. DEFINE n == Len(members)
              P == Places(members, key)
  <2>1. n \in Nat /\ P \in SUBSET (1 .. n) /\ P # {}
    BY <1>1
  <2>. HIDE DEF n, P
  <2>2. \E l \in P : \A j \in P : j <= l
    BY <2>1, GreatestExists
  <2>. QED
    BY <2>2 DEF P
<1>. DEFINE l == CHOOSE i \in Places(members, key) :
                   \A j \in Places(members, key) : j <= i
<1>3. l \in Places(members, key) /\ \A j \in Places(members, key) : j <= l
  BY <1>2
<1>4. LastMember(members, key) = members[l]
  BY Zenon DEF LastMember
<1>. HIDE DEF l
<1>5. \A j \in DOMAIN members : j > l => members[j].key # key
  BY <1>1, <1>3 DEF Places
<1>. QED
  BY <1>3, <1>4, <1>5 DEF Places

\* What a parser keeps is a document whose values lead only to values it has.
LEMMA ParseKeeps ==
  ASSUME NEW doc \in Documents
  PROVE  /\ Root \in DOMAIN Parse(doc)
         /\ DOMAIN Parse(doc) \subseteq DOMAIN doc
         /\ \A v \in DOMAIN Parse(doc) :
              /\ Parse(doc)[v] = Value(doc[v].kind, doc[v].text, ParseMembers(doc[v]))
              /\ Children(Parse(doc)[v]) \subseteq DOMAIN Parse(doc)
<1>. DEFINE values == [v \in DOMAIN doc |->
                         Value(doc[v].kind, doc[v].text, ParseMembers(doc[v]))]
<1>1. Parse(doc) = [v \in Kept(values) |-> values[v]]
  BY DEF Parse
<1>2. Root \in DOMAIN doc /\ DOMAIN values = DOMAIN doc
  BY DocumentsAssumption
<1>3. ASSUME NEW v \in DOMAIN doc
      PROVE  Children(values[v]) \subseteq DOMAIN doc
  <2>. DEFINE members == doc[v].members
              M == [key : Texts, value : DOMAIN doc]
  <2>. HIDE DEF M
  <2>1. /\ members \in Seq(M)
        /\ \A i \in DOMAIN members : members[i].value \in DOMAIN doc
    BY MembersOfValue DEF M
  <2>2. values[v].members = ParseMembers(doc[v])
    BY DEF Value
  <2>3. CASE doc[v].kind = "object"
    <3>1. values[v].members = [k \in KeysOf(members) |-> LastMember(members, k)]
      BY <2>2, <2>3 DEF ParseMembers
    <3>2. ASSUME NEW k \in KeysOf(members)
          PROVE  LastMember(members, k).value \in DOMAIN doc
      <4>1. PICK l \in DOMAIN members : LastMember(members, k) = members[l]
        BY <2>1, LastMemberIsLast
      <4>. QED
        BY <2>1, <4>1
    <3>. QED
      BY <3>1, <3>2 DEF Children
  <2>4. CASE doc[v].kind # "object"
    <3>1. values[v].members = members
      BY <2>2, <2>4 DEF ParseMembers
    <3>. QED
      BY <2>1, <3>1 DEF Children
  <2>. QED
    BY <2>3, <2>4
<1>. HIDE DEF values
<1>4. Root \in Kept(values) /\ Kept(values) \subseteq DOMAIN doc
  BY <1>2 DEF Kept
<1>5. ASSUME NEW v \in Kept(values), NEW c \in Children(values[v])
      PROVE  c \in Kept(values)
  <2>1. c \in DOMAIN values
    BY <1>2, <1>3, <1>4
  <2>2. ASSUME NEW S \in SUBSET DOMAIN values, Root \in S,
               \A u \in S : Children(values[u]) \subseteq S
        PROVE  c \in S
    BY <2>2 DEF Kept
  <2>. QED
    BY <2>1, <2>2 DEF Kept
<1>. QED
  <2>1. DOMAIN Parse(doc) = Kept(values)
    BY <1>1
  <2>2. \A v \in Kept(values) : Parse(doc)[v] = values[v]
    BY <1>1
  <2>3. \A v \in DOMAIN doc :
          values[v] = Value(doc[v].kind, doc[v].text, ParseMembers(doc[v]))
    BY DEF values
  <2>. QED
    BY <1>4, <1>5, <2>1, <2>2, <2>3

\* What a script has for each value of a document.
Converted(doc) == Compile(Stringify(Parse(doc)))

LEMMA ConvertedValues ==
  ASSUME NEW doc \in Documents
  PROVE  /\ DOMAIN Converted(doc) = DOMAIN Parse(doc)
         /\ \A v \in DOMAIN Parse(doc) :
              /\ Converted(doc)[v].kind = Tag(doc[v].kind)
              /\ Converted(doc)[v].text = IF doc[v].kind = "string"
                                         THEN AsRead[doc[v].text] ELSE doc[v].text
              /\ Converted(doc)[v].members =
                   IF doc[v].kind = "object"
                   THEN [k \in KeysOf(doc[v].members) |->
                           Member(AsRead[k], LastMember(doc[v].members, k).value)]
                   ELSE doc[v].members
              /\ Converted(doc)[v] = Value(Converted(doc)[v].kind, Converted(doc)[v].text,
                                          Converted(doc)[v].members)
<1>. DEFINE p == Parse(doc)
            s == Stringify(p)
<1>. HIDE DEF p
<1>1. DOMAIN s = DOMAIN p /\ DOMAIN Compile(s) = DOMAIN s
  BY DEF Stringify, Compile
<1>2. ASSUME NEW v \in DOMAIN p
      PROVE  /\ Compile(s)[v].kind = Tag(doc[v].kind)
             /\ Compile(s)[v].text = IF doc[v].kind = "string"
                                     THEN AsRead[doc[v].text] ELSE doc[v].text
             /\ Compile(s)[v].members =
                   IF doc[v].kind = "object"
                   THEN [k \in KeysOf(doc[v].members) |->
                           Member(AsRead[k], LastMember(doc[v].members, k).value)]
                   ELSE doc[v].members
             /\ Compile(s)[v] = Value(Compile(s)[v].kind, Compile(s)[v].text,
                                     Compile(s)[v].members)
  <2>1. /\ v \in DOMAIN doc
        /\ p[v] = Value(doc[v].kind, doc[v].text, ParseMembers(doc[v]))
    BY <1>2, ParseKeeps DEF p
  <2>2. doc[v].kind \in Kinds
    BY <2>1, DocumentsAssumption
  <2>3. s[v] = Value(Tag(doc[v].kind), doc[v].text, ParseMembers(doc[v]))
    BY <1>2, <2>1 DEF Stringify, Value
  <2>4. /\ Tag(doc[v].kind) = "o" <=> doc[v].kind = "object"
        /\ Tag(doc[v].kind) = "string" <=> doc[v].kind = "string"
    BY <2>2 DEF Tag, Kinds
  <2>. HIDE DEF s
  <2>5. Compile(s)[v] = Value(s[v].kind,
                              IF s[v].kind = "string" THEN AsRead[s[v].text] ELSE s[v].text,
                              CompileMembers(s[v]))
    BY <1>1, <1>2 DEF Compile
  <2>6. /\ s[v].kind = Tag(doc[v].kind) /\ s[v].text = doc[v].text
        /\ s[v].members = ParseMembers(doc[v])
    BY <2>3 DEF Value
  <2>7. CompileMembers(s[v]) =
          IF doc[v].kind = "object"
          THEN [k \in KeysOf(doc[v].members) |->
                  Member(AsRead[k], LastMember(doc[v].members, k).value)]
          ELSE doc[v].members
    <3>1. CASE doc[v].kind = "object"
      <4>1. s[v].members = [k \in KeysOf(doc[v].members) |-> LastMember(doc[v].members, k)]
        BY <2>6, <3>1 DEF ParseMembers
      <4>2. \A k \in KeysOf(doc[v].members) : LastMember(doc[v].members, k).key = k
        <5>. DEFINE M == [key : Texts, value : DOMAIN doc]
        <5>. HIDE DEF M
        <5>1. doc[v].members \in Seq(M)
          BY <2>1, MembersOfValue DEF M
        <5>. QED
          BY <5>1, LastMemberIsLast
      <4>3. CompileMembers(s[v]) =
              [k \in DOMAIN s[v].members |->
                 Member(AsRead[s[v].members[k].key], s[v].members[k].value)]
        BY <2>4, <2>6, <3>1 DEF CompileMembers
      <4>. QED
        BY <3>1, <4>1, <4>2, <4>3
    <3>2. CASE doc[v].kind # "object"
      BY <2>4, <2>6, <3>2 DEF CompileMembers, ParseMembers
    <3>. QED
      BY <3>1, <3>2
  <2>. QED
    BY <2>4, <2>5, <2>6, <2>7 DEF Value
<1>. QED
  BY <1>1, <1>2 DEF Converted, p

\* A key means one value at most.
LEMMA MeansOne ==
  ASSUME NEW doc \in Documents, NEW v \in DOMAIN doc, NEW key,
         NEW b, Means(doc, v, key, b), NEW c, Means(doc, v, key, c)
  PROVE  b = c
<1>. DEFINE members == doc[v].members
<1>1. members \in Seq([key : Texts, value : DOMAIN doc])
  BY MembersOfValue
<1>2. CASE doc[v].kind = "object"
  <2>1. PICK i \in DOMAIN members :
          /\ members[i] = Member(key, b)
          /\ \A j \in DOMAIN members : j > i => members[j].key # key
    BY <1>2 DEF Means
  <2>2. PICK j \in DOMAIN members :
          /\ members[j] = Member(key, c)
          /\ \A n \in DOMAIN members : n > j => members[n].key # key
    BY <1>2 DEF Means
  <2>3. i \in Nat /\ j \in Nat
    BY <1>1
  <2>4. ~(j > i) /\ ~(i > j)
    BY <2>1, <2>2 DEF Member
  <2>. QED
    BY <2>1, <2>2, <2>3, <2>4 DEF Member
<1>3. CASE doc[v].kind # "object"
  BY <1>3 DEF Means
<1>. QED
  BY <1>2, <1>3

\* In an object, every key means the value of its last member.
LEMMA KeyMeans ==
  ASSUME NEW doc \in Documents, NEW v \in DOMAIN doc, doc[v].kind = "object",
         NEW k \in KeysOf(doc[v].members)
  PROVE  \E l \in DOMAIN doc[v].members :
           /\ doc[v].members[l] = Member(k, LastMember(doc[v].members, k).value)
           /\ Means(doc, v, k, LastMember(doc[v].members, k).value)
<1>. DEFINE members == doc[v].members
<1>1. /\ members \in Seq([key : Texts, value : DOMAIN doc])
      /\ \A i \in DOMAIN members : members[i] = Member(members[i].key, members[i].value)
  BY MembersOfValue
<1>2. PICK l \in DOMAIN members :
        /\ LastMember(members, k) = members[l]
        /\ members[l].key = k
        /\ \A j \in DOMAIN members : j > l => members[j].key # k
  BY <1>1, LastMemberIsLast
<1>3. members[l] = Member(k, LastMember(members, k).value)
  BY <1>1, <1>2
<1>4. Means(doc, v, k, LastMember(members, k).value)
  BY <1>2, <1>3 DEF Means
<1>. QED
  BY <1>3, <1>4

\* A key that means something in an object is one of its keys.
LEMMA MeantIsKey ==
  ASSUME NEW doc, NEW v, NEW key, NEW c, Means(doc, v, key, c),
         doc[v].kind = "object"
  PROVE  key \in KeysOf(doc[v].members)
  BY DEF Means, KeysOf, Member

(***************************************************************************)
(* What a script has stands, value by value, for the document, whatever    *)
(* its keys and however often they occur.                                  *)
(***************************************************************************)
LEMMA ConvertedStandsFor ==
  ASSUME NEW doc \in Documents, NEW v \in DOMAIN Converted(doc)
  PROVE  StandsFor(Converted(doc)[v], doc, v)
<1>. DEFINE a == Converted(doc)[v]
            members == doc[v].members
<1>1. v \in DOMAIN doc /\ v \in DOMAIN Parse(doc)
  BY ConvertedValues, ParseKeeps
<1>2. doc[v].kind \in Kinds /\ doc[v] = Value(doc[v].kind, doc[v].text, members)
  BY <1>1, DocumentsAssumption DEF Value
<1>3. /\ a.kind = Tag(doc[v].kind)
      /\ a.text = IF doc[v].kind = "string" THEN AsRead[doc[v].text] ELSE doc[v].text
      /\ a.members = IF doc[v].kind = "object"
                     THEN [k \in KeysOf(members) |->
                             Member(AsRead[k], LastMember(members, k).value)]
                     ELSE members
      /\ a = Value(a.kind, a.text, a.members)
  BY <1>1, ConvertedValues
<1>. HIDE DEF a
<1>4. CASE doc[v].kind = "object"
  <2>. DEFINE Last(k) == LastMember(members, k).value
              There == {<<a.members[k].key, a.members[k].value>> : k \in DOMAIN a.members}
              Meant == {<<AsRead[members[i].key], members[i].value>> :
                          i \in {n \in DOMAIN members :
                                   Means(doc, v, members[n].key, members[n].value)}}
  <2>1. There = {<<AsRead[k], Last(k)>> : k \in KeysOf(members)}
    BY <1>3, <1>4 DEF Member
  <2>2. ASSUME NEW k \in KeysOf(members)
        PROVE  <<AsRead[k], Last(k)>> \in Meant
    <3>1. PICK l \in DOMAIN members :
            /\ members[l] = Member(k, Last(k))
            /\ Means(doc, v, k, Last(k))
      BY <1>1, <1>4, KeyMeans
    <3>2. members[l].key = k /\ members[l].value = Last(k)
      BY <3>1 DEF Member
    <3>. QED
      BY <3>1, <3>2
  <2>3. ASSUME NEW i \in DOMAIN members, Means(doc, v, members[i].key, members[i].value)
        PROVE  <<AsRead[members[i].key], members[i].value>> \in There
    <3>1. members[i].key \in KeysOf(members)
      BY DEF KeysOf
    <3>2. Means(doc, v, members[i].key, Last(members[i].key))
      BY <1>1, <1>4, <3>1, KeyMeans
    <3>3. members[i].value = Last(members[i].key)
      BY <1>1, <2>3, <3>2, MeansOne
    <3>. QED
      BY <2>1, <3>1, <3>3
  <2>4. There = Meant
    <3>. HIDE DEF There
    <3>1. There \subseteq Meant
      BY <2>1, <2>2
    <3>2. Meant \subseteq There
      BY <2>3
    <3>. QED
      BY <3>1, <3>2
  <2>5. a.kind = "o"
    BY <1>3, <1>4 DEF Tag
  <2>. QED
    BY <1>4, <2>4, <2>5 DEF StandsFor, a
<1>5. CASE doc[v].kind = "array"
  BY <1>3, <1>5 DEF StandsFor, Tag, a
<1>6. CASE doc[v].kind = "string"
  BY <1>3, <1>6 DEF StandsFor, Tag, a
<1>7. CASE doc[v].kind \in {"number", "null"}
  <2>1. a = doc[v]
    BY <1>2, <1>3, <1>7 DEF Tag
  <2>. QED
    BY <1>7, <2>1 DEF StandsFor, a
<1>. QED
  BY <1>2, <1>4, <1>5, <1>6, <1>7 DEF Kinds

\* What a script has is whole: every value of it leads to values it has.
LEMMA ConvertedIsWhole ==
  ASSUME NEW doc \in Documents
  PROVE  /\ Root \in DOMAIN Converted(doc)
         /\ DOMAIN Converted(doc) \subseteq DOMAIN doc
         /\ \A v \in DOMAIN Converted(doc) :
              Children(Converted(doc)[v]) \subseteq DOMAIN Converted(doc)
<1>1. /\ Root \in DOMAIN Converted(doc)
      /\ DOMAIN Converted(doc) \subseteq DOMAIN doc
      /\ DOMAIN Converted(doc) = DOMAIN Parse(doc)
  BY ParseKeeps, ConvertedValues
<1>2. ASSUME NEW v \in DOMAIN Parse(doc)
      PROVE  Children(Converted(doc)[v]) = Children(Parse(doc)[v])
  <2>. DEFINE c == Converted(doc)[v].members
              p == Parse(doc)[v].members
              keys == KeysOf(doc[v].members)
  <2>1. p = ParseMembers(doc[v])
    BY <1>2, ParseKeeps DEF Value
  <2>2. c = IF doc[v].kind = "object"
            THEN [k \in keys |-> Member(AsRead[k], LastMember(doc[v].members, k).value)]
            ELSE doc[v].members
    BY <1>2, ConvertedValues
  <2>3. DOMAIN c = DOMAIN p /\ \A i \in DOMAIN c : c[i].value = p[i].value
    <3>. HIDE DEF c, p
    <3>1. CASE doc[v].kind = "object"
      BY <2>1, <2>2, <3>1 DEF ParseMembers, Member
    <3>2. CASE doc[v].kind # "object"
      BY <2>1, <2>2, <3>2 DEF ParseMembers
    <3>. QED
      BY <3>1, <3>2
  <2>. QED
    BY <2>3 DEF Children
<1>. QED
  BY <1>1, <1>2, ParseKeeps

\* A text that does not compile comes of a document with a double quote.
LEMMA QuoteInDocument ==
  ASSUME NEW doc \in Documents, ~Compiles(Stringify(Parse(doc)))
  PROVE  \E v \in DOMAIN doc :
           \/ doc[v].kind = "string" /\ doc[v].text \in Quoted
           \/ doc[v].kind = "object" /\ KeysOf(doc[v].members) \cap Quoted # {}
<1>. DEFINE p == Parse(doc)
            s == Stringify(p)
<1>1. DOMAIN s = DOMAIN p
  BY DEF Stringify
<1>2. PICK v \in DOMAIN p : IsQuoted(s[v])
  BY <1>1 DEF Compiles
<1>3. /\ v \in DOMAIN doc
      /\ p[v] = Value(doc[v].kind, doc[v].text, ParseMembers(doc[v]))
  BY <1>2, ParseKeeps
<1>4. doc[v].kind \in Kinds
  BY <1>3, DocumentsAssumption
<1>5. s[v] = Value(Tag(doc[v].kind), doc[v].text, ParseMembers(doc[v]))
  BY <1>2, <1>3 DEF Stringify, Value
<1>. HIDE DEF s
<1>6. /\ s[v].kind = Tag(doc[v].kind) /\ s[v].text = doc[v].text
      /\ s[v].members = ParseMembers(doc[v])
  BY <1>5 DEF Value
<1>7. CASE s[v].kind = "string" /\ s[v].text \in Quoted
  <2>1. doc[v].kind = "string"
    BY <1>4, <1>6, <1>7 DEF Tag, Kinds
  <2>. QED
    BY <1>3, <1>6, <1>7, <2>1
<1>8. CASE s[v].kind = "o" /\ \E k \in DOMAIN s[v].members : s[v].members[k].key \in Quoted
  <2>1. doc[v].kind = "object"
    BY <1>4, <1>6, <1>8 DEF Tag, Kinds
  <2>2. s[v].members = [k \in KeysOf(doc[v].members) |-> LastMember(doc[v].members, k)]
    BY <1>6, <2>1 DEF ParseMembers
  <2>3. \A k \in KeysOf(doc[v].members) : LastMember(doc[v].members, k).key = k
    <3>. DEFINE M == [key : Texts, value : DOMAIN doc]
    <3>. HIDE DEF M
    <3>1. doc[v].members \in Seq(M)
      BY <1>3, MembersOfValue DEF M
    <3>. QED
      BY <3>1, LastMemberIsLast
  <2>. QED
    BY <1>3, <1>8, <2>1, <2>2, <2>3
<1>. QED
  BY <1>2, <1>7, <1>8 DEF IsQuoted

-----------------------------------------------------------------------------
(* The answer                                                              *)

\* What the answer is in each step.
AnswerInv ==
  /\ document \in Documents
  /\ step \in {"received", "stringified", "unreadable", "compiled", "search", "done"}
  /\ step \in {"stringified", "unreadable"} => answer = Stringify(Parse(document))
  /\ step = "unreadable" => ~Compiles(answer)
  /\ step \in {"compiled", "search", "done"} => answer = Converted(document)

LEMMA AnswerInvariant == JsonSpec => []AnswerInv
<1>1. JsonInit => AnswerInv
  BY DEF JsonInit, AnswerInv
<1>2. AnswerInv /\ [JsonNext]_jsonVars => AnswerInv'
  <2>. SUFFICES ASSUME AnswerInv, [JsonNext]_jsonVars
                PROVE  AnswerInv'
    OBVIOUS
  <2>. USE DEF AnswerInv
  <2>1. CASE StringifyJSONtoSQF
    BY <2>1 DEF StringifyJSONtoSQF
  <2>2. CASE CallCompile
    BY <2>2 DEF CallCompile, Converted
  <2>3. CASE Call
    BY <2>3 DEF Call
  <2>4. CASE SearchArray \/ SearchObject
    <3>1. /\ step = "search" /\ step' \in {"search", "done"}
          /\ UNCHANGED <<document, answer>>
      BY <2>4 DEF SearchArray, SearchObject, Search, Enter, End
    <3>. QED
      BY <3>1
  <2>5. CASE SearchCorrupt \/ SearchUndefined
    BY <2>5 DEF SearchCorrupt, SearchUndefined, End
  <2>6. CASE UNCHANGED jsonVars
    BY <2>6 DEF jsonVars
  <2>. QED
    BY <2>1, <2>2, <2>3, <2>4, <2>5, <2>6 DEF JsonNext
<1>. QED
  BY <1>1, <1>2, PTL DEF JsonSpec

(***************************************************************************)
(* Whatever a host sends, what a script has compiled stands for it, and    *)
(* what it cannot compile has a double quote in a string or a key.         *)
(***************************************************************************)
THEOREM AnswerCorrect == JsonSpec => []AnswerStandsForDocument
<1>1. AnswerInv => AnswerStandsForDocument
  <2>. SUFFICES ASSUME AnswerInv
                PROVE  AnswerStandsForDocument
    OBVIOUS
  <2>1. ASSUME step \in {"compiled", "search", "done"}
        PROVE  /\ Root \in DOMAIN answer
               /\ \A v \in DOMAIN answer :
                    /\ Children(answer[v]) \subseteq DOMAIN answer
                    /\ StandsFor(answer[v], document, v)
    <3>1. document \in Documents /\ answer = Converted(document)
      BY <2>1 DEF AnswerInv
    <3>. QED
      BY <3>1, ConvertedIsWhole, ConvertedStandsFor
  <2>2. ASSUME step = "unreadable"
        PROVE  \E v \in DOMAIN document :
                 \/ document[v].kind = "string" /\ document[v].text \in Quoted
                 \/ /\ document[v].kind = "object"
                    /\ KeysOf(document[v].members) \cap Quoted # {}
    <3>1. document \in Documents /\ ~Compiles(Stringify(Parse(document)))
      BY <2>2 DEF AnswerInv
    <3>. QED
      BY <3>1, QuoteInDocument
  <2>. QED
    BY <2>1, <2>2 DEF AnswerStandsForDocument
<1>. QED
  BY <1>1, AnswerInvariant, PTL

-----------------------------------------------------------------------------
(* Walks                                                                   *)

LEMMA LeadsToRoot ==
  ASSUME NEW doc \in Documents, NEW keys
  PROVE  /\ LeadsTo(doc, keys, 0, Root)
         /\ \A v : LeadsTo(doc, keys, 0, v) => v = Root
<1>1. Root \in DOMAIN doc
  BY DocumentsAssumption
<1>2. LeadsTo(doc, keys, 0, Root)
  <2>. DEFINE walk == [i \in 0 .. 0 |-> Root]
  <2>1. walk \in [0 .. 0 -> DOMAIN doc] /\ walk[0] = Root
    BY <1>1
  <2>2. \A i \in 1 .. 0 : Means(doc, walk[i - 1], keys[i], walk[i])
    OBVIOUS
  <2>. HIDE DEF walk
  <2>. QED
    BY <2>1, <2>2 DEF LeadsTo
<1>. QED
  BY <1>2 DEF LeadsTo

\* One more key.
LEMMA LeadsToNext ==
  ASSUME NEW doc, NEW keys, NEW d \in Nat, NEW v, LeadsTo(doc, keys, d, v),
         NEW c \in DOMAIN doc, Means(doc, v, keys[d + 1], c)
  PROVE  LeadsTo(doc, keys, d + 1, c)
<1>1. PICK walk \in [0 .. d -> DOMAIN doc] :
        /\ walk[0] = Root /\ walk[d] = v
        /\ \A i \in 1 .. d : Means(doc, walk[i - 1], keys[i], walk[i])
  BY DEF LeadsTo
<1>. DEFINE next == [i \in 0 .. d + 1 |-> IF i = d + 1 THEN c ELSE walk[i]]
<1>2. next \in [0 .. d + 1 -> DOMAIN doc] /\ next[0] = Root /\ next[d + 1] = c
  BY <1>1
<1>3. ASSUME NEW i \in 1 .. d + 1
      PROVE  Means(doc, next[i - 1], keys[i], next[i])
  <2>1. CASE i = d + 1
    <3>1. next[i - 1] = v /\ next[i] = c
      BY <1>1, <2>1
    <3>. QED
      BY <2>1, <3>1
  <2>2. CASE i # d + 1
    <3>1. i \in 1 .. d /\ next[i - 1] = walk[i - 1] /\ next[i] = walk[i]
      BY <1>1, <2>2
    <3>. QED
      BY <1>1, <3>1
  <2>. QED
    BY <2>1, <2>2
<1>. HIDE DEF next
<1>. QED
  BY <1>2, <1>3 DEF LeadsTo

\* Where more keys lead, fewer lead on the way there.
LEMMA LeadsToPrevious ==
  ASSUME NEW doc, NEW keys, NEW e \in Nat, NEW v, LeadsTo(doc, keys, e, v),
         NEW d \in Nat, d < e
  PROVE  \E u, c \in DOMAIN doc :
           LeadsTo(doc, keys, d, u) /\ Means(doc, u, keys[d + 1], c)
             /\ (e = d + 1 => c = v)
<1>1. PICK walk \in [0 .. e -> DOMAIN doc] :
        /\ walk[0] = Root /\ walk[e] = v
        /\ \A i \in 1 .. e : Means(doc, walk[i - 1], keys[i], walk[i])
  BY DEF LeadsTo
<1>. DEFINE before == [i \in 0 .. d |-> walk[i]]
<1>2. /\ before \in [0 .. d -> DOMAIN doc]
      /\ before[0] = Root /\ before[d] = walk[d]
  BY <1>1
<1>3. ASSUME NEW i \in 1 .. d
      PROVE  Means(doc, before[i - 1], keys[i], before[i])
  <2>1. i \in 1 .. e /\ before[i - 1] = walk[i - 1] /\ before[i] = walk[i]
    BY <1>1
  <2>. QED
    BY <1>1, <2>1
<1>. HIDE DEF before
<1>4. LeadsTo(doc, keys, d, walk[d])
  BY <1>2, <1>3 DEF LeadsTo
<1>5. d + 1 \in 1 .. e /\ (d + 1) - 1 = d
  OBVIOUS
<1>6. Means(doc, walk[d], keys[d + 1], walk[d + 1])
  BY <1>1, <1>5
<1>7. walk[d] \in DOMAIN doc /\ walk[d + 1] \in DOMAIN doc
  BY <1>1
<1>. QED
  BY <1>1, <1>4, <1>6, <1>7

\* v is where the first d keys lead, and the only place.
OnlyLeadsTo(doc, keys, d, v) ==
  /\ LeadsTo(doc, keys, d, v)
  /\ \A u \in DOMAIN doc : LeadsTo(doc, keys, d, u) => u = v

LEMMA OnlyLeadsToNext ==
  ASSUME NEW doc \in Documents, NEW keys, NEW d \in Nat,
         NEW v \in DOMAIN doc, OnlyLeadsTo(doc, keys, d, v),
         NEW c \in DOMAIN doc, Means(doc, v, keys[d + 1], c)
  PROVE  OnlyLeadsTo(doc, keys, d + 1, c)
<1>1. LeadsTo(doc, keys, d + 1, c)
  BY LeadsToNext DEF OnlyLeadsTo
<1>2. ASSUME NEW u \in DOMAIN doc, LeadsTo(doc, keys, d + 1, u)
      PROVE  u = c
  <2>1. PICK b \in DOMAIN doc : LeadsTo(doc, keys, d, b) /\ Means(doc, b, keys[d + 1], u)
    <3>1. d + 1 \in Nat /\ d < d + 1
      OBVIOUS
    <3>. QED
      BY <1>2, <3>1, LeadsToPrevious
  <2>2. b = v
    BY <2>1 DEF OnlyLeadsTo
  <2>. QED
    BY <2>1, <2>2, MeansOne
<1>. QED
  BY <1>1, <1>2 DEF OnlyLeadsTo

LEMMA DeadEnd ==
  ASSUME NEW doc \in Documents, NEW keys, NEW d \in Nat,
         NEW v \in DOMAIN doc, OnlyLeadsTo(doc, keys, d, v),
         \A c \in DOMAIN doc : ~Means(doc, v, keys[d + 1], c),
         NEW e \in Nat, d < e, NEW u
  PROVE  ~LeadsTo(doc, keys, e, u)
<1>. SUFFICES ASSUME LeadsTo(doc, keys, e, u)
              PROVE  FALSE
  OBVIOUS
<1>1. PICK b, c \in DOMAIN doc :
        LeadsTo(doc, keys, d, b) /\ Means(doc, b, keys[d + 1], c)
  BY LeadsToPrevious
<1>. QED
  BY <1>1 DEF OnlyLeadsTo

-----------------------------------------------------------------------------
(* The search                                                              *)

\* What the current node is, as far as the search looks at it.
LEMMA CurrentIs ==
  ASSUME AnswerInv, step = "search", node \in DOMAIN answer
  PROVE  /\ node \in DOMAIN document
         /\ document[node].members \in Seq([key : Texts, value : DOMAIN document])
         /\ Current.kind = "o" <=> document[node].kind = "object"
         /\ Current.kind = "a" <=> document[node].kind = "array"
         /\ document[node].kind = "object" =>
              Current.members = [k \in KeysOf(document[node].members) |->
                Member(AsRead[k], LastMember(document[node].members, k).value)]
         /\ document[node].kind = "array" => Current.members = document[node].members
         /\ \A i \in DOMAIN Current.members : Current.members[i].value \in DOMAIN answer
<1>1. document \in Documents /\ answer = Converted(document)
  BY DEF AnswerInv
<1>2. /\ node \in DOMAIN document /\ node \in DOMAIN Parse(document)
      /\ Children(answer[node]) \subseteq DOMAIN answer
  BY <1>1, ConvertedIsWhole, ConvertedValues
<1>3. /\ Current.kind = Tag(document[node].kind)
      /\ Current.members =
           IF document[node].kind = "object"
           THEN [k \in KeysOf(document[node].members) |->
                   Member(AsRead[k], LastMember(document[node].members, k).value)]
           ELSE document[node].members
  BY <1>1, <1>2, ConvertedValues DEF Current
<1>4. document[node].kind \in Kinds
  BY <1>1, <1>2, DocumentsAssumption
<1>5. /\ Current.kind = "o" <=> document[node].kind = "object"
      /\ Current.kind = "a" <=> document[node].kind = "array"
  BY <1>3, <1>4 DEF Tag, Kinds
<1>6. document[node].members \in Seq([key : Texts, value : DOMAIN document])
  BY <1>1, <1>2, MembersOfValue
<1>7. \A i \in DOMAIN Current.members : Current.members[i].value \in DOMAIN answer
  BY <1>2 DEF Children, Current
<1>8. document[node].kind = "array" => document[node].kind # "object"
  OBVIOUS
<1>. QED
  BY <1>2, <1>3, <1>5, <1>6, <1>7, <1>8, Zenon

\* In an array that does not confuse it, the search takes the element the key
\* means, and an index out of bounds or below 0 means none.
LEMMA ArrayTurn ==
  ASSUME AnswerInv, step = "search", node \in DOMAIN answer, Current.kind = "a",
         Key \in Numerals
  PROVE  /\ ~OutOfBounds(ParseNumber[Key]) /\ ParseNumber[Key] >= 0 =>
              /\ ParseNumber[Key] + 1 \in DOMAIN Current.members
              /\ Means(document, node, Key, Current.members[ParseNumber[Key] + 1].value)
         /\ OutOfBounds(ParseNumber[Key]) \/ ParseNumber[Key] < 0 =>
              \A c : ~Means(document, node, Key, c)
<1>. DEFINE index == ParseNumber[Key]
            members == document[node].members
            M == [key : Texts, value : DOMAIN document]
<1>. HIDE DEF M
<1>1. /\ members \in Seq(M) /\ document[node].kind = "array"
      /\ Current.members = members
  BY CurrentIs DEF M
<1>2. index \in Int
  BY PathsAssumption
<1>3. DOMAIN members = 1 .. Len(members) /\ Len(members) \in Nat
  BY <1>1
<1>4. OutOfBounds(index) <=> index > Len(members) - 1
  BY <1>1 DEF OutOfBounds
<1>5. index + 1 \in DOMAIN members <=> ~OutOfBounds(index) /\ index >= 0
  <2>. HIDE DEF index, members
  <2>. QED
    BY <1>2, <1>3, <1>4
<1>6. \A c : Means(document, node, Key, c) <=>
             index + 1 \in DOMAIN members /\ c = members[index + 1].value
  BY <1>1 DEF Means
<1>7. index < 0 => ~(index >= 0)
  BY <1>2
<1>. QED
  BY <1>1, <1>5, <1>6, <1>7, Zenon

\* In an object that does not confuse it, the search finds the key itself if it
\* is there, and no other.
LEMMA ObjectTurn ==
  ASSUME AnswerInv, step = "search", node \in DOMAIN answer, Current.kind = "o",
         ~ConfusedAt(document, node, Key)
  PROVE  /\ \A k \in Matches(Key) : Means(document, node, Key, Current.members[k].value)
         /\ Matches(Key) = {} => \A c : ~Means(document, node, Key, c)
<1>. DEFINE keys == KeysOf(document[node].members)
            Last(k) == LastMember(document[node].members, k).value
<1>1. /\ document \in Documents /\ node \in DOMAIN document
      /\ document[node].kind = "object"
      /\ Current.members = [k \in keys |-> Member(AsRead[k], Last(k))]
  BY CurrentIs DEF AnswerInv
<1>2. \A k \in keys : Lowercase[AsRead[k]] = Lowercase[Key] <=> k = Key
  BY <1>1 DEF ConfusedAt
<1>3. Matches(Key) = {k \in keys : Lowercase[AsRead[k]] = Lowercase[Key]}
  <2>1. DOMAIN Current.members = keys
    BY <1>1
  <2>2. \A k \in keys : Current.members[k].key = AsRead[k]
    BY <1>1 DEF Member
  <2>. QED
    BY <2>1, <2>2 DEF Matches
<1>4. Matches(Key) = {k \in keys : k = Key}
  BY <1>2, <1>3
<1>5. ASSUME NEW k \in Matches(Key)
      PROVE  Means(document, node, Key, Current.members[k].value)
  <2>1. k \in keys /\ k = Key
    BY <1>4
  <2>2. Current.members[k].value = Last(Key)
    BY <1>1, <2>1 DEF Member
  <2>. QED
    BY <1>1, <2>1, <2>2, KeyMeans
<1>6. ASSUME Matches(Key) = {}, NEW c, Means(document, node, Key, c)
      PROVE  FALSE
  <2>1. Key \in keys
    BY <1>1, <1>6, MeantIsKey
  <2>. QED
    BY <1>4, <1>6, <2>1
<1>. QED
  BY <1>5, <1>6

Clear == ~Confused(document, path)

\* What the search has found out about the path.
Followed ==
  Clear =>
    IF step = "done" /\ outcome # "found" /\ path # <<>>
    THEN \A v \in DOMAIN document : ~LeadsTo(document, path, Len(path), v)
    ELSE OnlyLeadsTo(document, path, depth, node)

SearchInv ==
  /\ path \in Seq(Texts)
  /\ depth \in 0 .. Len(path)
  /\ step \notin {"search", "done"} =>
       node = Root /\ depth = 0 /\ outcome = "none" /\ given = "answer"
  /\ step \in {"search", "done"} => node \in DOMAIN answer
  /\ step = "search" => outcome = "none" /\ (path # <<>> => HasKey)
  /\ step = "search" /\ given = "elements" => node = Root
  /\ step = "done" /\ outcome = "found" => depth = Len(path)
  /\ step \in {"search", "done"} /\ given = "answer" => Followed

\* A turn that ends without the element: there is none.
LEMMA TurnEnds ==
  ASSUME AnswerInv, SearchInv, step = "search", given = "answer", HasKey,
         NEW r, r # "found", End(r),
         ~ConfusedAt(document, node, Key) => \A c : ~Means(document, node, Key, c)
  PROVE  SearchInv'
<1>. USE DEF SearchInv
<1>1. /\ document' = document /\ path' = path /\ node' = node /\ depth' = depth
      /\ answer' = answer /\ given' = given
      /\ step' = "done" /\ outcome' = r
  BY DEF End
<1>2. document \in Documents /\ node \in DOMAIN document
  BY CurrentIs DEF AnswerInv
<1>3. path # <<>> /\ depth \in Nat /\ Len(path) \in Nat /\ depth < Len(path)
  BY DEF HasKey
<1>4. ASSUME Clear
      PROVE  \A v \in DOMAIN document : ~LeadsTo(document, path, Len(path), v)
  <2>1. OnlyLeadsTo(document, path, depth, node)
    BY <1>4 DEF Followed
  <2>2. depth \in 0 .. Len(path) - 1
    BY <1>3
  <2>3. ~ConfusedAt(document, node, path[depth + 1])
    BY <1>2, <1>4, <2>1, <2>2 DEF Clear, Confused, OnlyLeadsTo
  <2>4. \A c \in DOMAIN document : ~Means(document, node, path[depth + 1], c)
    BY <2>3 DEF Key
  <2>. QED
    BY <1>2, <1>3, <2>1, <2>4, DeadEnd
<1>5. Clear' = Clear
  BY <1>1 DEF Clear
<1>6. Followed'
  BY <1>1, <1>4, <1>5, <1>3 DEF Followed
<1>. QED
  BY <1>1, <1>6

\* A turn that goes on: to where the next key leads.
LEMMA TurnGoesOn ==
  ASSUME AnswerInv, SearchInv, step = "search", given = "answer", HasKey,
         NEW c \in DOMAIN answer, Enter(c),
         ~ConfusedAt(document, node, Key) => Means(document, node, Key, c)
  PROVE  SearchInv'
<1>. USE DEF SearchInv
<1>1. /\ document' = document /\ path' = path /\ node' = c /\ depth' = depth + 1
      /\ answer' = answer /\ given' = given
      /\ \/ depth + 1 = Len(path) /\ step' = "done" /\ outcome' = "found"
         \/ depth + 1 # Len(path) /\ step' = "search" /\ outcome' = "none"
  BY DEF Enter, PathUsedUp
<1>2. /\ document \in Documents /\ node \in DOMAIN document
      /\ c \in DOMAIN document
  BY CurrentIs, ConvertedIsWhole DEF AnswerInv
<1>3. path # <<>> /\ depth \in Nat /\ Len(path) \in Nat /\ depth < Len(path)
  BY DEF HasKey
<1>4. ASSUME Clear
      PROVE  OnlyLeadsTo(document, path, depth + 1, c)
  <2>1. OnlyLeadsTo(document, path, depth, node)
    BY <1>4 DEF Followed
  <2>2. depth \in 0 .. Len(path) - 1
    BY <1>3
  <2>3. ~ConfusedAt(document, node, path[depth + 1])
    BY <1>2, <1>4, <2>1, <2>2 DEF Clear, Confused, OnlyLeadsTo
  <2>4. Means(document, node, path[depth + 1], c)
    BY <2>3 DEF Key
  <2>. QED
    BY <1>2, <1>3, <2>1, <2>4, OnlyLeadsToNext
<1>5. Clear' = Clear
  BY <1>1 DEF Clear
<1>6. Followed'
  BY <1>1, <1>4, <1>5 DEF Followed
<1>7. depth' \in 0 .. Len(path') /\ (step' = "search" => HasKey')
  BY <1>1, <1>3 DEF HasKey
<1>. QED
  BY <1>1, <1>6, <1>7

LEMMA SearchInvariant == JsonSpec => []SearchInv
<1>1. JsonInit => SearchInv
  BY DEF JsonInit, SearchInv
<1>2. AnswerInv /\ SearchInv /\ [JsonNext]_jsonVars => SearchInv'
  <2>. SUFFICES ASSUME AnswerInv, SearchInv, [JsonNext]_jsonVars
                PROVE  SearchInv'
    OBVIOUS
  <2>1. CASE StringifyJSONtoSQF \/ CallCompile
    BY <2>1 DEF StringifyJSONtoSQF, CallCompile, SearchInv, callVars
  <2>2. CASE Call
    <3>1. /\ step = "compiled" /\ step' = "search" /\ document' = document
          /\ answer' = answer /\ node' = node /\ depth' = depth /\ outcome' = outcome
          /\ path' \in Paths /\ given' \in {"answer", "elements"}
      BY <2>2 DEF Call
    <3>2. document \in Documents /\ Root \in DOMAIN answer
      BY <3>1, ConvertedIsWhole DEF AnswerInv
    <3>3. node = Root /\ depth = 0 /\ outcome = "none"
      BY <3>1 DEF SearchInv
    <3>4. path' \in Seq(Texts) /\ Len(path') \in Nat /\ (path' # <<>> => HasKey')
      BY <3>1, <3>3, PathsAssumption DEF HasKey
    <3>5. OnlyLeadsTo(document', path', depth', node')
      BY <3>1, <3>2, <3>3, LeadsToRoot DEF OnlyLeadsTo
    <3>6. Followed'
      BY <3>1, <3>5 DEF Followed
    <3>. QED
      BY <3>1, <3>2, <3>3, <3>4, <3>6 DEF SearchInv
  <2>3. CASE SearchArray
    <3>1. /\ step = "search" /\ given = "answer" /\ HasKey /\ Current.kind = "a"
          /\ node \in DOMAIN answer
      BY <2>3 DEF SearchArray, Search, SearchInv
    <3>2. ~ConfusedAt(document, node, Key) => Key \in Numerals
      BY <3>1, CurrentIs DEF ConfusedAt
    <3>. DEFINE index == ParseNumber[Key]
    <3>3. CASE OutOfBounds(index)
      <4>1. End("outOfBounds")
        BY <2>3, <3>3 DEF SearchArray
      <4>. QED
        BY <3>1, <3>2, <3>3, <4>1, ArrayTurn, TurnEnds
    <3>4. CASE ~OutOfBounds(index) /\ index < 0
      <4>1. End("undefined")
        BY <2>3, <3>4 DEF SearchArray
      <4>. QED
        BY <3>1, <3>2, <3>4, <4>1, ArrayTurn, TurnEnds
    <3>5. CASE ~OutOfBounds(index) /\ ~(index < 0)
      <4>. DEFINE c == Current.members[index + 1].value
      <4>1. Enter(c)
        BY <2>3, <3>5 DEF SearchArray
      <4>2. path \in Seq(Texts) /\ depth \in 0 .. Len(path)
        BY DEF SearchInv
      <4>3. Key \in Texts
        BY <3>1, <4>2 DEF Key, HasKey
      <4>4. index \in Int /\ index >= 0
        BY <3>5, <4>3, PathsAssumption
      <4>5. index + 1 \in DOMAIN Current.members
        <5>1. /\ Current.members = document[node].members
              /\ document[node].members \in Seq([key : Texts, value : DOMAIN document])
          BY <3>1, CurrentIs
        <5>2. Len(Current.members) \in Nat /\ DOMAIN Current.members = 1 .. Len(Current.members)
          BY <5>1
        <5>. QED
          BY <3>5, <4>4, <5>2 DEF OutOfBounds
      <4>6. c \in DOMAIN answer
        BY <3>1, <4>5, CurrentIs
      <4>7. ~ConfusedAt(document, node, Key) => Means(document, node, Key, c)
        BY <3>1, <3>2, <3>5, <4>4, ArrayTurn
      <4>. HIDE DEF c
      <4>. QED
        BY <3>1, <4>1, <4>6, <4>7, TurnGoesOn
    <3>. QED
      BY <3>3, <3>4, <3>5
  <2>4. CASE SearchObject
    <3>1. /\ step = "search" /\ given = "answer" /\ HasKey /\ Current.kind = "o"
          /\ node \in DOMAIN answer
      BY <2>4 DEF SearchObject, Search, SearchInv
    <3>2. CASE Matches(Key) = {} /\ (End("undefined") \/ End("keyNotFound"))
      BY <3>1, <3>2, ObjectTurn, TurnEnds
    <3>3. ASSUME NEW k \in Matches(Key), Enter(Current.members[k].value)
          PROVE  SearchInv'
      <4>. DEFINE c == Current.members[k].value
      <4>1. c \in DOMAIN answer
        BY <3>1, CurrentIs DEF Matches
      <4>2. ~ConfusedAt(document, node, Key) => Means(document, node, Key, c)
        BY <3>1, ObjectTurn
      <4>3. Enter(c)
        BY <3>3
      <4>. HIDE DEF c
      <4>. QED
        BY <3>1, <4>1, <4>2, <4>3, TurnGoesOn
    <3>4. DOMAIN Current.members = {} => Matches(Key) = {}
      BY DEF Matches
    <3>. QED
      BY <2>4, <3>2, <3>3, <3>4 DEF SearchObject
  <2>5. CASE SearchCorrupt
    BY <2>5 DEF SearchCorrupt, End, SearchInv
  <2>6. CASE SearchUndefined
    <3>1. step = "search" /\ End("undefined") /\ node \in DOMAIN answer
      BY <2>6 DEF SearchUndefined, SearchInv
    <3>2. CASE given = "answer" /\ HasKey
      <4>1. Current.kind \notin {"a", "o"}
        BY <2>6, <3>2 DEF SearchUndefined
      <4>2. \A c : ~Means(document, node, Key, c)
        BY <3>1, <4>1, CurrentIs DEF Means
      <4>. QED
        BY <3>1, <3>2, <4>2, TurnEnds
    <3>3. CASE given = "answer" /\ ~HasKey
      <4>1. path = <<>>
        BY <3>1, <3>3 DEF SearchInv
      <4>2. Followed
        BY <3>1, <3>3 DEF SearchInv
      <4>3. /\ document' = document /\ path' = path /\ node' = node /\ depth' = depth
            /\ answer' = answer /\ given' = given /\ step' = "done"
            /\ outcome' = "undefined"
        BY <3>1 DEF End
      <4>4. Clear' = Clear
        BY <4>3 DEF Clear
      <4>5. Followed'
        BY <3>1, <4>1, <4>2, <4>3, <4>4 DEF Followed
      <4>. QED
        BY <3>1, <4>3, <4>5 DEF SearchInv
    <3>4. CASE given # "answer"
      BY <3>1, <3>4 DEF End, SearchInv
    <3>. QED
      BY <3>2, <3>3, <3>4
  <2>7. CASE UNCHANGED jsonVars
    <3>1. /\ document' = document /\ path' = path /\ node' = node /\ depth' = depth
          /\ answer' = answer /\ given' = given /\ step' = step /\ outcome' = outcome
      BY <2>7 DEF jsonVars, callVars
    <3>2. Clear' = Clear /\ HasKey' = HasKey
      BY <3>1 DEF Clear, HasKey
    <3>3. Followed' = Followed
      BY <3>1, <3>2 DEF Followed
    <3>. QED
      BY <3>1, <3>2, <3>3 DEF SearchInv
  <2>. QED
    BY <2>1, <2>2, <2>3, <2>4, <2>5, <2>6, <2>7 DEF JsonNext
<1>. QED
  BY <1>1, <1>2, AnswerInvariant, PTL DEF JsonSpec

(***************************************************************************)
(* In any document, along any path that does not meet a key SQF confuses,  *)
(* getJsonElement ends with the element the path means in the document if  *)
(* there is one, and ends without one only if there is none.               *)
(***************************************************************************)
THEOREM SearchCorrect == JsonSpec => []FindsTheElement
<1>1. ASSUME SearchInv, step = "done", given = "answer", path # <<>>,
             ~Confused(document, path)
      PROVE  IF outcome = "found" THEN LeadsTo(document, path, Len(path), node)
             ELSE \A v \in DOMAIN document : ~LeadsTo(document, path, Len(path), v)
  <2>1. Followed /\ Clear
    BY <1>1 DEF SearchInv, Clear
  <2>2. outcome = "found" => depth = Len(path)
    BY <1>1 DEF SearchInv
  <2>. QED
    BY <1>1, <2>1, <2>2 DEF Followed, OnlyLeadsTo
<1>2. SearchInv => FindsTheElement
  BY <1>1 DEF FindsTheElement
<1>. QED
  BY <1>2, SearchInvariant, PTL

\* The function gives no answer at all in the cases MissingIsReported lists, and
\* in no other.
THEOREM MissingCorrect == JsonSpec => []MissingIsReported
<1>1. JsonInit => MissingIsReported
  BY DEF JsonInit, MissingIsReported
<1>2. SearchInv /\ MissingIsReported /\ [JsonNext]_jsonVars => MissingIsReported'
  <2>. SUFFICES ASSUME SearchInv, MissingIsReported, [JsonNext]_jsonVars
                PROVE  MissingIsReported'
    OBVIOUS
  <2>1. ASSUME outcome' # "undefined"
        PROVE  MissingIsReported'
    BY <2>1 DEF MissingIsReported
  <2>2. CASE StringifyJSONtoSQF \/ CallCompile \/ Call
    <3>1. outcome' = "none"
      BY <2>2 DEF StringifyJSONtoSQF, CallCompile, Call, callVars, SearchInv
    <3>. QED
      BY <2>1, <3>1
  <2>. DEFINE Unanswered ==
         \/ given = "elements" /\ NoElement
         \/ path = <<>>
         \/ Current.kind \notin {"a", "o"}
         \/ HasKey /\ (IF Current.kind = "o" THEN DOMAIN Current.members = {}
                                             ELSE ParseNumber[Key] < 0)
  <2>3. ASSUME End("undefined"), Unanswered
        PROVE  MissingIsReported'
    <3>1. /\ answer' = answer /\ node' = node /\ given' = given
          /\ path' = path /\ depth' = depth
      BY <2>3 DEF End
    <3>2. Current' = Current /\ Key' = Key /\ HasKey' = HasKey
      BY <3>1 DEF Current, Key, HasKey
    <3>3. NoElement' = NoElement
      BY <3>1, <3>2 DEF NoElement
    <3>. QED
      BY <2>3, <3>1, <3>2, <3>3 DEF MissingIsReported
  <2>4. CASE SearchArray
    <3>1. CASE End("undefined")
      <4>1. HasKey /\ Current.kind = "a" /\ ParseNumber[Key] < 0
        BY <2>4, <3>1 DEF SearchArray, Search, End, Enter
      <4>. QED
        BY <2>3, <3>1, <4>1
    <3>2. CASE ~End("undefined")
      <4>1. step = "search" /\ outcome = "none"
        BY <2>4 DEF SearchArray, Search, SearchInv
      <4>2. outcome' # "undefined"
        BY <2>4, <3>2, <4>1 DEF SearchArray, Enter, End
      <4>. QED
        BY <2>1, <4>2
    <3>. QED
      BY <3>1, <3>2
  <2>5. CASE SearchObject
    <3>1. step = "search" /\ outcome = "none" /\ HasKey /\ Current.kind = "o"
      BY <2>5 DEF SearchObject, Search, SearchInv
    <3>2. CASE DOMAIN Current.members = {} /\ End("undefined")
      BY <2>3, <3>1, <3>2
    <3>3. CASE ~(DOMAIN Current.members = {} /\ End("undefined"))
      <4>1. outcome' # "undefined"
        BY <2>5, <3>1, <3>3 DEF SearchObject, Enter, End
      <4>. QED
        BY <2>1, <4>1
    <3>. QED
      BY <3>2, <3>3
  <2>6. CASE SearchCorrupt
    BY <2>1, <2>6 DEF SearchCorrupt, End
  <2>7. CASE SearchUndefined
    <3>1. step = "search" /\ End("undefined")
      BY <2>7 DEF SearchUndefined
    <3>2. ~HasKey => path = <<>>
      BY <3>1 DEF SearchInv
    <3>3. Unanswered
      BY <2>7, <3>2 DEF SearchUndefined
    <3>. QED
      BY <2>3, <3>1, <3>3
  <2>8. CASE UNCHANGED jsonVars
    <3>1. /\ path' = path /\ node' = node /\ depth' = depth
          /\ answer' = answer /\ given' = given /\ outcome' = outcome
      BY <2>8 DEF jsonVars, callVars
    <3>2. Current' = Current /\ Key' = Key /\ HasKey' = HasKey
      BY <3>1 DEF Current, Key, HasKey
    <3>3. NoElement' = NoElement
      BY <3>1, <3>2 DEF NoElement
    <3>. QED
      BY <3>1, <3>2, <3>3 DEF MissingIsReported
  <2>. QED
    BY <2>2, <2>4, <2>5, <2>6, <2>7, <2>8 DEF JsonNext
<1>. QED
  BY <1>1, <1>2, SearchInvariant, PTL DEF JsonSpec
=============================================================================
