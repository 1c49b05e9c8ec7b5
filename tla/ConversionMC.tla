---------------------------- MODULE ConversionMC ----------------------------
(* Documents, paths and arguments for checking JobParams and JsonElement.  *)
(* A behavior is the construction of one job, or the way of one answer.    *)
EXTENDS JobParams, JsonElement, SequencesExt

MCTexts == {"", "A", "a", "0", "1", "-1", "q", "u", "\\u"}
MCQuoted == {"q"}
MCAsRead == [t \in MCTexts |-> IF t = "u" THEN "\\u" ELSE t]
MCRank == [t \in MCTexts |->
  CHOOSE i \in 1 .. 9 : <<"", "-1", "0", "1", "A", "\\u", "a", "q", "u">>[i] = t]
MCNumerals == {"0", "1"}
MCParseNumber == [t \in MCTexts |-> CASE t = "1" -> 1 [] t = "-1" -> -1 [] OTHER -> 0]
MCLowercase == [t \in MCTexts |-> IF t = "A" THEN "a" ELSE t]
MCPaths == BoundedSeq({"A", "a", "0", "1", "-1", "u"}, 2)

MCRoot == 0

\* What a member of the outermost value can be, and what is in that in turn,
\* value c.
Leaf(kind, text) == Value(kind, text, <<>>)
Inner(c) ==
  {Leaf("number", "1"), Leaf("null", ""), Leaf("string", "q"), Leaf("string", "u"),
   Leaf("array", ""), Value("array", "", <<Member("", c)>>),
   Leaf("object", ""), Value("object", "", <<Member("a", c)>>)}

MCDocument(kind, members) ==
  LET n == Len(members)
      inner == {i \in 1 .. n : members[i].is.members # <<>>}
  IN  [v \in 0 .. n \cup {i + 2 : i \in inner} |->
         CASE v = 0 -> Value(kind, "", [i \in 1 .. n |-> Member(members[i].key, i)])
           [] v \in 1 .. n -> members[v].is
           [] OTHER -> Leaf("number", "1")]

MCDocuments ==
  LET Bodies(keys) ==
        {<<>>} \cup {<<m>> : m \in [key : keys, is : Inner(3)]}
          \cup {<<m, n>> : m \in [key : keys, is : Inner(3)], n \in [key : keys, is : Inner(4)]}
  IN  {MCDocument("array", b) : b \in Bodies({""})}
        \cup {MCDocument("object", b) : b \in Bodies({"A", "a", "0", "u"})}
        \cup {MCDocument("object", <<[key |-> "q", is |-> Leaf("null", "")]>>)}

MCScalars == {"a", "A", "u"}
Param(kind, members) == [kind |-> kind, members |-> members]
MCArguments ==
  {Malformed, Param("other", <<>>)}
    \cup {Param("array", s) : s \in BoundedSeq(
            {Param("array", <<"a", "u">>), Param("array", <<"a", "A">>),
             Param("array", <<"A", "a", "u">>), Param("array", <<"a">>),
             Param("array", <<"a", Null>>), Param("other", <<>>)}, 2)}
MCUrls == {[chars |-> c, blanks |-> b] : c \in {0, 2, 3}, b \in {0, 2}}

Init ==
  \/ /\ ParamsInit
     /\ document = <<>> /\ step = "idle" /\ answer = <<>> /\ given = "answer"
     /\ node = 0 /\ path = <<>> /\ depth = 0 /\ outcome = "none"
  \/ /\ JsonInit
     /\ params = <<>> /\ stage = "idle" /\ m_query_target = NoUrl
     /\ m_query_params = <<>> /\ m_query_arguments = {} /\ m_valid = TRUE
     /\ m_result = "" /\ sent = NotSent

Next ==
  \/ ParamsNext /\ UNCHANGED jsonVars
  \/ JsonNext /\ UNCHANGED jobVars

Spec == Init /\ [][Next]_<<jobVars, jsonVars>>
=============================================================================
