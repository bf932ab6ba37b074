---------------------------- MODULE JsonGrammar -----------------------------
(***************************************************************************)
(* Reference: JSON as RFC 8259 has it, as a grammar.  Values(t) is the set *)
(* of values the text t stands for: none if it is not JSON, and never more *)
(* than one.  A rule says how a text splits, not how to read it from left  *)
(* to right: nothing of the parser is in here but the values.              *)
(***************************************************************************)
EXTENDS RustJson, JsonTokens

RECURSIVE Values(_), ItemLists(_), MemberLists(_)

(* ws value ws                                                             *)
Padded(t, Meaning(_)) ==
    UNION {Meaning(SubSeq(t, i, j)) : <<i, j>> \in
        {x \in (1..Len(t)) \X (1..Len(t)) : /\ x[1] <= x[2]
                                            /\ {t[x[1]], t[x[2]]} \cap Whitespace = {}
                                            /\ All(Upto(t, x[1] - 1), Whitespace)
                                            /\ All(From(t, x[2] + 1), Whitespace)}}
Elements(t) == Padded(t, Values)
Commas(t)   == {i \in DOMAIN t : t[i] = Comma}
Colons(t)   == {i \in DOMAIN t : t[i] = Colon}

ItemLists(t) ==
    {<<v>> : v \in Elements(t)} \cup
    UNION {{<<v>> \o l : v \in Elements(Upto(t, i - 1)), l \in ItemLists(From(t, i + 1))} :
              i \in Commas(t)}
OneMember(t) ==
    UNION {{Member(k, v) : k \in Padded(Upto(t, i - 1), Strings), v \in Elements(From(t, i + 1))} :
              i \in Colons(t)}
MemberLists(t) ==
    {<<m>> : m \in OneMember(t)} \cup
    UNION {{<<m>> \o l : m \in OneMember(Upto(t, i - 1)), l \in MemberLists(From(t, i + 1))} :
              i \in Commas(t)}

Values(t) ==
    LET inner == SubSeq(t, 2, Len(t) - 1) IN
    (IF t = NullText THEN {Null} ELSE {})
    \cup {Bool(b) : b \in {x \in BOOLEAN : t = (IF x THEN TrueText ELSE FalseText)}}
    \cup {Number(x) : x \in {y \in {t} : IsNumber(y)}}
    \cup {String(s) : s \in Strings(t)}
    \cup (IF ~Enclosed(t, OpenArray, CloseArray) THEN {}
          ELSE IF All(inner, Whitespace) THEN {Array(<<>>)}
          ELSE {Array(l) : l \in ItemLists(inner)})
    \cup (IF ~Enclosed(t, OpenObject, CloseObject) THEN {}
          ELSE IF All(inner, Whitespace) THEN {Object(<<>>)}
          ELSE {Object(l) : l \in MemberLists(inner)})
=============================================================================
