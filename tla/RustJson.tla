------------------------------ MODULE RustJson ------------------------------
(***************************************************************************)
(* The JSON parser and writer of the Rust driver (rust/src/codec/json.rs): *)
(* values that nest, on top of the numbers and strings of RustTokens.      *)
(***************************************************************************)
EXTENDS RustTokens
LOCAL INSTANCE SequencesExt

Null         == [t |-> "null"]
Bool(b)      == [t |-> "bool", b |-> b]
String(s)    == [t |-> "string", s |-> s]
Array(items) == [t |-> "array", items |-> items]
Object(m)    == [t |-> "object", members |-> m]    \* in the order of the text
Member(k, v) == [key |-> k, val |-> v]

(* Json::get, first match; Absent is its None, and that of every accessor. *)
Absent == [t |-> "absent"]
Get(v, key) ==
    IF v.t = "object" /\ \E i \in DOMAIN v.members : v.members[i].key = key
    THEN v.members[SelectInSeq(v.members, LAMBDA m : m.key = key)].val
    ELSE Absent

-----------------------------------------------------------------------------
(* The writer.                                                             *)

WithCommas(texts) ==
    FlattenSeq([i \in DOMAIN texts |-> (IF i = 1 THEN <<>> ELSE <<Comma>>) \o texts[i]])

RECURSIVE Write(_)
Write(v) ==
    CASE v.t = "null"   -> NullText
      [] v.t = "bool"   -> IF v.b THEN TrueText ELSE FalseText
      [] v.t = "number" -> v.raw
      [] v.t = "string" -> WriteString(v.s)
      [] v.t = "array"  ->
            <<OpenArray>> \o WithCommas([i \in DOMAIN v.items |-> Write(v.items[i])])
            \o <<CloseArray>>
      [] v.t = "object" ->
            <<OpenObject>>
            \o WithCommas([i \in DOMAIN v.members |->
                   WriteString(v.members[i].key) \o <<Colon>> \o Write(v.members[i].val)])
            \o <<CloseObject>>

-----------------------------------------------------------------------------
(* The parser.                                                             *)

RECURSIVE ParseValue(_, _), ParseItems(_, _, _), ParseMembers(_, _, _)

(* After '[' or ',' of an array, and after '{' or ',' of an object: one    *)
(* more value, then the end or a comma.                                    *)
AfterItem(t, p, items) ==
    CASE Peek(t, p) = Comma      -> ParseItems(t, p + 1, items)
      [] Peek(t, p) = CloseArray -> Found(p + 1, Array(items))
      [] OTHER -> Fail
ParseItems(t, p, items) ==
    Then(ParseValue(t, p), LAMBDA q, v : AfterItem(t, SkipWs(t, q), Append(items, v)))

AfterMember(t, p, members) ==
    CASE Peek(t, p) = Comma       -> ParseMembers(t, p + 1, members)
      [] Peek(t, p) = CloseObject -> Found(p + 1, Object(members))
      [] OTHER -> Fail
AfterKey(t, p, key, members) ==
    IF Peek(t, p) # Colon THEN Fail
    ELSE Then(ParseValue(t, p + 1), LAMBDA q, v :
             AfterMember(t, SkipWs(t, q), Append(members, Member(key, v))))
ParseMembers(t, p, members) ==
    Then(ParseString(t, SkipWs(t, p)), LAMBDA q, key : AfterKey(t, SkipWs(t, q), key, members))

ValueAt(t, p, c, inner) ==
    CASE c = OpenObject -> IF Peek(t, inner) = CloseObject THEN Found(inner + 1, Object(<<>>))
                           ELSE ParseMembers(t, inner, <<>>)
      [] c = OpenArray  -> IF Peek(t, inner) = CloseArray THEN Found(inner + 1, Array(<<>>))
                           ELSE ParseItems(t, inner, <<>>)
      [] c = Quote      -> Then(ParseString(t, p), LAMBDA q, s : Found(q, String(s)))
      [] c = TrueText[1]  -> ParseLiteral(t, p, TrueText, Bool(TRUE))
      [] c = FalseText[1] -> ParseLiteral(t, p, FalseText, Bool(FALSE))
      [] c = NullText[1]  -> ParseLiteral(t, p, NullText, Null)
      [] c = Minus \/ c \in Digits -> ParseNumber(t, p)
      [] OTHER -> Fail
ParseValue(t, from) ==
    LET p == SkipWs(t, from) IN ValueAt(t, p, Peek(t, p), SkipWs(t, p + 1))

(* parse: one value, and nothing after it but white space.                 *)
Parse(t) ==
    Then(ParseValue(t, 1), LAMBDA p, v :
        IF SkipWs(t, p) = Len(t) + 1 THEN Found(p, v) ELSE Fail)
=============================================================================
