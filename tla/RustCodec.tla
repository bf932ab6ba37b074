------------------------------ MODULE RustCodec -----------------------------
(***************************************************************************)
(* The codec of the Rust driver: Values into request lines                 *)
(* (rust/src/codec/encode.rs) and response lines into results              *)
(* (codec/decode.rs), on top of json.rs and base64.rs.                     *)
(*                                                                         *)
(* i64 is two's complement of IntWidth bits.  An f64 is its exact decimal  *)
(* value, digits * 10^e without zeros at either end: rounding is left out, *)
(* range is not: what is too large is infinite, what is too small is zero. *)
(*                                                                         *)
(* The codec has no state.  What moves here is its input: a line grows     *)
(* piece by piece, a request gets its parameters, a reply its members, and *)
(* every state is one more input on which the properties must hold.        *)
(***************************************************************************)
EXTENDS JsonGrammar, RustScalars
LOCAL INSTANCE SequencesExt
LOCAL INSTANCE FiniteSetsExt

CONSTANTS IntWidth,     \* bits of an integer: 64 in the code
          Params,       \* the values a user may bind
          MaxParams,    \* bound: how many
          Samples,      \* values on the wire, each with what it means by type
          MaxChanges    \* bound: how many members of a reply are not as usual

ASSUME IntWidthAssumption == IntWidth \in Nat \ {0}

MinInt == 0 - 2 ^ (IntWidth - 1)
MaxInt == 2 ^ (IntWidth - 1) - 1

(* value.rs: Value.                                                        *)
NullValue  == [k |-> "null"]
Integer(i) == [k |-> "integer", i |-> i]
Real(r)    == [k |-> "real", r |-> r]
Text(s)    == [k |-> "text", s |-> s]
Blob(b)    == [k |-> "blob", b |-> b]

Finite(neg, digits, e) == [class |-> "finite", neg |-> neg, digits |-> digits, e |-> e]
Infinite(neg)          == [class |-> "inf", neg |-> neg]
NaN                    == [class |-> "nan"]

Ok(val) == [ok |-> TRUE, val |-> val]

(* Field names, shortened: all that counts is that they differ.            *)
Key == [op |-> <<111, 112>>, sql |-> <<115, 113, 108>>, params |-> <<112, 115>>,
        ok |-> <<111, 107>>, error |-> <<101>>, code |-> <<99>>, message |-> <<109>>,
        columns |-> <<99, 115>>, rows |-> <<114, 115>>,
        rows_affected |-> <<114, 97>>, last_insert_id |-> <<108, 105>>, path |-> <<112>>,
        has_data |-> <<104, 100>>, version |-> <<118>>, data_length |-> <<100, 108>>,
        source |-> <<115, 111>>, read_only |-> <<114, 111>>, tables |-> <<116, 97>>,
        schema |-> <<115, 99>>, protocol |-> <<112, 114>>, product |-> <<112, 100>>]

-----------------------------------------------------------------------------
(* Numbers as text.                                                        *)

RECURSIVE DecimalDigits(_)
DecimalDigits(n) == IF n < 10 THEN <<48 + n>>
                    ELSE Append(DecimalDigits(n \div 10), 48 + (n % 10))

(* i64::to_string.                                                         *)
Decimal(i) == IF i < 0 THEN <<Minus>> \o DecimalDigits(0 - i) ELSE DecimalDigits(i)

NumberOf(digits) == FoldLeft(LAMBDA n, d : 10 * n + (d - 48), 0, digits)

IsReal(raw) == \E i \in DOMAIN raw : raw[i] \in ExpMarks \cup {Dot}

Unsigned(raw) == IF raw[1] \in {Minus, Plus} THEN Tail(raw) ELSE raw
Signed(raw)   == IF raw[1] = Minus THEN 0 - NumberOf(Unsigned(raw)) ELSE NumberOf(Unsigned(raw))

(* Fault: the largest magnitude is taken for both signs.                   *)
AsI64_Symmetric(raw) ==
    IF ~IsReal(raw) /\ Signed(raw) \in MinInt..0 - MinInt THEN Ok(Signed(raw)) ELSE Fail

(* i64::from_str: digits only, and in range.                               *)
AsI64(raw) ==
    IF ~IsReal(raw) /\ Signed(raw) \in MinInt..MaxInt THEN Ok(Signed(raw)) ELSE Fail

Zeros(n) == [i \in 1..n |-> 48]

(* The least magnitude that f64 rounds to infinity, 2^1024 - 2^970, and    *)
(* the largest that it rounds to zero, 2^-1075, to 20 digits.              *)
Overflow  == [digits |-> <<1, 7, 9, 7, 6, 9, 3, 1, 3, 4, 8, 6, 2, 3, 1, 5, 8, 0, 7, 9>>,
              exp |-> 308]
Underflow == [digits |-> <<2, 4, 7, 0, 3, 2, 8, 2, 2, 9, 2, 0, 6, 2, 3, 2, 7, 2, 0, 8>>,
              exp |-> 0 - 324]

(* Is it above the limit?  Its first digit counts for 10^exp.              *)
Exceeds(digits, exp, limit) ==
    LET d(i) == IF i \in DOMAIN digits THEN digits[i] - 48 ELSE 0 IN
    \/ exp > limit.exp
    \/ /\ exp = limit.exp
       /\ \E n \in DOMAIN limit.digits :
             /\ d(n) > limit.digits[n]
             /\ \A i \in 1..n - 1 : d(i) = limit.digits[i]

(* EXTERNAL f64::from_str, exact up to rounding.                           *)
AsF64(raw) ==
    LET t      == Unsigned(raw)
        mark   == Min({i \in DOMAIN t : t[i] \in ExpMarks} \cup {Len(t) + 1})
        mant   == SubSeq(t, 1, mark - 1)
        point  == Min({i \in DOMAIN mant : mant[i] = Dot} \cup {Len(mant) + 1})
        all    == SelectSeq(mant, LAMBDA c : c # Dot)
        sig    == {i \in DOMAIN all : all[i] # 48}
        digits == SubSeq(all, Min(sig), Max(sig))
        power  == (IF mark > Len(t) THEN 0 ELSE Signed(SubSeq(t, mark + 1, Len(t))))
                  + point - 1
        exp    == power - Min(sig)
        neg    == raw[1] = Minus
    IN IF sig = {} \/ ~Exceeds(digits, exp, Underflow) THEN Finite(neg, <<>>, 0)
       ELSE IF Exceeds(digits, exp, Overflow) THEN Infinite(neg)
       ELSE Finite(neg, digits, power - Max(sig))

(* EXTERNAL format!("{v:?}"): digits with a point between or after them,   *)
(* or with an exponent.  That an integral value shows a point is how it is *)
(* today and no promise (encode.rs:16-18), so `point` is either.           *)
DebugText(r, point) ==
    LET n    == Len(r.digits)
        sign == IF r.neg THEN <<Minus>> ELSE <<>>
        exp  == r.e + n - 1
    IN IF r.digits = <<>> THEN sign \o <<48>> \o (IF point THEN <<Dot, 48>> ELSE <<>>)
       ELSE IF exp >= 16 \/ exp < 0 - 4
       THEN sign \o <<r.digits[1]>> \o (IF n > 1 THEN <<Dot>> \o Tail(r.digits) ELSE <<>>)
            \o <<101>> \o Decimal(exp)
       ELSE IF r.e >= 0
       THEN sign \o r.digits \o Zeros(r.e) \o (IF point THEN <<Dot, 48>> ELSE <<>>)
       ELSE LET all == Zeros(Max({0, 0 - exp})) \o r.digits  whole == Len(all) + r.e IN
            sign \o SubSeq(all, 1, whole) \o <<Dot>> \o SubSeq(all, whole + 1, Len(all))

-----------------------------------------------------------------------------
(* encode.rs.                                                              *)

RealToken(r, point) ==
    IF IsReal(DebugText(r, point)) THEN DebugText(r, point)
    ELSE DebugText(r, point) \o <<Dot, 48>>

EncodeValue(v, point) ==
    CASE v.k = "null"    -> Ok(Null)
      [] v.k = "integer" -> Ok(Number(Decimal(v.i)))
      [] v.k = "real"    -> IF v.r.class = "finite" THEN Ok(Number(RealToken(v.r, point))) ELSE Fail
      [] v.k = "text"    -> Ok(String(v.s))
      [] v.k = "blob"    -> Ok(Array(<<String(Encode(v.b))>>))

(* No params field for no parameters; an error if one cannot be encoded.   *)
EncodeParams(values, point) ==
    LET encoded == [i \in DOMAIN values |-> EncodeValue(values[i], point)] IN
    IF values = <<>> THEN Ok(<<>>)
    ELSE IF \E i \in DOMAIN values : ~encoded[i].ok THEN Fail
    ELSE Ok(<<Member(Key.params, Array([i \in DOMAIN values |-> encoded[i].val]))>>)

EncodeRequestLine(members) == Write(Object(members)) \o <<Newline>>

(* Session::query and Session::exec: the line, or nothing at all.          *)
RequestLine(op, sql, values, point) ==
    LET params == EncodeParams(values, point) IN
    IF ~params.ok THEN Fail
    ELSE Ok(EncodeRequestLine(
             <<Member(Key.op, String(op)), Member(Key.sql, String(sql))>> \o params.val))

-----------------------------------------------------------------------------
(* decode.rs.                                                              *)

DecodeValue(v) ==
    CASE v.t = "null"   -> Ok(NullValue)
      [] v.t = "number" -> IF IsReal(v.raw) THEN Ok(Real(AsF64(v.raw)))
                           ELSE IF AsI64(v.raw).ok THEN Ok(Integer(AsI64(v.raw).val)) ELSE Fail
      [] v.t = "string" -> Ok(Text(v.s))
      [] v.t = "array"  -> IF /\ Len(v.items) = 1 /\ v.items[1].t = "string"
                              /\ Decodes(v.items[1].s)
                           THEN Ok(Blob(Decode(v.items[1].s))) ELSE Fail
      [] OTHER          -> Fail

(* All of a JSON array, by Item, or an error.                              *)
DecodeAll(v, Item(_)) ==
    IF v.t = "array" /\ \A i \in DOMAIN v.items : Item(v.items[i]).ok
    THEN Ok([i \in DOMAIN v.items |-> Item(v.items[i]).val]) ELSE Fail

DecodeRow(v)  == DecodeAll(v, DecodeValue)
DecodeRows(v) == DecodeAll(v, DecodeRow)

AsStr(v)  == IF v.t = "string" THEN Ok(v.s) ELSE Fail
AsBool(v) == IF v.t = "bool" THEN Ok(v.b) ELSE Fail
AsInt(v)  == IF v.t = "number" THEN AsI64(v.raw) ELSE Fail
AsOptionalInt(v) == IF v.t = "null" THEN Ok(NullValue) ELSE AsInt(v)
AsStrList(v) == DecodeAll(v, AsStr)

(* What each decode_*_response requires, and of which type.                *)
Required == [
    query    |-> [columns |-> "strings", rows |-> "rows"],
    exec     |-> [rows_affected |-> "int", last_insert_id |-> "int"],
    snapshot |-> [path |-> "str"],
    inspect  |-> [has_data |-> "bool", version |-> "optional", data_length |-> "optional",
                  source |-> "str", read_only |-> "bool"],
    tables   |-> [tables |-> "strings"],
    schema   |-> [schema |-> "strings"],
    dump     |-> [sql |-> "str"],
    hello    |-> [protocol |-> "int", version |-> "str", product |-> "str"]]

(* Fault: null is taken for any integer.                                   *)
DecodeField_NullInt(v, type) ==
    CASE type = "str" -> AsStr(v)  [] type = "bool" -> AsBool(v)
      [] type \in {"int", "optional"} -> AsOptionalInt(v)
      [] type = "strings" -> AsStrList(v)  [] type = "rows" -> DecodeRows(v)

DecodeField(v, type) ==
    CASE type = "str" -> AsStr(v)  [] type = "bool" -> AsBool(v)
      [] type = "int" -> AsInt(v)  [] type = "optional" -> AsOptionalInt(v)
      [] type = "strings" -> AsStrList(v)  [] type = "rows" -> DecodeRows(v)

DecodeFields(op, v) ==
    LET Field(f) == DecodeField(Get(v, Key[f]), Required[op][f]) IN
    IF \A f \in DOMAIN Required[op] : Field(f).ok
    THEN Ok([f \in DOMAIN Required[op] |-> Field(f).val]) ELSE Fail

DecodeHello(line) ==
    LET v == Parse(line) IN
    IF v.ok /\ v.val.t = "object" THEN DecodeFields("hello", v.val) ELSE Fail

(* What a call makes of its response line: a result, the server's error,   *)
(* or a protocol error.                                                    *)
Protocol == [kind |-> "protocol"]
ResponseError(v) ==
    LET e == Get(v, Key.error) IN
    IF Get(e, Key.code).t = "string" /\ Get(e, Key.message).t = "string"
    THEN [kind |-> "response", code |-> Get(e, Key.code).s, message |-> Get(e, Key.message).s]
    ELSE Protocol

DecodeResponse(op, line) ==
    LET v == Parse(line) IN
    IF ~v.ok \/ v.val.t # "object" THEN Protocol
    ELSE IF Get(v.val, Key.ok) # Bool(TRUE) THEN ResponseError(v.val)
    ELSE IF DecodeFields(op, v.val).ok
    THEN [kind |-> "ok", result |-> DecodeFields(op, v.val).val] ELSE Protocol

-----------------------------------------------------------------------------
(* Inputs.  A text is a sequence of pieces; a request has parameters; a    *)
(* reply has a sample of Samples, or nothing, for each of its members.     *)

VARIABLES params, op, reply, changes
vars == <<kind, text, size, params, op, reply, changes>>

NoSample  == [wire |-> <<>>, means |-> <<>>]
Meaning(type)  == {x \in Samples : type \in DOMAIN x.means}
Members(o)     == DOMAIN Required[o] \cup (IF o = "hello" THEN {} ELSE {"ok", "error"})
TypeOf(o, f)   == IF f = "ok" THEN "bool" ELSE IF f = "error" THEN "error" ELSE Required[o][f]
UsualReply(o)  == [f \in Members(o) |-> CHOOSE x \in Meaning(TypeOf(o, f)) :
                                           f = "ok" => x.means.bool]

Init ==
    /\ kind \in TextKinds \cup {"params", "reply"}
    /\ op \in IF kind = "reply" THEN DOMAIN Required ELSE {"query"}
    /\ reply = UsualReply(op)
    /\ NoText /\ params = <<>> /\ changes = 0

Bind ==
    /\ kind = "params" /\ Len(params) < MaxParams
    /\ \E v \in Params : params' = Append(params, v)
    /\ UNCHANGED <<textVars, op, reply, changes>>

Change ==
    /\ kind = "reply" /\ changes < MaxChanges
    /\ changes' = changes + 1
    /\ \E f \in Members(op), x \in Samples \cup {NoSample} : reply' = [reply EXCEPT ![f] = x]
    /\ UNCHANGED <<textVars, params, op>>

Next == (Grow /\ UNCHANGED <<params, op, reply, changes>>) \/ Bind \/ Change
Spec == Init /\ [][Next]_vars

-----------------------------------------------------------------------------
(* The hand-written parser (json.rs:136-394) accepts JSON and nothing      *)
(* else, and finds the one value the grammar gives the text.               *)
ParsesExactlyJson ==
    kind \in TextKinds =>
        LET found == Parse(text) IN
        Elements(text) = IF found.ok THEN {found.val} ELSE {}

Exponent(t) == IF \E i \in DOMAIN t : t[i] \in ExpMarks
               THEN CHOOSE i \in DOMAIN t : t[i] \in ExpMarks ELSE Len(t) + 1
Fraction(t) == IF \E i \in DOMAIN t : t[i] = Dot
               THEN Exponent(t) - 1 - (CHOOSE i \in DOMAIN t : t[i] = Dot) ELSE 0
Magnitude(t) == LET d == SelectSeq(Upto(t, Exponent(t) - 1), LAMBDA c : c \in Digits) IN
                FoldFunctionOnSet(+, 0, [i \in DOMAIN d |-> (d[i] - 48) * 10 ^ (Len(d) - i)], DOMAIN d)

(* A number of a response is the INTEGER it spells, or an error beyond the *)
(* 64 bits, never a rounded or wrapped one; with a point or an exponent it *)
(* is a REAL even if it is integral, infinite above the range of f64, zero *)
(* below it and nowhere else (json.rs:97-117, decode.rs:112-131).          *)
NumbersExact ==
    kind = "number" /\ IsNumber(text) =>
        LET v == DecodeValue(Number(text))
            i == (IF text[1] = Minus THEN 0 - 1 ELSE 1) * Magnitude(text)
        IN IF ~\E c \in ExpMarks \cup {Dot} : c \in {text[j] : j \in DOMAIN text}
           THEN v = IF MinInt <= i /\ i <= MaxInt THEN Ok(Integer(i)) ELSE Fail
           ELSE LET m      == Magnitude(text)
                    r      == v.val.r
                    exp    == IF Exponent(text) > Len(text) THEN 0
                              ELSE Signed(From(text, Exponent(text) + 1))
                    lowest == exp - Fraction(text)
                    AtLeast(e) == \E k \in 0..6 : m >= 10 ^ k /\ k + lowest >= e
                IN /\ v.ok /\ v.val.k = "real" /\ r.neg = (text[1] = Minus)
                   /\ AtLeast(309) => r.class = "inf"
                   /\ r.class = "inf" => AtLeast(308)
                   /\ r.class = "finite" =>
                         IF r.digits = <<>> THEN ~AtLeast(0 - 323)
                         ELSE /\ AtLeast(0 - 324)
                              /\ NumberOf(r.digits) * 10 ^ (r.e - lowest) = m

(* What a user binds is what a server that speaks JSON is asked: a request *)
(* is one line whatever the SQL and the texts contain, its values read     *)
(* back as the same values of the same type (88.0 is no INTEGER), and with *)
(* a value that JSON cannot carry nothing is sent (encode.rs, json.rs).    *)
RequestsSurvive ==
    kind = "params" =>
        \A v \in Meaning("str"), point \in BOOLEAN :
            LET sql  == v.means["str"]
                line == RequestLine(<<113>>, sql, params, point)
                sent == Parse(Front(line.val)).val
            IN IF \E i \in DOMAIN params : params[i].k = "real" /\ params[i].r.class # "finite"
               THEN ~line.ok
               ELSE /\ line.ok
                    /\ \A i \in DOMAIN line.val : line.val[i] = Newline <=> i = Len(line.val)
                    /\ Parse(Front(line.val)).ok
                    /\ Get(sent, Key.op) = String(<<113>>) /\ Get(sent, Key.sql) = String(sql)
                    /\ IF params = <<>> THEN Get(sent, Key.params) = Absent
                       ELSE DecodeRow(Get(sent, Key.params)) = Ok(params)

ReplyLine ==
    LET OnWire(f) == WriteString(Key[f]) \o <<Colon>> \o reply[f].wire IN
    <<OpenObject>>
    \o FoldSet(LAMBDA f, line : IF line = <<>> THEN OnWire(f) ELSE line \o <<Comma>> \o OnWire(f),
               <<>>, {f \in Members(op) : reply[f] # NoSample})
    \o <<CloseObject>>

Means(f)   == TypeOf(op, f) \in DOMAIN reply[f].means
Meant(f)   == reply[f].means[TypeOf(op, f)]
Complete   == \A f \in DOMAIN Required[op] : Means(f)
Result     == [f \in DOMAIN Required[op] |-> Meant(f)]

(* A reply is taken for a result only if every member the operation has is *)
(* there with its type and its range, and then exactly with the values of  *)
(* the wire; for the server's error only if it is a whole one; anything    *)
(* else is a protocol error, never a partial or a defaulted result         *)
(* (decode.rs:69-290).                                                     *)
RepliesStrict ==
    kind = "reply" =>
        IF op = "hello"
        THEN DecodeHello(ReplyLine) = IF Complete THEN Ok(Result) ELSE Fail
        ELSE DecodeResponse(op, ReplyLine) =
                IF Means("ok") /\ Meant("ok")
                THEN IF Complete THEN [kind |-> "ok", result |-> Result] ELSE Protocol
                ELSE IF Means("error")
                THEN [kind |-> "response", code |-> Meant("error").code,
                      message |-> Meant("error").message]
                ELSE Protocol
=============================================================================
