-------------------------------- MODULE Json --------------------------------
(***************************************************************************)
(* The JSON reader and writer (Parsers/JSON.c, JSON.h).  A cursor is the   *)
(* text in front of it, so a reader that does not advance gives back the   *)
(* text it was given.  A caller's reader, a block of JR_ macros, is a      *)
(* shape: an integer, float, string or boolean, an object by the keys it   *)
(* asks for in order, or an array by the shape of its items.               *)
(***************************************************************************)
EXTENDS Scan

IntShape == [t |-> "int"]
FloatShape == [t |-> "flt"]
StrShape == [t |-> "str"]
BoolShape == [t |-> "bool"]
ObjectOf(fields) == [t |-> "obj", fields |-> fields]   \* <<key, shape>> each
ArrayOf(item) == [t |-> "arr", item |-> item]

RECURSIVE Zeroed(_)
Zeroed(shape) ==
    CASE shape.t = "int" -> 0
      [] shape.t = "flt" -> Dec(FALSE, 0, 0)
      [] shape.t = "bool" -> FALSE
      [] shape.t = "obj" -> [k \in DOMAIN shape.fields |-> Zeroed(shape.fields[k][2])]
      [] OTHER -> << >>

Cursor(rest, v) == [rest |-> rest, v |-> v]
JSkipWhitespace(s) == From(s, Leading(s, Letters(" \t\r\n")))

JsonEscapes == [c \in Letters("\\\"/bfnrt") |->
                  CASE c = "b" -> BS [] c = "f" -> "\f" [] c = "n" -> "\n" [] c = "r" -> "\r" [] c = "t" -> "\t" [] OTHER -> c]

\* The end of the text closes a string too.
RECURSIVE StringFrom(_, _, _)
StringFrom(start, s, str) ==
    CASE s = << >> -> Cursor(s, str)
      [] OneOf(s, {"\""}) -> Cursor(Tail(s), str)
      [] OneOf(s, {"\\"}) -> IF OneOf(Tail(s), DOMAIN JsonEscapes) THEN StringFrom(start, From(s, 2), Append(str, JsonEscapes[s[2]]))
                             ELSE Cursor(start, << >>)
      [] OTHER -> StringFrom(start, Tail(s), Append(str, s[1]))
JReadString(s) ==
    LET t == JSkipWhitespace(s) IN IF OneOf(t, {"\""}) THEN StringFrom(s, Tail(t), << >>) ELSE Cursor(t, << >>)

\* How far the characters of a number go: a second exponent, a point behind
\* either, or a sign out of place makes it none.
RECURSIVE NumberToken(_, _, _)
NumberToken(s, n, seen) ==
    LET c == s[n + 1]
        Takes(flags) == IF flags \subseteq seen THEN NotParsed ELSE NumberToken(s, n + 1, seen \cup flags)
    IN  CASE n >= Len(s) -> [ok |-> TRUE, n |-> n, flt |-> "flt" \in seen]
          [] n < Len(s) /\ c \in {"e", "E"} -> IF "exp" \in seen THEN NotParsed ELSE Takes({"exp", "flt"})
          [] n < Len(s) /\ c = "." -> Takes({"flt"})
          [] n < Len(s) /\ c \in {"+", "-"} -> IF "exp" \in seen THEN Takes({"sign"}) ELSE NotParsed
          [] n < Len(s) /\ c \in IS_DIGIT -> NumberToken(s, n + 1, seen)
          [] OTHER -> [ok |-> TRUE, n |-> n, flt |-> "flt" \in seen]

\* The sign is put on after the conversion, which saturates.  Whatever follows
\* the part that converts is dropped: 1e is 1.
JReadNumber(s) ==
    LET t == JSkipWhitespace(s)
        negative == OneOf(t, {"-"})
        body == IF negative THEN Tail(t) ELSE t
        token == NumberToken(body, 0, {})
        ns == SubSeq(body, 1, token.n)
        value == IF token.flt THEN ZstrToF64(ns) ELSE ZstrInteger(ns)
    IN  IF ~token.ok THEN Cursor(s, NotParsed)
        ELSE IF token.n = 0 \/ value.used = 0 THEN Cursor(s, NotParsed)
        ELSE Cursor(From(body, token.n),
                    [is_float |-> token.flt,
                     v |-> IF ~negative THEN value.v ELSE IF token.flt THEN [value.v EXCEPT !.negative = ~@] ELSE -value.v])

Whole(n) == Dec(n < 0, IF n < 0 THEN -n ELSE n, 0)
JReadInteger(s, val) ==
    LET num == JReadNumber(s) IN IF num.rest = s \/ num.v.is_float THEN Cursor(s, val) ELSE Cursor(num.rest, num.v.v)
JReadFloat(s, val) ==
    LET num == JReadNumber(s)
    IN  IF num.rest = s THEN Cursor(s, val) ELSE Cursor(num.rest, IF num.v.is_float THEN num.v.v ELSE Whole(num.v.v))

JReadBool(s, b) ==
    LET t == JSkipWhitespace(s)
    IN  CASE starts_with(t, Chars("true")) -> Cursor(From(t, 4), TRUE)
          [] starts_with(t, Chars("false")) -> Cursor(From(t, 5), FALSE)
          [] OTHER -> Cursor(s, b)
JReadNull(s) ==
    LET t == JSkipWhitespace(s) IN IF starts_with(t, Chars("null")) THEN Cursor(From(t, 4), TRUE) ELSE Cursor(s, FALSE)

RECURSIVE JSkipValue(_), JRead(_, _, _), Members(_, _, _, _, _), ArrayItems(_, _, _, _, _)

\* An object or array nobody asks for: no key is read, no item kept.
JSkipObject(s) == Members(s, JSkipWhitespace(Tail(s)), << >>, FALSE, << >>)
JSkipArray(s) == ArrayItems(s, JSkipWhitespace(Tail(s)), << >>, FALSE, << >>)

\* Nothing to skip, and a character that starts no value, leave the cursor
\* behind the white space.
JSkipValue(s) ==
    LET t == JSkipWhitespace(s)
        Past(rest) == IF rest = t THEN s ELSE rest
    IN  CASE OneOf(t, {"t", "f"}) -> Past(JReadBool(t, FALSE).rest)
          [] OneOf(t, {"n"}) -> Past(JReadNull(t).rest)
          [] OneOf(t, {"\""}) -> Past(JReadString(t).rest)
          [] OneOf(t, IS_DIGIT \cup {"-"}) -> Past(JReadNumber(t).rest)
          [] OneOf(t, {"{"}) -> Past(JSkipObject(t).rest)
          [] OneOf(t, {"["}) -> Past(JSkipArray(t).rest)
          [] OTHER -> t

\* `was` is what the caller's variable holds.  A scalar that cannot be read is
\* set to zero.
JR_STR(s) == JReadString(s)
JR_INT(s) == JReadInteger(s, 0)
JR_FLT(s) == JReadFloat(s, Zeroed(FloatShape))
JR_BOOL(s) == JReadBool(s, FALSE)
JR_ARR(s, item, was) ==
    LET t == JSkipWhitespace(s)
    IN  IF OneOf(t, {"["}) THEN ArrayItems(s, JSkipWhitespace(Tail(t)), <<item>>, FALSE, was) ELSE Cursor(s, was)
JR_OBJ(s, fields, was) ==
    LET t == JSkipWhitespace(s)
    IN  IF OneOf(t, {"{"}) THEN Members(s, JSkipWhitespace(Tail(t)), fields, FALSE, was) ELSE Cursor(s, was)
JRead(s, shape, was) ==
    CASE shape.t = "int" -> JR_INT(s)
      [] shape.t = "flt" -> JR_FLT(s)
      [] shape.t = "str" -> JR_STR(s)
      [] shape.t = "bool" -> JR_BOOL(s)
      [] shape.t = "obj" -> JR_OBJ(s, shape.fields, was)
      [] shape.t = "arr" -> JR_ARR(s, shape.item, was)

\* The caller's JR_..._KV lines, one after the other, on one key.
ReadField(s, fields, key, was) ==
    FoldLeft(LAMBDA done, k :
               LET r == JRead(done.rest, fields[k][2], done.v[k])
               IN  IF str_cmp_zstr(key, fields[k][1]) = 0 THEN Cursor(r.rest, [done.v EXCEPT ![k] = r.v]) ELSE done,
             Cursor(s, was), [k \in DOMAIN fields |-> k])

\* Mutant: a value its reader cannot read is not skipped.
MembersNotSkipped(start, s, fields, comma, was) ==
    LET t == IF comma THEN JSkipWhitespace(Tail(s)) ELSE s
        key == JReadString(t)
        colon == JSkipWhitespace(key.rest)
        at == JSkipWhitespace(Tail(colon))
        read == ReadField(at, fields, key.v, was)
    IN  CASE s = << >> -> Cursor(start, was)
          [] OneOf(s, {"}"}) -> Cursor(Tail(s), was)
          [] OTHER ->
               IF (comma /\ s[1] # ",") \/ key.rest = t \/ ~OneOf(colon, {":"}) THEN Cursor(start, was)
               ELSE Members(start, JSkipWhitespace(read.rest), fields, TRUE, read.v)

\* The members of an object from s on: JR_OBJ, and JSkipObject when no key is
\* asked for.  What was read before a failure stays read.
Members(start, s, fields, comma, was) ==
    LET t == IF comma THEN JSkipWhitespace(Tail(s)) ELSE s
        key == JReadString(t)
        colon == JSkipWhitespace(key.rest)
        at == JSkipWhitespace(Tail(colon))
        read == ReadField(at, fields, key.v, was)
        next == IF read.rest = at THEN JSkipValue(at) ELSE read.rest
    IN  CASE s = << >> -> Cursor(start, was)
          [] OneOf(s, {"}"}) -> Cursor(Tail(s), was)
          [] OTHER ->
               IF (comma /\ s[1] # ",") \/ key.rest = t \/ ~OneOf(colon, {":"}) THEN Cursor(start, was)
               ELSE IF next = at THEN Cursor(start, read.v)
               ELSE Members(start, JSkipWhitespace(next), fields, TRUE, read.v)

\* The items of an array: JR_ARR, whose reader pushes what it has whether or
\* not it could be read, and JSkipArray when no shape is given.
ArrayItems(start, s, item, comma, was) ==
    LET at == IF comma THEN JSkipWhitespace(Tail(s)) ELSE s
        read == IF item = << >> THEN Cursor(at, << >>) ELSE JRead(at, item[1], Zeroed(item[1]))
        list == IF item = << >> THEN was ELSE Append(was, read.v)
        next == IF read.rest = at THEN JSkipValue(at) ELSE read.rest
    IN  CASE s = << >> -> Cursor(start, was)
          [] OneOf(s, {"]"}) -> Cursor(Tail(s), was)
          [] OTHER ->
               IF comma /\ s[1] # "," THEN Cursor(start, was)
               ELSE IF next = at THEN Cursor(start, list)
               ELSE ArrayItems(start, JSkipWhitespace(next), item, TRUE, list)

-----------------------------------------------------------------------------
(* The writer. *)

RECURSIVE JWrite(_, _, _)

JW_STR(j, text) == str_append_fmt(j, Chars("\"{}\""), <<Arg("Zstr", text)>>).o
JW_INT(j, i) == str_append_fmt(j, Chars("{}"), <<Arg("i64", i)>>).o
JW_FLT(j, f) == str_append_fmt(j, Chars("{}"), <<Arg("f64", f)>>).o
JW_BOOL(j, b) == str_append_fmt(j, Chars("{}"), <<Arg("Zstr", Chars(IF b THEN "true" ELSE "false"))>>).o
Comma(j, k) == IF k = 1 THEN j ELSE Append(j, ",")   \* the macros' ___is_first___
WriteField(j, k, field, v) == JWrite(Append(JW_STR(Comma(j, k), field[1]), ":"), field[2], v)
JW_OBJ(j, fields, v) ==
    Append(FoldLeft(LAMBDA out, k : WriteField(out, k, fields[k], v[k]), Append(j, "{"), [k \in DOMAIN v |-> k]), "}")
JW_ARR(j, item, v) ==
    Append(FoldLeft(LAMBDA out, k : JWrite(Comma(out, k), item, v[k]), Append(j, "["), [k \in DOMAIN v |-> k]), "]")
JWrite(j, shape, v) ==
    CASE shape.t = "int" -> JW_INT(j, v)
      [] shape.t = "flt" -> JW_FLT(j, v)
      [] shape.t = "str" -> JW_STR(j, v)
      [] shape.t = "bool" -> JW_BOOL(j, v)
      [] shape.t = "obj" -> JW_OBJ(j, shape.fields, v)
      [] shape.t = "arr" -> JW_ARR(j, shape.item, v)

-----------------------------------------------------------------------------

Fields == << <<Chars("a"), IntShape>>, <<Chars("b"), ArrayOf(StrShape)>>,
             <<Chars("c"), ObjectOf(<< <<Chars("a"), BoolShape>>, <<Chars("d"), FloatShape>> >>)>> >>
WriteDoc(fields, v) == JWrite(<< >>, ObjectOf(fields), v)
ReadBack(s, fields) == JRead(s, ObjectOf(fields), Zeroed(ObjectOf(fields)))

\* Outside the strings of a document.
Bare(doc) == {k \in DOMAIN doc : doc[k] \in Letters("{}[]:,") /\ Cardinality({j \in 1..k : doc[j] = "\""}) % 2 = 0}

\* What is written is read back by the shape that wrote it, in any order of
\* the keys, between blanks and behind members nobody asks for; a value of
\* another type than asked for is zero and leaves the others alone; a document
\* that is cut short or lacks a bracket, colon or comma leaves the cursor.
DocumentSound(v) ==
    LET doc == WriteDoc(Fields, v)
        spread == Front(FlattenSeq([k \in DOMAIN doc |-> IF k \in Bare(doc) THEN <<"\n", doc[k], " ">> ELSE <<doc[k]>>]))
        rest == Chars(",1")
        IsRead(s, w) == LET r == ReadBack(s \o rest, Fields)
                        IN  /\ r.rest = rest
                            /\ SubSeq(r.v, 1, 2) = SubSeq(w, 1, 2) /\ r.v[3][1] = w[3][1] /\ SameDec(r.v[3][2], w[3][2])
        Refused(s) == ReadBack(s, Fields).rest = s
        Sound2(shape, k) == shape.t = Fields[k][2].t \/ (k = 1 /\ shape.t = "flt")
    IN  /\ IsRead(doc, v) /\ IsRead(spread, v)
        /\ JSkipValue(doc \o rest) = rest /\ JSkipValue(spread \o rest) = rest
        /\ IsRead(WriteDoc(Fields \o Fields, [k \in 1..6 |-> v[((k - 1) % 3) + 1]]), [v EXCEPT ![2] = @ \o @])
        /\ ReadBack(doc, Reverse(SubSeq(Fields, 1, 2))) = Cursor(<< >>, <<v[2], v[1]>>)
        /\ ReadBack(doc, << >>) = Cursor(<< >>, << >>)
        /\ \A k \in 1..2, shape \in {IntShape, FloatShape, StrShape, BoolShape, ArrayOf(IntShape), ObjectOf(<< >>)} :
             LET r == ReadBack(doc, SubSeq([Fields EXCEPT ![k][2] = shape], 1, 2))
             IN  ~Sound2(shape, k) => r.rest = << >> /\ r.v[k] = Zeroed(shape) /\ r.v[3 - k] = v[3 - k]
        /\ ReadBack(doc, << <<Chars("b"), ArrayOf(IntShape)>> >>).v = << [k \in DOMAIN v[2] |-> 0] >>
        /\ \A n \in 1..Len(doc) - 1 : Refused(SubSeq(doc, 1, n)) /\ JSkipValue(SubSeq(doc, 1, n)) = SubSeq(doc, 1, n)
        /\ \A k \in Bare(doc) : LET s == RemoveAt(doc, k) IN Refused(s) /\ (k > 1 => JSkipValue(s) = s)

\* A number stops at the first character no number has, and has the value the
\* library's own reader gives the same text.
NumberTextSound(s) ==
    LET num == JReadNumber(s)
        value == StrToF64(s, [base |-> 0, strict |-> TRUE])
        float == JReadFloat(s, Nan).v
        read == JReadInteger(s, I64Max)
    IN  /\ num.rest # s => ~OneOf(num.rest, IS_DIGIT \cup Letters(".eE+-"))
        /\ num.rest # s /\ ~OneOf(JSkipWhitespace(s), Letters(".e")) => JSkipValue(s) = num.rest
        /\ num.rest = s => float = Nan /\ read = Cursor(s, I64Max)
        /\ num.rest = << >> /\ num.rest # s /\ value.ok => SameDec(float, value.v)
        /\ read.rest # s => SameDec(float, Whole(read.v))

\* What a string is spelled with, and what that stands for; the last one is no
\* escape.  The escape of a code point is left out: JSON.h:143-145 says that it
\* is skipped, the code refuses it.
Spellings == << <<Chars("a"), Chars("a")>>, <<Chars("{,"), Chars("{,")>>, <<Chars("\\\""), Chars("\"")>>, <<Chars("\\\\"), Chars("\\")>>,
                <<Chars("\\n"), Chars("\n")>>, <<Chars("\\/"), Chars("/")>>, <<Chars("\\q"), << >>>> >>

\* A string of escapes is read as what it spells, as a value, a key or a member
\* passed over, whatever quotes, backslashes and brackets it holds; one with a
\* character escaped that has no escape is refused, and so is a document that
\* ends inside of it.  A string alone that nothing ends is left open: JSON.h:149
\* refuses it, the code does not.
StringSound(units) ==
    LET text == FlattenSeq([k \in DOMAIN units |-> Spellings[units[k]][1]])
        value == FlattenSeq([k \in DOMAIN units |-> Spellings[units[k]][2]])
        quoted == <<"\"">> \o text \o <<"\"">>
        rest == Chars(",\"")
        good == \A k \in DOMAIN units : units[k] < Len(Spellings)
        field == << <<Chars("k"), StrShape>>, <<Chars("n"), IntShape>> >>
        document == Chars("{\"k\" :") \o quoted \o Chars(",\"n\":1}")
        named == <<"{">> \o quoted \o Chars(":7}")
    IN  /\ JReadString(<<" ">> \o quoted \o rest) = IF good THEN Cursor(rest, value) ELSE Cursor(<<" ">> \o quoted \o rest, << >>)
        /\ JReadString(<<"\"">> \o text \o <<"\\">>) = Cursor(<<"\"">> \o text \o <<"\\">>, << >>)
        /\ ReadBack(document \o rest, field) = IF good THEN Cursor(rest, <<value, 1>>) ELSE Cursor(document \o rest, << << >>, 0>>)
        /\ JSkipValue(document \o rest) = IF good THEN rest ELSE document \o rest
        /\ good => ReadBack(named, << <<value, IntShape>> >>) = Cursor(<< >>, <<7>>)
        /\ \A n \in 1..Len(document) - 1 : LET cut == SubSeq(document, 1, n) IN ReadBack(cut, field).rest = cut /\ JSkipValue(cut) = cut

JsonSound(input) ==
    CASE input.kind = "json" -> DocumentSound(<<input.n, input.list, <<input.b, input.d>>>>)
      [] input.kind = "string" -> StringSound(input.units)
      [] input.kind = "literal" -> NumberTextSound(input.s)
      [] OTHER -> TRUE
=============================================================================
