--------------------------------- MODULE Scan ---------------------------------
(***************************************************************************)
(* Reading values by format strings (Std/Io.c).  A reader gives the rest   *)
(* of the input and the value, or Kept when the variable keeps the value   *)
(* it had; NULL is Lost.  A reader of numbers that fails stops behind the  *)
(* white space in front, which counts as progress when there is some.      *)
(***************************************************************************)
EXTENDS Format

Kept == << >>
Got(rest, v) == [lost |-> FALSE, rest |-> rest, v |-> <<v>>]
Keeps(rest) == [lost |-> FALSE, rest |-> rest, v |-> Kept]
Released == <<"released">>   \* a Str that holds no text any more
Lost == [lost |-> TRUE, v |-> <<Released>>]

hex_byte(s) == IF Len(s) >= 2 /\ s[1] \in IS_XDIGIT /\ s[2] \in IS_XDIGIT THEN 16 * DigitOf[s[1]] + DigitOf[s[2]] ELSE -1

\* Up to `size` characters, none of them white, with \xNN for a byte; an
\* escape that is cut short stands for itself.
RECURSIVE read_chars_internal(_, _, _, _)
read_chars_internal(s, size, info, acc) ==
    LET byte == IF Len(s) >= 4 /\ s[1] = "\\" /\ s[2] = "x" THEN hex_byte(From(s, 2)) ELSE -1
        c == Cased(IF byte >= 0 THEN CharOf[byte] ELSE s[1], info)
    IN  IF size = 0 \/ s = << >> \/ s[1] \in IS_SPACE THEN [rest |-> s, chars |-> acc]
        ELSE read_chars_internal(From(s, IF byte >= 0 THEN 4 ELSE 1), size - 1, info, Append(acc, c))

\* The bytes as they come fill the word from its low end.
FromBytes(chars) == FoldLeft(LAMBDA n, c : n * ByteRadix + ByteCode[c], 0, Reverse(chars))
AsSigned(n, bytes) == IF 2 * n >= ByteRadix ^ bytes THEN n - ByteRadix ^ bytes ELSE n

is_valid_number_char(c, first, allow_decimal) ==
    \/ c \in IS_DIGIT \/ c \in Letters("abcdefABCDEF")
    \/ c \in {"+", "-"} /\ first
    \/ c = "." /\ allow_decimal
    \/ c \in Letters("xXbBoO") /\ ~first

RECURSIVE NumberSpan(_, _)
NumberSpan(s, n) == IF n < Len(s) /\ is_valid_number_char(s[n + 1], n = 0, FALSE) THEN NumberSpan(s, n + 1) ELSE n

\* The special words, or digits in the base the prefix names with at most one
\* point and one exponent, and signs where they may stand.
is_valid_numeric_string(s, allow_float) ==
    LET Word(word) == Len(s) = Len(word) /\ \A k \in DOMAIN s : TO_LOWER(s[k]) = word[k]
        base == IF Len(s) > 2 THEN BaseOf(s) ELSE 10
        places == {k \in DOMAIN s : base = 10 \/ k > 2}
        dots == {k \in places : allow_float /\ s[k] = "."}
        exps == {k \in places : allow_float /\ s[k] \in {"e", "E"}}
        signs == {k \in places : s[k] \in {"+", "-"} /\ (k = 1 \/ (allow_float /\ s[k - 1] \in {"e", "E"} /\ k - 1 \in exps))}
        digits == {k \in places : s[k] \in IS_DIGIT \/ (base = 16 /\ s[k] \in IS_XDIGIT)}
    IN  \/ allow_float /\ \E word \in {"inf", "nan", "-inf"} : Word(Chars(word))
        \/ /\ s # << >>
           /\ places = dots \cup exps \cup signs \cup digits
           /\ Cardinality(dots) <= 1 /\ Cardinality(exps) <= 1
           /\ exps # {} => s[Len(s)] \notin {"e", "E", "+", "-"}

InRange(value, type) ==
    LET top == ByteRadix ^ Widths[type] - 1
    IN  IF type \in Unsigneds THEN value \in 0..top ELSE value >= -(top \div 2) - 1 /\ value <= top \div 2

BarePrefix(s) == Len(s) = 2 /\ s[1] = "0" /\ s[2] \in Letters("xXbBoO")

\* _read_u8 skips white space in front of characters too.
ReadInteger(s, info, type) ==
    LET bytes == Widths[type]
        t == SkipSpace(s)
        chars == read_chars_internal(IF type = "u8" THEN t ELSE s, bytes, info, << >>)
        word == FromBytes(chars.chars)
        n == NumberSpan(t, 0)
        token == SubSeq(t, 1, n)
        value == IF type \in Unsigneds THEN StrToU64(token, [base |-> 0, strict |-> FALSE]) ELSE StrToI64(token, [base |-> 0, strict |-> FALSE])
    IN  CASE "CHAR" \in info.flags /\ (type # "u8" \/ t # << >>) ->
               IF type = "u8" /\ chars.chars = << >> THEN Keeps(chars.rest)
               ELSE Got(chars.rest, IF type \in Signeds THEN AsSigned(word, bytes) ELSE word)
          [] OTHER -> IF \/ BarePrefix(token) \/ ~is_valid_numeric_string(token, FALSE)
                         \/ ~value.ok \/ ~InRange(value.v, type)
                      THEN Keeps(t) ELSE Got(From(t, n), value.v)

\* The token of a float: an exponent without digits is given up one character
\* back, which is the letter, or the sign behind it.
RECURSIVE FloatSpan(_, _, _)
FloatSpan(s, i, dotted) ==
    LET signed == i + 1 < Len(s) /\ s[i + 2] \in {"+", "-"}
        j == IF signed THEN i + 2 ELSE i + 1
        m == Leading(From(s, j), IS_DIGIT)
    IN  CASE i >= Len(s) -> i
          [] i < Len(s) /\ s[i + 1] \in {"e", "E"} /\ i > 0 -> IF m = 0 THEN j - 1 ELSE j + m
          [] OTHER -> IF (s[i + 1] = "." /\ dotted) \/ ~is_valid_number_char(s[i + 1], i = 0, TRUE) THEN i
                      ELSE FloatSpan(s, i + 1, dotted \/ s[i + 1] = ".")

\* The {c} form is left out, as for writing.
_read_f64(s) ==
    LET t == SkipSpace(s)
        wordly == OneOf(t, {"i", "I", "n", "N"}) \/ (Len(t) >= 2 /\ t[1] = "-" /\ t[2] \in {"i", "I"})
        word == SubSeq(t, 1, Leading(t, AllChars \ IS_SPACE))
        special == StrToF64(word, [base |-> 0, strict |-> FALSE])
        token == SubSeq(t, 1, FloatSpan(t, 0, FALSE))
        value == StrToF64(token, [base |-> 0, strict |-> FALSE])
    IN  IF wordly /\ special.ok THEN Got(From(t, Len(word)), special.v)
        ELSE IF is_valid_numeric_string(token, TRUE) /\ value.ok THEN Got(From(t, Len(token)), value.v) ELSE Keeps(t)
_read_f32(s) == _read_f64(s)

\* The character an escape stands for and what follows, or NULL: an unknown
\* one, one cut short, and the zero character.
Escapes == [c \in Letters("nrtbfva\\\"'") |->
              CASE c = "n" -> "\n" [] c = "r" -> "\r" [] c = "t" -> "\t" [] c = "b" -> BS [] c = "f" -> "\f"
                [] c = "v" -> VT [] c = "a" -> BEL [] OTHER -> c]
ZstrProcessEscape(s) ==
    LET c == IF Len(s) >= 2 THEN s[2] ELSE NUL
        byte == IF Len(s) >= 4 THEN hex_byte(From(s, 2)) ELSE -1
    IN  CASE c \in DOMAIN Escapes -> [lost |-> FALSE, c |-> Escapes[c], rest |-> From(s, 2)]
          [] c = "x" /\ byte > 0 -> [lost |-> FALSE, c |-> CharOf[byte], rest |-> From(s, 4)]
          [] OTHER -> Lost

\* At most `room` characters, put behind those the variable holds; an escape
\* counts for two.  With {s} the text may be quoted, and white space ends one
\* that is not.
RECURSIVE ReadText(_, _, _, _, _)
ReadText(s, room, quote, info, acc) ==
    LET escape == ZstrProcessEscape(s)
    IN  IF room <= 0 \/ s = << >> THEN IF quote # NUL THEN Lost ELSE Got(s, acc)
        ELSE CASE s[1] = "\\" ->
                    IF escape.lost THEN Lost ELSE ReadText(escape.rest, room - 2, quote, info, Append(acc, Cased(escape.c, info)))
               [] s[1] # "\\" /\ quote # NUL /\ s[1] = quote -> Got(Tail(s), acc)
               [] s[1] # "\\" /\ quote = NUL /\ "STRING" \in info.flags /\ s[1] \in IS_SPACE -> Got(s, acc)
               [] OTHER -> ReadText(Tail(s), room - 1, quote, info, Append(acc, Cased(s[1], info)))
\* A lost text releases what the variable held.
_read_Str(s, info, room) ==
    LET quoted == "STRING" \in info.flags /\ OneOf(s, {"\"", "'"})
    IN  IF s = << >> \/ room = 0 THEN Keeps(s)
        ELSE IF quoted THEN ReadText(Tail(s), room - 1, s[1], info, << >>) ELSE ReadText(s, room, NUL, info, << >>)

\* Without {c}; a text that comes out empty, or is lost, aborts when it is copied.
_read_ZstrAlloc(s, info, room) ==
    LET r == _read_Str(s, [info EXCEPT !.flags = @ \ {"CHAR"}], IF room = 0 THEN Len(s) ELSE room)
    IN  IF r.lost \/ r.v # Kept THEN r ELSE Keeps(s)

BitsOfValue(n, least) ==
    LET low == DigitsOf(n, 2)
        bits == [k \in 1..Len(low) |-> low[Len(low) + 1 - k]]
    IN  bits \o [k \in 1..(IF Len(bits) < least THEN least - Len(bits) ELSE 0) |-> 0]
_read_BitVec(s) ==
    LET t == SkipSpace(s)
        base == IF Len(t) >= 2 /\ t[1] = "0" /\ t[2] \in {"x", "X"} THEN 16
                ELSE IF Len(t) >= 2 /\ t[1] = "0" /\ t[2] \in {"o", "O"} THEN 8 ELSE 2
        body == IF base = 2 THEN t ELSE From(t, 2)
        n == Leading(body, DigitsIn(base))
        value == StrToU64(SubSeq(body, 1, n), [base |-> base, strict |-> FALSE])
    IN  CASE n = 0 -> Keeps(t)
          [] n > 0 /\ base = 2 -> Got(From(body, n), [k \in 1..n |-> DigitOf[body[k]]])
          [] OTHER -> IF value.ok THEN Got(From(body, n), BitsOfValue(value.v, IF base = 16 THEN 4 ELSE 3)) ELSE Keeps(t)

\* A prefix and a separator are refused, for Int's own reader would take them.
_read_Int(s, info) ==
    LET t == SkipSpace(s)
        base == BaseFor(info)
        body == IF OneOf(t, {"+"}) THEN Tail(t) ELSE t
        n == Leading(body, DigitsIn(base))
        value == FoldLeft(LAMBDA v, c : v * base + DigitOf[c], 0, SubSeq(body, 1, n))
    IN  IF "CHAR" \in info.flags THEN Keeps(s)
        ELSE IF n = 0 \/ HasPrefix(body, base) \/ OneOf(From(body, n), {"_"}) THEN Keeps(t)
        ELSE Got(From(body, n), value)

RECURSIVE TokenEnd(_, _, _)
TokenEnd(s, i, seen) ==
    LET c == s[i + 1]
    IN  IF i >= Len(s) THEN [end |-> i, seen |-> seen]
        ELSE CASE c \in IS_DIGIT -> TokenEnd(s, i + 1, (seen \cup {"digit"}) \ {"owed", "sign"})
               [] c \in {"+", "-"} /\ "sign" \in seen -> TokenEnd(s, i + 1, seen \ {"sign"})
               [] c = "." /\ seen \cap {"dot", "exp"} = {} -> TokenEnd(s, i + 1, (seen \cup {"dot"}) \ {"sign"})
               [] c \in {"e", "E"} /\ "exp" \notin seen /\ "digit" \in seen -> TokenEnd(s, i + 1, seen \cup {"exp", "owed", "sign"})
               [] OTHER -> [end |-> i, seen |-> seen]
float_fmt_token_length(s) ==
    LET t == TokenEnd(s, 0, {"sign"}) IN IF "digit" \in t.seen /\ "owed" \notin t.seen THEN t.end ELSE 0

_read_Float(s, info) ==
    LET t == SkipSpace(s)
        n == float_fmt_token_length(t)
        value == StrToF64(SubSeq(t, 1, n), [base |-> 0, strict |-> FALSE])
    IN  IF float_fmt_uses_unsupported_flags(info) THEN Keeps(s)
        ELSE IF n = 0 \/ ~value.ok THEN Keeps(t) ELSE Got(From(t, n), value.v)

-----------------------------------------------------------------------------
(* The drivers. *)

\* The literal between a placeholder and the next bounds its field.
RECURSIVE AnchorLen(_, _)
AnchorLen(p, n) == IF n >= Len(p) \/ (p[n + 1] = "{" /\ ~(n + 2 <= Len(p) /\ p[n + 2] = "{")) THEN n ELSE AnchorLen(p, n + 1)
MaxReadLen(s, p) ==
    LET anchor == SubSeq(p, 1, AnchorLen(p, 0))
        at == ZstrFindSubstringN(s, anchor)
    IN  IF anchor = << >> \/ at = Nowhere THEN Len(s) ELSE at

\* A raw word from the input, cut to the variable.
ReadRaw(s, info, type) ==
    LET chars == SubSeq(s, 1, info.width)
        word == FromBytes(IF info.width = 1 \/ info.align # "RIGHT" THEN chars ELSE Reverse(chars))
        cut == WordOf(word, Widths[type])
    IN  Got(From(s, info.width), IF type \in Signeds THEN AsSigned(cut, Widths[type]) ELSE cut)

RECURSIVE str_read_fmt(_, _, _, _), _read_DateTime(_)

Reader(s, info, type, room) ==
    CASE type \in Signeds \cup Unsigneds -> ReadInteger(s, info, type)
      [] type = "f64" -> _read_f64(s)
      [] type = "f32" -> _read_f32(s)
      [] type \in {"Str", "Buf"} -> _read_Str(s, info, room)
      [] type = "ZstrAlloc" -> _read_ZstrAlloc(s, info, room)
      [] type = "BitVec" -> _read_BitVec(s)
      [] type = "Int" -> _read_Int(s, info)
      [] type = "Float" -> _read_Float(s, info)
      [] type = "DateTime" -> _read_DateTime(s)

\* What is read so far stays read when a later part fails.
Missed(values) == [ok |-> FALSE, rest |-> << >>, values |-> values]

\* Fewer raw bytes than the width are never at hand here: the code would read
\* behind the end.
str_read_fmt(s, fmt, types, values) ==
    LET Doubled(c) == Len(fmt) >= 2 /\ fmt[1] = c /\ fmt[2] = c
        place == Placeholder(fmt)
        info == parse_format_spec(place.spec)
        read == IF "RAW" \in info.flags THEN ReadRaw(s, info, types[1]) ELSE Reader(s, info, types[1], MaxReadLen(s, place.rest))
        after == Append(values, read.v)
    IN  CASE fmt = << >> -> [ok |-> TRUE, rest |-> s, values |-> values]
          [] fmt # << >> /\ (Doubled("{") \/ Doubled("}")) ->
               IF OneOf(s, {fmt[1]}) THEN str_read_fmt(Tail(s), From(fmt, 2), types, values) ELSE Missed(values)
          [] OneOf(fmt, {"{"}) /\ ~Doubled("{") ->
               IF ~place.closed \/ Len(place.spec) >= 32 \/ types = << >> \/ ~info.ok THEN Missed(values)
               ELSE IF "RAW" \in info.flags /\ (info.width \notin {1, 2, 4, 8} \/ types[1] \notin DOMAIN Widths) THEN Missed(values)
               ELSE IF read.lost \/ read.rest = s THEN Missed(after)
               ELSE str_read_fmt(read.rest, place.rest, Tail(types), after)
          [] OTHER -> IF OneOf(s, {fmt[1]}) THEN str_read_fmt(Tail(s), Tail(fmt), types, values) ELSE Missed(values)

_read_DateTime(s) ==
    LET u32s(n) == [k \in 1..n |-> "u32"]
        main == str_read_fmt(s, Chars("{}-{}-{}T{}:{}:{}"), <<"i32">> \o u32s(5), << >>)
        dotted == OneOf(main.rest, {"."})
        frac == IF dotted THEN str_read_fmt(Tail(main.rest), Chars("{}"), u32s(1), << >>) ELSE [main EXCEPT !.values = <<Kept>>]
        zone == IF OneOf(frac.rest, {"+", "-"}) THEN str_read_fmt(Tail(frac.rest), Chars("{}:{}"), u32s(2), << >>)
                ELSE IF OneOf(frac.rest, {"Z"}) THEN [ok |-> TRUE, rest |-> Tail(frac.rest), values |-> <<Kept, Kept>>] ELSE Missed(<< >>)
        Now(v) == IF v = Kept THEN 0 ELSE v[1]
        part == [k \in 1..6 |-> Now(main.values[k])]
        offset == (IF OneOf(frac.rest, {"-"}) THEN -1 ELSE 1) * (Now(zone.values[1]) * 3600 + Now(zone.values[2]) * 60)
        dt == [year |-> part[1], month |-> part[2], day |-> part[3], hour |-> part[4], minute |-> part[5], second |-> part[6],
               nanosecond |-> Now(frac.values[1]), utc_offset_seconds |-> offset, weekday |-> 0]
    IN  IF ~main.ok \/ ~frac.ok \/ ~zone.ok THEN Keeps(s)
        ELSE Got(zone.rest, [dt EXCEPT !.weekday = DateTimeFromUnixNs(DateTimeToUnixNs(dt), offset).weekday])

\* A seekable file: what is read is consumed, or the position is put back.  A
\* stream is read to its end whatever comes of it.
f_read_fmt(content, pos, seekable, fmt, types) ==
    LET s == From(content, pos)
        read == str_read_fmt(s, fmt, types, << >>)
    IN  IF seekable THEN IF s = << >> THEN [pos |-> pos, values |-> << >>]
                         ELSE [pos |-> IF read.ok THEN Len(content) - Len(read.rest) ELSE pos, values |-> read.values]
        ELSE [pos |-> Len(content), values |-> read.values]

-----------------------------------------------------------------------------
(* Binary records. *)

BinaryMiss(s, values) == [result |-> "refused", rest |-> s, values |-> values]
BinaryAbort(s) == [result |-> "aborts", rest |-> s, values |-> << >>]

\* `start` is where the cursor is put back.
RECURSIVE BinaryFrom(_, _, _, _, _)
BinaryFrom(start, s, fmt, types, values) ==
    LET place == Placeholder(fmt)
        info == parse_format_spec(place.spec)
        read == ReadRaw(s, info, types[1])
        literal == fmt[1] # "{" \/ (Len(fmt) >= 2 /\ fmt[2] = "{")
    IN  CASE fmt = << >> -> IF types = << >> THEN [result |-> "ok", rest |-> s, values |-> values] ELSE BinaryAbort(s)
          [] fmt # << >> /\ literal ->
               IF OneOf(s, {fmt[1]}) THEN BinaryFrom(start, Tail(s), From(fmt, IF fmt[1] = "{" THEN 2 ELSE 1), types, values)
               ELSE BinaryMiss(start, values)
          [] OTHER -> IF place.closed /\ ~info.ok THEN BinaryMiss(start, values)
                      ELSE IF ~place.closed \/ ~RawSpec(info) THEN BinaryAbort(s)
                      ELSE IF info.width > Len(s) THEN BinaryMiss(start, values)
                      ELSE IF types = << >> \/ types[1] \notin DOMAIN Widths \/ Widths[types[1]] # info.width THEN BinaryAbort(s)
                      ELSE BinaryFrom(start, read.rest, place.rest, Tail(types), Append(values, read.v))
buf_read_fmt(s, fmt, types) == BinaryFrom(s, s, fmt, types, << >>)

(***************************************************************************)
(* What texts, numerals, formatting, scanning and the calendar promise,    *)
(* for one input.                                                          *)
(***************************************************************************)

Joined(pieces, key) == FoldLeft(LAMBDA s, piece : s \o key \o piece, pieces[1], Tail(pieces))
Lower(s) == [k \in DOMAIN s |-> TO_LOWER(s[k])]
Signum(n) == IF n < 0 THEN -1 ELSE IF n > 0 THEN 1 ELSE 0

\* Two texts: pieces joined give the text back, replacing everything is
\* splitting and joining with the replacement, the comparisons agree with each
\* other and with the hash, and stripping takes off exactly the outer layer.
\* Splitting into texts of their own gives the same pieces; of what stands
\* behind the last key when it begins the key itself, or is empty, nothing is
\* said: Str/Ops.h:361-364 promises at least one piece, the code drops that one.
PairSound(s, key) ==
    LET pieces == str_split_to_iters_impl(s, key)
        kept == str_split_impl(s, key)
        at == str_index_of_cstr(s, key)
    IN  /\ key # << >> =>
             /\ Joined(pieces, key) = s
             /\ \A k \in DOMAIN pieces : ~str_contains_cstr(pieces[k], key)
             /\ Front(pieces) = SubSeq(kept, 1, Len(pieces) - 1)
             /\ ~starts_with(key, Last(pieces)) => kept = pieces
             /\ \A r \in {<< >>, key \o key, <<"z">>} :
                  str_replace_cstr(s, key, r, Len(s) + 1) = Joined(pieces, r)
             /\ Len(pieces) > 1 => str_replace_cstr(s, key, <<"z">>, 1) = SubSeq(s, 1, at) \o <<"z">> \o From(s, at + Len(key))
        /\ (at = Nowhere) <=> (\A i \in 0..Len(s) : ~starts_with(From(s, i), key))
        /\ at # Nowhere => starts_with(From(s, at), key) /\ \A i \in 0..at - 1 : ~starts_with(From(s, i), key)
        /\ ends_with(s, key) <=> starts_with(Reverse(s), Reverse(key))
        /\ Signum(str_compare(s, key)) = zstr_compare(s, key)
        /\ Signum(str_compare(s, key)) = -Signum(str_compare(key, s))
        /\ str_hash(s) = str_hash(key) <=> str_compare(s, key) = 0
        /\ \A n \in 0..3 : Signum(ZstrCompareN(s, key, n)) = zstr_compare(zstr_dup_n(s, n), zstr_dup_n(key, n))
        /\ Signum(ZstrCompareNIgnoreCase(s, key, 2)) = Signum(ZstrCompareIgnoreCase(zstr_dup_n(s, 2), zstr_dup_n(key, 2)))
        /\ str_cmp_str_ignore_case(s, key) = 0 <=> Lower(s) = Lower(key)
        /\ \A c \in {"a", "z"} : LET i == ZstrFindChar(s, c) IN i = ZstrFindSubstringN(s, <<c>>)
        /\ LET chars == Range(key)
               core == strip_str(s, chars, 0)
           IN  /\ core # << >> => core[1] \notin chars /\ core[Len(core)] \notin chars
               /\ \E i \in 0..Len(s) : /\ MatchesAt(s, i, core)
                                       /\ Range(SubSeq(s, 1, i)) \subseteq chars
                                       /\ Range(From(s, i + Len(core))) \subseteq chars
               /\ strip_str(strip_str(s, chars, -1), chars, 1) = core

\* A Str with a NUL inside ends there for the calls that search it.
NulSound(s, key) ==
    LET t == s \o <<NUL>> \o key
    IN  /\ str_find_str(t, key) = str_find_str(s, key)
        /\ str_cmp_zstr(t, s) = 0
        /\ key # << >> => str_compare(t, s) > 0 /\ str_replace_cstr(t, key, <<"z">>, 99) = str_replace_cstr(s, key, <<"z">>, 99) \o <<NUL, "z">>

IntFormat(base, prefix, upper) == [base |-> base, use_prefix |-> prefix, uppercase |-> upper]
Parse(base, strict) == [base |-> base, strict |-> strict]
FloatFormat(precision, sci, sign) == [precision |-> precision, force_sci |-> sci, uppercase |-> FALSE, always_sign |-> sign]

\* A number: it reads back from its text in every base, between blanks, and as
\* what its prefix says; it is refused exactly when it does not fit.
NumberSound(n) ==
    /\ \A base \in {2, 3, 8, 10, 16, 36}, prefix, upper \in BOOLEAN :
         LET text == StrFromU64(n, IntFormat(base, prefix, upper)).v
             word == IF n <= U64Max THEN Parsed(n) ELSE NotParsed
         IN  /\ \A strict \in BOOLEAN : StrToU64(Chars(" ") \o text \o <<"\n">>, Parse(base, strict)) = word
             /\ prefix /\ base \in {2, 8, 16} => StrToU64(text, Parse(0, TRUE)) = word
             /\ StrToU64(text \o Chars(" 7"), Parse(base, FALSE)) = word
             /\ ~StrToU64(text \o Chars(" 7"), Parse(base, TRUE)).ok
             /\ ~StrToU64(text \o Chars("."), Parse(base, FALSE)).ok
    /\ \A sign \in {-1, 1} :
         LET v == sign * n
             text == StrFromI64(v, IntFormat(10, FALSE, FALSE)).v
             fits == v \in (-I64Max - 1)..I64Max
         IN  /\ StrToI64(text, Parse(0, TRUE)) = IF fits THEN Parsed(v) ELSE NotParsed
             /\ ZstrInteger(text \o <<"x">>) = [v |-> IF fits THEN v ELSE IF sign = 1 THEN I64Max ELSE -I64Max - 1, used |-> Len(text)]
             /\ StrFromI64(v, IntFormat(16, TRUE, FALSE)) = StrFromU64(n, IntFormat(16, TRUE, FALSE))
    /\ ~StrFromU64(n, IntFormat(1, FALSE, FALSE)).ok /\ ~StrToU64(Decimal(n), Parse(37, FALSE)).ok
    /\ \A t \in {Chars("0x"), Chars(" "), Chars("-"), << >>} :
         /\ ~StrToU64(t, Parse(0, FALSE)).ok
         /\ ZstrInteger(t).v = 0

\* A decimal with no more places than the precision reads back from the text
\* written for it; in scientific notation, when no digit is rounded up by the
\* one behind it.
DecimalSound(v) ==
    \A precision \in 0..3, sci, sign \in BOOLEAN :
      LET text == StrFromF64(v, FloatFormat(precision, sci, sign)).v
          scientific == "e" \in Range(text)
          places == IF scientific THEN Magnitude(v) - v.exp ELSE -v.exp
          rounds == scientific /\ \E k \in 1..precision : Floor(v, k + 1 - Magnitude(v)) % 10 >= 5
          read == StrToF64(text, Parse(0, TRUE))
      IN  /\ read.ok
          /\ places <= precision /\ ~rounds => SameDec(read.v, v)
          /\ ZstrToF64(text \o <<"z">>) = [v |-> read.v, used |-> Len(text)]
          /\ StrToF64(<<" ">> \o text \o Chars(" 1"), Parse(0, FALSE)) = read
          /\ ~StrToF64(text \o Chars(" 1"), Parse(0, TRUE)).ok
          /\ ~scientific => ~StrToF64(text \o <<"e">>, Parse(0, FALSE)).ok
          /\ \A e \in {-1, 2} : ~scientific => SameDec(StrToF64(text \o <<"e">> \o ExponentText(e), Parse(0, TRUE)).v,
                                                     [read.v EXCEPT !.exp = @ + e])

\* Words for what is no number, standing alone and in any case.
WordsSound ==
    /\ \A word \in {"nan", "NaN", "inf", "INF", "-inf"} :
         LET v == StrToF64(Chars(word), Parse(0, TRUE))
         IN  v.ok /\ v.v.kind # "dec" /\ StrToF64(StrFromF64(v.v, FloatFormat(1, FALSE, FALSE)).v, Parse(0, TRUE)) = v
    /\ \A word \in {"nano", "infinity", "+inf", "-nan", "e5", ".", "+", ""} : ~StrToF64(Chars(word), Parse(0, TRUE)).ok
    /\ StrToF64(Chars("1e2147483648"), Parse(0, TRUE)).v.exp >= 1024
    /\ \A k \in 18..20 : ~StrFromF64(Nan, FloatFormat(k, FALSE, FALSE)).ok

TextSound(input) ==
    CASE input.kind = "texts" -> PairSound(input.s, input.key) /\ NulSound(input.s, input.key)
      [] input.kind = "natural" -> NumberSound(input.n)
      [] input.kind = "decimal" -> DecimalSound(input.v) /\ WordsSound
      [] OTHER -> TRUE

-----------------------------------------------------------------------------

Spec(text) == Chars("{") \o Chars(text) \o Chars("}")
Render(text, type, v) == str_append_fmt(<< >>, Spec(text), <<Arg(type, v)>>)
Scanned(s, text, type) == str_read_fmt(s, Spec(text), <<type>>, << >>)
ReadsAs(s, text, type, v) == Scanned(s, text, type) = [ok |-> TRUE, rest |-> << >>, values |-> <<<<v>>>>]
InType(n, type) == InRange(n, type) /\ (n < 0 => type \in Signeds)

\* A number: what is written reads back, through every specifier that keeps the
\* sign and for exactly the types that hold it; a field has its width, the
\* number at its side and fill only around it.  Behind what is there the same
\* field stands, unless its fill goes in front: then the code fills the whole
\* output (Io.h:356-360) where Io.h:446-447 keeps it, and nothing is said.
IntegerSound(n, type) ==
    LET plain == Render("", type, n)
        digits == Len(plain.o)
    IN  /\ plain.result = "ok"
        /\ ReadsAs(plain.o, "", type, n)
        /\ \A other \in Signeds \cup Unsigneds :
             Scanned(plain.o, "", other).ok <=> InType(n, other)
        /\ n >= 0 => \A base \in {"x", "X", "b", "o"} : ReadsAs(Render(base, type, n).o, "", type, n)
        /\ \A w \in {1, 3, 6} :
             LET width == Decimal(w)
                 Width(mark) == str_append_fmt(<< >>, <<"{">> \o mark \o width \o <<"}">>, <<Arg(type, n)>>).o
                 fill == Blanks(Len(Width(<<"<">>)) - digits)
             IN  /\ Len(Width(<<"<">>)) = Max({w, digits})
                 /\ Width(<<"<">>) = plain.o \o fill /\ Width(<<">">>) = fill \o plain.o /\ Width(<< >>) = fill \o plain.o
                 /\ Len(Width(<<"CARET">>)) = Max({w, digits}) /\ strip_str(Width(<<"CARET">>), {" "}, 0) = plain.o
                 /\ Len(Width(<<"0">>)) = Max({w, digits}) /\ ReadsAs(Width(<<"0">>), "", type, n)
        /\ \A mark \in {"<9", "<1", "0", "04", "09", "", "x"} :
             str_append_fmt(Chars("ab"), Spec(mark), <<Arg(type, n)>>).o = Chars("ab") \o Render(mark, type, n).o

\* A number as a word: bytes in the order asked for read back in that order,
\* into a variable of that width only; the text driver keeps to its bytes too.
WordSound(n, type) ==
    LET width == Decimal(Widths[type])
        Raw(mark) == <<"{">> \o mark \o width \o Chars("r}")
        marks == {<<"<">>, <<">">>, << >>}
        twin == IF type \in Signeds THEN AsSigned(WordOf(n, Widths[type]), Widths[type]) ELSE n
    IN  \A m1, m2 \in marks :
          LET fmt == Raw(m1) \o Chars("#{{") \o Raw(m2)
              args == <<Arg(type, n), Arg(type, n)>>
              out == buf_write_fmt(Chars("old"), fmt, args)
              read == buf_read_fmt(out.o, fmt, <<type, type>>)
              cut == SubSeq(out.o, 1, Len(out.o) - 1)
          IN  /\ out.result = "ok" /\ Len(out.o) = 2 * Widths[type] + 2
              /\ read = [result |-> "ok", rest |-> << >>, values |-> <<<<twin>>, <<twin>>>>]
              /\ buf_read_fmt(cut, fmt, <<type, type>>) = BinaryMiss(cut, <<<<twin>>>>)
              /\ buf_read_fmt(out.o, Raw(m1) \o Chars("!"), <<type>>) = BinaryMiss(out.o, <<<<twin>>>>)
              /\ buf_append_fmt(Chars("old"), fmt, args).o = Chars("old") \o out.o
              /\ (n >= 0 /\ Widths[type] > 1) =>
                   (buf_write_fmt(<< >>, Raw(<<"<">>), <<args[1]>>).o = Reverse(buf_write_fmt(<< >>, Raw(<<">">>), <<args[1]>>).o))
              /\ \A other \in DOMAIN Widths : Widths[other] # Widths[type] =>
                   /\ buf_write_fmt(<< >>, Raw(m1), <<Arg(other, n)>>).result = "aborts"
                   /\ buf_read_fmt(out.o, Raw(m1), <<other>>).result = "aborts"
              /\ str_read_fmt(out.o, fmt, <<type, type>>, << >>) = [ok |-> TRUE, rest |-> << >>, values |-> <<<<twin>>, <<twin>>>>]

\* Records in place: a patch changes as many characters as it writes, at its
\* offset, or nothing; a line goes to a file whole or not at all, and a scan
\* that fails leaves a file where it was, one that succeeds just behind it.
\* Appending fails where it would fail alone, and what it wrote before that
\* stays behind what was there; {4} fills in front and is left out, as above.
DriverSound(n, type) ==
    LET base == Chars("0123456789")
        fmts == {Spec(""), Spec("4"), Chars("<") \o Spec("") \o Chars(">}}"), Spec("q"), Chars("{"), Chars("}"), Spec("") \o Spec("")}
    IN  \A fmt \in fmts, args \in {<< >>, <<Arg(type, n)>>} :
          LET done == str_append_fmt(<< >>, fmt, args)
              fine == done.result = "ok"
              Position(p) == f_read_fmt(base \o done.o \o Chars("%"), p, TRUE, fmt, [k \in DOMAIN args |-> type])
              line == f_write_fmt(base, fmt, args, TRUE)
              grown == str_append_fmt(base, fmt, args)
          IN  /\ grown.result = done.result
              /\ fmt # Spec("4") => grown.o = base \o done.o
              /\ \A offset \in {0, 3, 9, 10, 11} :
                   LET patched == str_patch_fmt(base, offset, fmt, args)
                   IN  /\ Len(patched.o) = Len(base)
                       /\ patched.result = "ok" <=> fine /\ offset + Len(done.o) <= Len(base)
                       /\ patched.result = "ok" => SubSeq(patched.o, offset + 1, offset + Len(done.o)) = done.o
                       /\ \A k \in DOMAIN base :
                            (patched.result # "ok" \/ k <= offset \/ k > offset + Len(done.o)) => patched.o[k] = base[k]
              /\ line.o = IF fine THEN base \o done.o \o <<"\n">> ELSE base
              /\ fine /\ args # << >> => Position(10) = [pos |-> 10 + Len(done.o), values |-> <<<<n>>>>]
              /\ LET p == Position(0) IN p.pos = 0 \/ (fine /\ p.pos >= Len(done.o))
              /\ f_read_fmt(done.o, 0, FALSE, fmt, [k \in DOMAIN args |-> type]).pos = Len(done.o)

-----------------------------------------------------------------------------
PlainText(s) == Range(s) \subseteq IS_PRINTABLE \ {"\\"}
NoQuotes(s) == Range(s) \cap (IS_SPACE \cup {"\"", "'"}) = {}

\* Texts: whatever is not printable is written as an escape the scanner reads
\* back, whole, up to the literal behind the placeholder, or quoted; the
\* zero character is the one it refuses.
ShieldSound(s) ==
    LET shown == Render("", "Str", s).o
        slash == "\\" \in Range(s)
    IN  /\ Range(shown) \subseteq IS_PRINTABLE
        /\ Len(shown) = Len(s) + 3 * Cardinality({k \in DOMAIN s : s[k] \notin IS_PRINTABLE})
        /\ s # << >> /\ ~slash /\ NUL \notin Range(s) =>
             /\ ReadsAs(shown, "", "Str", s) /\ ReadsAs(shown, "", "ZstrAlloc", s)
             /\ (NoQuotes(s) /\ PlainText(s)) =>
                  /\ ReadsAs(shown, "s", "Str", s)
                  /\ \A tail \in {"|", " |"} :
                       ZstrFindSubstringN(s \o Chars(tail), Chars(tail)) = Len(s) =>
                         str_read_fmt(shown \o Chars(tail) \o shown, Chars("{}") \o Chars(tail) \o Chars("{s}"), <<"Str", "Str">>, << >>)
                           = [ok |-> TRUE, rest |-> << >>, values |-> <<<<s>>, <<s>>>>]
             /\ \A q \in {"\"", "'"} : q \notin Range(s) => ReadsAs(<<q>> \o shown \o <<q>>, "s", "Str", s)
        /\ NUL \in Range(s) /\ ~slash => ~Scanned(shown, "", "Str").ok
        /\ s # << >> => ~Scanned(<<"\"">> \o s, "s", "Str").ok \/ "\"" \in Range(s)
        /\ \A n \in 1..3 : Render(IF n = 1 THEN ".1" ELSE IF n = 2 THEN ".2" ELSE ".3", "Str", s).o = Render("", "Str", zstr_dup_n(s, n)).o
        /\ s # << >> =>
             LET hex == Render("x", "Str", s).o
                 byte == StrToU64(hex, [base |-> 0, strict |-> FALSE])
             IN  byte.ok /\ byte.v = Code[s[1]] /\ Len(hex) = 5 * Len(s) - 1
        /\ \A case \in {"a", "A"} : s # << >> /\ Range(s) \subseteq IS_ALPHA =>
             Scanned(s, case, "Str").values[1] = <<Render(case, "Str", s).o>>
        /\ Render("", "Zstr", s \o <<NUL>> \o s).o = Render("", "Zstr", s).o

-----------------------------------------------------------------------------
\* Exact decimals and integers of any size: digits in, the same digits out.
ExactSound(v) ==
    LET shown == Render("", "Float", v)
        Same(w) == SameDec(w, v)
        sci == Render("e", "Float", v)
        fixed == Render(".2", "Float", v).o
    IN  /\ shown.result = "ok" /\ sci.result = "ok"
        /\ \A text \in {shown.o, sci.o} : LET r == Scanned(text, "", "Float") IN r.ok /\ r.rest = << >> /\ Same(r.values[1][1])
        /\ v.exp >= -2 => LET r == Scanned(fixed, "", "Float") IN r.ok /\ Same(r.values[1][1])
        /\ LET r == Scanned(fixed, "", "Float").values[1][1]
           IN  Floor(r, 2) = Floor(v, 2)
        /\ Render("x", "Float", v).result = "aborts"
        /\ \A base \in {"", "x", "b", "o"} :
             LET n == v.digits
                 text == Render(base, "Int", n).o
             IN  /\ ReadsAs(text, base, "Int", n)
                 /\ ~Scanned(text \o <<"_">>, base, "Int").ok
        /\ \A base \in {"x", "b", "o"} : ~Scanned(<<"0">> \o Chars(base) \o Chars("1"), base, "Int").ok
        /\ \A precision \in {".0", ".3"} :
             LET text == Render(precision, "f64", v)
             IN  text.result = "ok" /\ (v.exp >= 0 /\ Magnitude(v) < 7 =>
                                          LET r == Scanned(text.o, "", "f64") IN r.ok /\ r.rest = << >> /\ Same(r.values[1][1]))

BitTexts(bits) ==
    LET plain == Render("", "BitVec", bits).o
        value == FoldLeft(LAMBDA n, bit : 2 * n + bit, 0, Reverse(bits))
    IN  /\ bits # << >> => ReadsAs(plain, "", "BitVec", bits)
        /\ bits # << >> => \A base \in {"x", "o"} :
             LET r == Scanned(Render(base, "BitVec", bits).o, "", "BitVec")
             IN  r.ok /\ FoldLeft(LAMBDA n, bit : 2 * n + bit, 0, Reverse(r.values[1][1])) = value
        /\ Scanned(Chars("2"), "", "BitVec").ok = FALSE

-----------------------------------------------------------------------------
\* A day: the calendar walks through the days one by one, with leap days where
\* the rule has them, and goes back; an instant of it, seen from any offset,
\* is written and read back as it was.  Instants before 1970 are not counted,
\* their count in u64 wraps.
Times == {[secs |-> s, ns |-> n] : s \in {0, 45296, 86399}, n \in {0, 5, 999999999}}
Offsets == {0, 5400, -36000}
DaySound(day) ==
    LET date == civil_from_days(day)
        next == civil_from_days(day + 1)
        last == DateTimeDaysInMonth(date.year, date.month)
    IN  /\ days_from_civil(date.year, date.month, date.day) = day
        /\ date.month \in 1..12 /\ date.day \in 1..last
        /\ next = IF date.day < last THEN [date EXCEPT !.day = @ + 1]
                  ELSE IF date.month < 12 THEN [date EXCEPT !.day = 1, !.month = @ + 1]
                  ELSE [year |-> date.year + 1, month |-> 1, day |-> 1]
        /\ \A time \in Times, offset \in Offsets :
             LET t == [days |-> day, secs |-> time.secs, ns |-> time.ns]
                 dt == DateTimeFromUnixNs(t, offset)
                 later == DateTimeAddNs(dt, [days |-> 1, secs |-> 3600, ns |-> 1])
             IN  day > 0 =>
                   /\ DateTimeToUnixNs(dt) = t
                   /\ DateTimeYearDay(dt) \in 1..(IF DateTimeIsLeapYear(dt.year) THEN 366 ELSE 365)
                   /\ dt.weekday \in 0..6 /\ DateTimeFromUnixNs([t EXCEPT !.days = @ + 7], offset).weekday = dt.weekday
                   /\ \A other \in Offsets : DateTimeCompare(dt, DateTimeFromUnixNs(t, other)) = 0
                   /\ DateTimeCompare(dt, later) = -1 /\ DateTimeDiffNs(later, dt) = [days |-> 1, secs |-> 3600, ns |-> 1]
                   /\ later.utc_offset_seconds = offset
        /\ \A time \in {[secs |-> 45296, ns |-> 0], [secs |-> 7, ns |-> 50]}, offset \in Offsets :
             LET dt == DateTimeFromUnixNs([days |-> day, secs |-> time.secs, ns |-> time.ns], offset)
                 text == _write_DateTime(<< >>, dt)
             IN  day > 0 /\ dt.year < 2048 =>
                   /\ Len(text.o) = 19 + (IF time.ns = 0 THEN 0 ELSE 10) + (IF offset = 0 THEN 1 ELSE 6)
                   /\ _read_DateTime(text.o \o <<"!">>) = Got(<<"!">>, dt)

FormatSound(input) ==
    CASE input.kind = "typed" -> IntegerSound(input.n, input.type) /\ WordSound(input.n, input.type) /\ DriverSound(input.n, input.type)
      [] input.kind = "shield" -> ShieldSound(input.s)
      [] input.kind = "exact" -> ExactSound(input.v)
      [] input.kind = "bittext" -> BitTexts(input.bits)
      [] input.kind = "day" -> DaySound(input.day)
      [] OTHER -> TRUE
=============================================================================
