------------------------------- MODULE Format -------------------------------
(***************************************************************************)
(* Writing values into format strings (Std/Io.c): the grammar of the       *)
(* specifiers, the writers of the types and the two drivers, for texts and *)
(* for binary records; and the dates they write (Std/DateTime.c).          *)
(* Appending never runs out of memory here.                                *)
(***************************************************************************)
EXTENDS Text

(* The calendar arithmetic of DateTime.c.  A count of nanoseconds is a triple
   of days, seconds and nanoseconds, the last two never negative; u64 counts
   wrap at 2^64. *)

SECS_PER_DAY == 86400
NS_PER_SEC == 1000000000

\* The C operators / and %, which round towards zero.
Quot(a, b) == IF a >= 0 THEN a \div b ELSE -((-a) \div b)
Rem(a, b) == a - b * Quot(a, b)

Span3(days, secs, ns) ==
    LET s == secs + ns \div NS_PER_SEC
    IN  [days |-> days + s \div SECS_PER_DAY, secs |-> s % SECS_PER_DAY, ns |-> ns % NS_PER_SEC]
Sum3(a, b) == Span3(a.days + b.days, a.secs + b.secs, a.ns + b.ns)
Negated(a) == Span3(-a.days, -a.secs, -a.ns)
Earlier(a, b) == a.days < b.days \/ (a.days = b.days /\ (a.secs < b.secs \/ (a.secs = b.secs /\ a.ns < b.ns)))
Zero3 == Span3(0, 0, 0)
TwoTo64 == [days |-> 213503, secs |-> 84873, ns |-> 709551616]
TwoTo63 == [days |-> 106751, secs |-> 85636, ns |-> 854775808]

\* The casts between i64 and u64.
AsU64(a) == IF Earlier(a, Zero3) THEN Sum3(a, TwoTo64) ELSE IF Earlier(a, TwoTo64) THEN a ELSE Sum3(a, Negated(TwoTo64))
AsI64(a) == IF Earlier(a, TwoTo63) THEN a ELSE Sum3(a, Negated(TwoTo64))

days_from_civil(year, month, day) ==
    LET y == IF month <= 2 THEN year - 1 ELSE year
        era == Quot(IF y >= 0 THEN y ELSE y - 399, 400)
        yoe == y - era * 400
        doy == (153 * (month + (IF month > 2 THEN -3 ELSE 9)) + 2) \div 5 + day - 1
        doe == yoe * 365 + yoe \div 4 - yoe \div 100 + doy
    IN  era * 146097 + doe - 719468

civil_from_days(z) ==
    LET n == z + 719468
        era == Quot(IF n >= 0 THEN n ELSE n - 146096, 146097)
        doe == n - era * 146097
        yoe == (doe - doe \div 1460 + doe \div 36524 - doe \div 146096) \div 365
        doy == doe - (365 * yoe + yoe \div 4 - yoe \div 100)
        mp == (5 * doy + 2) \div 153
        month == IF mp < 10 THEN mp + 3 ELSE mp - 9
    IN  [year |-> yoe + era * 400 + (IF month <= 2 THEN 1 ELSE 0), month |-> month, day |-> doy - (153 * mp + 2) \div 5 + 1]

DateTimeFromUnixNs(t, offset) ==
    LET local == Span3(t.days, t.secs + offset, t.ns)
        date == civil_from_days(local.days)
    IN  [year |-> date.year, month |-> date.month, day |-> date.day, hour |-> local.secs \div 3600,
         minute |-> (local.secs % 3600) \div 60, second |-> local.secs % 60, weekday |-> (local.days + 4) % 7,
         nanosecond |-> t.ns, utc_offset_seconds |-> offset]

DateTimeToUnixNs(dt) ==
    AsU64(Span3(days_from_civil(dt.year, dt.month, dt.day),
                dt.hour * 3600 + dt.minute * 60 + dt.second - dt.utc_offset_seconds, dt.nanosecond))

DateTimeCompare(a, b) ==
    LET ua == DateTimeToUnixNs(a)
        ub == DateTimeToUnixNs(b)
    IN  IF Earlier(ua, ub) THEN -1 ELSE IF Earlier(ub, ua) THEN 1 ELSE 0

DateTimeDiffNs(a, b) == Sum3(AsI64(DateTimeToUnixNs(a)), Negated(AsI64(DateTimeToUnixNs(b))))
DateTimeAddNs(dt, delta) ==
    DateTimeFromUnixNs(AsU64(Sum3(AsI64(DateTimeToUnixNs(dt)), delta)), dt.utc_offset_seconds)

DateTimeIsLeapYear(year) == (year % 4 = 0 /\ year % 100 # 0) \/ year % 400 = 0
DateTimeDaysInMonth(year, month) ==
    CASE month \notin 1..12 -> 0
      [] month = 2 -> IF DateTimeIsLeapYear(year) THEN 29 ELSE 28
      [] month \in {4, 6, 9, 11} -> 30
      [] OTHER -> 31
DateTimeYearDay(dt) == days_from_civil(dt.year, dt.month, dt.day) - days_from_civil(dt.year, 1, 1) + 1

-----------------------------------------------------------------------------

CONSTANT Bytes   \* the characters a byte can hold, in the order of their values

ByteRadix == Len(Bytes)
ByteCode == [c \in Range(Bytes) |-> (CHOOSE k \in DOMAIN Bytes : Bytes[k] = c) - 1]
WordOf(n, bytes) == n % (ByteRadix ^ bytes)
\* The byte of weight ByteRadix^k.
ByteAt(n, k) == Bytes[((n \div (ByteRadix ^ k)) % ByteRadix) + 1]
BigEndian(n, bytes) == [k \in 1..bytes |-> ByteAt(n, bytes - k)]

Signeds == {"i8", "i16", "i32", "i64"}
Unsigneds == {"u8", "u16", "u32", "u64"}
Widths == [t \in Signeds \cup Unsigneds \cup {"f32", "f64"} |->
             CASE t \in {"u8", "i8"} -> 1 [] t \in {"u16", "i16"} -> 2 [] t \in {"u32", "i32", "f32"} -> 4 [] OTHER -> 8]

-----------------------------------------------------------------------------
(* Specifiers. *)

TypeFlags ==
    [c \in Letters("caAxXborsEe") |->
       CASE c = "c" -> {"CHAR"} [] c = "a" -> {"CHAR", "FORCE_CASE"} [] c = "A" -> {"CHAR", "FORCE_CASE", "CAPS"}
         [] c = "x" -> {"HEX"} [] c = "X" -> {"HEX", "CAPS"} [] c = "b" -> {"BINARY"} [] c = "o" -> {"OCTAL"}
         [] c = "r" -> {"RAW"} [] c = "e" -> {"SCIENTIFIC"} [] c = "E" -> {"SCIENTIFIC", "CAPS"} [] c = "s" -> {"STRING"}]

Aligns == [c \in {"<", ">", "CARET"} |-> CASE c = "<" -> "LEFT" [] c = ">" -> "RIGHT" [] OTHER -> "CENTER"]

parse_format_spec(spec) ==
    LET aligned == OneOf(spec, DOMAIN Aligns)
        s1 == IF aligned THEN Tail(spec) ELSE spec
        zero == Len(s1) >= 2 /\ s1[1] = "0" /\ s1[2] \in IS_DIGIT
        s2 == IF zero THEN Tail(s1) ELSE s1
        n == Leading(s2, IS_DIGIT)
        s3 == From(s2, n)
        dot == OneOf(s3, {"."})
        p == IF dot THEN Leading(Tail(s3), IS_DIGIT) ELSE 0
        types == IF dot THEN From(s3, 1 + p) ELSE s3
    IN  IF (dot /\ p = 0) \/ ~(Range(types) \subseteq DOMAIN TypeFlags) THEN NotParsed
        ELSE [ok |-> TRUE, align |-> IF aligned THEN Aligns[spec[1]] ELSE "RIGHT",
              width |-> DecimalValue(SubSeq(s2, 1, n)), precision |-> IF dot THEN DecimalValue(SubSeq(s3, 2, 1 + p)) ELSE 6,
              flags |-> UNION {TypeFlags[types[k]] : k \in DOMAIN types}
                        \cup (IF dot THEN {"HAS_PRECISION"} ELSE {}) \cup (IF zero THEN {"ZERO_PAD"} ELSE {})]

-----------------------------------------------------------------------------
(* What a writer leaves: whether it went well, and the output. *)

Written(o) == [result |-> "ok", o |-> o]
Refuse(o) == [result |-> "refused", o |-> o]
Abort(o) == [result |-> "aborts", o |-> o]

Blanks(n) == [k \in 1..n |-> " "]

\* Right and centre fill goes in front of everything written so far.
StrPad(o, width, align, content_len) ==
    LET pad == width - content_len
    IN  CASE pad <= 0 -> o
          [] pad > 0 /\ align = "RIGHT" -> Blanks(pad) \o o
          [] pad > 0 /\ align = "LEFT" -> o \o Blanks(pad)
          [] OTHER -> Blanks(pad \div 2) \o o \o Blanks(pad - pad \div 2)

\* Zeros go between the sign and the first digit of the field.
pad_numeric_zeros(o, start, width, content_len) ==
    LET at == IF content_len > 0 /\ o[start + 1] \in {"+", "-"} THEN start + 1 ELSE start
        zeros == [k \in 1..width - content_len |-> "0"]
    IN  IF content_len >= width THEN o ELSE SubSeq(o, 1, at) \o zeros \o From(o, at)

\* The field, with its own length measured for the padding.
Field(o, info, text) ==
    LET out == o \o text
    IN  Written(IF info.width = 0 THEN out ELSE StrPad(out, info.width, info.align, Len(text)))

HexDigit(n, info) == digit_to_char(n, "CAPS" \in info.flags)
Escaped(c, info) == <<"\\", "x", HexDigit(Code[c] \div 16, info), HexDigit(Code[c] % 16, info)>>
Cased(c, info) == IF "FORCE_CASE" \notin info.flags THEN c ELSE IF "CAPS" \in info.flags THEN TO_UPPER(c) ELSE TO_LOWER(c)
Shield(s, info) == FoldLeft(LAMBDA out, c : out \o IF c \in IS_PRINTABLE THEN <<Cased(c, info)>> ELSE Escaped(c, info), << >>, s)
write_char_internal(o, info, s) == IF s = << >> THEN Abort(o) ELSE Written(o \o Shield(s, info))
write_int_as_chars(o, info, value, bytes) == Written(o \o Shield(BigEndian(WordOf(value, bytes), bytes), info))

BaseFor(info) == IF "HEX" \in info.flags THEN 16 ELSE IF "BINARY" \in info.flags THEN 2 ELSE IF "OCTAL" \in info.flags THEN 8 ELSE 10

\* The text of an integer: with a prefix unless it is filled with zeros.
WriteInteger(o, info, text) ==
    IF info.width > 0 /\ "ZERO_PAD" \in info.flags
    THEN Written(pad_numeric_zeros(o \o text, Len(o), info.width, Len(text)))
    ELSE Field(o, info, text)
Config(info) == [base |-> BaseFor(info), use_prefix |-> BaseFor(info) # 10 /\ "ZERO_PAD" \notin info.flags,
                 uppercase |-> "CAPS" \in info.flags]

_write_u64(o, info, v, bytes) ==
    IF "CHAR" \in info.flags THEN write_int_as_chars(o, info, v, bytes)
    ELSE WriteInteger(o, info, StrFromU64(v, Config(info)).v)
_write_i64(o, info, v, bytes) ==
    IF "CHAR" \in info.flags THEN write_int_as_chars(o, info, v, bytes)
    ELSE WriteInteger(o, info, StrFromI64(v, Config(info)).v)

\* The {c} form of a float, which shows its bit pattern, is left out.  In
\* capitals a value that is no number gets the name of its C macro.
_write_f64(o, info, v) ==
    LET caps == "CAPS" \in info.flags
        text == StrFromF64(v, [precision |-> IF "HAS_PRECISION" \in info.flags THEN info.precision % 256 ELSE 6,
                               force_sci |-> "SCIENTIFIC" \in info.flags, uppercase |-> caps, always_sign |-> FALSE])
    IN  CASE v.kind = "nan" -> Field(o, info, Chars(IF caps THEN "F64_NAN" ELSE "nan"))
          [] v.kind = "inf" -> Field(o, info, (IF v.negative THEN <<"-">> ELSE << >>) \o Chars(IF caps THEN "INF" ELSE "inf"))
          [] OTHER -> IF text.ok THEN Field(o, info, text.v) ELSE Refuse(o)

Shortened(s, info) == IF "HAS_PRECISION" \in info.flags THEN zstr_dup_n(s, info.precision) ELSE s
HexPair(c, info) == <<"0", "x", HexDigit(Code[c] \div 16, info), HexDigit(Code[c] % 16, info)>>
HexBytes(s, info) == FoldLeft(LAMBDA out, c : IF out = << >> THEN HexPair(c, info) ELSE out \o <<" ">> \o HexPair(c, info), << >>, s)
LowerHex == [flags |-> {}]

\* A precision of zero with {c} aborts: the writer of characters takes no
\* empty text.
_write_Str(o, info, s) ==
    LET short == Shortened(s, info)
    IN  CASE s = << >> -> Field(o, info, << >>)
          [] s # << >> /\ "HEX" \in info.flags -> Field(o, info, HexBytes(s, info))
          [] s # << >> /\ "HEX" \notin info.flags /\ "CHAR" \in info.flags ->
               IF short = << >> THEN Abort(o) ELSE Field(o, info, Shield(short, info))
          [] OTHER -> Field(o, info, Shield(short, LowerHex))
_write_Zstr(o, info, s) == _write_Str(o, info, Zstr(s))

\* Hexadecimal and octal replace everything written before.
_write_BitVec(o, info, bits) ==
    LET value == FoldLeft(LAMBDA n, bit : 2 * n + bit, 0, Reverse(bits))
        Whole(base) == StrFromU64(value, [base |-> base, use_prefix |-> TRUE, uppercase |-> base = 16 /\ "CAPS" \in info.flags]).v
        Replaced(text) == \* a content length below zero wraps, and nothing is filled
            Written(IF info.width = 0 \/ Len(text) < Len(o) THEN text ELSE StrPad(text, info.width, info.align, Len(text) - Len(o)))
    IN  CASE "HEX" \in info.flags -> IF bits = << >> THEN Field(o, info, Chars("0x0")) ELSE Replaced(Whole(16))
          [] "HEX" \notin info.flags /\ "OCTAL" \in info.flags ->
               IF bits = << >> THEN Field(o, info, Chars("0o0")) ELSE Replaced(Whole(8))
          [] OTHER -> Field(o, info, [k \in DOMAIN bits |-> DigitChars[bits[k] + 1]])

ByteLength(n) == Len(DigitsOf(n, ByteRadix))
_write_Int(o, info, n) ==
    IF "CHAR" \in info.flags
    THEN IF n = 0 THEN Written(o) ELSE write_char_internal(o, info, BigEndian(n, ByteLength(n)))
    ELSE Field(o, info, IF n = 0 THEN <<"0">> ELSE Shown(DigitsOf(n, BaseFor(info)), "CAPS" \in info.flags))

-----------------------------------------------------------------------------
(* Floats: decimal digits and an exponent, written exactly. *)

float_fmt_append_exponent(exponent, uppercase) == <<IF uppercase THEN "E" ELSE "e">> \o ExponentText(exponent)
Zeros(n) == [k \in 1..n |-> "0"]

\* Float.c's own text of a value.
DecimalText(v) ==
    LET digits == Decimal(v.digits)
        split == Len(digits) + v.exp
    IN  IF v.digits = 0 THEN <<"0">>
        ELSE (IF v.negative THEN <<"-">> ELSE << >>) \o
             CASE v.exp >= 0 -> digits \o Zeros(v.exp)
               [] v.exp < 0 /\ split > 0 -> SubSeq(digits, 1, split) \o <<".">> \o From(digits, split)
               [] OTHER -> Chars("0.") \o Zeros(-split) \o digits

\* Cut, not rounded, at the precision.
float_try_to_decimal_str(v, precision, has_precision) ==
    LET text == DecimalText(v)
        whole == Leading(text, IS_DIGIT \cup {"-"})
        fraction == From(text, whole + 1)
    IN  IF ~has_precision THEN text
        ELSE SubSeq(text, 1, whole) \o
             IF precision = 0 THEN << >> ELSE <<".">> \o SubSeq(fraction \o Zeros(precision), 1, precision)

float_try_to_scientific_str(v, precision, has_precision, uppercase) ==
    LET digits == Decimal(v.digits)
        sign == IF v.negative THEN <<"-">> ELSE << >>
        places == IF has_precision THEN precision ELSE Len(digits) - 1
        point == IF places > 0 THEN <<".">> ELSE << >>
    IN  IF v.digits = 0
        THEN sign \o <<"0">> \o (IF has_precision THEN point \o Zeros(places) ELSE << >>) \o float_fmt_append_exponent(0, uppercase)
        ELSE sign \o <<digits[1]>> \o point \o SubSeq(Tail(digits) \o Zeros(places), 1, places)
             \o float_fmt_append_exponent(v.exp + Len(digits) - 1, uppercase)

float_fmt_uses_unsupported_flags(info) == info.flags \cap {"CHAR", "HEX", "BINARY", "OCTAL", "RAW", "STRING"} # {}
_write_Float(o, info, v) ==
    LET exact == "HAS_PRECISION" \in info.flags
    IN  IF float_fmt_uses_unsupported_flags(info) THEN Abort(o)
        ELSE Field(o, info, IF "SCIENTIFIC" \in info.flags
                            THEN float_try_to_scientific_str(v, info.precision, exact, "CAPS" \in info.flags)
                            ELSE float_try_to_decimal_str(v, info.precision, exact))

-----------------------------------------------------------------------------
\* The drivers that walk a format string and write: text with any writer,
\* binary records with the raw writers only.
Arg(type, v) == [type |-> type, v |-> v]
\* Where the first c of s is, or its length.
IndexOf(s, c) == Leading(s, AllChars \ {c})

\* {Nr}: the low bytes of a number, or of a float's bit pattern, written in
\* decimal.
WriteRaw(o, info, arg) ==
    IF arg.type \notin DOMAIN Widths \/ info.width \notin {1, 2, 4, 8} THEN Refuse(o)
    ELSE _write_u64(o, info, WordOf(WordOf(arg.v, Widths[arg.type]), info.width), info.width)

RECURSIVE str_append_fmt(_, _, _), _write_DateTime(_, _)

Writer(o, info, arg) ==
    CASE arg.type \in Unsigneds -> _write_u64(o, info, arg.v, Widths[arg.type])
      [] arg.type \in Signeds -> _write_i64(o, info, arg.v, Widths[arg.type])
      [] arg.type \in {"f32", "f64"} -> _write_f64(o, info, arg.v)
      [] arg.type \in {"Str", "Buf"} -> _write_Str(o, info, arg.v)
      [] arg.type \in {"Zstr", "ZstrAlloc"} -> _write_Zstr(o, info, arg.v)
      [] arg.type = "BitVec" -> _write_BitVec(o, info, arg.v)
      [] arg.type = "Int" -> _write_Int(o, info, arg.v)
      [] arg.type = "Float" -> _write_Float(o, info, arg.v)
      [] arg.type = "DateTime" -> _write_DateTime(o, arg.v)

\* ISO 8601; the fraction when there is one, and Z for no offset.
_write_DateTime(o, dt) ==
    LET day == str_append_fmt(o, Chars("{04}-{02}-{02}T{02}:{02}:{02}"),
                 <<Arg("i32", dt.year), Arg("u32", dt.month), Arg("u32", dt.day),
                   Arg("u32", dt.hour), Arg("u32", dt.minute), Arg("u32", dt.second)>>)
        exact == IF dt.nanosecond = 0 THEN day ELSE str_append_fmt(day.o, Chars(".{09}"), <<Arg("u32", dt.nanosecond)>>)
        offset == dt.utc_offset_seconds
        away == IF offset < 0 THEN -offset ELSE offset
        zone == Chars(IF offset < 0 THEN "-{02}:{02}" ELSE "+{02}:{02}")
    IN  IF offset = 0 THEN str_append_fmt(exact.o, <<"Z">>, << >>)
        ELSE str_append_fmt(exact.o, zone, <<Arg("u32", away \div 3600), Arg("u32", (away % 3600) \div 60)>>)

\* A placeholder at the start of fmt: its specifier, what follows it, and
\* whether it is closed.
Placeholder(fmt) ==
    LET end == IndexOf(fmt, "}")
    IN  [closed |-> end < Len(fmt), spec |-> SubSeq(fmt, 2, end), rest |-> From(fmt, end + 1)]

str_append_fmt(o, fmt, args) ==
    LET Doubled(c) == Len(fmt) >= 2 /\ fmt[1] = c /\ fmt[2] = c
        place == Placeholder(fmt)
        info == parse_format_spec(place.spec)
        done == IF "RAW" \in info.flags THEN WriteRaw(o, info, args[1]) ELSE Writer(o, info, args[1])
    IN  CASE fmt = << >> -> IF args = << >> THEN Written(o) ELSE Refuse(o)
          [] fmt # << >> /\ (Doubled("{") \/ Doubled("}")) -> str_append_fmt(Append(o, fmt[1]), From(fmt, 2), args)
          [] OneOf(fmt, {"{"}) /\ ~Doubled("{") ->
               IF ~place.closed \/ ~info.ok \/ args = << >> THEN Refuse(o)
               ELSE IF done.result # "ok" THEN done ELSE str_append_fmt(done.o, place.rest, Tail(args))
          [] OneOf(fmt, {"}"}) /\ ~Doubled("}") -> Refuse(o)
          [] OTHER -> str_append_fmt(Append(o, fmt[1]), Tail(fmt), args)

str_write_fmt(o, fmt, args) == str_append_fmt(<< >>, fmt, args)

\* What is rendered replaces as many characters, or nothing is changed.
Patched(o, offset, done) ==
    IF done.result # "ok" THEN [done EXCEPT !.o = o]
    ELSE IF offset > Len(o) \/ Len(done.o) > Len(o) - offset THEN Refuse(o)
    ELSE Written(SubSeq(o, 1, offset) \o done.o \o From(o, offset + Len(done.o)))
str_patch_fmt(o, offset, fmt, args) == Patched(o, offset, str_append_fmt(<< >>, fmt, args))

\* The whole line is rendered first and written at once, if at all.
f_write_fmt(file, fmt, args, append_newline) ==
    LET done == str_append_fmt(<< >>, fmt, args)
    IN  [done EXCEPT !.o = IF done.result = "ok" THEN file \o done.o \o (IF append_newline THEN <<"\n">> ELSE << >>) ELSE file]

-----------------------------------------------------------------------------
(* Binary records. *)

\* The specifiers of both sides: raw, of a width a word has.
RawSpec(info) == "RAW" \in info.flags /\ info.width \in {1, 2, 4, 8}

\* Little endian for < and, the machine being so, for ^.
RawBytes(value, info) ==
    LET big == BigEndian(WordOf(value, info.width), info.width)
    IN  IF info.width = 1 \/ info.align = "RIGHT" THEN big ELSE Reverse(big)

_write_r8(o, v) == Append(o, ByteAt(v, 0))
_write_r16(o, info, v) == o \o RawBytes(v, info)
_write_r32(o, info, v) == o \o RawBytes(v, info)
_write_r64(o, info, v) == o \o RawBytes(v, info)

render_one_raw_field(o, info, arg) ==
    IF arg.type \notin DOMAIN Widths \/ info.width # Widths[arg.type] THEN Abort(o)
    ELSE Written(CASE info.width = 1 -> _write_r8(o, arg.v)
                   [] info.width = 2 -> _write_r16(o, info, arg.v)
                   [] info.width = 4 -> _write_r32(o, info, arg.v)
                   [] info.width = 8 -> _write_r64(o, info, arg.v))

RECURSIVE render_binary_fmt(_, _, _)
render_binary_fmt(o, fmt, args) ==
    LET place == Placeholder(fmt)
        info == parse_format_spec(place.spec)
        done == render_one_raw_field(o, info, args[1])
    IN  CASE fmt = << >> -> IF args = << >> THEN Written(o) ELSE Abort(o)
          [] fmt # << >> /\ fmt[1] # "{" -> render_binary_fmt(Append(o, fmt[1]), Tail(fmt), args)
          [] Len(fmt) >= 2 /\ fmt[1] = "{" /\ fmt[2] = "{" -> render_binary_fmt(Append(o, "{"), From(fmt, 2), args)
          [] OTHER -> IF place.closed /\ ~info.ok THEN Refuse(o)
                      ELSE IF ~place.closed \/ ~RawSpec(info) \/ args = << >> THEN Abort(o)
                      ELSE IF done.result # "ok" THEN done ELSE render_binary_fmt(done.o, place.rest, Tail(args))

buf_append_fmt(out, fmt, args) == render_binary_fmt(out, fmt, args)
buf_write_fmt(out, fmt, args) == render_binary_fmt(<< >>, fmt, args)
buf_patch_fmt(out, offset, fmt, args) == Patched(out, offset, render_binary_fmt(<< >>, fmt, args))
=============================================================================
