--------------------------------- MODULE Text ---------------------------------
(***************************************************************************)
(* Texts as sequences of characters, with the character classes of         *)
(* Types.h, and the operations of Str (Container/Str.c) and Zstr           *)
(* (Std/Zstr.c) that only read a text or build a new one.  A character is  *)
(* a string of length one; a few have names.  Positions count from 0.      *)
(***************************************************************************)
EXTENDS Integers, Sequences, SequencesExt, FiniteSetsExt

NUL == "NUL"
VT == "VT"
BEL == "BEL"
BS == "BS"

Chars(text) == [k \in 1..Len(text) |-> SubSeq(text, k, k)]
Letters(text) == {SubSeq(text, k, k) : k \in 1..Len(text)}

IS_SPACE == Letters(" \t\n\r\f") \cup {VT}
IS_DIGIT == Letters("0123456789")
LowerCase == Chars("abcdefghijklmnopqrstuvwxyz")
UpperCase == Chars("ABCDEFGHIJKLMNOPQRSTUVWXYZ")
IS_ALPHA == {LowerCase[k] : k \in 1..26} \cup {UpperCase[k] : k \in 1..26}
IS_XDIGIT == IS_DIGIT \cup Letters("abcdefABCDEF")

LowerOf == [c \in {UpperCase[k] : k \in 1..26} |-> LowerCase[CHOOSE k \in 1..26 : UpperCase[k] = c]]
UpperOf == [c \in {LowerCase[k] : k \in 1..26} |-> UpperCase[CHOOSE k \in 1..26 : LowerCase[k] = c]]
TO_LOWER(c) == IF c \in DOMAIN LowerOf THEN LowerOf[c] ELSE c
TO_UPPER(c) == IF c \in DOMAIN UpperOf THEN UpperOf[c] ELSE c

\* The characters by their codes; those without a name are left out.
Printable == Chars(" !") \o <<"\"">> \o Chars("#$%&'()") \o <<"*">> \o Chars("+,-./0123456789:;<=>?@")
             \o UpperCase \o Chars("[\\]") \o <<"CARET">> \o Chars("_") \o <<"BACKQUOTE">> \o LowerCase \o Chars("{|}~")
CharOf == [n \in {0} \cup 7..13 \cup 32..126 |->
             IF n >= 32 THEN Printable[n - 31] ELSE IF n = 0 THEN NUL ELSE <<BEL, BS, "\t", "\n", VT, "\f", "\r">>[n - 6]]
AllChars == {CharOf[n] : n \in DOMAIN CharOf}
Code == [c \in AllChars |-> CHOOSE n \in DOMAIN CharOf : CharOf[n] = c]
IS_PRINTABLE == {CharOf[n] : n \in 32..126} \cup IS_SPACE

\* The digits of every base up to 36, and the values of the characters.
DigitChars == Chars("0123456789") \o LowerCase
DigitOf == [c \in IS_DIGIT \cup IS_ALPHA |-> (CHOOSE k \in 1..36 : DigitChars[k] = TO_LOWER(c)) - 1]

\* What is left of a text after its first n characters.
From(s, n) == SubSeq(s, n + 1, Len(s))

\* The longest beginning of a text whose characters are all in a class.
RECURSIVE LeadingFrom(_, _, _)
LeadingFrom(s, class, n) == IF n < Len(s) /\ s[n + 1] \in class THEN LeadingFrom(s, class, n + 1) ELSE n
Leading(s, class) == LeadingFrom(s, class, 0)
SkipSpace(s) == From(s, Leading(s, IS_SPACE))

-----------------------------------------------------------------------------

CONSTANT U64Max   \* UINT64_MAX

I64Max == U64Max \div 2
Nowhere == -1    \* NULL, or SIZE_MAX
Parsed(n) == [ok |-> TRUE, v |-> n]
NotParsed == [ok |-> FALSE]
OneOf(s, set) == Len(s) > 0 /\ s[1] \in set

\* A Str seen as a zero-terminated string ends at its first NUL.
ZstrLen(s) == Leading(s, AllChars \ {NUL})
Zstr(s) == SubSeq(s, 1, ZstrLen(s))

\* The code of the character at i, that of the terminator past the end.
CodeAt(s, i) == IF i < Len(s) THEN Code[s[i + 1]] ELSE Code[NUL]
LowAt(s, i) == IF i < Len(s) THEN Code[TO_LOWER(s[i + 1])] ELSE Code[NUL]

\* The first place where one of the strings ends or they differ.
RECURSIVE Parting(_, _, _, _)
Parting(s1, s2, At0(_, _), i) ==
    IF i < Len(s1) /\ i < Len(s2) /\ At0(s1, i) = At0(s2, i) THEN Parting(s1, s2, At0, i + 1) ELSE i

ZstrCompare(s1, s2) == LET i == Parting(s1, s2, CodeAt, 0) IN CodeAt(s1, i) - CodeAt(s2, i)
ZstrCompareIgnoreCase(s1, s2) == LET i == Parting(s1, s2, LowAt, 0) IN LowAt(s1, i) - LowAt(s2, i)
BoundedCompare(s1, s2, n, At0(_, _)) ==
    LET i == Parting(s1, s2, At0, 0)
    IN  CASE i >= n -> 0
          [] i < n /\ i < Len(s1) /\ i < Len(s2) -> At0(s1, i) - At0(s2, i)
          [] OTHER -> IF Len(s1) = Len(s2) THEN 0 ELSE IF i < Len(s1) THEN 1 ELSE -1
ZstrCompareN(s1, s2, n) == BoundedCompare(s1, s2, n, CodeAt)
ZstrCompareNIgnoreCase(s1, s2, n) == BoundedCompare(s1, s2, n, LowAt)
zstr_compare(a, b) == LET c == ZstrCompare(a, b) IN IF c < 0 THEN -1 ELSE IF c > 0 THEN 1 ELSE 0

ZstrFindChar(s, ch) == IF ch \in Range(s) THEN Leading(s, AllChars \ {ch}) ELSE IF ch = NUL THEN Len(s) ELSE Nowhere
zstr_dup_n(s, n) == SubSeq(s, 1, IF n < Len(s) THEN n ELSE Len(s))

MatchesAt(s, i, key) == i + Len(key) <= Len(s) /\ SubSeq(s, i + 1, i + Len(key)) = key

\* Mutant: the last place where the needle fits is not looked at.
FindMissesEnd(s, key) ==
    LET hits == {i \in 0..ZstrLen(s) - Len(key) - 1 : MatchesAt(s, i, key)}
    IN  IF key = << >> THEN 0 ELSE IF hits = {} THEN Nowhere ELSE Min(hits)
ZstrFindSubstringN(s, key) ==
    LET hits == {i \in 0..ZstrLen(s) - Len(key) : MatchesAt(s, i, key)}
    IN  IF key = << >> THEN 0 ELSE IF hits = {} THEN Nowhere ELSE Min(hits)

\* FNV-1a: equal for equal bytes, so the bytes stand for it.
str_hash(s) == s
zstr_hash(s) == Zstr(s)

str_compare(a, b) ==
    LET i == Parting(a, b, CodeAt, 0)
    IN  IF i < Len(a) /\ i < Len(b) THEN CodeAt(a, i) - CodeAt(b, i)
        ELSE IF Len(a) < Len(b) THEN -1 ELSE IF Len(a) > Len(b) THEN 1 ELSE 0

str_cmp_zstr(s, other) == ZstrCompare(Zstr(s), other)
str_cmp_cstr(s, other) == ZstrCompareN(Zstr(s), other, Len(other))
str_cmp_str_ignore_case(s, other) == ZstrCompareIgnoreCase(Zstr(s), Zstr(other))
str_cmp_cstr_ignore_case(s, other) == ZstrCompareNIgnoreCase(Zstr(s), other, Len(other))
str_find_str(s, key) == ZstrFindSubstringN(s, key)

\* Views of the pieces between the keys, the last one included.
RECURSIVE str_split_to_iters_impl(_, _)
str_split_to_iters_impl(s, key) ==
    LET next == ZstrFindSubstringN(s, key)
    IN  IF next = Nowhere THEN <<s>>
        ELSE <<SubSeq(s, 1, next)>> \o str_split_to_iters_impl(From(s, next + Len(key)), key)

\* Copies of them; what is left after the last key is dropped when the key
\* begins with it.
RECURSIVE str_split_impl(_, _)
str_split_impl(s, key) ==
    LET next == ZstrFindSubstringN(s, key)
    IN  IF next = Nowhere THEN IF ZstrCompareN(Zstr(s), key, Len(s)) = 0 THEN << >> ELSE <<s>>
        ELSE <<SubSeq(s, 1, next)>> \o str_split_impl(From(s, next + Len(key)), key)

str_index_of_cstr(s, key) == IF key = << >> THEN 0 ELSE IF Len(s) < Len(key) THEN Nowhere ELSE ZstrFindSubstringN(s, key)
str_contains_cstr(s, key) == str_index_of_cstr(s, key) # Nowhere

\* split_direction: -1 the left side, 1 the right side, 0 both.
DefaultStrip == IS_SPACE
strip_str(s, chars, direction) ==
    LET left == IF direction <= 0 THEN From(s, Leading(s, chars)) ELSE s
        rest == Reverse(left)
    IN  IF direction >= 0 THEN Reverse(From(rest, Leading(rest, chars))) ELSE left

starts_with(s, prefix) == Len(s) >= Len(prefix) /\ SubSeq(s, 1, Len(prefix)) = prefix
ends_with(s, suffix) == Len(s) >= Len(suffix) /\ From(s, Len(s) - Len(suffix)) = suffix

\* Goes on behind what it has put in.
RECURSIVE ReplacedFrom(_, _, _, _, _)
ReplacedFrom(s, i, match, replacement, count) ==
    IF i + Len(match) > Len(s) \/ count = 0 THEN s
    ELSE IF MatchesAt(s, i, match)
         THEN ReplacedFrom(SubSeq(s, 1, i) \o replacement \o From(s, i + Len(match)),
                          i + Len(replacement), match, replacement, count - 1)
         ELSE ReplacedFrom(s, i + 1, match, replacement, count)
str_replace_cstr(s, match, replacement, count) == ReplacedFrom(s, 0, match, replacement, count)

(***************************************************************************)
(* Numbers written to text and read back (Str.c, Zstr.c).  A floating      *)
(* point value is the exact decimal v = digits * 10^exp with its sign, or  *)
(* one of the words nan and inf; the arithmetic on it is exact.            *)
(***************************************************************************)

RECURSIVE DigitsOf(_, _)
DigitsOf(n, base) == IF n = 0 THEN << >> ELSE Append(DigitsOf(n \div base, base), n % base)
digit_to_char(digit, uppercase) == IF uppercase /\ digit >= 10 THEN UpperCase[digit - 9] ELSE DigitChars[digit + 1]
Shown(digits, uppercase) == [k \in DOMAIN digits |-> digit_to_char(digits[k], uppercase)]
Decimal(n) == IF n = 0 THEN <<"0">> ELSE Shown(DigitsOf(n, 10), FALSE)

is_valid_base(base) == base # 1 /\ base <= 36
PrefixLetter == [b \in 0..36 |-> CASE b = 2 -> {"b", "B"} [] b = 8 -> {"o", "O"} [] b = 16 -> {"x", "X"} [] OTHER -> {}]
HasPrefix(s, base) == Len(s) >= 2 /\ s[1] = "0" /\ s[2] \in PrefixLetter[base]
skip_prefix(s, base) == IF HasPrefix(s, base) THEN From(s, 2) ELSE s

\* Base 0 is taken for a valid one and then divided by; callers pass none.
StrFromU64(value, config) ==
    LET prefix == CASE ~config.use_prefix -> << >>
                    [] config.base = 2 -> Chars("0b") [] config.base = 8 -> Chars("0o") [] config.base = 16 -> Chars("0x")
                    [] OTHER -> Chars("0")
    IN  IF ~is_valid_base(config.base) THEN NotParsed
        ELSE Parsed(prefix \o IF value = 0 THEN <<"0">> ELSE Shown(DigitsOf(value, config.base), config.uppercase))

\* The sign is written in base ten only; the other bases show the magnitude.
StrFromI64(value, config) ==
    LET negative == value < 0
        text == StrFromU64(IF negative THEN -value ELSE value, config)
    IN  IF text.ok /\ negative /\ config.base = 10 THEN Parsed(<<"-">> \o text.v) ELSE text

BaseOf(s) == IF Len(s) < 2 \/ s[1] # "0" THEN 10
             ELSE IF \E b \in {2, 8, 16} : HasPrefix(s, b) THEN CHOOSE b \in {2, 8, 16} : HasPrefix(s, b) ELSE 10
DigitsIn(base) == {c \in DOMAIN DigitOf : DigitOf[c] < base}

FitsDigit(result, digit, base) == result <= (U64Max - digit) \div base

RECURSIVE Accumulated(_, _, _)
Accumulated(s, base, result) ==
    IF s = << >> THEN Parsed(result)
    ELSE IF ~FitsDigit(result, DigitOf[s[1]], base) THEN NotParsed
    ELSE Accumulated(Tail(s), base, result * base + DigitOf[s[1]])

StrToU64(s, config) ==
    LET t == SkipSpace(s)
        base == IF config.base = 0 THEN BaseOf(t) ELSE config.base
        body == skip_prefix(t, base)
        n == Leading(body, DigitsIn(base))
        rest == From(body, n)
        value == Accumulated(SubSeq(body, 1, n), base, 0)
    IN  IF \/ ~is_valid_base(config.base)
           \/ t = << >>
           \/ n = 0
           \/ rest # << >> /\ rest[1] \notin IS_SPACE
           \/ config.strict /\ SkipSpace(rest) # << >>
        THEN NotParsed ELSE value

\* White space between the sign and the digits is accepted.
StrToI64(s, config) ==
    LET t == SkipSpace(s)
        negative == OneOf(t, {"-"})
        value == StrToU64(IF OneOf(t, {"-", "+"}) THEN Tail(t) ELSE t, config)
    IN  IF t = << >> \/ ~value.ok THEN NotParsed
        ELSE IF value.v > (IF negative THEN I64Max + 1 ELSE I64Max) THEN NotParsed
        ELSE Parsed(IF negative THEN -value.v ELSE value.v)

\* Saturates; `used` is how far the end pointer moves.
ZstrInteger(s) ==
    LET t == SkipSpace(s)
        negative == OneOf(t, {"-"})
        body == IF OneOf(t, {"-", "+"}) THEN Tail(t) ELSE t
        n == Leading(body, IS_DIGIT)
        bound == IF negative THEN I64Max + 1 ELSE I64Max
        Next1(val, c) == IF val > (bound - DigitOf[c]) \div 10 THEN bound ELSE val * 10 + DigitOf[c]
        Sum1[k \in 0..n] == IF k = 0 THEN [v |-> 0, full |-> FALSE]
                            ELSE LET p == Sum1[k - 1] IN
                                 IF p.full THEN p ELSE [v |-> Next1(p.v, body[k]), full |-> p.v > (bound - DigitOf[body[k]]) \div 10]
    IN  [v |-> IF negative THEN -Sum1[n].v ELSE Sum1[n].v, used |-> Len(s) - Len(body) + n]

-----------------------------------------------------------------------------
(* Floating point. *)

Dec(negative, digits, exp) == [kind |-> "dec", negative |-> negative, digits |-> digits, exp |-> exp]
Nan == [kind |-> "nan"]
Inf(negative) == [kind |-> "inf", negative |-> negative]

DecimalValue(digits) == FoldLeft(LAMBDA n, c : n * 10 + DigitOf[c], 0, digits)

\* Digits, a point and digits: the number, how many there are, and the rest.
Mantissa(s) ==
    LET i == Leading(s, IS_DIGIT)
        point == OneOf(From(s, i), {"."})
        j == IF point THEN Leading(From(s, i + 1), IS_DIGIT) ELSE 0
    IN  [digits |-> DecimalValue(SubSeq(s, 1, i) \o SubSeq(s, i + 2, i + 1 + j)), exp |-> -j, count |-> i + j,
         rest |-> IF point THEN From(s, i + 1 + j) ELSE From(s, i), point |-> point]

\* The exponent stops growing at a cap, so that it never overflows.
RECURSIVE Capped(_, _, _)
Capped(digits, cap, e) == IF digits = << >> THEN e ELSE Capped(Tail(digits), cap, IF e < cap THEN e * 10 + DigitOf[digits[1]] ELSE e)
Exponent(s, cap) ==
    LET body == IF OneOf(s, {"-", "+"}) THEN Tail(s) ELSE s
        n == Leading(body, IS_DIGIT)
        e == Capped(SubSeq(body, 1, n), cap, 0)
    IN  [e |-> IF OneOf(s, {"-"}) THEN -e ELSE e, count |-> n, rest |-> From(body, n)]

\* A word of three letters that stands alone.
Word3(s, word) == Len(s) >= 3 /\ (\A k \in 1..3 : TO_LOWER(s[k]) = word[k]) /\ (Len(s) = 3 \/ s[4] \in IS_SPACE)

StrToF64(s, config) ==
    LET t == SkipSpace(s)
        negative == OneOf(t, {"-"})
        body == IF OneOf(t, {"-", "+"}) THEN Tail(t) ELSE t
        m == Mantissa(body)
        scaled == OneOf(m.rest, {"e", "E"})
        x == IF scaled THEN Exponent(Tail(m.rest), 1024) ELSE [e |-> 0, count |-> 1, rest |-> m.rest]
    IN  CASE t = << >> -> NotParsed
          [] Word3(t, Chars("nan")) -> Parsed(Nan)
          [] Word3(t, Chars("inf")) -> Parsed(Inf(FALSE))
          [] negative /\ Word3(body, Chars("inf")) -> Parsed(Inf(TRUE))
          [] OTHER -> IF \/ x.count = 0 \/ m.count = 0
                         \/ config.strict /\ SkipSpace(x.rest) # << >>
                      THEN NotParsed ELSE Parsed(Dec(negative, m.digits, m.exp + x.e))

ZstrToF64(s) ==
    LET t == SkipSpace(s)
        body == IF OneOf(t, {"-", "+"}) THEN Tail(t) ELSE t
        m == Mantissa(body)
        x == IF OneOf(m.rest, {"e", "E"}) THEN Exponent(Tail(m.rest), 1000000) ELSE [e |-> 0, rest |-> m.rest]
    IN  IF m.count = 0 /\ ~m.point THEN [v |-> Dec(FALSE, 0, 0), used |-> Len(s) - Len(body)]
        ELSE [v |-> Dec(OneOf(t, {"-"}), m.digits, m.exp + x.e), used |-> Len(s) - Len(x.rest)]

Pow10(k) == 10 ^ k
\* floor(v * 10^k), for a value of which that is small.
Floor(v, k) == IF v.exp + k >= 0 THEN v.digits * Pow10(v.exp + k) ELSE v.digits \div Pow10(-(v.exp + k))
Magnitude(v) == Len(DigitsOf(v.digits, 10)) + v.exp - 1   \* floor(log10 v)

\* The same number.
SameDec(v, w) ==
    LET e == Min({v.exp, w.exp}) IN v.digits * Pow10(v.exp - e) = w.digits * Pow10(w.exp - e) /\ (v.digits = 0 \/ v.negative = w.negative)

ExponentText(e) ==
    LET d == Decimal(IF e < 0 THEN -e ELSE e)
    IN  <<IF e < 0 THEN "-" ELSE "+">> \o (IF Len(d) < 2 THEN <<"0">> ELSE << >>) \o d

\* Each digit is rounded by what follows it, and ten is clamped to nine.
ScientificDigit(v, exp, k) ==
    LET tenths == Floor(v, k - exp) % 10
        next == Floor(v, k + 1 - exp) % 10
    IN  IF next < 5 THEN tenths ELSE IF tenths = 9 THEN 9 ELSE tenths + 1

\* Rounded once to the precision; the part in front of the point is that of
\* the value before rounding.
RoundedTo(v, precision) ==
    Floor(v, precision) + IF Floor(v, precision + 1) % 10 >= 5 THEN 1 ELSE 0

Fraction(v, precision) ==
    LET n == RoundedTo(v, precision)
    IN  [k \in 1..precision |-> DigitChars[((n \div Pow10(precision - k)) % 10) + 1]]

StrFromF64(v, config) ==
    LET sign == IF v.negative /\ v.digits # 0 THEN <<"-">> ELSE IF config.always_sign THEN <<"+">> ELSE << >>
        exp == IF v.digits = 0 THEN 0 ELSE Magnitude(v)
        use_sci == config.force_sci \/ (v.digits # 0 /\ (exp < -4 \/ exp >= 7))
        point == IF config.precision > 0 THEN <<".">> ELSE << >>
    IN  CASE config.precision > 17 -> NotParsed
          [] config.precision <= 17 /\ v.kind = "nan" -> Parsed(Chars(IF config.uppercase THEN "NAN" ELSE "nan"))
          [] config.precision <= 17 /\ v.kind = "inf" ->
               Parsed((IF v.negative THEN <<"-">> ELSE IF config.always_sign THEN <<"+">> ELSE << >>)
                      \o Chars(IF config.uppercase THEN "INF" ELSE "inf"))
          [] config.precision <= 17 /\ v.kind = "dec" ->
               Parsed(sign \o
                 IF use_sci THEN Decimal(Floor(v, -exp)) \o point
                                 \o [k \in 1..config.precision |-> DigitChars[ScientificDigit(v, exp, k) + 1]]
                                 \o <<IF config.uppercase THEN "E" ELSE "e">> \o ExponentText(exp)
                 ELSE Decimal(Floor(v, 0)) \o point \o Fraction(v, config.precision))
=============================================================================
