------------------------------ MODULE Numbers ------------------------------
(***************************************************************************)
(* The algorithms of Std/Container/Int.c above its arithmetic: numerals,   *)
(* powers, roots, number theory and modular arithmetic, on naturals, and   *)
(* the decimal numbers of Float.c, against what they are meant to compute, *)
(* one state for each input.  The arithmetic they call is that of Int.tla; *)
(* every allocation succeeds.                                              *)
(***************************************************************************)
EXTENDS Integers, Sequences, SequencesExt, FiniteSetsExt

CONSTANTS
    MaxWord,  \* UINT64_MAX
    Bases,    \* the bases of the primality test: the primes up to 37
    NumberInputs,   \* numbers
    ModularInputs,  \* triples a, b, modulus
    Radixes,
    FloatInputs     \* pairs of Floats

VARIABLE input

Bad == [ok |-> FALSE]
Good(n) == [ok |-> TRUE, n |-> n]

\* A character is the value of its digit, letters of both cases from 10 on.
Underscore == 98
Plus == 99
Letter_b == 11
Letter_o == 24

\* int_try_from_str_radix_impl, from position start on.
FromRadix(s, start, radix, allow_underscores) ==
    LET Skipped(c) == allow_underscores /\ c = Underscore
        digits == SelectSeq(SubSeq(s, start + 1, Len(s)), LAMBDA c : ~Skipped(c))
        value[i \in 0..Len(digits)] == IF i = 0 THEN 0 ELSE value[i - 1] * radix + digits[i]
    IN  IF radix \notin 2..36 \/ digits = << >> \/ \E i \in DOMAIN digits : digits[i] >= radix THEN Bad
        ELSE Good(value[Len(digits)])

Signed(s) == IF s # << >> /\ s[1] = Plus THEN 1 ELSE 0
Prefixed(s, letter) == IF Len(s) >= 2 /\ s[1] = 0 /\ s[2] = letter THEN 2 ELSE 0
IntTryFromStr(s) == FromRadix(s, Signed(s), 10, TRUE)
IntTryFromStrRadix(s, radix) == FromRadix(s, Signed(s), radix, TRUE)
IntTryFromBinary(s) == FromRadix(s, Prefixed(s, Letter_b), 2, TRUE)
IntTryFromOctStr(s) == FromRadix(s, Prefixed(s, Letter_o), 8, TRUE)
IntTryFromHexStr(s) == FromRadix(s, 0, 16, FALSE)

\* The largest power of the radix that a word holds, and its digits.
RECURSIVE Chunk(_, _, _)
Chunk(chunk, digits, radix) ==
    IF chunk > MaxWord \div radix THEN [value |-> chunk, digits |-> digits]
    ELSE Chunk(chunk * radix, digits + 1, radix)

\* The digits of one chunk, lowest first: all of them unless it is the last.
RECURSIVE ChunkDigits(_, _, _, _)
ChunkDigits(rem, k, last, c) ==
    IF k = c.digits \/ (last /\ rem = 0 /\ k > 0) THEN << >>
    ELSE <<rem % c.radix>> \o ChunkDigits(rem \div c.radix, k + 1, last, c)

RECURSIVE LowFirst(_, _)
LowFirst(n, c) ==
    IF n = 0 THEN << >>
    ELSE ChunkDigits(n % c.value, 0, n \div c.value = 0, c) \o LowFirst(n \div c.value, c)

int_try_to_str_radix(n, radix) ==
    LET chunk == Chunk(1, 0, radix)
        c == [value |-> chunk.value, digits |-> chunk.digits, radix |-> radix]
    IN  CASE radix \notin 2..36 -> Bad
          [] radix \in 2..36 /\ n = 0 -> Good(<<0>>)
          [] OTHER -> Good(Reverse(LowFirst(n, c)))

\* Square and multiply.
RECURSIVE PowLoop(_, _, _)
PowLoop(acc, current, e) ==
    IF e = 0 THEN acc
    ELSE PowLoop(IF e % 2 = 1 THEN acc * current ELSE acc, IF e \div 2 > 0 THEN current * current ELSE current, e \div 2)
int_pow_u64(base, e) == PowLoop(1, base, e)

RECURSIVE IntGCD(_, _)
IntGCD(x, y) == IF y = 0 THEN x ELSE IntGCD(y, x % y)
IntLCM(a, b) == IF a = 0 \/ b = 0 THEN 0 ELSE (a \div IntGCD(a, b)) * b

RECURSIVE BitLen(_)
BitLen(n) == IF n = 0 THEN 0 ELSE 1 + BitLen(n \div 2)

\* The binary search of IntRootRem.
RECURSIVE RootLoop(_, _, _, _, _)
RootLoop(low, high, best, value, degree) ==
    LET mid == (low + high) \div 2
    IN  CASE low > high -> best
          [] low <= high /\ int_pow_u64(mid, degree) <= value -> RootLoop(mid + 1, high, mid, value, degree)
          [] OTHER -> RootLoop(low, IF mid <= 1 THEN 0 ELSE mid - 1, best, value, degree)

\* Mutant: the search starts from the bits divided, not rounded up.
HighTooLow(value, degree) == 2 ^ (BitLen(value) \div degree)

HighRoot(value, degree) == 2 ^ Max({1, (BitLen(value) + degree - 1) \div degree})
IntRootRem(value, degree) ==
    LET root == RootLoop(0, HighRoot(value, degree), 0, value, degree)
    IN  CASE degree = 0 -> Bad
          [] degree # 0 /\ (value = 0 \/ degree = 1) -> Good(<<value, 0>>)
          [] OTHER -> Good(<<root, value - int_pow_u64(root, degree)>>)
IntRoot(value, degree) == IF IntRootRem(value, degree).ok THEN Good(IntRootRem(value, degree).n[1]) ELSE Bad
IntIsPerfectSquare(n) == IntRootRem(n, 2).n[2] = 0
IntIsPerfectPower(n) == n = 0 \/ BitLen(n) = 1 \/ \E d \in 2..BitLen(n) - 1 : IntRootRem(n, d).n[2] = 0

\* IntTryJacobi: the twos out, reciprocity, reduction.
RECURSIVE JacobiLoop(_, _, _)
JacobiLoop(aa, nn, result) ==
    CASE aa = 0 -> IF nn = 1 THEN result ELSE 0
      [] aa # 0 /\ aa % 2 = 0 -> JacobiLoop(aa \div 2, nn, IF nn % 8 \in {3, 5} THEN -result ELSE result)
      [] OTHER -> JacobiLoop(nn % aa, aa, IF aa % 4 = 3 /\ nn % 4 = 3 THEN -result ELSE result)
IntTryJacobi(a, n) == IF n % 2 = 0 THEN Bad ELSE Good(JacobiLoop(a % n, n, 1))

Reduced(a, m) == IF a >= m THEN a % m ELSE a
IntModAdd(a, b, m) ==
    LET sum == Reduced(a, m) + Reduced(b, m)
    IN  IF m = 0 THEN Bad ELSE Good(IF sum >= m THEN sum - m ELSE sum)
IntModSub(a, b, m) ==
    LET ar == a % m
        br == b % m
    IN  IF m = 0 THEN Bad ELSE Good(IF ar >= br THEN ar - br ELSE m - (br - ar))
IntModMul(a, b, m) == IF m = 0 THEN Bad ELSE Good((Reduced(a, m) * Reduced(b, m)) % m)

RECURSIVE PowModLoop(_, _, _, _)
PowModLoop(acc, base, e, m) ==
    LET Times(x, y) == IntModMul(x, y, m).n
    IN  IF e = 0 THEN acc
        ELSE PowModLoop(IF e % 2 = 1 THEN Times(acc, base) ELSE acc,
                        IF e \div 2 > 0 THEN Times(base, base) ELSE base, e \div 2, m)
int_pow_mod(base, e, m) == IF m = 0 THEN Bad ELSE Good(PowModLoop(1 % m, base % m, e, m))

\* Of a word exponent, by the same loop.
int_pow_u64_mod(base, e, m) == int_pow_mod(base, e % (MaxWord + 1), m)

\* A SignedInt: zero is never negative.
Sint(negative, magnitude) == [negative |-> negative /\ magnitude # 0, magnitude |-> magnitude]
sint_add(a, b) ==
    CASE a.negative = b.negative -> Sint(a.negative, a.magnitude + b.magnitude)
      [] a.negative # b.negative /\ a.magnitude = b.magnitude -> Sint(FALSE, 0)
      [] a.negative # b.negative /\ a.magnitude > b.magnitude -> Sint(a.negative, a.magnitude - b.magnitude)
      [] OTHER -> Sint(b.negative, b.magnitude - a.magnitude)
sint_sub(a, b) == sint_add(a, Sint(~b.negative, b.magnitude))
sint_mul_unsigned(a, n) == Sint(a.negative, a.magnitude * n)

Coefficient(t, m) == IF t.negative /\ t.magnitude % m # 0 THEN m - (t.magnitude % m) ELSE t.magnitude % m

\* The extended Euclid of IntModInv.
RECURSIVE InvLoop(_, _, _, _, _)
InvLoop(t, new_t, r, new_r, m) ==
    CASE new_r # 0 -> InvLoop(new_t, sint_sub(t, sint_mul_unsigned(new_t, r \div new_r)), new_r, r % new_r, m)
      [] new_r = 0 /\ r = 1 -> Good(Coefficient(t, m))
      [] OTHER -> Bad
IntModInv(a, m) == IF m = 0 THEN Bad ELSE InvLoop(Sint(FALSE, 0), Sint(FALSE, 1), m, a % m, m)
IntModDiv(a, b, m) == IF IntModInv(b, m).ok THEN IntModMul(a, IntModInv(b, m).n, m) ELSE Bad

\* The twos of n, and what is left.
RECURSIVE TwosOut(_, _)
TwosOut(d, s) == IF d % 2 = 1 THEN [odd |-> d, twos |-> s] ELSE TwosOut(d \div 2, s + 1)

\* Miller and Rabin: one base, squared until -1 comes up.
RECURSIVE ReachesMinusOne(_, _, _)
ReachesMinusOne(x, left, n) ==
    left > 1 /\ LET next == IntModMul(x, x, n).n IN next = n - 1 \/ ReachesMinusOne(next, left - 1, n)
Witness(base, n) ==
    LET d == TwosOut(n - 1, 0)
        x == int_pow_mod(base, d.odd, n).n
    IN  base < n /\ x # 1 /\ x # n - 1 /\ ~ReachesMinusOne(x, d.twos, n)
IntIsProbablePrime(n) ==
    LET hits == {i \in DOMAIN Bases : n % Bases[i] = 0}
    IN  CASE n < 2 -> FALSE
          [] n = 2 -> TRUE
          [] n > 2 /\ n % 2 = 0 -> FALSE
          [] n > 2 /\ n % 2 = 1 /\ hits # {} -> n = Bases[Min(hits)]
          [] OTHER -> \A i \in DOMAIN Bases : ~Witness(Bases[i], n)

RECURSIVE PrimeFrom(_)
PrimeFrom(candidate) == IF IntIsProbablePrime(candidate) THEN candidate ELSE PrimeFrom(candidate + 2)
IntNextPrime(n) == IF n <= 1 THEN 2 ELSE PrimeFrom(IF n % 2 = 0 THEN n + 1 ELSE n + 2)

RECURSIVE NonResidueFrom(_, _)
NonResidueFrom(z, p) == IF IntTryJacobi(z, p).n = -1 THEN z ELSE NonResidueFrom(z + 1, p)
\* x squared i times.
RECURSIVE SquaredTimes(_, _, _)
SquaredTimes(x, i, p) == IF i = 0 THEN x ELSE SquaredTimes(IntModMul(x, x, p).n, i - 1, p)

\* Tonelli and Shanks.
RECURSIVE ShanksLoop(_, _, _, _, _)
ShanksLoop(m, c, t, r, p) ==
    LET i == Min({m} \cup {k \in 1..m - 1 : SquaredTimes(t, k, p) = 1})
        b == SquaredTimes(c, m - i - 1, p)
        b_sq == IntModMul(b, b, p).n
    IN  CASE t = 1 -> Good(r)
          [] t # 1 /\ i = m -> Bad
          [] OTHER -> ShanksLoop(i, b_sq, IntModMul(t, b_sq, p).n, IntModMul(r, b, p).n, p)
IntModSqrt(value, p) ==
    LET a == value % p
        q == TwosOut(p - 1, 0)
        Pow(x, e) == int_pow_mod(x, e, p).n
    IN  IF p = 0 THEN Bad
        ELSE IF a = 0 \/ p = 2 THEN Good(a)
        ELSE IF ~IntIsProbablePrime(p) \/ IntTryJacobi(a, p).n # 1 THEN Bad
        ELSE IF p % 4 = 3 THEN Good(Pow(a, (p + 1) \div 4))
        ELSE ShanksLoop(q.twos, Pow(NonResidueFrom(2, p), q.odd), Pow(a, q.odd), Pow(a, (q.odd + 1) \div 2), p)

-----------------------------------------------------------------------------
(* Float.c: a sign, a significand and a decimal exponent.  Significands are
   naturals, whose arithmetic is the one above, and every allocation succeeds. *)

Float(negative, significand, exponent) == [negative |-> negative, significand |-> significand, exponent |-> exponent]
FloatZero == Float(FALSE, 0, 0)
FloatIsZero(f) == f.significand = 0
FloatIsNegative(f) == ~FloatIsZero(f) /\ f.negative

\* The loop that strips trailing decimal zeros, which an odd number has not.
RECURSIVE Stripped(_)
Stripped(f) ==
    IF f.significand % 10 = 0
    THEN Stripped([f EXCEPT !.significand = @ \div 10, !.exponent = @ + 1]) ELSE f
float_normalize(f) == IF FloatIsZero(f) THEN FloatZero ELSE IF f.significand % 2 = 1 THEN f ELSE Stripped(f)

float_pow10(n) == int_pow_u64(10, n)
\* Only ever to a smaller exponent; a zero takes any.
float_scale_to_exponent(f, exponent) ==
    [f EXCEPT !.significand = IF FloatIsZero(f) THEN 0 ELSE @ * float_pow10(f.exponent - exponent),
              !.exponent = exponent]

\* What float_hash mixes.
float_hash(f) == <<f.significand, f.exponent, f.negative>>

Order3(x, y) == IF x < y THEN -1 ELSE IF x > y THEN 1 ELSE 0

\* float_try_abs_compare: the operand with the higher exponent is scaled down.
float_abs_compare(a, b) ==
    IF a.exponent >= b.exponent THEN Order3(float_scale_to_exponent(a, b.exponent).significand, b.significand)
    ELSE -Order3(float_scale_to_exponent(b, a.exponent).significand, a.significand)
float_compare(a, b) ==
    CASE FloatIsZero(a) /\ FloatIsZero(b) -> 0
      [] FloatIsNegative(a) # FloatIsNegative(b) -> IF FloatIsNegative(a) THEN -1 ELSE 1
      [] OTHER -> IF FloatIsNegative(a) THEN -float_abs_compare(a, b) ELSE float_abs_compare(a, b)

FloatNegate(f) == IF FloatIsZero(f) THEN f ELSE [f EXCEPT !.negative = ~@]

float_add(a, b) ==
    LET exponent == Min({a.exponent, b.exponent})
        x == float_scale_to_exponent(a, exponent)
        y == float_scale_to_exponent(b, exponent)
    IN  float_normalize(
          CASE x.negative = y.negative -> Float(x.negative, x.significand + y.significand, exponent)
            [] x.negative # y.negative /\ x.significand > y.significand ->
                 Float(x.negative, x.significand - y.significand, exponent)
            [] x.negative # y.negative /\ x.significand < y.significand ->
                 Float(y.negative, y.significand - x.significand, exponent)
            [] OTHER -> FloatZero)
float_sub(a, b) == float_add(a, FloatNegate(b))
float_mul(a, b) ==
    float_normalize(Float(FloatIsNegative(a) # FloatIsNegative(b), a.significand * b.significand, a.exponent + b.exponent))
float_div(a, b, precision) ==
    IF FloatIsZero(b) THEN Bad
    ELSE IF FloatIsZero(a) THEN Good(FloatZero)
    ELSE Good(float_normalize(Float(FloatIsNegative(a) # FloatIsNegative(b),
                                    (a.significand * float_pow10(precision)) \div b.significand,
                                    a.exponent - b.exponent - precision)))

FloatFromInt(n) == float_normalize(Float(FALSE, n, 0))
float_from_i64(n) == float_normalize(Float(n < 0, IF n < 0 THEN -n ELSE n, 0))
\* float_try_from_ieee_bits: mantissa * 2^binexp, exactly.
FloatFromIeee(negative, mantissa, binexp) ==
    CASE mantissa = 0 -> Float(negative, 0, 0)
      [] mantissa # 0 /\ binexp >= 0 -> float_normalize(Float(negative, mantissa * 2 ^ binexp, 0))
      [] OTHER -> float_normalize(Float(negative, mantissa * int_pow_u64(5, -binexp), binexp))

\* The forms that take another kind of number on the right make a Float of it
\* first.
Converted(x) ==
    CASE x.kind \in {"u64", "i64"} -> float_from_i64(x.n)
      [] x.kind = "int" -> FloatFromInt(x.n)
      [] x.kind = "ieee" -> FloatFromIeee(x.n < 0, IF x.n < 0 THEN -x.n ELSE x.n, x.binexp)
float_compare_mixed(a, x) == float_compare(a, Converted(x))
float_add_mixed(a, x) == float_add(a, Converted(x))
float_sub_mixed(a, x) == float_sub(a, Converted(x))
float_mul_mixed(a, x) == float_mul(a, Converted(x))
float_div_mixed(a, x, precision) == float_div(a, Converted(x), precision)

\* Refused for negative values and for values that are not whole.
FloatToInt(f) ==
    CASE FloatIsNegative(f) -> Bad
      [] FloatIsZero(f) -> Good(0)
      [] OTHER ->
           LET unit == float_pow10(-f.exponent)
           IN  IF f.exponent >= 0 THEN Good(f.significand * float_pow10(f.exponent))
               ELSE IF f.significand % unit = 0 THEN Good(f.significand \div unit) ELSE Bad

\* Text: digits stand for themselves.
Dot == 10
E == 11
Minus == 13
Blank == 14
IsDigit(c) == c \in 0..9
SignPlus == 12

\* The length of the longest prefix of S-characters.
PrefixOf(s, S) == Max({n \in 0..Len(s) : \A i \in 1..n : s[i] \in S})
ValueOf(s) == LET v[i \in 0..Len(s)] == IF i = 0 THEN 0 ELSE 10 * v[i - 1] + s[i] IN v[Len(s)]

\* ZstrToI64: the number and how far it read; without digits, up to where they
\* would have begun.
ZstrToI64(s) ==
    LET blanks == PrefixOf(s, {Blank})
        signed == Len(s) > blanks /\ s[blanks + 1] \in {SignPlus, Minus}
        start == blanks + IF signed THEN 1 ELSE 0
        digits == PrefixOf(SubSeq(s, start + 1, Len(s)), 0..9)
        value == ValueOf(SubSeq(s, start + 1, start + digits))
    IN  [n |-> IF signed /\ s[start] = Minus THEN -value ELSE value, end |-> start + digits]

float_try_from_str(s) ==
    LET signed == s # << >> /\ s[1] \in {SignPlus, Minus}
        body == SubSeq(s, IF signed THEN 2 ELSE 1, Len(s))
        plain == PrefixOf(body, 0..9 \cup {Dot})
        mantissa == SubSeq(body, 1, plain)
        rest == SubSeq(body, plain + 2, Len(body))
        dots == {i \in 1..plain : mantissa[i] = Dot}
        digits == SelectSeq(mantissa, IsDigit)
        fractional == IF dots = {} THEN 0 ELSE plain - Max(dots)
        exponent == IF plain = Len(body) THEN [n |-> 0, end |-> 0] ELSE ZstrToI64(rest)
    IN  IF \/ Cardinality(dots) > 1 \/ digits = << >>
           \/ plain < Len(body) /\ (body[plain + 1] # E \/ exponent.end = 0 \/ exponent.end # Len(rest))
        THEN Bad
        ELSE Good(float_normalize(Float(signed /\ s[1] = Minus /\ ValueOf(digits) # 0, ValueOf(digits), exponent.n - fractional)))

ZeroDigits(n) == [i \in 1..n |-> 0]
float_try_to_str(f) ==
    LET digits == int_try_to_str_radix(f.significand, 10).n
        split == Len(digits) + f.exponent
        sign == IF f.negative THEN <<Minus>> ELSE << >>
    IN  CASE FloatIsZero(f) -> <<0>>
          [] ~FloatIsZero(f) /\ f.exponent >= 0 -> sign \o digits \o ZeroDigits(f.exponent)
          [] ~FloatIsZero(f) /\ f.exponent < 0 /\ split > 0 ->
               sign \o SubSeq(digits, 1, split) \o <<Dot>> \o SubSeq(digits, split + 1, Len(digits))
          [] OTHER -> sign \o <<0, Dot>> \o ZeroDigits(-split) \o digits

-----------------------------------------------------------------------------
(* What they are meant to compute *)

ArithmeticInit == input \in [kind : {"number"}, n : NumberInputs] \cup [kind : {"modular"}, t : ModularInputs]
                           \cup [kind : {"floats"}, a : FloatInputs, b : FloatInputs]

Divides(d, n) == n % d = 0
Prime(n) == n >= 2 /\ \A d \in 2..n - 1 : d * d <= n => ~Divides(d, n)
Coprime(a, m) == \A d \in 2..m : ~(Divides(d, m) /\ Divides(d, a))

\* A numeral has no zero in front and reads back as its number, in capitals or
\* not, with a sign in front and a separator inside (the conversions of Int.c).
NumeralsRead ==
    input.kind = "number" =>
      \A radix \in Radixes :
        LET n == input.n
            s == int_try_to_str_radix(n, radix).n
        IN  /\ \A i \in DOMAIN s : s[i] \in 0..radix - 1
            /\ Len(s) > 1 => s[1] # 0
            /\ IntTryFromStrRadix(<<Plus>> \o s, radix) = Good(n)
            /\ IntTryFromStrRadix(<<s[1], Underscore>> \o Tail(s), radix) = Good(n)
            /\ IntTryFromStrRadix(<<Underscore>>, radix) = Bad
            /\ radix = 10 => IntTryFromStr(s) = Good(n) /\ IntTryFromStr(<<Plus, Plus>> \o s) = Bad
            /\ radix = 2 => IntTryFromBinary(<<0, Letter_b>> \o s) = Good(n) /\ IntTryFromBinary(<<0, Letter_b>>) = Bad
            /\ radix = 8 => IntTryFromOctStr(<<0, Letter_o>> \o s) = Good(n)
            /\ radix = 16 => IntTryFromHexStr(s) = Good(n) /\ IntTryFromHexStr(<<0, Underscore>> \o s) = Bad

RECURSIVE PowerOf(_, _)
PowerOf(n, b) == n = 1 \/ (Divides(b, n) /\ PowerOf(n \div b, b))

RootsExact(n) ==
    /\ ~IntRoot(n, 0).ok
    /\ \A degree \in 1..5 :
         LET r == IntRootRem(n, degree).n IN r[1] ^ degree <= n /\ n < (r[1] + 1) ^ degree /\ r[2] = n - r[1] ^ degree
    /\ IntIsPerfectSquare(n) <=> \E k \in 0..n : k * k = n
    /\ IntIsPerfectPower(n) <=> n <= 1 \/ \E b \in 2..n : b * b <= n /\ PowerOf(n, b)

PrimesExact(n) ==
    /\ IntIsProbablePrime(n) <=> Prime(n)
    /\ IntNextPrime(n) = Min({p \in n + 1..2 * n + 2 : Prime(p)})

\* The Jacobi symbol over the prime factors of n.
Legendre(a, p) == IF Divides(p, a) THEN 0 ELSE IF \E x \in 1..p - 1 : (x * x - a) % p = 0 THEN 1 ELSE -1
RECURSIVE JacobiSymbol(_, _)
JacobiSymbol(a, n) ==
    IF n = 1 THEN 1 ELSE LET p == Min({d \in 2..n : Divides(d, n)}) IN Legendre(a, p) * JacobiSymbol(a, n \div p)

Power(a, k) == IF k = 0 THEN 1 ELSE a ^ k

ModularExact(a, b, m) ==
    LET Residue(r, x) == r.ok => r.n \in 0..m - 1 /\ (r.n - x) % m = 0
        root == IntModSqrt(a, m)
    IN  /\ \A r \in {IntModAdd(a, b, m), IntModSub(a, b, m), IntModMul(a, b, m), int_pow_mod(a, b, m)} : r.ok <=> m # 0
        /\ m # 0 => /\ Residue(IntModAdd(a, b, m), a + b) /\ Residue(IntModSub(a, b, m), a - b)
                    /\ Residue(IntModMul(a, b, m), a * b) /\ Residue(int_pow_mod(a, b, m), Power(a, b))
                    /\ int_pow_u64_mod(a, b, m) = int_pow_mod(a, b, m)
                    /\ IntModInv(a, m).ok <=> Coprime(a, m)
                    /\ IntModInv(a, m).ok => Residue(IntModInv(a, m), IntModInv(a, m).n) /\ (a * IntModInv(a, m).n - 1) % m = 0
                    /\ IntModDiv(a, b, m).ok <=> Coprime(b, m)
                    /\ IntModDiv(a, b, m).ok => (b * IntModDiv(a, b, m).n - a) % m = 0
                    /\ root.ok => root.n \in 0..m - 1 /\ (root.n * root.n - a) % m = 0
                    /\ Prime(m) => (root.ok <=> \E x \in 0..m - 1 : (x * x - a) % m = 0)
                    /\ ~Prime(m) => (root.ok <=> Divides(m, a))
                    /\ m % 2 = 1 => IntTryJacobi(a, m) = Good(JacobiSymbol(a, m))
        /\ a + b > 0 => /\ \A d \in 1..a + b : Divides(d, a) /\ Divides(d, b) <=> Divides(d, IntGCD(a, b))
                        /\ IntLCM(a, b) * IntGCD(a, b) = a * b
        /\ int_pow_u64(a, b % 5) = Power(a, b % 5)

\* Roots, primes, symbols, inverses and powers are what number theory says, and
\* a call is refused exactly when there is no answer (the algorithms of Int.c).
NumberTheoryHolds ==
    /\ input.kind = "number" => RootsExact(input.n) /\ PrimesExact(input.n)
    /\ input.kind = "modular" => ModularExact(input.t[1], input.t[2], input.t[3])

\* The value of a Float in units of 10^exponent.
In(f, exponent) == (IF f.negative THEN -1 ELSE 1) * float_scale_to_exponent(f, exponent).significand
Same(f, g) == LET e == Min({f.exponent, g.exponent}) IN In(f, e) = In(g, e)
Normal(f) == IF FloatIsZero(f) THEN f = FloatZero ELSE f.significand % 10 # 0
Is(f, units, exponent) == Normal(f) /\ Same(f, Float(units < 0, IF units < 0 THEN -units ELSE units, exponent))

\* Truncated towards zero in the last of the digits asked for.
QuotientExact(a, b, precision) ==
    LET q == float_div(a, b, precision)
        unit == a.exponent - b.exponent - precision
        n == float_scale_to_exponent(q.n, unit).significand
    IN  /\ q.ok <=> ~FloatIsZero(b)
        /\ q.ok => /\ Normal(q.n)
                   /\ n * b.significand <= a.significand * 10 ^ precision
                   /\ a.significand * 10 ^ precision < (n + 1) * b.significand
                   /\ FloatIsNegative(q.n) <=> ~FloatIsZero(q.n) /\ a.negative # b.negative

\* Sums, products and conversions of Floats are exact and normal, quotients
\* are truncated, the order is that of the values, and a Float reads back from
\* its text, whatever exponents the operands have.  A whole number that is not
\* negative converts to an Int; what becomes of the others is open, as
\* Float/Convert.h has them truncated and the code refuses them (Float.c).
FloatsCompute ==
    input.kind = "floats" =>
      LET a == input.a
          b == input.b
          e == Min({a.exponent, b.exponent})
          text == float_try_to_str(a)
      IN  /\ Is(float_add(a, b), In(a, e) + In(b, e), e)
          /\ Is(float_sub(a, b), In(a, e) - In(b, e), e)
          /\ Is(float_mul(a, b), In(a, a.exponent) * In(b, b.exponent), a.exponent + b.exponent)
          /\ \A precision \in 0..3 : QuotientExact(a, b, precision)
          /\ float_compare(a, b) = Order3(In(a, e), In(b, e))
          /\ float_compare(float_normalize(a), float_normalize(b)) = 0 <=> float_hash(float_normalize(a)) = float_hash(float_normalize(b))
          /\ \A n \in {-7, 0, 3} : \A x \in [kind : {"i64", "ieee"}, n : {n}, binexp : {-1, 2}] :
               LET u == IF x.kind = "ieee" /\ x.binexp = 2 THEN 40 * n ELSE IF x.kind = "ieee" THEN 5 * n ELSE 10 * n
                   f == Min({a.exponent, -1})
                   v == u * 10 ^ (-1 - f)
               IN  /\ Is(float_add_mixed(a, x), In(a, f) + v, f)
                   /\ Is(float_sub_mixed(a, x), In(a, f) - v, f)
                   /\ Is(float_mul_mixed(a, x), In(a, a.exponent) * u, a.exponent - 1)
                   /\ float_compare_mixed(a, x) = Order3(In(a, f), v)
                   /\ float_div_mixed(a, x, 1).ok <=> n # 0
          /\ float_try_from_str(text) = Good(float_normalize(a))
          /\ Is(float_try_from_str(text \o <<E, Minus, 2>>).n, In(a, a.exponent), a.exponent - 2)
          /\ \A bad \in {<<Dot>>, <<Dot, 0, Dot>>, <<E, 1>>, text \o <<Minus>>, text \o <<E>>, text \o <<Blank>>} :
               ~float_try_from_str(bad).ok
          /\ ~FloatIsNegative(a) /\ float_normalize(a).exponent >= 0 =>
               FloatToInt(a).ok /\ Same(float_normalize(a), FloatFromInt(FloatToInt(a).n))
          /\ Same(float_from_i64(In(a, a.exponent)), [a EXCEPT !.exponent = 0])
          /\ \A k \in 0..4 : LET f == FloatFromIeee(a.negative, a.significand, -k)
                                 g == FloatFromIeee(a.negative, a.significand, k)
                             IN  /\ f.exponent <= 0 => f.significand * 2 ^ k = a.significand * 10 ^ (-f.exponent)
                                 /\ Is(g, In(a, a.exponent) * 2 ^ k, 0) \/ FloatIsZero(a)

\* Every conversion, algorithm of number theory and operation on decimals gives
\* what it is meant to, and refuses what has no answer (Int.c, Float.c).
ArithmeticExact == NumeralsRead /\ NumberTheoryHolds /\ FloatsCompute
=============================================================================
