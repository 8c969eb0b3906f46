-------------------------------- MODULE Int --------------------------------
(***************************************************************************)
(* Std/Container/Int.c, the arithmetic on limbs.  An Int is a bit vector   *)
(* with the lowest bit first; its value is that of the live bits, whatever *)
(* is stale above them.  An operand may be the object of the result, which *)
(* a ripple then reads while it is being written.                          *)
(***************************************************************************)
EXTENDS BitVec

CONSTANT LimbBytes  \* bytes in a limb: 8

LimbBits == LimbBytes * ByteBits
LimbBase == 2 ^ LimbBits
Limbs(bits) == (bits + LimbBits - 1) \div LimbBits

IntBitLength(v) == 1 + LastOf({i \in 0..v.length - 1 : BitVecGet(v, i) = 1})
IntIsZero(v) == IntBitLength(v) = 0
int_normalize(v) == [v EXCEPT !.length = IntBitLength(v)]
IntTrailingZeroCount(v) == Max({0, FirstOf({i \in 0..v.length - 1 : BitVecGet(v, i) = 1})})
IntIsPowerOfTwo(v) == ~IntIsZero(v) /\ IntBitLength(v) = IntTrailingZeroCount(v) + 1
IntClone(v) == {[o EXCEPT !.self = int_normalize(@)] : o \in BitVecTryClone(v)}

\* Limb w of the first `bits` bits.
int_load_le8(v, bits, w) ==
    LET from[k \in 0..LimbBits] ==
            IF k = LimbBits \/ w * LimbBits + k >= bits THEN 0
            ELSE BitVecGet(v, w * LimbBits + k) + 2 * from[k + 1]
    IN  from[0]

\* As many bytes of the limb as lie below byte_len.
int_store_le8(v, byte_len, w, limb) ==
    BitVecSet(v, w * LimbBits,
              [k \in 1..Min({LimbBits, byte_len * ByteBits - w * LimbBits}) |-> (limb \div 2 ^ (k - 1)) % 2])

int_compare(a, b) ==
    LET bits == IntBitLength(a)
        top == LastOf({w \in 0..Limbs(bits) - 1 : int_load_le8(a, bits, w) # int_load_le8(b, bits, w)})
    IN  CASE bits # IntBitLength(b) -> Sign(bits - IntBitLength(b))
          [] bits = IntBitLength(b) /\ top = NotFound -> 0
          [] OTHER -> Sign(int_load_le8(a, bits, top) - int_load_le8(b, bits, top))

\* The bytes int_hash mixes: whole bytes up to the highest set bit.
int_hash(v) == Cells(v.data, 0, ByteBits * BYTES_FOR_BITS(IntBitLength(v)))

\* An operand, and whether it is the object of the result.
Operand(v, same) == [int |-> v, same |-> same, bits |-> IntBitLength(v)]
LimbOf(x, r, w) == int_load_le8(IF x.same THEN r ELSE x.int, x.bits, w)

\* The arithmetic of one limb, which wraps around.
Bit1(condition) == IF condition THEN 1 ELSE 0
int_add_carry_u64(a, b, carry) ==
    LET sum == (a + b) % LimbBase
        out == (sum + carry) % LimbBase
    IN  [out |-> out, carry |-> Max({Bit1(sum < a), Bit1(out < sum)})]
int_sub_borrow_u64(a, b, borrow) ==
    LET d == (a - b) % LimbBase
    IN  [out |-> (d - borrow) % LimbBase, carry |-> Max({Bit1(a < b), Bit1(d < borrow)})]
\* Four products of half limbs.
int_mul_wide_u64(a, b) ==
    LET half == 2 ^ (LimbBits \div 2)
        Low(x) == x % half
        High(x) == x \div half
        ll == Low(a) * Low(b)
        lh == Low(a) * High(b)
        hl == High(a) * Low(b)
        cross == High(ll) + Low(lh) + Low(hl)
    IN  [hi |-> High(a) * High(b) + High(lh) + High(hl) + High(cross), lo |-> Low(cross) * half + Low(ll)]

\* a + b or a - b into r, limb after limb, with a carry or a borrow.
Rippled(r, n, a, b, sign) ==
    LET step[w \in 0..Limbs(n * ByteBits)] ==
            IF w = 0 THEN [r |-> r, carry |-> 0]
            ELSE LET s == step[w - 1]
                     x == LimbOf(a, s.r, w - 1)
                     y == LimbOf(b, s.r, w - 1)
                     limb == IF sign = 1 THEN int_add_carry_u64(x, y, s.carry) ELSE int_sub_borrow_u64(x, y, s.carry)
                 IN  [r |-> int_store_le8(s.r, n, w - 1, limb.out), carry |-> limb.carry]
    IN  step[Limbs(n * ByteBits)].r

int_add(r, a, b) ==
    LET bits == Max({a.bits, b.bits}) + 1
        Sum(t) == {Done(int_normalize(Rippled(t, BYTES_FOR_BITS(bits), a, b, 1)))}
    IN  Then(BitVecResize(r, bits), Sum)

int_sub(r, a, b) ==
    LET Difference(t) == {Done(int_normalize(Rippled(t, BYTES_FOR_BITS(a.bits), a, b, -1)))}
    IN  IF int_compare(a.int, b.int) < 0 THEN {Refused(r)} ELSE Then(BitVecResize(r, a.bits), Difference)

\* Operands that an output would overwrite are cloned first.
Apart(x) == IF x.same THEN {[ok |-> o.ok, int |-> o.self] : o \in IntClone(x.int)} ELSE {[ok |-> TRUE, int |-> x.int]}

\* One row of the multiplication: r + limb ia of a times b.
AddedRow(r, r_words, ia, limb, b, b_bits) ==
    LET step[j \in 0..r_words - ia] ==
            IF j = 0 THEN [r |-> r, carry |-> 0]
            ELSE LET s == step[j - 1]
                     w == ia + j - 1
                     wide == int_mul_wide_u64(limb, int_load_le8(b, b_bits, j - 1))
                     s1 == int_add_carry_u64(int_load_le8(s.r, r_words * LimbBits, w), wide.lo, 0)
                     s2 == int_add_carry_u64(s1.out, s.carry, 0)
                 IN  [r |-> int_store_le8(s.r, r_words * LimbBytes, w, s2.out), carry |-> wide.hi + s1.carry + s2.carry]
    IN  step[r_words - ia].r

\* The result is cleared before it is made large enough.
int_mul(r, a, b) ==
    LET r_words == Limbs(a.bits) + Limbs(b.bits)
        Product(x, y, t) ==
            LET rows[ia \in 0..Limbs(a.bits)] ==
                    IF ia = 0 THEN t
                    ELSE AddedRow(rows[ia - 1], r_words, ia - 1, int_load_le8(x, a.bits, ia - 1), y, b.bits)
            IN  int_normalize(rows[Limbs(a.bits)])
        Multiplied(x, y) ==
            LET Into(t) == {Done(Product(x, y, t))} IN Then(BitVecResize(BitVecClear(r), r_words * LimbBits), Into)
    IN  IF a.bits = 0 \/ b.bits = 0 THEN {Done(BitVecClear(r))}
        ELSE UNION {IF x.ok /\ y.ok THEN Multiplied(x.int, y.int) ELSE {Refused(r)} : x \in Apart(a), y \in Apart(b)}

\* Mutant: the remainder has limbs for the bits of the divisor and no more.
TightWords(divisor_bits) == Limbs(divisor_bits)

RemainderWords(divisor_bits) == Limbs(divisor_bits + 1)

\* One step of the long division: the next bit of the dividend shifted into
\* the remainder, and the divisor taken off if it fits.
DivisionStep(s, words, i, bit, divisor, divisor_bits) ==
    LET n == words * LimbBytes
        shift[w \in 0..words] ==
            IF w = 0 THEN [r |-> s.rem, carry |-> bit]
            ELSE LET v == int_load_le8(s.rem, words * LimbBits, w - 1)
                 IN  [r |-> int_store_le8(shift[w - 1].r, n, w - 1, (2 * v + shift[w - 1].carry) % LimbBase),
                      carry |-> v \div 2 ^ (LimbBits - 1)]
        r == shift[words].r
        Left(w) == int_load_le8(r, words * LimbBits, w)
        Right(w) == int_load_le8(divisor, divisor_bits, w)
        top == LastOf({w \in 0..words - 1 : Left(w) # Right(w)})
        minuend == [int |-> r, same |-> TRUE, bits |-> words * LimbBits]
    IN  IF top # NotFound /\ Left(top) < Right(top) THEN [s EXCEPT !.rem = r]
        ELSE [quo |-> BitVecSet(s.quo, i, <<1>>),
              rem |-> Rippled(r, n, minuend, Operand(divisor, FALSE), -1)]

Divided(ok, q, r) == [ok |-> ok, quo |-> q, rem |-> r]

\* int_div_mod of dividend a by b; `same` says that it is one of the outputs.
int_div_mod(q, r, a, b) ==
    LET words == RemainderWords(b.bits)
        Quotient(x, y, qt, rt) ==
            LET steps[k \in 0..a.bits] ==
                    IF k = 0 THEN [quo |-> qt, rem |-> rt]
                    ELSE DivisionStep(steps[k - 1], words, a.bits - k, BitVecGet(x, a.bits - k), y, b.bits)
                end == steps[a.bits]
            IN  Divided(TRUE, int_normalize(end.quo), int_normalize(end.rem))
        Into(x, y) ==
            UNION {IF ~qo.ok THEN {Divided(FALSE, qo.self, BitVecClear(r))}
                   ELSE {IF ro.ok THEN Quotient(x, y, qo.self, ro.self) ELSE Divided(FALSE, qo.self, ro.self) :
                           ro \in BitVecResize(BitVecClear(r), words * LimbBits)} :
                   qo \in BitVecResize(BitVecClear(q), a.bits)}
    IN  CASE b.bits = 0 -> {Divided(FALSE, q, r)}
          [] b.bits # 0 /\ int_compare(a.int, b.int) < 0 ->
               {IF o.ok THEN Divided(TRUE, BitVecClear(q), o.self) ELSE Divided(FALSE, q, r) : o \in IntClone(a.int)}
          [] OTHER -> UNION {IF x.ok /\ y.ok THEN Into(x.int, y.int) ELSE {Divided(FALSE, q, r)} :
                               x \in Apart(a), y \in Apart(b)}

\* High to low, each limb read before it is overwritten.
IntShiftLeft(v, positions) ==
    LET bits == IntBitLength(v)
        new_bits == bits + positions
        limb_shift == positions \div LimbBits
        bit_shift == positions % LimbBits
        Shift(t) ==
            LET step[k \in 0..Limbs(new_bits)] ==
                    IF k = 0 THEN t
                    ELSE LET d == step[k - 1]
                             idx == Limbs(new_bits) - k
                             Src(w) == IF w < 0 THEN 0 ELSE int_load_le8(d, new_bits, w)
                         IN  int_store_le8(d, BYTES_FOR_BITS(new_bits), idx,
                                 ((Src(idx - limb_shift) * 2 ^ bit_shift) % LimbBase)
                                 + (Src(idx - limb_shift - 1) \div 2 ^ (LimbBits - bit_shift)))
            IN  {Done(step[Limbs(new_bits)])}
    IN  CASE positions = 0 -> {Done([v EXCEPT !.length = bits])}
          [] positions # 0 /\ bits = 0 -> {Done(BitVecClear(v))}
          [] OTHER -> Then(BitVecResize(v, new_bits), Shift)

\* Low to high.
IntShiftRight(v, positions) ==
    LET bits == IntBitLength(v)
        new_bits == bits - positions
        limb_shift == positions \div LimbBits
        bit_shift == positions % LimbBits
        step[k \in 0..Limbs(new_bits)] ==
            IF k = 0 THEN v
            ELSE LET Src(w) == int_load_le8(step[k - 1], bits, w)
                 IN  int_store_le8(step[k - 1], BYTES_FOR_BITS(bits), k - 1,
                         (Src(k - 1 + limb_shift) \div 2 ^ bit_shift)
                         + ((Src(k + limb_shift) * 2 ^ (LimbBits - bit_shift)) % LimbBase))
    IN  CASE positions = 0 -> [v EXCEPT !.length = bits]
          [] positions # 0 /\ positions >= bits -> BitVecClear(v)
          [] OTHER -> int_normalize([step[Limbs(new_bits)] EXCEPT !.length = new_bits])

\* The forms that take a word: it becomes an Int first, and where the result
\* is built apart a refusal leaves the result alone.
int_try_from_u64(n) == bitvec_try_from_integer(n, Cardinality({k \in 0..LimbBits - 1 : 2 ^ k <= n}), LimbBits)
Apartly(r, outcomes) == {IF o.ok THEN o ELSE Refused(r) : o \in outcomes}
int_add_u64(r, v, n) ==
    Apartly(r, UNION {IF c.ok /\ d.ok THEN int_add(BitVecInit, Operand(c.self, FALSE), Operand(d.self, FALSE)) ELSE {Refused(r)} :
                        c \in IntClone(v), d \in int_try_from_u64(n)})
int_mul_u64(r, v, n) ==
    Apartly(r, UNION {IF c.ok /\ d.ok THEN int_mul(BitVecInit, Operand(c.self, FALSE), Operand(d.self, FALSE)) ELSE {Refused(r)} :
                        c \in IntClone(v), d \in int_try_from_u64(n)})
int_sub_u64(r, v, n) == UNION {IF d.ok THEN int_sub(r, v, Operand(d.self, FALSE)) ELSE {Refused(r)} : d \in int_try_from_u64(n)}
int_compare_u64(v, n) == IF IntBitLength(v) > LimbBits THEN 1 ELSE Sign(BitVecToInteger(v) - n)

\* A quotient with a remainder is refused.
int_div_exact(r, a, b) ==
    {IF d.ok /\ IntIsZero(d.rem) THEN Done(d.quo) ELSE Refused(r) : d \in int_div_mod(BitVecInit, BitVecInit, a, b)}

\* Bytes, as sequences of their bits.  Too small a buffer takes the low ones.
IntByteLength(v) == BYTES_FOR_BITS(IntBitLength(v))
IntToBytesLE(v, max_len) ==
    [i \in 1..Min({IntByteLength(v), max_len}) |-> [k \in 1..ByteBits |-> BitOf(v, (i - 1) * ByteBits + k - 1)]]
IntToBytesBE(v, max_len) ==
    LET bytes == IntToBytesLE(v, max_len) IN [i \in DOMAIN bytes |-> bytes[Len(bytes) + 1 - i]]
int_from_bytes_le(bytes) ==
    {[o EXCEPT !.self = int_normalize(@)] : o \in bitvec_try_from_bytes(bytes, Len(bytes) * ByteBits)}
ByteValue(byte) == FoldFunction(+, 0, [k \in 1..ByteBits |-> byte[k] * 2 ^ (k - 1)])
int_from_bytes_be(bytes) ==
    LET done[i \in 0..Len(bytes)] ==
            IF i = 0 THEN {Done(BitVecInit)}
            ELSE LET AddByte(v) == int_add_u64(v, v, ByteValue(bytes[i]))
                     Next1(v) == Then(IntShiftLeft(v, ByteBits), AddByte)
                 IN  Then(done[i - 1], Next1)
    IN  Apartly(BitVecInit, done[Len(bytes)])

-----------------------------------------------------------------------------
\* One Int as the result, and as an operand too, of any sequence of
\* arithmetic, with allocations that may be refused.  `asked` is the last
\* call, by the values of its operands.
CONSTANTS
    Addends,     \* the other operands, with stale bits
    MaxIntBits   \* longer results are not operated on

VARIABLES acc, asked
integer == <<acc, asked>>

Number(v) == BitVecToInteger(v)
Query(op, a, b, ok) == [op |-> op, a |-> a, b |-> b, ok |-> ok]
IntsInit == acc = BitVecInit /\ asked = Query("init", 0, 0, TRUE)

Mine == Operand(acc, TRUE)
Theirs == {Operand(v, FALSE) : v \in Addends}
\* The result as the left operand, the right one, or both.
Pairs == ({Mine} \X Theirs) \cup (Theirs \X {Mine}) \cup {<<Mine, Mine>>}

Small == IntBitLength(acc) <= MaxIntBits
Take(op, a, b, outcomes) == \E o \in outcomes : acc' = o.self /\ asked' = Query(op, a, b, o.ok)

IntAdd == Small /\ \E p \in Pairs : Take("add", Number(p[1].int), Number(p[2].int), int_add(acc, p[1], p[2]))
IntSub == Small /\ \E p \in Pairs : Take("sub", Number(p[1].int), Number(p[2].int), int_sub(acc, p[1], p[2]))
IntMul == Small /\ \E p \in Pairs : Take("mul", Number(p[1].int), Number(p[2].int), int_mul(acc, p[1], p[2]))

\* int_div and int_mod: the other output is a fresh Int.
IntDiv ==
    /\ Small
    /\ \E p \in Pairs : \E d \in int_div_mod(acc, BitVecInit, p[1], p[2]) :
         acc' = d.quo /\ asked' = Query("div", Number(p[1].int), Number(p[2].int), d.ok)
IntMod ==
    /\ Small
    /\ \E p \in Pairs : \E d \in int_div_mod(BitVecInit, acc, p[1], p[2]) :
         acc' = d.rem /\ asked' = Query("mod", Number(p[1].int), Number(p[2].int), d.ok)

IntShift ==
    /\ Small
    /\ \E n \in 0..MaxIntBits :
         \/ Take("shift_left", Number(acc), n, IntShiftLeft(acc, n))
         \/ Take("shift_right", Number(acc), n, {Done(IntShiftRight(acc, n))})

\* int_add_u64 and the others, of any word.
IntWord ==
    /\ Small
    /\ \E n \in {0, 1, LimbBase \div 2, LimbBase - 1} :
         \/ Take("add", Number(acc), n, int_add_u64(acc, acc, n))
         \/ Take("sub", Number(acc), n, int_sub_u64(acc, Mine, n))
         \/ Take("word_mul", Number(acc), n, int_mul_u64(acc, acc, n))
         \/ \E d \in int_try_from_u64(n) : d.ok /\ Take("div_exact", Number(acc), n, int_div_exact(acc, Mine, Operand(d.self, FALSE)))

\* The Int is exchanged for its clone, or for what its bytes say.
IntCopy ==
    /\ Small
    /\ \E o \in IntClone(acc) \cup int_from_bytes_le(IntToBytesLE(acc, MaxIntBits))
                 \cup int_from_bytes_be(IntToBytesBE(acc, MaxIntBits)) :
         o.ok /\ acc' = o.self /\ asked' = Query("clone", Number(acc), 0, TRUE)

IntsNext == IntAdd \/ IntSub \/ IntMul \/ IntDiv \/ IntMod \/ IntShift \/ IntWord \/ IntCopy

Computed(q) ==
    CASE q.op = "add" -> q.a + q.b
      [] q.op = "sub" -> q.a - q.b
      [] q.op \in {"mul", "word_mul"} -> q.a * q.b
      [] q.op \in {"div", "div_exact"} -> q.a \div q.b
      [] q.op = "mod" -> q.a % q.b
      [] q.op = "shift_left" -> q.a * 2 ^ q.b
      [] q.op = "shift_right" -> q.a \div 2 ^ q.b
      [] q.op \in {"init", "clone"} -> q.a

\* The result is the number the call names, with no zero above it, whatever
\* object the operands share and whatever is stale in them; a refused call
\* keeps the value, as does a division by zero, or of a smaller number.  What a
\* multiplication, or any other division, leaves when memory is refused is
\* open: Int/Math.h promises the value before the call, where the code has
\* cleared it (the arithmetic of Int.c).
IntsExact ==
    [][IF asked'.ok THEN /\ Number(acc') = Computed(asked') /\ IntBitLength(acc') = acc'.length
                         /\ asked'.op = "div_exact" => asked'.a = Number(acc') * asked'.b
       ELSE \/ Number(acc') = Number(acc) /\ (asked'.op = "sub" => asked'.a < asked'.b \/ acc' = acc)
            \/ asked'.op = "mul"
            \/ asked'.op \in {"div", "mod"} /\ asked'.b \in 1..asked'.a]_integer

\* Comparison and the questions about bits agree with the value, and the hash
\* of a result mixes its value alone (int_compare, int_hash and Int/Access.h).
IntQueriesExact ==
    /\ \A k \in DOMAIN int_hash(acc) : k > acc.length => int_hash(acc)[k] = 0
    /\ \A v \in Addends : /\ int_compare(acc, v) = Sign(Number(acc) - Number(v))
                          /\ int_compare(v, acc) = -int_compare(acc, v)
    /\ \A n \in {0, 1, LimbBase - 1} : int_compare_u64(acc, n) = Sign(Number(acc) - n)
    /\ Number(acc) < 2 ^ IntBitLength(acc)
    /\ ~IntIsZero(acc) => /\ 2 ^ (IntBitLength(acc) - 1) <= Number(acc)
                          /\ Number(acc) % 2 ^ IntTrailingZeroCount(acc) = 0
                          /\ (Number(acc) \div 2 ^ IntTrailingZeroCount(acc)) % 2 = 1
    /\ IntIsPowerOfTwo(acc) <=> Number(acc) \in {2 ^ k : k \in 0..IntBitLength(acc)}
=============================================================================
