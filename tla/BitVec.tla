------------------------------- MODULE BitVec -------------------------------
(***************************************************************************)
(* Std/Container/BitVec.c.  The buffer is a sequence of bits, a whole      *)
(* number of bytes; bits above `length` may be stale.  An operation that   *)
(* may grow is the set of its outcomes: the allocator may refuse.          *)
(***************************************************************************)
EXTENDS Container

CONSTANT ByteBits  \* bits in a byte: 8

NotFound == -1  \* SIZE_MAX

BitVecInit == [data |-> << >>, length |-> 0, capacity |-> 0]
BYTES_FOR_BITS(n) == (n + ByteBits - 1) \div ByteBits
BIT_INDEX(n) == n \div ByteBits
BIT_OFFSET(n) == n % ByteBits
ByteSize(b) == Len(b.data) \div ByteBits

BitVecGet(b, i) == b.data[i + 1]
LiveBits(b) == Cells(b.data, 0, b.length)
BitVecSet(b, i, bits) == [b EXCEPT !.data = Stored(@, i, bits)]

\* A byte is the sequence of its bits, the lowest first; LowBits is the byte
\* under the mask (1 << off) - 1.
DataByte(b, k) == Cells(b.data, ByteBits * k, ByteBits)
LowBits(byte, off) == [j \in DOMAIN byte |-> IF j <= off THEN byte[j] ELSE 0]
bitvec_popcount64(byte) == Len(SelectSeq(byte, LAMBDA x : x = 1))

\* The bits of the top partial byte above len are cleared; bitvec_byte reads
\* one byte of an operand without them.
bitvec_mask_tail(b, len) ==
    IF BIT_OFFSET(len) = 0 THEN b
    ELSE BitVecSet(b, ByteBits * BIT_INDEX(len), LowBits(DataByte(b, BIT_INDEX(len)), BIT_OFFSET(len)))
bitvec_byte(b, k) ==
    LET bytes == BYTES_FOR_BITS(b.length)
    IN  CASE k >= bytes -> Zeroes(ByteBits)
          [] k = bytes - 1 /\ BIT_OFFSET(b.length) # 0 -> LowBits(DataByte(b, k), BIT_OFFSET(b.length))
          [] OTHER -> DataByte(b, k)

BitVecReserve(b, n) ==
    IF n <= b.capacity THEN {Done(b)}
    ELSE LET size == ByteBits * BYTES_FOR_BITS(n)
         IN  {Refused(b),
              Done([b EXCEPT !.data = [k \in 1..size |-> IF k <= Len(b.data) THEN b.data[k] ELSE 0],
                             !.capacity = n])}

\* The bytes that come into use are zeroed.
NewBytes(b, n) ==
    LET from == ByteBits * BYTES_FOR_BITS(b.length)
    IN  BitVecSet(b, from, Zeroes(ByteBits * BYTES_FOR_BITS(n) - from))

\* Mutant: the top partial byte of the old length keeps its stale bits.
NewBytesOnly(b, n) == IF n <= b.length THEN b ELSE NewBytes(b, n)

\* What BitVecResize zeroes when it grows.
Opened(b, n) == IF n <= b.length THEN b ELSE bitvec_mask_tail(NewBytes(b, n), b.length)

BitVecResize(b, n) ==
    LET Sized(t) == {Done([Opened(t, n) EXCEPT !.length = n])}
    IN  Then(BitVecReserve(b, n), Sized)

BitVecShrinkToFit(b) ==
    LET size == ByteBits * BYTES_FOR_BITS(b.length)
        trimmed == [b EXCEPT !.data = Cells(b.data, 0, size), !.capacity = b.length]
    IN  CASE b.length = 0 -> {Done(BitVecInit)}
          [] b.length > 0 /\ (b.capacity <= b.length \/ size = Len(b.data)) ->
               {Done([b EXCEPT !.capacity = Min({b.capacity, b.length})])}
          [] OTHER -> {Done(b), Done(trimmed)}

BitVecClear(b) == [b EXCEPT !.length = 0, !.data = Zeroes(Len(@))]

\* BitVecTryClone: whole bytes, then the tail masked.
BitVecTryClone(b) ==
    LET Copy(t) == {Done(bitvec_mask_tail(BitVecSet(t, 0, Cells(b.data, 0, Len(t.data))), b.length))}
    IN  IF b.length = 0 THEN {Done(BitVecInit)}
        ELSE {IF o.ok THEN o ELSE Refused(BitVecInit) : o \in Then(BitVecResize(BitVecInit, b.length), Copy)}

BitVecPush(b, value) ==
    LET Grow == IF b.length < b.capacity THEN {Done(b)}
                ELSE BitVecReserve(b, IF b.capacity = 0 THEN ByteBits ELSE 2 * b.capacity)
        Room1(t) == BitVecResize(t, t.length + 1)
        Last(t) == {Done(BitVecSet(t, t.length - 1, <<value>>))}
    IN  Then(Then(Grow, Room1), Last)
Shorter(b, n) == [b EXCEPT !.length = @ - n]
BitVecPop(b) == IF b.length = 0 THEN {Fatal(b)} ELSE {Done(Shorter(b, 1))}

\* The bits from idx on moved up, and new ones put in the gap.
MovedUp(t, idx, old, bits) == BitVecSet(BitVecSet(t, idx + Len(bits), Cells(t.data, idx, old - idx)), idx, bits)

BitVecInsertRange(b, idx, bits) ==
    LET Shift(t) == {Done(MovedUp(t, idx, b.length, bits))}
    IN  CASE idx > b.length -> {Fatal(b)}
          [] idx <= b.length /\ bits = << >> -> {Done(b)}
          [] OTHER -> Then(BitVecResize(b, b.length + Len(bits)), Shift)

\* Of another vector, and of the low bits of a byte.
BitVecInsertMultiple(b, idx, other) == BitVecInsertRange(b, idx, LiveBits(other))
BitVecInsertPattern(b, idx, byte, count) ==
    CASE idx > b.length -> {Fatal(b)}
      [] idx <= b.length /\ count \notin 1..ByteBits -> {Done(b)}
      [] OTHER -> BitVecInsertRange(b, idx, Cells(byte, 0, count))

\* BitVecInsert grows as BitVecPush does.
BitVecInsert(b, idx, value) ==
    LET Shift(t) == {Done(MovedUp(t, idx, b.length, <<value>>))}
    IN  IF idx > b.length THEN {Fatal(b)} ELSE Then(BitVecPush(b, 0), Shift)

\* The count is clamped.
BitVecRemoveRange(b, idx, count) ==
    LET n == Min({count, b.length - idx})
    IN  IF idx >= b.length THEN {Fatal(b)}
        ELSE {Done(Shorter(BitVecSet(b, idx, Cells(b.data, idx + n, b.length - idx - n)), n))}

BitVecRemove(b, idx) == BitVecRemoveRange(b, idx, 1)
WithoutBit(b, pos) == IF pos = NotFound THEN {Refused(b)} ELSE BitVecRemove(b, pos)

BitVecRemoveAll(b, value) ==
    LET kept == SelectSeq(LiveBits(b), LAMBDA x : x # value)
    IN  [BitVecSet(b, 0, kept) EXCEPT !.length = Len(kept)]

\* Bits above the length of an operand read as zero.
BitOf(b, k) == IF k < b.length THEN BitVecGet(b, k) ELSE 0

\* BitVecAnd, Or, Xor and Not into `result`, which may be one of the operands:
\* its resize comes first, and a refused one leaves it alone; byte by byte, and
\* then the tail is masked.
Combined(result, a, b, n, Op(_, _)) ==
    LET BitAt(v, k) == bitvec_byte(v, BIT_INDEX(k - 1))[1 + BIT_OFFSET(k - 1)]
        bits == [k \in 1..ByteBits * BYTES_FOR_BITS(n) |-> Op(BitAt(a, k), BitAt(b, k))]
        Fill(t) == {Done(bitvec_mask_tail(BitVecSet(t, 0, bits), n))}
    IN  Then(BitVecResize(result, n), Fill)
BitVecAnd(r, a, b) == Combined(r, a, b, Min({a.length, b.length}), LAMBDA x, y : x * y)
BitVecOr(r, a, b) == Combined(r, a, b, Max({a.length, b.length}), LAMBDA x, y : Max({x, y}))
BitVecXor(r, a, b) == Combined(r, a, b, Max({a.length, b.length}), LAMBDA x, y : (x + y) % 2)
BitVecNot(r, b) == Combined(r, b, b, b.length, LAMBDA x, y : 1 - x)

\* A shift by the whole length or more empties the vector.
BitVecShiftLeft(b, p) ==
    CASE p = 0 \/ b.length = 0 -> b
      [] p # 0 /\ b.length # 0 /\ p >= b.length -> BitVecClear(b)
      [] OTHER -> BitVecSet(b, 0, Zeroes(p) \o Cells(b.data, 0, b.length - p))
BitVecShiftRight(b, p) ==
    CASE p = 0 \/ b.length = 0 -> b
      [] p # 0 /\ b.length # 0 /\ p >= b.length -> BitVecClear(b)
      [] OTHER -> BitVecSet(b, 0, Cells(b.data, p, b.length - p) \o Zeroes(p))

\* The rotations go through a clone; when that is refused nothing happens.
Rotated(b, from) ==
    LET turned == BitVecSet(b, 0, [k \in 1..b.length |-> BitVecGet(b, (k - 1 + from) % b.length)])
    IN  IF b.length = 0 \/ from % b.length = 0 THEN {Done(b)} ELSE {Refused(b), Done(turned)}
BitVecRotateLeft(b, p) == Rotated(b, p)
BitVecRotateRight(b, p) == Rotated(b, IF b.length = 0 THEN 0 ELSE b.length - (p % b.length))
BitVecReverse(b) == BitVecSet(b, 0, [k \in 1..b.length |-> BitVecGet(b, b.length - k)])

\* What is searched and compared.
BitVecContainsAt(b, pattern, idx) ==
    /\ idx <= b.length /\ pattern.length <= b.length - idx
    /\ \A i \in 0..pattern.length - 1 : BitVecGet(b, idx + i) = BitVecGet(pattern, i)
BitMatches(b, pattern) ==
    IF pattern.length = 0 \/ pattern.length > b.length THEN {}
    ELSE {i \in 0..b.length - pattern.length : BitVecContainsAt(b, pattern, i)}
FirstOf(S) == IF S = {} THEN NotFound ELSE Min(S)
LastOf(S) == IF S = {} THEN NotFound ELSE Max(S)
BitVecFindPattern(b, pattern) == FirstOf(BitMatches(b, pattern))
BitVecFindLastPattern(b, pattern) == LastOf(BitMatches(b, pattern))
BitVecCountPattern(b, pattern) == Cardinality(BitMatches(b, pattern))
BitVecRFindPattern(b, pattern, start) ==
    IF pattern.length = 0 \/ pattern.length > b.length \/ start >= b.length THEN NotFound
    ELSE LastOf({i \in Max({0, start + 1 - pattern.length})..start : BitVecContainsAt(b, pattern, i)})
BitVecFind(b, value) == FirstOf({i \in 0..b.length - 1 : BitVecGet(b, i) = value})
BitVecFindLast(b, value) == LastOf({i \in 0..b.length - 1 : BitVecGet(b, i) = value})

BitVecRemoveFirst(b, value) == WithoutBit(b, BitVecFind(b, value))
BitVecRemoveLast(b, value) == WithoutBit(b, BitVecFindLast(b, value))
BitVecAll(b, value) == \A i \in 0..b.length - 1 : BitVecGet(b, i) = value
BitVecAny(b, value) == BitVecFind(b, value) # NotFound
BitVecIsSorted(b) == \A i, j \in 0..b.length - 1 : i < j => BitVecGet(b, i) <= BitVecGet(b, j)
BitVecStartsWith(b, prefix) == prefix.length <= b.length /\ BitVecContainsAt(b, prefix, 0)
BitVecEndsWith(b, suffix) == suffix.length <= b.length /\ BitVecContainsAt(b, suffix, b.length - suffix.length)
\* The first of a sequence of patterns that the vector starts or ends with.
BitVecPrefixMatch(b, patterns) == FirstOf({i \in 0..Len(patterns) - 1 : BitVecStartsWith(b, patterns[i + 1])})
BitVecSuffixMatch(b, patterns) == FirstOf({i \in 0..Len(patterns) - 1 : BitVecEndsWith(b, patterns[i + 1])})
\* bitvec_find_all_pattern_raw, in a buffer of max_results.
FindAllPattern(b, pattern, max_results) ==
    LET hits == BitMatches(b, pattern)
    IN  {i \in hits : Cardinality({j \in hits : j < i}) < max_results}
\* Where the wildcard is set any bit will do.
BitVecMatches(b, pattern, wildcard) ==
    /\ b.length = pattern.length /\ pattern.length = wildcard.length
    /\ \A i \in 0..b.length - 1 : BitVecGet(wildcard, i) = 1 \/ BitVecGet(b, i) = BitVecGet(pattern, i)

\* BitVecReplace: the pattern out, the bits of the other in one at a time.
Substituted(b, pos, old, new) ==
    LET done[k \in 0..new.length] ==
            IF k = 0 THEN IF old.length = 0 /\ pos < b.length THEN {Done(b)} ELSE BitVecRemoveRange(b, pos, old.length)
            ELSE LET Put1(t) == BitVecInsert(t, pos + k - 1, BitVecGet(new, k - 1)) IN Then(done[k - 1], Put1)
    IN  done[new.length]
BitVecReplace(b, old, new) ==
    LET pos == BitVecFindPattern(b, old)
    IN  IF pos = NotFound THEN {Refused(b)} ELSE Substituted(b, pos, old, new)

RECURSIVE ReplaceFrom(_, _, _, _)
\* BitVecReplaceAll: the search goes on behind what was put in.
ReplaceFrom(b, from, old, new) ==
    LET pos == FirstOf({i \in from..b.length - old.length : BitVecContainsAt(b, old, i)})
        Rest(t) == ReplaceFrom(t, pos + new.length, old, new)
    IN  IF from >= b.length \/ pos = NotFound THEN {Done(b)} ELSE Then(Substituted(b, pos, old, new), Rest)
BitVecReplaceAll(b, old, new) == ReplaceFrom(b, 0, old, new)

Sign(x) == IF x > 0 THEN 1 ELSE IF x < 0 THEN -1 ELSE 0
BitVecCompare(a, b) ==
    LET first == FirstOf({i \in 0..Min({a.length, b.length}) - 1 : BitVecGet(a, i) # BitVecGet(b, i)})
    IN  IF first = NotFound THEN Sign(a.length - b.length) ELSE IF BitVecGet(a, first) = 1 THEN 1 ELSE -1
BitVecNumericalCompare(a, b) ==
    LET top == LastOf({i \in 0..Max({a.length, b.length}) - 1 : BitOf(a, i) # BitOf(b, i)})
    IN  IF top = NotFound THEN 0 ELSE BitOf(a, top) - BitOf(b, top)
BitVecEqualsRange(a, start1, b, start2, len) == Cells(a.data, start1, len) = Cells(b.data, start2, len)
BitVecEquals(a, b) == a.length = b.length /\ BitVecEqualsRange(a, 0, b, 0, a.length)
BitVecCompareRange(a, start1, b, start2, len) ==
    LET first == FirstOf({i \in 0..len - 1 : BitVecGet(a, start1 + i) # BitVecGet(b, start2 + i)})
    IN  IF first = NotFound THEN 0 ELSE IF BitVecGet(a, start1 + first) = 1 THEN 1 ELSE -1
BitVecSignedCompare(a, b) ==
    LET SignOf(v) == IF v.length > 0 THEN BitVecGet(v, v.length - 1) ELSE 0
        numeric == BitVecNumericalCompare(a, b)
    IN  CASE SignOf(a) # SignOf(b) -> IF SignOf(a) = 1 THEN -1 ELSE 1
          [] SignOf(a) = SignOf(b) -> IF SignOf(a) = 1 THEN -numeric ELSE numeric

OnesOfBytes(b, n) == FoldFunction(+, 0, [k \in 1..n |-> bitvec_popcount64(DataByte(b, k - 1))])

\* Mutant: the top byte is counted without the mask.
UnmaskedOnes(b) == OnesOfBytes(b, BYTES_FOR_BITS(b.length))

\* Whole bytes, and the top one masked.
BitVecCountOnes(b) ==
    LET off == BIT_OFFSET(b.length)
    IN  OnesOfBytes(b, BIT_INDEX(b.length))
        + IF off = 0 THEN 0 ELSE bitvec_popcount64(LowBits(DataByte(b, BIT_INDEX(b.length)), off))

BitVecWeightCompare(a, b) == Sign(BitVecCountOnes(a) - BitVecCountOnes(b))

\* What bitvec_hash mixes: the bytes in use, as they are, and the length.
bitvec_hash(b) == [bytes |-> Cells(b.data, 0, ByteBits * BYTES_FOR_BITS(b.length)), length |-> b.length]

\* BitVecRuns, of bitvec_run_lengths_raw (the first max runs) and _vec.
BitVecRuns(b) ==
    LET scan[i \in 0..b.length] ==
            IF i = 0 THEN << >>
            ELSE LET bit == BitVecGet(b, i - 1)
                     before == scan[i - 1]
                 IN  IF before # << >> /\ before[Len(before)].value = bit
                     THEN [before EXCEPT ![Len(before)].length = @ + 1]
                     ELSE Append(before, [length |-> 1, value |-> bit])
    IN  scan[b.length]
BitVecLongestRun(b, value) ==
    LET scan[i \in 0..b.length] ==
            IF i = 0 THEN [run |-> 0, max |-> 0]
            ELSE LET run == IF BitVecGet(b, i - 1) = value THEN scan[i - 1].run + 1 ELSE 0
                 IN  [run |-> run, max |-> Max({scan[i - 1].max, run})]
    IN  scan[b.length].max

\* The two rows of BitVecTryEditDistance.
BitVecEditDistance(a, b) ==
    LET row[i \in 0..a.length] ==
            IF i = 0 THEN [j \in 0..b.length |-> j]
            ELSE LET prev == row[i - 1]
                     curr[j \in 0..b.length] ==
                         IF j = 0 THEN i
                         ELSE Min({prev[j] + 1, curr[j - 1] + 1,
                                   prev[j - 1] + IF BitVecGet(a, i - 1) = BitVecGet(b, j - 1) THEN 0 ELSE 1})
                 IN  curr
    IN  row[a.length][b.length]

BitVecHammingDistance(a, b) ==
    Cardinality({i \in 0..Min({a.length, b.length}) - 1 : BitVecGet(a, i) # BitVecGet(b, i)})
    + Max({a.length, b.length}) - Min({a.length, b.length})
BitVecDotProduct(a, b) ==
    Cardinality({i \in 0..Min({a.length, b.length}) - 1 : BitVecGet(a, i) = 1 /\ BitVecGet(b, i) = 1})
\* The intersection over the union, one for two vectors without a set bit.
BitVecJaccardSimilarity(a, b) ==
    LET union == Cardinality({i \in 0..Max({a.length, b.length}) - 1 : 1 \in {BitOf(a, i), BitOf(b, i)}})
    IN  IF union = 0 THEN <<1, 1>> ELSE <<BitVecDotProduct(a, b), union>>

\* The score of the bits of b against those of a from an offset on.
Score(a, b, offset, match, mismatch) ==
    LET overlap == 0..Min({b.length, a.length - offset}) - 1
        same == {i \in overlap : BitVecGet(a, offset + i) = BitVecGet(b, i)}
    IN  match * Cardinality(same) + mismatch * Cardinality(overlap \ same)
BitVecAlignmentScore(a, b, match, mismatch) == Score(a, b, 0, match, mismatch)
\* The last offset, that of the end of bv1, overlaps nothing.
BitVecBestAlignment(a, b) ==
    LET best == {o \in 0..a.length - 1 : \A other \in 0..a.length - 1 : Score(a, b, other, 1, -1) <= Score(a, b, o, 1, -1)}
    IN  IF a.length = 0 \/ b.length = 0 THEN 0 ELSE Min(best)
BitVecFuzzyMatch(b, pattern, max_errors) ==
    LET Errors(i) == Cardinality({j \in 0..pattern.length - 1 : BitVecGet(b, i + j) # BitVecGet(pattern, j)})
    IN  FirstOf({i \in 0..b.length - pattern.length : Errors(i) <= max_errors})
BitVecIsSubset(a, b) == \A i \in 0..Max({a.length, b.length}) - 1 : BitOf(a, i) = 1 => BitOf(b, i) = 1
BitVecDisjoint(a, b) == \A i \in 0..Min({a.length, b.length}) - 1 : BitVecGet(a, i) = 0 \/ BitVecGet(b, i) = 0
BitVecToInteger(b) == FoldFunction(+, 0, [i \in 1..b.length |-> BitVecGet(b, i - 1) * 2 ^ (i - 1)])

\* At most `most` bits, 64 in the code.
bitvec_try_from_integer(value, bits, most) ==
    LET n == Min({bits, most})
        Fill(t) == {Done(BitVecSet(t, 0, [k \in 1..n |-> (value \div 2 ^ (k - 1)) % 2]))}
    IN  {IF o.ok THEN o ELSE Refused(BitVecInit) : o \in Then(BitVecResize(BitVecInit, n), Fill)}

\* Bytes as sequences of their bits; the last one is filled with zeroes.
BitVecToBytes(b, max_len) ==
    LET bytes == Min({BYTES_FOR_BITS(b.length), max_len})
    IN  [k \in 1..bytes |-> [j \in 1..ByteBits |-> BitOf(b, ByteBits * (k - 1) + j - 1)]]
bitvec_try_from_bytes(bytes, bit_len) ==
    LET Fill(t) == {Done(BitVecSet(t, 0, [i \in 1..bit_len |-> bytes[1 + ((i - 1) \div ByteBits)][1 + ((i - 1) % ByteBits)]]))}
    IN  {IF o.ok THEN o ELSE Refused(BitVecInit) : o \in Then(BitVecResize(BitVecInit, bit_len), Fill)}

\* Text: '0' is 0, '1' is 1, any other character is something else, and is
\* passed over.
bitvec_try_to_str(b) == LiveBits(b)
bitvec_try_from_str(text) ==
    LET done[k \in 0..Len(text)] ==
            IF k = 0 THEN BitVecReserve(BitVecInit, Len(text))
            ELSE LET Push(t) == BitVecPush(t, text[k])
                 IN  IF text[k] \in {0, 1} THEN Then(done[k - 1], Push) ELSE done[k - 1]
    IN  {IF o.ok THEN o ELSE Refused(BitVecInit) : o \in done[Len(text)]}
\* A search in the text, whatever the pattern is written with.
bitvec_regex_match(b, pattern) ==
    \E i \in 0..b.length - Len(pattern) : SubSeq(bitvec_try_to_str(b), i + 1, i + Len(pattern)) = pattern

------------------------------------------------------------------------------
\* One bit vector under any sequence of calls, other vectors (with stale bits
\* above their lengths) as operands.  `did` is the last call.

CONSTANTS
    Operands,   \* the other vectors
    MaxBits     \* the vector is not made longer than this

VARIABLES vector, did
bitvector == <<vector, did>>

Asked(op, i, n, arg, ok) == [op |-> op, i |-> i, n |-> n, arg |-> arg, ok |-> ok]
BitsInit == vector = BitVecInit /\ did = Asked("init", 0, 0, << >>, TRUE)

Does(op, i, n, arg, outcomes) ==
    \E o \in outcomes :
      /\ ~o.abort /\ o.self.length <= MaxBits
      /\ vector' = o.self /\ did' = Asked(op, i, n, arg, o.ok)

PushBit == \E v \in {0, 1} : Does("insert", vector.length, 0, <<v>>, BitVecPush(vector, v))
InsertBits ==
    \E i \in 0..vector.length :
      \/ \E v \in {0, 1} : Does("insert", i, 0, <<v>>, BitVecInsert(vector, i, v))
      \/ \E a \in Operands : Does("insert", i, 0, LiveBits(a), BitVecInsertMultiple(vector, i, a))
      \/ \E a \in Operands, n \in 1..ByteBits :
           /\ Len(a.data) = ByteBits
           /\ Does("insert", i, 0, Cells(a.data, 0, n), BitVecInsertPattern(vector, i, a.data, n))
RemoveBits ==
    \/ Does("remove", vector.length - 1, 1, << >>, BitVecPop(vector))
    \/ \E i \in 0..vector.length - 1, n \in 1..MaxBits : Does("remove", i, n, << >>, BitVecRemoveRange(vector, i, n))
    \/ \E v \in {0, 1} :
         \/ BitVecAny(vector, v) /\ Does("remove", BitVecFind(vector, v), 1, << >>, BitVecRemoveFirst(vector, v))
         \/ BitVecAny(vector, v) /\ Does("remove", BitVecFindLast(vector, v), 1, << >>, BitVecRemoveLast(vector, v))
         \/ ~BitVecAny(vector, v) /\ Does("remove", 0, 0, << >>, BitVecRemoveLast(vector, v))
    \/ \E v \in {0, 1} : Does("remove_all", v, 0, << >>, {Done(BitVecRemoveAll(vector, v))})
WriteBit ==
    \E i \in 0..vector.length - 1 :
      \/ \E v \in {0, 1} : Does("set", i, v, << >>, {Done(BitVecSet(vector, i, <<v>>))})
      \/ Does("set", i, 1 - BitVecGet(vector, i), << >>, {Done(BitVecSet(vector, i, <<1 - BitVecGet(vector, i)>>))})
SizeBits ==
    \/ \E n \in 0..MaxBits : Does("resize", 0, n, << >>, BitVecResize(vector, n)) \/ Does("same", 0, n, << >>, BitVecReserve(vector, n))
    \/ Does("same", 0, 0, << >>, BitVecShrinkToFit(vector))
    \/ Does("resize", 0, 0, << >>, {Done(BitVecClear(vector))})
\* The vector is exchanged for its clone, made by copying or through a
\* conversion, or lost with one that fails.
CloneBits ==
    \/ Does("clone", 0, 0, << >>, BitVecTryClone(vector))
    \/ Does("clone", 0, 0, << >>, bitvec_try_from_str(<<2, 3>> \o bitvec_try_to_str(vector)))
    \/ Does("clone", 0, 0, << >>, bitvec_try_from_bytes(BitVecToBytes(vector, MaxBits), vector.length))
    \/ Does("clone", 0, 0, << >>, bitvec_try_from_integer(BitVecToInteger(vector), vector.length, MaxBits))
ShiftBits ==
    \E p \in 0..MaxBits :
      \/ Does("shift_left", 0, p, << >>, {Done(BitVecShiftLeft(vector, p))})
      \/ Does("shift_right", 0, p, << >>, {Done(BitVecShiftRight(vector, p))})
      \/ Does("rotate", 0, p, << >>, BitVecRotateLeft(vector, p))
      \/ Does("rotate", 0, -p, << >>, BitVecRotateRight(vector, p))
ReverseBits == Does("reverse", 0, 0, << >>, {Done(BitVecReverse(vector))})
\* The vector is the result and one of the operands.
CombineBits ==
    \/ \E a \in Operands : \/ Does("and", 0, 0, LiveBits(a), BitVecAnd(vector, vector, a))
                           \/ Does("or", 0, 0, LiveBits(a), BitVecOr(vector, a, vector))
                           \/ Does("xor", 0, 0, LiveBits(a), BitVecXor(vector, vector, a))
    \/ Does("not", 0, 0, << >>, BitVecNot(vector, vector))
\* The old pattern is never empty: BitVecReplaceAll would not return.
ReplacePattern ==
    \E old, new \in Operands :
      /\ old.length > 0
      /\ \/ Does("replace", 0, 1, <<old, new>>, BitVecReplace(vector, old, new))
         \/ Does("replace", 0, MaxBits, <<old, new>>, BitVecReplaceAll(vector, old, new))

BitsNext ==
    \/ PushBit \/ InsertBits \/ RemoveBits \/ WriteBit \/ SizeBits \/ CloneBits \/ ShiftBits \/ ReverseBits \/ CombineBits \/ ReplacePattern

BitsSpec == BitsInit /\ [][BitsNext]_bitvector

\* What the calls promise, on sequences of bits.
At(s, k) == IF k \in DOMAIN s THEN s[k] ELSE 0
Longest(s, t) == 1..Max({Len(s), Len(t)})
\* Every match of `old` replaced from the left, at most n of them.
RECURSIVE Rewritten(_, _, _, _, _)
Rewritten(s, from, old, new, n) ==
    LET matches == {i \in from..Len(s) - Len(old) : SubSeq(s, i + 1, i + Len(old)) = old}
        i == Min(matches)
    IN  IF n = 0 \/ matches = {} THEN s
        ELSE Rewritten(SubSeq(s, 1, i) \o new \o SubSeq(s, i + Len(old) + 1, Len(s)), i + Len(new), old, new, n - 1)

Meaning(s, c) ==
    LET n == Len(s)
        gone == Min({c.n, n - c.i})
    IN  CASE c.op = "insert" -> SubSeq(s, 1, c.i) \o c.arg \o SubSeq(s, c.i + 1, n)
          [] c.op = "remove" -> SubSeq(s, 1, c.i) \o SubSeq(s, c.i + gone + 1, n)
          [] c.op = "remove_all" -> SelectSeq(s, LAMBDA x : (x # c.i))
          [] c.op = "set" -> [s EXCEPT ![c.i + 1] = c.n]
          [] c.op = "resize" -> [k \in 1..c.n |-> At(s, k)]
          [] c.op \in {"init", "same", "clone"} -> s
          [] c.op = "shift_left" -> [k \in 1..n |-> At(s, k - c.n)]
          [] c.op = "shift_right" -> [k \in 1..n |-> At(s, k + c.n)]
          [] c.op = "reverse" -> [k \in 1..n |-> s[n + 1 - k]]
          [] c.op = "and" -> [k \in 1..Min({n, Len(c.arg)}) |-> s[k] * c.arg[k]]
          [] c.op = "or" -> [k \in Longest(s, c.arg) |-> IF 1 \in {At(s, k), At(c.arg, k)} THEN 1 ELSE 0]
          [] c.op = "xor" -> [k \in Longest(s, c.arg) |-> IF At(s, k) # At(c.arg, k) THEN 1 ELSE 0]
          [] c.op = "not" -> [k \in 1..n |-> 1 - s[k]]
          [] c.op = "replace" -> Rewritten(s, 0, LiveBits(c.arg[1]), LiveBits(c.arg[2]), c.n)

\* s turned by p places, towards the front if p is positive.
Turned(s, p) == [k \in DOMAIN s |-> s[1 + ((k - 1 + p + Len(s) * MaxBits) % Len(s))]]

\* What a call makes of the live bits.  BitWise.h keeps the length in a shift
\* by all of it and the code does not: no bit is left, and how many zeroes is
\* open.  It turns left the other way than the code: either way will do, and
\* BitQueriesExact has the one undo the other.
MadeOf(s, t, c) ==
    CASE c.op \in {"shift_left", "shift_right"} /\ c.n >= Len(s) -> \A k \in DOMAIN t : t[k] = 0
      [] c.op = "rotate" -> t \in {Turned(s, c.n), Turned(s, -c.n)}
      [] OTHER -> t = Meaning(s, c)

\* A call does to the live bits what its name says, wherever stale bits lie in
\* its operands and its result; a clone that is refused is empty, and any other
\* refused call does nothing, except that what a replacement leaves when there
\* was something to replace is open: Pattern.h promises the state before the
\* call, which the code does not restore (the mutators of BitVec.c).
BitsExact ==
    [][LET s == LiveBits(vector)
           t == LiveBits(vector')
       IN  CASE did'.ok -> MadeOf(s, t, did')
             [] ~did'.ok /\ did'.op = "clone" -> t = << >>
             [] ~did'.ok /\ did'.op = "replace" -> t = s \/ BitMatches(vector, did'.arg[1]) # {}
             [] OTHER -> vector' = vector]_bitvector

Value(s) == FoldFunction(+, 0, [i \in DOMAIN s |-> s[i] * 2 ^ (i - 1)])
Order(x, y) == IF x < y THEN -1 ELSE IF x > y THEN 1 ELSE 0

\* The fewest edits that turn one sequence into the other, by the recurrence.
RECURSIVE Edits(_, _)
Edits(s, t) ==
    IF s = << >> \/ t = << >> THEN Len(s) + Len(t)
    ELSE IF Head(s) = Head(t) THEN Edits(Tail(s), Tail(t))
    ELSE 1 + Min({Edits(Tail(s), t), Edits(s, Tail(t)), Edits(Tail(s), Tail(t))})

\* The lengths of the runs add up, and neighbours differ.
RunsExact(b) ==
    LET runs == BitVecRuns(b)
        long(v) == {runs[k].length : k \in {j \in DOMAIN runs : runs[j].value = v}}
        spelled[k \in 0..Len(runs)] == IF k = 0 THEN << >> ELSE spelled[k - 1] \o [j \in 1..runs[k].length |-> runs[k].value]
    IN  /\ spelled[Len(runs)] = LiveBits(b)
        /\ \A k \in 1..Len(runs) - 1 : runs[k].value # runs[k + 1].value
        /\ \A v \in {0, 1} : BitVecLongestRun(b, v) = Max(long(v) \cup {0})

\* The bits one has and the other has not.
SurplusOnes(s, t) == Cardinality({k \in Longest(s, t) : At(s, k) # At(t, k)})

\* A vector hashes as a clone of it does, which has the same live bits and is
\* equal to it: "FNV-1a over the live bits" (BitVec/Compare.h, bitvec_hash).
HashesLiveBits == \A o \in BitVecTryClone(vector) : o.ok => bitvec_hash(o.self) = bitvec_hash(vector)

\* A rotation one way is undone by the same rotation the other way.
TurnsBack ==
    \A p \in 0..MaxBits : \A o \in BitVecRotateLeft(vector, p) : \A back \in BitVecRotateRight(o.self, p) :
      o.ok /\ back.ok => LiveBits(back.self) = LiveBits(vector)

\* The buffer holds the capacity, and the questions asked of a vector, its
\* hash apart (see HashesLiveBits), are answered by its live bits alone: whole
\* bytes are counted and combined, and the masks on the top byte leave out what
\* is stale (the searches, comparisons, counts and distances of BitVec.c).
BitQueriesExact ==
    /\ vector.length <= vector.capacity /\ vector.capacity <= Len(vector.data)
    /\ Len(vector.data) % ByteBits = 0
    /\ RunsExact(vector) /\ TurnsBack
    /\ BitVecIsSorted(vector) <=> \E k \in 0..vector.length : LiveBits(vector) = [i \in 1..vector.length |-> IF i > k THEN 1 ELSE 0]
    /\ BitVecToInteger(vector) = Value(LiveBits(vector))
    /\ BitVecCountOnes(vector) = Len(SelectSeq(LiveBits(vector), LAMBDA x : x = 1))
    /\ \A b \in Operands :
         LET s == LiveBits(vector)
             t == LiveBits(b)
             found == {k \in 0..vector.length - b.length : t # << >> /\ SubSeq(s, k + 1, k + b.length) = t}
         IN  /\ BitMatches(vector, b) = found
             /\ BitVecNumericalCompare(vector, b) = Order(Value(s), Value(t))
             /\ BitVecCompare(vector, b) = 0 <=> s = t
             /\ BitVecCompare(vector, b) = -BitVecCompare(b, vector)
             /\ BitVecEquals(vector, b) <=> s = t
             /\ FindAllPattern(vector, b, 1) = IF found = {} THEN {} ELSE {BitVecFindPattern(vector, b)}
             /\ BitVecCountPattern(vector, b) = Cardinality(found) /\ BitVecFindLastPattern(vector, b) = LastOf(found)
             /\ BitVecFuzzyMatch(vector, b, 0) = (IF t = << >> THEN 0 ELSE BitVecFindPattern(vector, b))
             /\ BitVecStartsWith(vector, b) <=> Len(t) <= Len(s) /\ SubSeq(s, 1, Len(t)) = t
             /\ BitVecEndsWith(vector, b) <=> Len(t) <= Len(s) /\ SubSeq(s, Len(s) - Len(t) + 1, Len(s)) = t
             /\ (BitVecSuffixMatch(vector, <<b>>) = 0) <=> BitVecEndsWith(vector, b)
             /\ BitVecPrefixMatch(vector, <<b, vector>>) = (IF BitVecStartsWith(vector, b) THEN 0 ELSE 1)
             /\ b.length <= vector.length => (BitVecCompareRange(vector, 0, b, 0, b.length) = 0 <=> BitVecStartsWith(vector, b))
             /\ bitvec_regex_match(vector, t) <=> t = << >> \/ found # {}
             /\ BitVecMatches(vector, b, vector) <=> Len(s) = Len(t) /\ BitVecIsSubset(b, vector)
             /\ 2 * BitVecDotProduct(vector, b) + SurplusOnes(s, t) = BitVecCountOnes(vector) + BitVecCountOnes(b)
             /\ BitVecEditDistance(vector, b) = Edits(s, t)
             /\ BitVecIsSubset(vector, b) <=> \A k \in DOMAIN s : s[k] = 1 => At(t, k) = 1
             /\ BitVecDisjoint(vector, b) <=> \A k \in DOMAIN s : s[k] = 0 \/ At(t, k) = 0
=============================================================================
