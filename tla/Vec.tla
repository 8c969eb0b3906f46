-------------------------------- MODULE Vec --------------------------------
(***************************************************************************)
(* Std/Container/Vec.c.  A vec has capacity + 1 cells, the one past its    *)
(* last item a zero; `wild` notes a write outside the buffer.  An operation *)
(* is the set of its outcomes: growth may be refused, any copy may fail.   *)
(***************************************************************************)
EXTENDS Container

\* VecInit and VecInitWithDeepCopy.
VecInit(copy_init, copy_deinit) ==
    [length |-> 0, capacity |-> 0, data |-> << >>, allocator |-> TRUE,
     copy_init |-> copy_init, copy_deinit |-> copy_deinit,
     alive |-> NoPayload, wild |-> FALSE]
VecInitStack(ne) ==
    [VecInit(FALSE, FALSE) EXCEPT !.capacity = ne, !.data = Zeroes(ne + 1), !.allocator = FALSE]

Put(v, i, cells) ==
    [v EXCEPT !.data = Stored(@, i, cells),
              !.wild = @ \/ (cells # << >> /\ i + Len(cells) > Len(v.data))]
Span(v, i, n) == Cells(v.data, i, n)
Items(v) == Span(v, 0, v.length)

\* The zero behind the last item.
Ended(v) == Put(v, v.length, <<0>>)

reserve_vec(v, n) ==
    LET grown == [v EXCEPT !.capacity = n,
                           !.data = [k \in 1..n + 1 |-> IF k <= v.capacity THEN v.data[k] ELSE 0]]
    IN  CASE n <= v.capacity -> {Done(v)}
          [] n > v.capacity /\ ~v.allocator -> {Fatal(v)}
          [] OTHER -> {Refused(v), Done(grown)}

PowerOfTwoFrom(n) == CHOOSE p \in {2 ^ k : k \in 0..n} : p >= n /\ (p = 1 \/ p \div 2 < n)
reserve_pow2_vec(v, n) == IF n = 0 THEN {Done(v)} ELSE reserve_vec(v, PowerOfTwoFrom(n))

reduce_space_vec(v) ==
    CASE ~v.allocator -> {Fatal(v)}
      [] v.allocator /\ v.length = 0 -> {Done([v EXCEPT !.data = << >>, !.capacity = 0])}
      [] OTHER -> {Refused(v), Done([v EXCEPT !.data = Span(v, 0, v.length + 1), !.capacity = v.length])}

\* Growth comes when the items would reach the capacity.
Roomy(v, count) == IF v.length + count >= v.capacity THEN reserve_pow2_vec(v, v.length + count) ELSE {Done(v)}

\* The number of copies that succeed; all of them without copy_init.
CopiesMade(v, items) == IF v.copy_init THEN 0..Len(items) ELSE {Len(items)}

\* Copy k fails: the copies made are released and their cells zeroed.
HalfCopied(v, idx, items, k) ==
    LET t == Gain(Put(v, idx, SubSeq(items, 1, k) \o <<0>>), SubSeq(items, 1, k))
    IN  Lose(t, Span(t, idx, k))
AllCopied(v, idx, items) ==
    Ended([Gain(Put(v, idx, items), items) EXCEPT !.length = @ + Len(items)])

\* Mutant: the released copies are left where the tail was.
NotMovedBack(v, idx, count) == Put(v, idx, Zeroes(count))

\* The rollback of insert_range_into_vec: zeroes, the tail back, zeroes behind.
TailBack(v, idx, count) ==
    LET z == Put(v, idx, Zeroes(count))
    IN  IF idx < v.length
        THEN Put(Put(z, idx, Span(z, idx + count, v.length - idx)), v.length, Zeroes(count)) ELSE z

insert_range_into_vec(v, items, idx) ==
    LET count == Len(items)
        Opened(t) == Put(t, idx + count, Span(t, idx, t.length - idx))
        Insert(t) == {IF k = count THEN Done(AllCopied(Opened(t), idx, items))
                      ELSE Refused(TailBack(HalfCopied(Opened(t), idx, items, k), idx, count)) :
                        k \in CopiesMade(t, items)}
    IN  CASE count = 0 -> {Done(v)}
          [] count # 0 /\ idx > v.length -> {Fatal(v)}
          [] OTHER -> Then(Roomy(v, count), Insert)

\* insert_range_fast_into_vec: only as many items are displaced as are needed.
insert_range_fast_into_vec(v, items, idx) ==
    LET count == Len(items)
        displaced == Min({count, v.length - idx})
        parked == v.length + count - displaced
        Opened(t) == Put(t, parked, Span(t, idx, displaced))
        Back(t) == Put(Put(t, idx, Span(t, parked, displaced)), v.length, Zeroes(count))
        Insert(t) == {IF k = count THEN Done(AllCopied(Opened(t), idx, items))
                      ELSE Refused(Back(HalfCopied(Opened(t), idx, items, k))) :
                        k \in CopiesMade(t, items)}
    IN  CASE count = 0 -> {Done(v)}
          [] count # 0 /\ idx > v.length -> {Fatal(v)}
          [] OTHER -> Then(Roomy(v, count), Insert)

\* clone_vec stops at the first failure and keeps what it has.
clone_vec(dst, src) ==
    LET items == Items(src)
        done[k \in 0..Len(items)] ==
            IF k = 0 THEN reserve_pow2_vec(dst, Len(items))
            ELSE LET Push(v) == insert_range_into_vec(v, <<items[k]>>, v.length) IN Then(done[k - 1], Push)
    IN  IF src.length = 0 THEN {Done(dst)} ELSE done[Len(items)]

\* The payloads of a range go to the caller's buffer (`out`) or are released.
Drained(v, start, count, out) ==
    IF out \/ v.copy_deinit THEN Lose(v, Span(v, start, count)) ELSE Put(v, start, Zeroes(count))

\* Behind a removed range: the gap filled from `from`, the freed end zeroed.
\* A vec without a buffer fails in MemSet.
Closed(v, start, count, from, n) ==
    IF v.data = << >> THEN {Fatal(v)}
    ELSE {Done(Ended([Put(Put(v, start, Span(v, from, n)), v.length - count, Zeroes(count))
                        EXCEPT !.length = @ - count]))}

remove_range_vec(v, start, count, out) ==
    IF start + count > v.length THEN {Fatal(v)}
    ELSE Closed(Drained(v, start, count, out), start, count, start + count, v.length - start - count)

fast_remove_range_vec(v, start, count, out) ==
    LET n == Min({count, v.length - start - count})
    IN  IF start + count > v.length THEN {Fatal(v)}
        ELSE Closed(Drained(v, start, count, out), start, count, v.length - n, n)

vec_sort(v) == Put(v, 0, MemSort(Items(v), v.length))

swap_vec(v, i, j) ==
    IF i >= v.length \/ j >= v.length THEN {Fatal(v)} ELSE {Done([v EXCEPT !.data = Swapped(@, i, j)])}

reverse_vec(v) ==
    LET turn[i \in 0..v.length \div 2] ==
            IF i = 0 THEN v.data ELSE Swapped(turn[i - 1], i - 1, v.length - i)
    IN  [v EXCEPT !.data = turn[v.length \div 2]]

find_idx_vec(v, x) ==
    LET hits == {i \in 0..v.length - 1 : v.data[i + 1] = x} IN IF hits = {} THEN -1 ELSE Min(hits)

resize_vec(v, n) ==
    LET cut == IF n < v.length THEN remove_range_vec(v, n, v.length - n, FALSE) ELSE {Done(v)}
        room == IF n <= v.capacity THEN cut ELSE reserve_pow2_vec(v, n)
        Sized(t) == IF t.data = << >> THEN t ELSE Ended([t EXCEPT !.length = n])
    IN  {IF o.ok THEN Done(Sized(o.self)) ELSE o : o \in room}

clear_vec(v) ==
    LET cells == Items(v)
        t == IF v.copy_deinit \/ v.data = << >> THEN v ELSE Put(v, 0, Zeroes(v.capacity + 1))
    IN  [Lose(t, cells) EXCEPT !.length = 0]

\* deinit_vec: a stack vec has no allocator to free into.
deinit_vec(v) ==
    IF ~v.allocator THEN {Fatal(v)}
    ELSE {Done([VecInit(v.copy_init, v.copy_deinit) EXCEPT !.alive = Lose(v, Items(v)).alive])}

\* vec_insert_range_l and vec_insert_range_r, of one item or several; the L
\* form zeroes the caller's items when the vec has taken them over.
vec_insert_range(v, items, idx, ordered, lvalue) ==
    {[o |-> o, source |-> SourceAfter(v, items, o.ok, lvalue)] :
       o \in IF ordered THEN insert_range_into_vec(v, items, idx)
             ELSE insert_range_fast_into_vec(v, items, idx)}

\* vec_release_merged_source_on_success.
ReleasedSource(dst, src) ==
    IF dst.copy_init THEN src
    ELSE [Lose(src, Items(src)) EXCEPT !.data = << >>, !.length = 0, !.capacity = 0]

\* vec_merge_l and vec_merge_r, of two different vecs.
vec_merge(dst, src, lvalue) ==
    IF src.data = << >> \/ src.length = 0 THEN {[o |-> Done(dst), source |-> src]}
    ELSE {[o |-> r.o, source |-> IF lvalue /\ r.o.ok THEN ReleasedSource(dst, src) ELSE src] :
            r \in vec_insert_range(dst, Items(src), dst.length, TRUE, lvalue)}
=============================================================================
