----------------------------- MODULE Container -----------------------------
(***************************************************************************)
(* What Vec and List share: the memory helpers (Std/Memory.c) over cells   *)
(* instead of bytes, a buffer being a sequence of cells indexed from 0 and *)
(* 0 a zeroed cell, the outcomes of an operation, and ownership.  An       *)
(* element may own a payload, in a container with copy_deinit: `alive`     *)
(* counts, for each value, the payloads the container answers for, made by *)
(* copy_init or taken from the caller, released or given away.             *)
(***************************************************************************)
EXTENDS Integers, Sequences, FiniteSets, FiniteSetsExt

CONSTANT SortCutoff  \* partitions of at most this size are sorted by insertion, 16 in the code

Zeroes(n) == [k \in 1..n |-> 0]
Cells(a, i, n) == SubSeq(a, i + 1, i + n)

\* MemCopy, MemMove and MemSet, all of them a write of cells at index i.
Stored(a, i, cells) ==
    [k \in DOMAIN a |-> IF k - 1 \in i..i + Len(cells) - 1 THEN cells[k - i] ELSE a[k]]

Swapped(a, i, j) == [a EXCEPT ![i + 1] = a[j + 1], ![j + 1] = a[i + 1]]

RECURSIVE InsertionFrom(_, _, _, _)
\* memsort_insertion, from item i on.
InsertionFrom(a, base, i, n) ==
    LET sink[j \in 0..n, b \in Seq(Int)] ==
            IF j > 0 /\ b[base + j] > b[base + j + 1]
            THEN sink[j - 1, Swapped(b, base + j - 1, base + j)] ELSE b
    IN  IF i >= n THEN a ELSE InsertionFrom(sink[i, a], base, i + 1, n)

\* The trio (lo, mid, hi) put in order, and the median parked before the last.
Median(a, base, n) ==
    LET Order(b, i, j) == IF b[i + 1] > b[j + 1] THEN Swapped(b, i, j) ELSE b
        mid == base + n \div 2
        hi == base + n - 1
    IN  Swapped(Order(Order(Order(a, base, mid), base, hi), mid, hi), mid, base + n - 2)

RECURSIVE Partition(_, _, _, _, _)
\* The two scans towards each other; where the pivot goes, and the array.
Partition(a, base, n, i, j) ==
    LET At(k) == a[base + k + 1]
        pivot == At(n - 2)
        up == Min({k \in i + 1..n - 2 : At(k) >= pivot})
        down == Max({k \in 0..j - 1 : k = 0 \/ At(k) <= pivot})
    IN  IF up >= down THEN [at |-> up, array |-> Swapped(a, base + up, base + n - 2)]
        ELSE Partition(Swapped(a, base + up, base + down), base, n, up, down)

RECURSIVE MemSortRange(_, _, _)
\* MemSort: quicksort down to the cutoff, insertion below it.
MemSortRange(a, base, n) ==
    IF n <= SortCutoff THEN InsertionFrom(a, base, 1, n)
    ELSE LET p == Partition(Median(a, base, n), base, n, 0, n - 2)
             right == base + p.at + 1
         IN  MemSortRange(MemSortRange(p.array, base, p.at), right, n - p.at - 1)

MemSort(a, n) == IF n < 2 THEN a ELSE MemSortRange(a, 0, n)

-----------------------------------------------------------------------------

CONSTANT Values  \* the values of elements, positive

ASSUME ValuesAssumption == Values \subseteq Nat \ {0}

Done(c) == [self |-> c, ok |-> TRUE, abort |-> FALSE]
Refused(c) == [self |-> c, ok |-> FALSE, abort |-> FALSE]
Fatal(c) == [self |-> c, ok |-> FALSE, abort |-> TRUE]

\* The outcomes of a step taken after each outcome that is not a failure.
Then(outcomes, After(_)) == UNION {IF o.ok THEN After(o.self) ELSE {o} : o \in outcomes}

NoPayload == [x \in Values |-> 0]
CountOf(cells, x) == Cardinality({i \in DOMAIN cells : cells[i] = x})
Credited(c, cells, n) ==
    IF c.copy_deinit THEN [c EXCEPT !.alive = [x \in Values |-> @[x] + n * CountOf(cells, x)]] ELSE c
Gain(c, cells) == Credited(c, cells, 1)
Lose(c, cells) == Credited(c, cells, -1)

\* vec_zero_source_on_success and list_zero_source_on_success: the caller's
\* items after the L form of an insertion.
SourceAfter(c, items, ok, lvalue) ==
    IF lvalue /\ ok /\ ~c.copy_init THEN Zeroes(Len(items)) ELSE items
=============================================================================
