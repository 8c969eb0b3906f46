--------------------------- MODULE AllocatorBase ---------------------------
(***************************************************************************)
(* What the typed allocators Slab, Page and Arena share: the OS shim of    *)
(* Source/Misra/Std/Allocator/_Os.c, the tables kept sorted for a binary   *)
(* search, and the form of an operation.  An operation takes the           *)
(* allocator's record `s` (the fields of its struct, with the counters of  *)
(* `base`) and is the set of its outcomes, one for each way the kernel may *)
(* answer its mappings.                                                    *)
(***************************************************************************)
EXTENDS Integers, FiniteSets, Sequences, FiniteSetsExt

CONSTANTS
    Pages,     \* the page numbers the kernel hands out; the unit of Region
    PageSize,  \* os_page_size(), in the model's unit of addresses
    PtrBytes   \* sizeof(void *) and sizeof(u64) in that unit

ASSUME BaseAssumption ==
    /\ Pages \subseteq Nat \ {0} /\ IsFiniteSet(Pages)
    /\ PageSize \in Nat \ {0} /\ PtrBytes \in Nat \ {0}

NULL == 0

\* The sum of the values of f: how many units it counts.
Total(f) == Cardinality(UNION {{x} \X (1..f[x]) : x \in DOMAIN f})

RoundUp(n, a) == ((n + a - 1) \div a) * a

\* os_page_round_up.
os_page_round_up(n) == RoundUp(n, PageSize)
PageCount(n) == os_page_round_up(n) \div PageSize

Region(page, bytes) == page..page + PageCount(bytes) - 1
Bytes(addr, n) == addr..addr + n - 1

\* os_page_map, for a region the caller can be handed: the places it may go.
Places(taken, bytes) == {p \in Pages : Region(p, bytes) \subseteq Pages \ taken}

\* Fresh pages are zero, so the marks of earlier tenants go with the mapping;
\* os_footprint_add and os_footprint_sub.
Mapped(s, page, bytes) ==
    [s EXCEPT !.footprint = @ + bytes, !.dirty = @ \ Bytes(page * PageSize, bytes)]
MappedTable(s, bytes) == [s EXCEPT !.footprint = @ + bytes]
Unmapped(s, bytes) == [s EXCEPT !.footprint = IF bytes <= @ THEN @ - bytes ELSE 0]

\* The outcomes of an operation: its pointer (or its Boolean result), or the
\* LOG_FATAL that ends the program.
Gives(s, p) == [self |-> s, ptr |-> p, abort |-> FALSE]
Fails(s) == Gives(s, NULL)
Aborts(s) == [self |-> s, ptr |-> NULL, abort |-> TRUE]

\* bytes_in_use never wraps.
Charge(s, n) == [s EXCEPT !.in_use = @ + n]
Discharge(s, n) == [s EXCEPT !.in_use = IF n <= @ THEN @ - n ELSE 0]
Zero(s, addr, n) == [s EXCEPT !.dirty = @ \ Bytes(addr, n)]

\* The binary search of slab_insert_sorted and of the page tables: how many
\* entries lie below x, in a table whose keys ascend.  bounds[k] is <<lo, hi>>
\* after k rounds of its loop.
LowerBound(t, x) ==
    LET bounds[k \in 0..Len(t)] ==
            IF k = 0 THEN <<0, Len(t)>>
            ELSE LET b == bounds[k - 1]
                     mid == b[1] + (b[2] - b[1]) \div 2
                 IN  IF b[1] >= b[2] THEN b
                     ELSE IF t[mid + 1] < x THEN <<mid + 1, b[2]>> ELSE <<b[1], mid>>
    IN  bounds[Len(t)][1]

Inserted(t, i, x) == SubSeq(t, 1, i) \o <<x>> \o SubSeq(t, i + 1, Len(t))
Removed(t, i) == SubSeq(t, 1, i) \o SubSeq(t, i + 2, Len(t))

\* A table sorted by key; what bsearch finds, as an index from 0, or -1.
Found(t, x) ==
    LET i == LowerBound(t, x) IN IF i < Len(t) /\ t[i + 1] = x THEN i ELSE -1
=============================================================================
