-------------------------------- MODULE Slab --------------------------------
(***************************************************************************)
(* The slab allocator (Std/Allocator/Slab.c): pages cut into slots of one  *)
(* power-of-two size, the pages in an array sorted by address, and for     *)
(* each a bitmap at the same index of a second array.  Both arrays are     *)
(* mappings of their own that grow together.                               *)
(***************************************************************************)
EXTENDS AllocatorBase

CONSTANTS
    SlabInitialCap,  \* SLAB_INITIAL_CAP
    SlabWordBits     \* the bits of a bitmap word, 64 in the code

SlabInit(slot) ==
    [slot_size |-> slot, words |-> 0, slabs |-> << >>, bitmaps |-> << >>, cap |-> 0,
     in_use |-> 0, footprint |-> 0, dirty |-> {}]

\* What slab_finalize_runtime_consts lets through, a power of two no larger
\* than a page: the page is whole slots, less than a word of them or whole words.
SlotFits(slot) ==
    /\ slot \in Nat \ {0} /\ PageSize % slot = 0
    /\ PageSize \div slot < SlabWordBits \/ (PageSize \div slot) % SlabWordBits = 0

SlotsPerSlab(s) == PageSize \div s.slot_size
SlabBits(s) == 0..s.words * SlabWordBits - 1

\* slab_finalize_runtime_consts, at the first growth.
slab_finalize_runtime_consts(s) ==
    [s EXCEPT !.words = (SlotsPerSlab(s) + SlabWordBits - 1) \div SlabWordBits]

ArraysBytes(s, cap) ==
    os_page_round_up(cap * PtrBytes) + os_page_round_up(cap * s.words * PtrBytes)

\* Mutant: the slabs array of a growth that fails is left mapped.
NothingUndone(s, bytes) == s

\* What slab_grow_caps undoes when its second mapping fails.
GrowUndo(s, bytes) == Unmapped(s, bytes)

\* slab_grow_caps: two mappings, then the old arrays go.
slab_grow_caps(s) ==
    LET cap == IF s.cap = 0 THEN SlabInitialCap ELSE 2 * s.cap
        first == os_page_round_up(cap * PtrBytes)
        old == IF s.cap = 0 THEN 0 ELSE ArraysBytes(s, s.cap)
    IN  {Fails(s), Fails(GrowUndo(MappedTable(s, first), first)),
         Gives([Unmapped(MappedTable(s, ArraysBytes(s, cap)), old) EXCEPT !.cap = cap], 1)}

\* The bits past the last slot, set for ever in a page of less than one word.
TailBits(s) == IF SlotsPerSlab(s) < SlabWordBits THEN SlotsPerSlab(s)..SlabWordBits - 1 ELSE {}

\* slab_insert_sorted: room first, then both arrays shift at the same index.
slab_insert_sorted(s, page) ==
    LET Put(r) ==
            LET i == LowerBound(r.slabs, page)
            IN  [r EXCEPT !.slabs = Inserted(@, i, page), !.bitmaps = Inserted(@, i, TailBits(r))]
        room == IF Len(s.slabs) = s.cap THEN slab_grow_caps(s) ELSE {Gives(s, 1)}
    IN  {IF g.ptr = NULL THEN g ELSE Gives(Put(g.self), LowerBound(g.self.slabs, page) + 1) :
           g \in room}

\* slab_grow_one: a page, and its place in the arrays; the index of the new
\* slab, from 1.
slab_grow_one(s) ==
    LET ready == IF s.words = 0 THEN slab_finalize_runtime_consts(s) ELSE s
        taken == {s.slabs[i] : i \in DOMAIN s.slabs}
        With(p) == {IF g.ptr = NULL THEN Fails(Unmapped(g.self, PageSize)) ELSE g :
                      g \in slab_insert_sorted(Mapped(ready, p, PageSize), p)}
    IN  {Fails(ready)} \cup UNION {With(p) : p \in Places(taken, PageSize)}

\* The slot of bit b of slab i, taken for the caller.
SlabSlot(s, i, b) == s.slabs[i] * PageSize + b * s.slot_size
TakeSlot(s, i, b, zeroed) ==
    LET t == Charge([s EXCEPT !.bitmaps[i] = @ \cup {b}], s.slot_size)
        a == SlabSlot(s, i, b)
    IN  Gives(IF zeroed THEN Zero(t, a, s.slot_size) ELSE t, a)

\* slab_allocator_allocate: the first slab with a free bit, its lowest bit.
slab_allocator_allocate(s, bytes, zeroed) ==
    LET FreeBits(i) == SlabBits(s) \ s.bitmaps[i]
        roomy == {i \in DOMAIN s.slabs : FreeBits(i) # {}}
    IN  IF bytes = 0 \/ bytes > s.slot_size THEN {Fails(s)}
        ELSE IF roomy # {} THEN {TakeSlot(s, Min(roomy), Min(FreeBits(Min(roomy))), zeroed)}
        ELSE {IF g.ptr = NULL THEN g ELSE TakeSlot(g.self, g.ptr, 0, zeroed) : g \in slab_grow_one(s)}

slab_allocator_resize(s, ptr, n) == {Gives(s, IF n <= s.slot_size THEN 1 ELSE 0)}

\* slab_allocator_deallocate: foreign and misaligned pointers, and a slot
\* whose bit is clear, abort.
slab_allocator_deallocate(s, ptr) ==
    LET i == Found(s.slabs, ptr \div PageSize) + 1
        offset == ptr % PageSize
        b == offset \div s.slot_size
    IN  IF ptr = NULL THEN {Fails(s)}
        ELSE IF i = 0 \/ offset % s.slot_size # 0 \/ b \notin s.bitmaps[i] THEN {Aborts(s)}
        ELSE {Gives(Discharge([s EXCEPT !.bitmaps[i] = @ \ {b}], s.slot_size), s.slot_size)}

slab_allocator_remap(s, ptr, n) ==
    CASE ptr = NULL -> slab_allocator_allocate(s, n, TRUE)
      [] ptr # NULL /\ n = 0 -> {[o EXCEPT !.ptr = NULL] : o \in slab_allocator_deallocate(s, ptr)}
      [] OTHER -> {Gives(s, IF n <= s.slot_size THEN ptr ELSE NULL)}

\* SlabAllocatorDeinit: every page, then the two arrays at the size they were
\* mapped with.
SlabAllocatorDeinit(s) ==
    Unmapped(s, Len(s.slabs) * PageSize + IF s.cap = 0 THEN 0 ELSE ArraysBytes(s, s.cap))

------------------------------------------------------------------------------
SlabRoom(s, ptr) == s.slot_size

\* The slots whose bit is set.
SlabHolds(s) ==
    UNION {{SlabSlot(s, i, b) : b \in s.bitmaps[i] \cap 0..SlotsPerSlab(s) - 1} : i \in DOMAIN s.slabs}

\* The arrays agree index by index, the search of free finds every page, the
\* set bits are the callers' blocks, and the footprint is what the kernel
\* still holds: a growth that fails half way leaves nothing behind.
SlabInv(s, addrs) ==
    /\ Len(s.slabs) <= s.cap /\ Len(s.bitmaps) = Len(s.slabs)
    /\ \A i \in DOMAIN s.slabs : Found(s.slabs, s.slabs[i]) = i - 1
    /\ SlabHolds(s) = addrs
    /\ s.in_use = s.slot_size * Cardinality(addrs)
    /\ s.footprint = Len(s.slabs) * PageSize + IF s.cap = 0 THEN 0 ELSE ArraysBytes(s, s.cap)
=============================================================================
