-------------------------------- MODULE Heap --------------------------------
(***************************************************************************)
(* The heap allocator of Source/Misra/Std/Allocator/Heap.c, for one heap   *)
(* page per OS page (every platform but macOS-aarch64).  A page of a size  *)
(* class is a descriptor in an open-addressed hash table keyed by the page *)
(* address, and, while it has a free slot, in the class's doubly linked    *)
(* warm list, whose links are bucket numbers: every bucket that moves      *)
(* (back-shift delete, resize) has to take its links along.  Larger        *)
(* requests get whole OS pages (XL).  Freed memory is retained (recycle,   *)
(* xlFreed) until the footprint policy returns it to the kernel.           *)
(*                                                                         *)
(* The allocator is single-threaded: a call is one step.  Every os_page_map*)
(* of a call may fail.  The unit of addresses and sizes is the smallest    *)
(* slot, the unit of footprint and retention is the OS page.               *)
(***************************************************************************)
EXTENDS Integers, FiniteSets, Sequences

CONSTANTS
    Pages,         \* the user pages the kernel can hand out (page numbers)
    Hash,          \* heap_hash_bucket before the mask, for each page
    PageSize,      \* HEAP_PAGE_SIZE
    SlotSize,      \* heap_class_size, a sequence in ascending order
    WordBits,      \* bits in a bitmap word (64)
    InitialCap,    \* HEAP_PAGES_INITIAL_CAP
    DescsPerPage,  \* HeapPage descriptors in an OS page
    XLPerPage,     \* HeapPageXL descriptors in an OS page
    PtrsPerPage,   \* recycle entries in an OS page
    Threshold,     \* HEAP_FOOTPRINT_SHRINK_THRESHOLD, in OS pages
    Sizes,         \* the request sizes of the callers
    MaxLive        \* bound: the callers hold at most this many blocks

ASSUME HeapAssumption ==
    /\ Pages \subseteq Nat /\ IsFiniteSet(Pages)
    /\ Hash \in [Pages -> Nat]
    /\ SlotSize \in Seq(Nat \ {0}) /\ SlotSize # << >> /\ PageSize \in Nat
    /\ \A i \in DOMAIN SlotSize : PageSize % SlotSize[i] = 0 /\ 2 * SlotSize[i] <= PageSize
    /\ {InitialCap, WordBits, DescsPerPage, XLPerPage, PtrsPerPage} \subseteq Nat \ {0}
    /\ InitialCap > 1 /\ Threshold \in Nat /\ MaxLive \in Nat
    /\ Sizes \subseteq Nat \ {0}

VARIABLES
    heap,  \* the HeapAllocator, and in `mapped` the user pages the kernel gave it
    held   \* the blocks in the callers' hands, by the pointers the calls returned

vars == <<heap, held>>

None == -1     \* HEAP_BUCKET_NONE; also the NULL page and the NULL pointer
Classes == DOMAIN SlotSize
Least(S) == CHOOSE x \in S : \A y \in S : x <= y
CeilDiv(a, b) == (a + b - 1) \div b
Last(s) == s[Len(s)]
DropLast(s) == SubSeq(s, 1, Len(s) - 1)

Slots(c) == PageSize \div SlotSize[c]
BitmapBits(c) == WordBits * CeilDiv(Slots(c), WordBits)
FullBitmap(c) == 0..BitmapBits(c) - 1

\* heap_set_tail_bits: the bits past the last slot are in use for ever.
TailBits(c) == Slots(c)..BitmapBits(c) - 1

EmptyBucket == [page |-> None, bits |-> {}, used |-> 0, cls |-> 1,
                prev |-> None, next |-> None]

Empty ==
    [pages |-> << >>,                        \* the table: 0..cap-1 -> descriptor
     count |-> 0,
     warm |-> [c \in Classes |-> None],      \* class_warm_head
     recycle |-> << >>, recycleCap |-> 0,
     xlUse |-> << >>, xlUseCap |-> 0,        \* xl_in_use
     xlFreed |-> << >>, xlFreedCap |-> 0,
     retention |-> 0, footprint |-> 0, inUse |-> 0,
     mapped |-> {}]

Cap(h) == Cardinality(DOMAIN h.pages)

-----------------------------------------------------------------------------
(* The OS shim, _Os.c.  `at` is where the kernel puts a mapping, None for a *)
(* call that fails; the allocator's own arrays live outside Pages.          *)

Region(at, n) == at..at + n - 1

CanMap(h, at, n) == at # None /\ Region(at, n) \subseteq Pages \ h.mapped

os_page_map(h, at, n) ==
    [h EXCEPT !.mapped = @ \cup Region(at, n), !.footprint = @ + n]

os_page_unmap(h, at, n) ==
    [h EXCEPT !.mapped = @ \ Region(at, n), !.footprint = @ - n]

\* mremap(MREMAP_MAYMOVE): cut or extended in place, or moved to free pages.
CanRemap(h, from, n, at, m, fail) ==
    /\ "mremap" \notin fail /\ at # None
    /\ Region(at, m) \subseteq Pages \ (h.mapped \ IF at = from THEN Region(from, n) ELSE {})

os_page_remap(h, from, n, at, m) ==
    [h EXCEPT !.mapped = (@ \ Region(from, n)) \cup Region(at, m),
              !.footprint = @ + m - n]

-----------------------------------------------------------------------------
(* The hash table. *)

Probe(cap, p, k) == (Hash[p] + k) % cap

heap_hash_lookup(h, p) ==
    LET cap == Cap(h)
        Full(k) == h.pages[Probe(cap, p, k)].page # None
        Hits == {k \in 0..cap - 1 : /\ h.pages[Probe(cap, p, k)].page = p
                                    /\ \A j \in 0..k : Full(j)}
    IN  IF p \notin Pages \/ Hits = {} THEN None ELSE Probe(cap, p, Least(Hits))

InsertBucket(pages, cap, p) ==
    Probe(cap, p, Least({k \in 0..cap - 1 : pages[Probe(cap, p, k)].page = None}))

heap_warm_push(h, i) ==
    LET c == h.pages[i].cls
        head == h.warm[c]
        linked == [h.pages EXCEPT ![i].prev = None, ![i].next = head]
    IN  [h EXCEPT !.pages = IF head = None THEN linked
                            ELSE [linked EXCEPT ![head].prev = i],
                  !.warm[c] = i]

heap_warm_unlink(h, i) ==
    LET d == h.pages[i]
        p1 == IF d.prev = None THEN h.pages ELSE [h.pages EXCEPT ![d.prev].next = d.next]
        p2 == IF d.next = None THEN p1 ELSE [p1 EXCEPT ![d.next].prev = d.prev]
    IN  [h EXCEPT !.pages = [p2 EXCEPT ![i].prev = None, ![i].next = None],
                  !.warm[d.cls] = IF d.prev = None THEN d.next ELSE @]

\* Mutant: a back-shift that forgets that the scan may have wrapped past bucket
\* 0.
CanMoveNoWrap(hole, cursor, natural) == ~(natural > hole /\ natural <= cursor)

\* May the entry at `cursor`, at home in `natural`, fill the hole?
CanMove(hole, cursor, natural) ==
    IF cursor >= hole THEN ~(natural > hole /\ natural <= cursor)
                      ELSE ~(natural > hole \/ natural <= cursor)

\* Move a bucket into the hole and make its warm neighbours, or the list head,
\* point at the new place.
MoveBucket(h, from, to) ==
    LET d == h.pages[from]
        p1 == [h.pages EXCEPT ![to] = d, ![from] = EmptyBucket]
        p2 == IF d.prev = None THEN p1 ELSE [p1 EXCEPT ![d.prev].next = to]
        p3 == IF d.next = None THEN p2 ELSE [p2 EXCEPT ![d.next].prev = to]
    IN  [h EXCEPT !.pages = p3,
                  !.warm[d.cls] = IF d.prev = None /\ @ = from THEN to ELSE @]

\* One bucket of the scan for an entry to fill the hole; it ends at the first
\* empty one.
BackShift(w, cap, cursor) ==
    LET page == w.h.pages[cursor].page
    IN  IF w.ended \/ page = None THEN [w EXCEPT !.ended = TRUE]
        ELSE IF CanMove(w.hole, cursor, Probe(cap, page, 0))
        THEN [h |-> MoveBucket(w.h, cursor, w.hole), hole |-> cursor, ended |-> FALSE]
        ELSE w

\* Back-shift delete: walk[k] is the heap, and the hole in its table, once the
\* scan has looked at the k buckets after i.
heap_hash_remove(h, i) ==
    LET cap == Cap(h)
        start == [h |-> [h EXCEPT !.pages[i] = EmptyBucket, !.count = @ - 1],
                  hole |-> i, ended |-> FALSE]
        walk[k \in 0..cap - 1] ==
            IF k = 0 THEN start ELSE BackShift(walk[k - 1], cap, (i + k) % cap)
    IN  walk[cap - 1].h

TablePages(cap) == CeilDiv(cap, DescsPerPage)

\* A descriptor's place in a fresh table; it is warm again if it has room.
Reinsert(g, newCap, d) ==
    LET b == InsertBucket(g.pages, newCap, d.page)
        placed == [g EXCEPT !.pages[b] = [d EXCEPT !.prev = None, !.next = None]]
    IN  IF d.page = None THEN g
        ELSE IF d.used < Slots(d.cls) THEN heap_warm_push(placed, b) ELSE placed

\* Re-insert every descriptor into a fresh table, in bucket order, and rebuild
\* the warm lists.
heap_hash_resize(h, newCap) ==
    LET cap == Cap(h)
        fresh == [h EXCEPT !.pages = [b \in 0..newCap - 1 |-> EmptyBucket],
                           !.warm = [c \in Classes |-> None]]
        upto[i \in 0..cap] ==
            IF i = 0 THEN fresh ELSE Reinsert(upto[i - 1], newCap, h.pages[i - 1])
    IN  [upto[cap] EXCEPT !.footprint = @ + TablePages(newCap) - TablePages(cap)]

-----------------------------------------------------------------------------
(* Retention.  `fail` says what the kernel refuses: "alloc" and "free", the *)
(* growth of an array that the call's allocation or free asks for (each     *)
(* grows one at most), "mremap", the remapping of a region.                 *)

ReserveCap(len, cap, perPage) ==
    IF len < cap THEN cap
    ELSE perPage * CeilDiv(IF cap = 0 THEN 1 ELSE 2 * cap, perPage)

GrownPages(cap, newCap, perPage) == CeilDiv(newCap, perPage) - CeilDiv(cap, perPage)

heap_recycle_push(h, p, fail) ==
    LET cap == ReserveCap(Len(h.recycle), h.recycleCap, PtrsPerPage)
    IN  IF cap # h.recycleCap /\ "free" \in fail THEN os_page_unmap(h, p, 1)
        ELSE [h EXCEPT !.recycle = Append(@, p),
                       !.recycleCap = cap,
                       !.footprint = @ + GrownPages(h.recycleCap, cap, PtrsPerPage),
                       !.retention = @ + 1]

\* Mutant: a reclaim that keeps the page whenever it heads its list.
ReclaimUnlessHead(h, i, fail) ==
    LET d == h.pages[i]
    IN  IF h.warm[d.cls] = i THEN h
        ELSE heap_recycle_push(heap_hash_remove(heap_warm_unlink(h, i), i), d.page, fail)

\* A page that became empty is parked for reuse, unless it is the only warm
\* page of its class.
heap_reclaim_empty_page(h, i, fail) ==
    LET d == h.pages[i]
    IN  IF h.warm[d.cls] = i /\ d.next = None THEN h
        ELSE heap_recycle_push(heap_hash_remove(heap_warm_unlink(h, i), i), d.page, fail)

\* Unmap the youngest retained region, XL first.
DrainOne(g) ==
    LET x == Last(g.xlFreed)
    IN  IF g.xlFreed # << >>
        THEN os_page_unmap([g EXCEPT !.xlFreed = DropLast(@), !.retention = @ - x.n], x.page, x.n)
        ELSE os_page_unmap([g EXCEPT !.recycle = DropLast(@), !.retention = @ - 1], Last(g.recycle), 1)

\* Until a quarter of the footprint is gone or nothing is retained: drain[k] is
\* the heap after k of them.
heap_shrink_retention(h) ==
    LET target == h.footprint - h.footprint \div 4
        retained == Len(h.xlFreed) + Len(h.recycle)
        drain[k \in 0..retained] ==
            IF k = 0 THEN h
            ELSE IF drain[k - 1].footprint <= target THEN drain[k - 1] ELSE DrainOne(drain[k - 1])
    IN  drain[retained]

\* Mutant: a policy that shrinks and does not account for it.
ShrinkUncounted(h) ==
    IF h.footprint < Threshold \/ h.retention <= h.footprint \div 2 THEN h
    ELSE [heap_shrink_retention(h) EXCEPT !.retention = h.retention]

heap_maybe_shrink_retention(h) ==
    IF h.footprint < Threshold \/ h.retention <= h.footprint \div 2 THEN h
    ELSE heap_shrink_retention(h)

-----------------------------------------------------------------------------
(* Pages of a class. *)

FirstFree(d) == Least(FullBitmap(d.cls) \ d.bits)

\* The first free slot of the page; a page that fills leaves the warm list.
TakeSlot(h, i) ==
    LET d == h.pages[i]
        taken == [h EXCEPT !.pages[i] = [d EXCEPT !.bits = @ \cup {FirstFree(d)}, !.used = @ + 1]]
    IN  [h |-> IF d.used + 1 = Slots(d.cls) THEN heap_warm_unlink(taken, i) ELSE taken,
         ptr |-> d.page * PageSize + FirstFree(d) * SlotSize[d.cls]]

NewDesc(p, c) ==
    [page |-> p, bits |-> TailBits(c), used |-> 0, cls |-> c, prev |-> None, next |-> None]

\* heap_grow_class: keep the load factor at a half (the loop of the code runs
\* at most once: the table gains one page), then a recycled page or a new one.
\* Without a page the result is the heap with its table possibly grown.
heap_grow_class(h, c, at, fail) ==
    LET cap == Cap(h)
        full == cap = 0 \/ 2 * (h.count + 1) > cap
        g == IF ~full THEN h
             ELSE heap_hash_resize(h, IF cap = 0 THEN InitialCap ELSE 2 * cap)
        Install(k, p) ==
            LET b == InsertBucket(k.pages, Cap(k), p)
            IN  heap_warm_push([k EXCEPT !.pages[b] = NewDesc(p, c), !.count = @ + 1], b)
    IN  IF full /\ "alloc" \in fail THEN h
        ELSE IF g.recycle # << >>
        THEN Install([g EXCEPT !.recycle = DropLast(@), !.retention = @ - 1], Last(g.recycle))
        ELSE IF CanMap(g, at, 1) THEN Install(os_page_map(g, at, 1), at) ELSE g

ClassFor(bytes) == Least({c \in Classes : bytes <= SlotSize[c]})
IsXL(bytes) == bytes > SlotSize[Len(SlotSize)]
OsPages(bytes) == CeilDiv(bytes, PageSize)
Effective(bytes) == IF IsXL(bytes) THEN OsPages(bytes) * PageSize ELSE SlotSize[ClassFor(bytes)]

AllocClassed(h, c, at, fail) ==
    LET g == IF h.warm[c] = None THEN heap_grow_class(h, c, at, fail) ELSE h
    IN  IF g.warm[c] = None THEN [h |-> g, ptr |-> None] ELSE TakeSlot(g, g.warm[c])

-----------------------------------------------------------------------------
(* XL. *)

SwapRemove(s, i) == [j \in 1..Len(s) - 1 |-> IF j = i THEN Last(s) ELSE s[j]]

\* Mutant: a match of any retained region that is large enough.
XLMatchAtLeast(h, n) ==
    LET M == {j \in DOMAIN h.xlFreed : h.xlFreed[j].n >= n}
    IN  IF M = {} THEN None ELSE CHOOSE j \in M : \A k \in M : k <= j

\* heap_xl_freed_find_match: the youngest retained region of exactly n pages.
XLMatch(h, n) ==
    LET M == {j \in DOMAIN h.xlFreed : h.xlFreed[j].n = n}
    IN  IF M = {} THEN None ELSE CHOOSE j \in M : \A k \in M : k <= j

heap_alloc_xl(h, n, at, fail) ==
    LET cap == ReserveCap(Len(h.xlUse), h.xlUseCap, XLPerPage)
        g == [h EXCEPT !.xlUseCap = cap,
                       !.footprint = @ + GrownPages(h.xlUseCap, cap, XLPerPage)]
        m == XLMatch(h, n)
        Use(k, p) == [h |-> [k EXCEPT !.xlUse = Append(@, [page |-> p, n |-> n])],
                      ptr |-> p * PageSize]
    IN  IF cap # h.xlUseCap /\ "alloc" \in fail THEN [h |-> h, ptr |-> None]
        ELSE IF m # None
        THEN Use([g EXCEPT !.xlFreed = SwapRemove(@, m), !.retention = @ - n],
                 h.xlFreed[m].page)
        ELSE IF CanMap(g, at, n) THEN Use(os_page_map(g, at, n), at)
        ELSE [h |-> g, ptr |-> None]

heap_free_xl(h, i, fail) ==
    LET x == h.xlUse[i]
        cap == ReserveCap(Len(h.xlFreed), h.xlFreedCap, XLPerPage)
        g == [h EXCEPT !.xlUse = SwapRemove(@, i)]
    IN  IF cap # h.xlFreedCap /\ "free" \in fail THEN os_page_unmap(g, x.page, x.n)
        ELSE [g EXCEPT !.xlFreed = Append(@, x), !.xlFreedCap = cap,
                       !.footprint = @ + GrownPages(h.xlFreedCap, cap, XLPerPage),
                       !.retention = @ + x.n]

-----------------------------------------------------------------------------
(* The allocator's entry points, on a heap value: calls call each other. *)

heap_allocator_allocate(h, bytes, at, fail) ==
    LET r == IF IsXL(bytes) THEN heap_alloc_xl(h, OsPages(bytes), at, fail)
             ELSE AllocClassed(h, ClassFor(bytes), at, fail)
    IN  IF r.ptr = None THEN r ELSE [r EXCEPT !.h.inUse = @ + Effective(bytes)]

\* heap_recover_size: an XL region by its exact base, else the page of ptr.
\* xl is the index of the region or None, bucket that of the page or None.
Recover(h, ptr) ==
    LET X == {i \in DOMAIN h.xlUse : h.xlUse[i].page * PageSize = ptr}
        b == heap_hash_lookup(h, ptr \div PageSize)
    IN  IF X # {} THEN [xl |-> Least(X), bucket |-> None, size |-> h.xlUse[Least(X)].n * PageSize]
        ELSE [xl |-> None, bucket |-> b,
              size |-> IF b = None THEN 0 ELSE SlotSize[h.pages[b].cls]]

\* Mutant: a free without the double-free and alignment checks.
FreeableUnchecked(h, ptr) == Recover(h, ptr).size # 0

\* The checks of deallocate and heap_free_classed: any other pointer is
\* foreign, misaligned or free already, and aborts the program.  (The `past
\* slot region` check never fires: the slots fill the page.)
Freeable(h, ptr) ==
    LET r == Recover(h, ptr)
        off == ptr % PageSize
    IN  \/ r.xl # None
        \/ /\ r.bucket # None
           /\ off % r.size = 0
           /\ off \div r.size \in h.pages[r.bucket].bits

\* heap_free_classed.  A page that was full is warm again, at the head.
FreeClassed(h, ptr, i, fail) ==
    LET d == h.pages[i]
        slot == (ptr % PageSize) \div SlotSize[d.cls]
        cleared == [h EXCEPT !.pages[i] = [d EXCEPT !.bits = @ \ {slot}, !.used = @ - 1]]
        warm == IF d.used = Slots(d.cls) THEN heap_warm_push(cleared, i) ELSE cleared
    IN  IF d.used = 1 THEN heap_reclaim_empty_page(warm, i, fail) ELSE warm

heap_allocator_deallocate(h, ptr, fail) ==
    LET r == Recover(h, ptr)
        g == IF r.xl # None THEN heap_free_xl(h, r.xl, fail)
             ELSE FreeClassed(h, ptr, r.bucket, fail)
        Sub(a, b) == IF b <= a THEN a - b ELSE 0
    IN  heap_maybe_shrink_retention([g EXCEPT !.inUse = Sub(@, r.size)])

\* Mutant: a resize that accepts a request for more pages than the region has.
ResizeUpOK(h, ptr, newSize) ==
    LET r == Recover(h, ptr)
    IN  IF r.xl # None THEN h.xlUse[r.xl].n <= OsPages(newSize)
        ELSE r.size # 0 /\ ~IsXL(newSize) /\ SlotSize[ClassFor(newSize)] = r.size

\* heap_allocator_resize: whether the block can hold newSize where it stands.
ResizeOK(h, ptr, newSize) ==
    LET r == Recover(h, ptr)
    IN  IF r.xl # None THEN h.xlUse[r.xl].n = OsPages(newSize)
        ELSE r.size # 0 /\ ~IsXL(newSize) /\ SlotSize[ClassFor(newSize)] = r.size

\* Mutant: a remap that frees the old block before it has the new one.
RemapFreesFirst(h, ptr, newSize, at, fail) ==
    LET r == heap_allocator_allocate(heap_allocator_deallocate(h, ptr, fail), newSize, at, fail)
    IN  [h |-> r.h, ptr |-> r.ptr, len |-> Effective(newSize)]

\* An XL region is handed to mremap; when that declines, and for every other
\* block: allocate, copy, free.  The caller gets a pointer, to a block of len,
\* or NULL and keeps the old one.
heap_allocator_remap(h, ptr, newSize, at, fail) ==
    LET r == Recover(h, ptr)
        n == h.xlUse[r.xl].n
        m == OsPages(newSize)
        p == ptr \div PageSize
        fresh == heap_allocator_allocate(h, newSize, at, fail)
        Remapped == [os_page_remap(h, p, n, at, m) EXCEPT
                        !.xlUse[r.xl] = [page |-> at, n |-> m],
                        !.inUse = @ + (m - n) * PageSize]
    IN  IF r.xl # None /\ n = m THEN [h |-> h, ptr |-> ptr, len |-> m * PageSize]
        ELSE IF r.xl # None /\ CanRemap(h, p, n, at, m, fail)
        THEN [h |-> Remapped, ptr |-> at * PageSize, len |-> m * PageSize]
        ELSE IF fresh.ptr = None THEN [h |-> fresh.h, ptr |-> None, len |-> 0]
        ELSE [h |-> heap_allocator_deallocate(fresh.h, ptr, fail),
              ptr |-> fresh.ptr, len |-> Effective(newSize)]

\* HeapAllocatorDeinit unmaps what its four lists name, and zeroes the struct.
HeapAllocatorDeinit(h) ==
    LET Of(s) == UNION {Region(s[i].page, s[i].n) : i \in DOMAIN s}
        tables == {h.pages[b].page : b \in DOMAIN h.pages}
        parked == {h.recycle[i] : i \in DOMAIN h.recycle}
    IN  [Empty EXCEPT !.mapped = h.mapped \ (tables \cup parked \cup Of(h.xlUse) \cup Of(h.xlFreed))]

-----------------------------------------------------------------------------
(* The specification.  Where the kernel puts a mapping (`at`) and what it   *)
(* refuses (`fail`) is its choice.                                          *)

Places == (Pages \ heap.mapped) \cup {None}
RemapFails(b) ==
    IF Recover(heap, b.addr).xl = None THEN {{}, {"alloc"}, {"free"}}
    ELSE {{}, {"mremap"}, {"mremap", "alloc"}, {"mremap", "free"}}

Addresses == {p * PageSize + k : p \in Pages, k \in 0..PageSize - 1}

Block(ptr, len) == [addr |-> ptr, len |-> len]

\* The blocks the heap's own books show: the live slots of a page, and the
\* regions.
SlotsInUse(d) ==
    {[addr |-> d.page * PageSize + s * SlotSize[d.cls], len |-> SlotSize[d.cls]] :
        s \in d.bits \ TailBits(d.cls)}

LiveIn(h) ==
    (UNION {SlotsInUse(h.pages[b]) : b \in {x \in DOMAIN h.pages : h.pages[x].page # None}})
    \cup {[addr |-> h.xlUse[i].page * PageSize, len |-> h.xlUse[i].n * PageSize] :
             i \in DOMAIN h.xlUse}

Live == LiveIn(heap)

Init == heap = Empty /\ held = {}

Allocate(bytes, at, fail) ==
    /\ Cardinality(held) < MaxLive
    /\ \E r \in {heap_allocator_allocate(heap, bytes, at, fail)} :
        /\ heap' = r.h
        /\ held' = IF r.ptr = None THEN held ELSE held \cup {Block(r.ptr, Effective(bytes))}

\* Any pointer may be handed in: one that passes the checks is freed.
Deallocate(ptr, fail) ==
    /\ Freeable(heap, ptr)
    /\ heap' = heap_allocator_deallocate(heap, ptr, fail)
    /\ held' = {b \in held : b.addr # ptr}

\* A remap of a block a caller holds.
Remap(b, newSize, at, fail) ==
    \E r \in {heap_allocator_remap(heap, b.addr, newSize, at, fail)} :
        /\ heap' = r.h
        /\ held' = IF r.ptr = None THEN held ELSE (held \ {b}) \cup {Block(r.ptr, r.len)}

Deinit == heap' = HeapAllocatorDeinit(heap) /\ held' = {}

Next ==
    \/ \E bytes \in Sizes, at \in Places, fail \in SUBSET {"alloc"} : Allocate(bytes, at, fail)
    \/ \E ptr \in Addresses, fail \in SUBSET {"free"} : Deallocate(ptr, fail)
    \/ \E b \in held, newSize \in Sizes :
          \E at \in Places \cup {b.addr \div PageSize},
             fail \in RemapFails(b) :
             Remap(b, newSize, at, fail)
    \/ Deinit

Spec == Init /\ [][Next]_vars

-----------------------------------------------------------------------------
(* Properties. *)

Full(b) == heap.pages[b].page # None
Used == {b \in DOMAIN heap.pages : Full(b)}
\* Shapes and ranges of the descriptor arrays and counters.
HeapTypeOK ==
    /\ DOMAIN heap.pages = 0..Cap(heap) - 1
    /\ \A b \in Used :
          LET d == heap.pages[b]
          IN  /\ d.page \in heap.mapped /\ d.cls \in Classes
              /\ TailBits(d.cls) \subseteq d.bits /\ d.bits \subseteq FullBitmap(d.cls)
    /\ Len(heap.recycle) <= heap.recycleCap
    /\ Len(heap.xlUse) <= heap.xlUseCap /\ Len(heap.xlFreed) <= heap.xlFreedCap
    /\ {heap.retention, heap.footprint, heap.inUse} \subseteq Nat

\* The table is well formed and answers for every page it holds: a probe from
\* the home bucket reaches it before an empty bucket, it is there once, the
\* count is right, and at least half of the buckets are empty, so that every
\* probe ends.
PagesFindable ==
    /\ HeapTypeOK
    /\ \A b \in Used : heap_hash_lookup(heap, heap.pages[b].page) = b
    /\ heap.count = Cardinality(Used)
    /\ 2 * heap.count <= Cap(heap)

\* The buckets met by following next_warm from the head of class c.
WarmWalk(c) ==
    LET walk[k \in 0..Cap(heap)] ==
            IF k = 0 THEN heap.warm[c]
            ELSE IF walk[k - 1] = None THEN None ELSE heap.pages[walk[k - 1]].next
    IN  walk

\* used_count counts the live slots of the bitmap, and a class keeps at most
\* one page with none: the reclaim of heap_free_classed misses no empty page
\* but the one it means to keep.
OneSparePage ==
    /\ \A b \in Used :
          heap.pages[b].used = Cardinality(heap.pages[b].bits \ TailBits(heap.pages[b].cls))
    /\ \A b, d \in Used :
          heap.pages[b].used = 0 /\ heap.pages[d].used = 0 /\ heap.pages[b].cls = heap.pages[d].cls
              => b = d

\* The warm list of a class is exactly its pages with a free slot: what
\* Allocate takes from the head has room, and no room is out of its reach.
\* The list ends, prev undoes next, pages outside have no stale links, and
\* used_count, which decides all this, is exact.
WarmListsExact ==
    /\ OneSparePage
    /\ \A c \in Classes :
           LET walk == WarmWalk(c)
               list == {walk[k] : k \in DOMAIN walk} \ {None}
           IN  /\ list = {b \in Used : heap.pages[b].cls = c /\ heap.pages[b].used < Slots(c)}
               /\ walk[Cap(heap)] = None
               /\ \A b \in list :
                     LET d == heap.pages[b]
                     IN  /\ d.next # None => heap.pages[d.next].prev = b
                         /\ (d.prev = None) <=> (heap.warm[c] = b)
               /\ \A b \in Used \ list :
                     heap.pages[b].cls = c => heap.pages[b].prev = None /\ heap.pages[b].next = None

\* The heap implements the contract of Allocator.h.  The callers' blocks, known
\* by the pointers they were given, never overlap and change one at a time; and
\* the heap's books show exactly these blocks, so that whatever fails inside a
\* call, a remap above all, no block is lost that its owner still has, and none
\* is kept that nobody has.
Contract == INSTANCE AllocatorContract WITH live <- held
ImplementsContract == Contract!ContractSpec /\ [](held = Live)

\* A deallocate that returns frees the block whose base it was given and
\* nothing else; every other pointer aborts and is no step at all.
FreesItsBlock ==
    \A ptr \in Addresses, fail \in SUBSET {"free"} :
        Freeable(heap, ptr) =>
            \E b \in held :
                /\ b.addr = ptr
                /\ LiveIn(heap_allocator_deallocate(heap, ptr, fail)) = held \ {b}

UserPages == {heap.pages[b].page : b \in Used}
Parked == {heap.recycle[i] : i \in DOMAIN heap.recycle}
XLPages(s) == UNION {Region(s[i].page, s[i].n) : i \in DOMAIN s}
Apart(s) ==
    \A i, j \in DOMAIN s : i # j => Region(s[i].page, s[i].n) \cap Region(s[j].page, s[j].n) = {}

\* Every page the kernel gave is in exactly one place: a class page, the
\* recycle stack, a live XL region or a retained one.  Nothing leaks, whatever
\* fails, and nothing retained is in use.
EveryPageOwnedOnce ==
    /\ heap.mapped = UserPages \cup Parked \cup XLPages(heap.xlUse) \cup XLPages(heap.xlFreed)
    /\ UserPages \cap Parked = {}
    /\ (UserPages \cup Parked) \cap (XLPages(heap.xlUse) \cup XLPages(heap.xlFreed)) = {}
    /\ XLPages(heap.xlUse) \cap XLPages(heap.xlFreed) = {}
    /\ \A b, d \in Used : heap.pages[b].page = heap.pages[d].page => b = d
    /\ \A i, j \in DOMAIN heap.recycle : heap.recycle[i] = heap.recycle[j] => i = j
    /\ Apart(heap.xlUse) /\ Apart(heap.xlFreed)

\* The counters the shrink policy and the statistics read are exact: the
\* footprint is what the kernel holds for us, the retention is what is parked,
\* and bytes_in_use is what the callers' blocks, which never overlap, reserve.
CountersExact ==
    /\ heap.footprint = Cardinality(heap.mapped) + TablePages(Cap(heap))
                          + CeilDiv(heap.recycleCap, PtrsPerPage)
                          + CeilDiv(heap.xlUseCap, XLPerPage) + CeilDiv(heap.xlFreedCap, XLPerPage)
    /\ heap.retention = Cardinality(Parked \cup XLPages(heap.xlFreed))
    /\ heap.inUse = Cardinality(UNION {b.addr..b.addr + b.len - 1 : b \in held})

\* A block that resize says can stay in place is large enough for the request.
ResizeFits ==
    \A b \in held, n \in Sizes : ResizeOK(heap, b.addr, n) => n <= b.len
=============================================================================
