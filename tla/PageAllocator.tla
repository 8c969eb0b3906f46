--------------------------- MODULE PageAllocator ---------------------------
(***************************************************************************)
(* The page allocator (Std/Allocator/Page.c): whole-page regions in a      *)
(* table sorted by address while the caller holds them, and in a second    *)
(* one sorted by size after a free, from which a request of exactly that   *)
(* size takes them back.                                                   *)
(***************************************************************************)
EXTENDS AllocatorBase

CONSTANT PageEntryBytes  \* sizeof(PageEntry)

\* A power of two (any other is taken for none): from a page on, whole pages.
PageAligns(a) == a \in Nat /\ (PageSize <= a => a % PageSize = 0)

PageInit(align) ==
    [align |-> align, entries |-> << >>, cap |-> 0, entries_bytes |-> 0,
     free |-> << >>, free_cap |-> 0, free_bytes |-> 0,
     in_use |-> 0, footprint |-> 0, dirty |-> {}]

Keys(t) == [i \in DOMAIN t |-> t[i].ptr]
SizesOf(t) == [i \in DOMAIN t |-> t[i].bytes]

\* page_effective_alignment and page_rounded_size.
page_effective_alignment(s) == IF s.align < PageSize THEN PageSize ELSE s.align
page_rounded_size(s, bytes) == RoundUp(bytes, page_effective_alignment(s))

\* page_table_grow_into: one page first, then the double.
GrownBytes(bytes) == IF bytes = 0 THEN PageSize ELSE os_page_round_up(2 * bytes)
GrowEntries(s) ==
    LET n == GrownBytes(s.entries_bytes)
    IN  {Fails(s), Gives([Unmapped(MappedTable(s, n), s.entries_bytes) EXCEPT
                            !.entries_bytes = n, !.cap = n \div PageEntryBytes], 1)}
GrowFree(s) ==
    LET n == GrownBytes(s.free_bytes)
    IN  {Fails(s), Gives([Unmapped(MappedTable(s, n), s.free_bytes) EXCEPT
                            !.free_bytes = n, !.free_cap = n \div PageEntryBytes], 1)}

\* page_table_insert_sorted into entries.
page_table_insert_sorted(s, ptr, bytes) ==
    LET Put(r) == [r EXCEPT !.entries =
                     Inserted(@, LowerBound(Keys(@), ptr), [ptr |-> ptr, bytes |-> bytes])]
        room == IF Len(s.entries) = s.cap THEN GrowEntries(s) ELSE {Gives(s, 1)}
    IN  {IF g.ptr = NULL THEN g ELSE Gives(Put(g.self), 1) : g \in room}

\* page_free_insert_sorted.
page_free_insert_sorted(s, ptr, bytes) ==
    LET Put(r) == [r EXCEPT !.free =
                     Inserted(@, LowerBound(SizesOf(@), bytes), [ptr |-> ptr, bytes |-> bytes])]
        room == IF Len(s.free) = s.free_cap THEN GrowFree(s) ELSE {Gives(s, 1)}
    IN  {IF g.ptr = NULL THEN g ELSE Gives(Put(g.self), 1) : g \in room}

page_free_find_size_match(s, bytes) == Found(SizesOf(s.free), bytes)

Taken(s) ==
    UNION {Region(t.ptr \div PageSize, t.bytes) :
             t \in {s.entries[i] : i \in DOMAIN s.entries} \cup {s.free[i] : i \in DOMAIN s.free}}

\* page_table_remove_sorted_at on the retained table.
Unretained(s, hit) == [s EXCEPT !.free = Removed(@, hit)]

\* The kernel path of page_allocator_allocate.
MapFresh(s, n) ==
    LET Register(p) ==
            {IF g.ptr = NULL THEN Fails(Unmapped(g.self, n))
             ELSE Gives(Charge(g.self, n), p * PageSize) :
               g \in page_table_insert_sorted(Mapped(s, p, n), p * PageSize, n)}
    IN  {Fails(s)} \cup UNION {Register(p) : p \in Places(Taken(s), n)}

\* Mutant: a retained region is handed out as it was left.
NotZeroed(s, ptr, n, zeroed) == s

Zeroed(s, ptr, n, zeroed) == IF zeroed THEN Zero(s, ptr, n) ELSE s

\* page_allocator_allocate: a retained region of the size first; a live table
\* that cannot grow for it sends the request to the kernel.
page_allocator_allocate(s, bytes, zeroed) ==
    LET n == page_rounded_size(s, bytes)
        hit == page_free_find_size_match(s, n)
        ptr == s.free[hit + 1].ptr
        Reuse(g) == Gives(Charge(Zeroed(Unretained(g.self, hit), ptr, n, zeroed), n), ptr)
    IN  CASE bytes = 0 -> {Fails(s)}
          [] bytes # 0 /\ hit = -1 -> MapFresh(s, n)
          [] OTHER -> UNION {IF g.ptr = NULL THEN MapFresh(g.self, n) ELSE {Reuse(g)} :
                               g \in page_table_insert_sorted(s, ptr, n)}

page_allocator_resize(s, ptr, n) ==
    LET i == Found(Keys(s.entries), ptr)
    IN  {Gives(s, IF i # -1 /\ s.entries[i + 1].bytes = page_rounded_size(s, n) THEN 1 ELSE 0)}

\* page_allocator_deallocate: retained, or unmapped when that table is full
\* and cannot grow.
page_allocator_deallocate(s, ptr) ==
    LET i == Found(Keys(s.entries), ptr)
        n == s.entries[i + 1].bytes
        Drop(r) == Gives(Discharge([r EXCEPT !.entries = Removed(@, i)], n), n)
    IN  CASE ptr = NULL -> {Fails(s)}
          [] ptr # NULL /\ i = -1 -> {Aborts(s)}
          [] OTHER -> {Drop(IF g.ptr = NULL THEN Unmapped(g.self, n) ELSE g.self) :
                         g \in page_free_insert_sorted(s, ptr, n)}

page_allocator_remap(s, ptr, n) ==
    LET i == Found(Keys(s.entries), ptr)
        Move(g) == {IF o.abort THEN o ELSE Gives(o.self, g.ptr) :
                      o \in page_allocator_deallocate(g.self, ptr)}
    IN  CASE n = 0 -> {[o EXCEPT !.ptr = NULL] : o \in page_allocator_deallocate(s, ptr)}
          [] n # 0 /\ ptr = NULL -> page_allocator_allocate(s, n, TRUE)
          [] n # 0 /\ ptr # NULL /\ i = -1 -> {Aborts(s)}
          [] OTHER ->
               IF s.entries[i + 1].bytes = page_rounded_size(s, n) THEN {Gives(s, ptr)}
               ELSE UNION {IF g.ptr = NULL THEN {g} ELSE Move(g) :
                             g \in page_allocator_allocate(s, n, TRUE)}

TotalBytes(t) == Total(SizesOf(t))

\* PageAllocatorDeinit: live and retained regions, then the two tables.
PageAllocatorDeinit(s) ==
    Unmapped(s, TotalBytes(s.entries) + TotalBytes(s.free) + s.entries_bytes + s.free_bytes)

------------------------------------------------------------------------------
PageRoom(s, ptr) == s.entries[Found(Keys(s.entries), ptr) + 1].bytes

\* Both tables answer their searches, no page is in two regions, the live
\* ones are the callers', and the counters agree with the tables.
PageInv(s, addrs) ==
    /\ \A i \in DOMAIN s.entries : Found(Keys(s.entries), s.entries[i].ptr) = i - 1
    /\ \A i \in DOMAIN s.free : page_free_find_size_match(s, s.free[i].bytes) # -1
    /\ PageSize * Cardinality(Taken(s)) = TotalBytes(s.entries) + TotalBytes(s.free)
    /\ {s.entries[i].ptr : i \in DOMAIN s.entries} = addrs
    /\ s.in_use = TotalBytes(s.entries)
    /\ s.footprint = TotalBytes(s.entries) + TotalBytes(s.free) + s.entries_bytes + s.free_bytes
    /\ Len(s.entries) * PageEntryBytes <= s.entries_bytes
    /\ Len(s.free) * PageEntryBytes <= s.free_bytes
=============================================================================
