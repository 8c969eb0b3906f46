------------------------------- MODULE Arena -------------------------------
(***************************************************************************)
(* The arena allocator (Std/Allocator/Arena.c): chunks that are filled     *)
(* from the front, never more than the last of them; only the most recent  *)
(* block can be resized or taken back.  bytes_in_use is left out: nothing  *)
(* bounds it, because a block freed out of order, and every block at a     *)
(* reset, stays counted.                                                   *)
(***************************************************************************)
EXTENDS AllocatorBase

CONSTANTS
    ChunkDefault,  \* ARENA_DEFAULT_CHUNK_SIZE
    ChunkHeader    \* sizeof(ArenaChunk)

ArenaInit(align) ==
    [align |-> align, chunks |-> << >>, last_ptr |-> NULL, last_size |-> 0,
     footprint |-> 0, dirty |-> {}]

Tail1(s) == Len(s.chunks)
ChunkPages(s) ==
    UNION {Region(s.chunks[i].page, s.chunks[i].raw_size) : i \in DOMAIN s.chunks}

arena_owns_pointer(s, ptr) ==
    \E i \in DOMAIN s.chunks : ptr \in Bytes(s.chunks[i].base, s.chunks[i].capacity)

arena_chunk_size_for(need) == os_page_round_up(IF need > ChunkDefault THEN need ELSE ChunkDefault)

\* arena_new_chunk.
arena_new_chunk(s, need) ==
    LET raw == arena_chunk_size_for(need + ChunkHeader)
        Chunk(p) == [page |-> p, base |-> p * PageSize + ChunkHeader,
                     capacity |-> raw - ChunkHeader, used |-> 0, raw_size |-> raw]
    IN  {Fails(s)} \cup
        {Gives([Mapped(s, p, raw) EXCEPT !.chunks = Append(@, Chunk(p))], 1) :
           p \in Places(ChunkPages(s), raw)}

\* The offset of the next aligned address of chunk c.
AlignedUsed(s, c) == RoundUp(c.base + c.used, s.align) - c.base

\* The block at the end of the last chunk.
Bump(s, padded) ==
    LET k == Tail1(s)
        off == AlignedUsed(s, s.chunks[k])
    IN  [s EXCEPT !.chunks[k].used = off + padded, !.last_size = padded,
                  !.last_ptr = s.chunks[k].base + off]

\* arena_allocator_allocate.
arena_allocator_allocate(s, bytes, zeroed) ==
    LET padded == RoundUp(bytes, s.align)
        k == Tail1(s)
        fits == k # 0 /\ AlignedUsed(s, s.chunks[k]) + padded <= s.chunks[k].capacity
        t == Bump(s, padded)
    IN  CASE bytes = 0 -> {Fails(s)}
          [] bytes # 0 /\ fits ->
               {Gives(IF zeroed THEN Zero(t, t.last_ptr, padded) ELSE t, t.last_ptr)}
          [] OTHER -> {IF g.ptr = NULL THEN g
                       ELSE LET u == Bump(g.self, padded) IN Gives(u, u.last_ptr) :
                         g \in arena_new_chunk(s, padded + s.align)}

\* Mutant: any block of the last chunk is resized where it stands.
InTail(s, ptr) ==
    Tail1(s) # 0 /\ ptr \in Bytes(s.chunks[Tail1(s)].base, s.chunks[Tail1(s)].capacity)

IsLast(s, ptr) == s.last_ptr = ptr /\ Tail1(s) # 0

arena_allocator_resize(s, ptr, n) ==
    LET k == Tail1(s)
        padded == RoundUp(n, s.align)
        off == ptr - s.chunks[k].base
    IN  IF ~IsLast(s, ptr) \/ off + padded > s.chunks[k].capacity THEN {Fails(s)}
        ELSE {Gives([s EXCEPT !.chunks[k].used = off + padded, !.last_size = padded], 1)}

\* arena_allocator_remap: in place, or a fresh block for the most recent one;
\* any other block aborts.
arena_allocator_remap(s, ptr, n) ==
    LET r == CHOOSE o \in arena_allocator_resize(s, ptr, n) : TRUE
    IN  CASE n = 0 -> {Fails(s)}
          [] n # 0 /\ ptr = NULL -> arena_allocator_allocate(s, n, TRUE)
          [] n # 0 /\ ptr # NULL /\ r.ptr = 1 -> {[r EXCEPT !.ptr = ptr]}
          [] OTHER ->
               IF s.last_ptr # ptr THEN {Aborts(s)}
               ELSE arena_allocator_allocate(s, n, TRUE)

\* arena_allocator_deallocate: only the most recent block is taken back.
arena_allocator_deallocate(s, ptr) ==
    LET k == Tail1(s)
        Back(u) == IF u >= s.last_size THEN u - s.last_size ELSE u
        t == [s EXCEPT !.chunks[k].used = Back(@), !.last_ptr = NULL, !.last_size = 0]
    IN  CASE ptr = NULL -> {Fails(s)}
          [] ptr # NULL /\ IsLast(s, ptr) -> {Gives(t, s.last_size)}
          [] OTHER -> IF arena_owns_pointer(s, ptr) THEN {Fails(s)} ELSE {Aborts(s)}

ArenaAllocatorReset(s) ==
    [s EXCEPT !.chunks = [i \in DOMAIN @ |-> [@[i] EXCEPT !.used = 0]],
              !.last_ptr = NULL, !.last_size = 0]

RawSizes(s) == [i \in DOMAIN s.chunks |-> s.chunks[i].raw_size]

ArenaAllocatorDeinit(s) == Unmapped(s, Total(RawSizes(s)))

------------------------------------------------------------------------------
\* Only the most recent block has a size on record; an older one has the room
\* up to the next block, which the contract's disjointness watches.
ArenaRoom(s, ptr) == IF ptr = s.last_ptr THEN s.last_size ELSE PageSize * Cardinality(Pages)

\* A chunk is never filled past its end, every block the callers hold lies
\* below the fill of its chunk and on the alignment, the most recent one ends
\* exactly there, and the footprint is the chunks.
ArenaInv(s, blocks) ==
    /\ \A i \in DOMAIN s.chunks : s.chunks[i].used <= s.chunks[i].capacity
    /\ \A b \in blocks :
          /\ b.addr % s.align = 0
          /\ \E i \in DOMAIN s.chunks :
                Bytes(b.addr, b.len) \subseteq Bytes(s.chunks[i].base, s.chunks[i].used)
    /\ (s.last_ptr = NULL) <=> (s.last_size = 0)
    /\ s.last_ptr # NULL =>
          LET c == s.chunks[Tail1(s)] IN s.last_ptr + s.last_size = c.base + c.used
    /\ s.footprint = Total(RawSizes(s))
    /\ PageSize * Cardinality(ChunkPages(s)) = s.footprint
=============================================================================
