--------------------------- MODULE DebugAllocator ---------------------------
(***************************************************************************)
(* The debug allocator (Std/Allocator/Debug.c): a live map and a history   *)
(* of frees kept beside a backing allocator, a canary behind every block,  *)
(* and, when backed by pages, blocks that are protected instead of freed.  *)
(*                                                                         *)
(* The backing (the embedded heap or page allocator) hands out any free    *)
(* place; `backing` is what it has handed out and not taken back, and for  *)
(* a page allocator that includes every protected block.                   *)
(***************************************************************************)
EXTENDS AllocatorBase

CONSTANT CanaryBytes  \* config.canary_bytes

DebugConfigs == [detect_overflow : BOOLEAN, force_page_backing : BOOLEAN, track_freed_history : BOOLEAN]

DebugInit(config) ==
    [config |-> config, live |-> {}, freed |-> {}, overflows |-> 0, smashed |-> {}, overruns |-> 0,
     backing |-> {}, protected |-> {},
     bytes_in_use |-> 0, in_use |-> 0, footprint |-> 0, dirty |-> {}]

Canary(s) == IF s.config.detect_overflow THEN CanaryBytes ELSE 0
Record(s, ptr) == CHOOSE r \in s.live : r.ptr = ptr
IsLive(s, ptr) == \E r \in s.live : r.ptr = ptr

\* Where the backing may put n bytes: page allocators give whole pages.
BackingPlaces(s, n) ==
    LET held == UNION {Region(b.addr \div PageSize, b.len) : b \in s.backing}
    IN  {p * PageSize : p \in Places(held, n)}

FromBacking(s, addr, n) ==
    [s EXCEPT !.backing = @ \cup {[addr |-> addr, len |-> n]}]
BackingBlock(s, addr) == {b \in s.backing : b.addr = addr}
ToBacking(s, addr) == [s EXCEPT !.backing = @ \ BackingBlock(s, addr)]

\* debug_write_canary and debug_check_canary: whether the trail of ptr is as
\* written; the callers' overruns are in `smashed`.
debug_check_canary(s, ptr) == ptr \notin s.smashed

\* debug_allocator_allocate: the backing may refuse, and the live map may fail
\* to take the record, in which case the block goes back.
debug_allocator_allocate(s, bytes, zeroed) ==
    LET padded == bytes + Canary(s)
        rec(p) == [ptr |-> p, requested |-> bytes, padded |-> padded]
        Recorded(t, p) ==
            Charge([t EXCEPT !.live = @ \cup {rec(p)},
                             !.bytes_in_use = @ + bytes], bytes)
        At(p) == LET t == FromBacking(s, p, padded)
                 IN  {Fails(ToBacking(t, p)), Gives(Recorded(t, p), p)}
    IN  IF bytes = 0 THEN {Fails(s)}
        ELSE {Fails(s)} \cup UNION {At(p) : p \in BackingPlaces(s, padded)}

\* A pointer that is not live: the history tells a double free; the backing
\* aborts on what it does not hold.  A protected page it does hold.
NotLive(s, ptr) ==
    IF ptr \in s.freed \/ BackingBlock(s, ptr) = {} THEN {Aborts(s)}
    ELSE {Fails(ToBacking(s, ptr))}

\* The history takes the pointer, unless its vector cannot grow.
Historied(s, ptr) ==
    IF s.config.track_freed_history THEN {s, [s EXCEPT !.freed = @ \cup {ptr}]} ELSE {s}

\* The canary is read once, on the way out.
OverflowCheck(s, ptr) ==
    LET t == [s EXCEPT !.smashed = @ \ {ptr}]
    IN  IF s.config.detect_overflow /\ ~debug_check_canary(s, ptr)
        THEN [t EXCEPT !.overflows = @ + 1] ELSE t

\* Protected with PROT_NONE and kept, or given back to the heap.
Retired(s, ptr) ==
    IF s.config.force_page_backing THEN [s EXCEPT !.protected = @ \cup {ptr}]
    ELSE ToBacking(s, ptr)

\* debug_allocator_deallocate.
debug_allocator_deallocate(s, ptr) ==
    LET r == Record(s, ptr)
        Drop(t) == Discharge([t EXCEPT !.live = @ \ {r}, !.bytes_in_use = @ - r.requested],
                             r.requested)
    IN  CASE ptr = NULL -> {Fails(s)}
          [] ptr # NULL /\ ~IsLive(s, ptr) -> NotLive(s, ptr)
          [] OTHER -> {Gives(Retired(Drop(t), ptr), r.requested) :
                         t \in Historied(OverflowCheck(s, ptr), ptr)}

debug_allocator_resize(s, ptr, n) == {Fails(s)}

debug_allocator_remap(s, ptr, n) ==
    LET Move(g) == {Gives(o.self, g.ptr) : o \in debug_allocator_deallocate(g.self, ptr)}
    IN  CASE n = 0 -> {[o EXCEPT !.ptr = NULL] : o \in debug_allocator_deallocate(s, ptr)}
          [] n # 0 /\ ptr = NULL -> debug_allocator_allocate(s, n, TRUE)
          [] n # 0 /\ ptr # NULL /\ ~IsLive(s, ptr) ->
               {[o EXCEPT !.ptr = NULL] : o \in debug_allocator_deallocate(s, ptr)}
          [] OTHER -> UNION {IF g.ptr = NULL THEN {g} ELSE Move(g) :
                               g \in debug_allocator_allocate(s, n, FALSE)}

\* The callers' own fault: a write past the end of a block; `overruns` counts
\* the blocks it happened to.
Overrun(s, ptr) == [s EXCEPT !.smashed = @ \cup {ptr}, !.overruns = @ + 1]

\* DebugAllocatorDeinit: the leaks it reports are the live records; the
\* embedded page allocator keeps its pages mapped, as traps.
DebugAllocatorDeinit(s) == [s EXCEPT !.live = {}, !.freed = {}, !.bytes_in_use = 0]

------------------------------------------------------------------------------
DebugRoom(s, ptr) == Record(s, ptr).requested

\* The live map is the callers' blocks, byte for byte; behind each one the
\* backing still has its block, and a heap has no other; the counters agree;
\* every overrun block is reported once, when it is freed; and a protected
\* page whose free is on record never comes back.
DebugInv(s, blocks) ==
    /\ {[addr |-> r.ptr, len |-> r.requested] : r \in s.live} = blocks
    /\ \A r \in s.live : [addr |-> r.ptr, len |-> r.padded] \in s.backing
    /\ ~s.config.force_page_backing => Cardinality(s.backing) = Cardinality(s.live)
    /\ s.bytes_in_use = Total([r \in s.live |-> r.requested])
    /\ s.in_use = s.bytes_in_use
    /\ s.config.detect_overflow => s.overflows = s.overruns - Cardinality(s.smashed)
    /\ \A r \in s.live : r.ptr \in s.protected => r.ptr \notin s.freed
=============================================================================
