----------------------------- MODULE Allocator -----------------------------
(***************************************************************************)
(* The dispatch of Std/Allocator.c over the typed allocators: a call tries *)
(* as often as the allocator's effort allows, each attempt one call of the *)
(* typed function, and the kernel may answer every attempt differently.    *)
(***************************************************************************)
EXTENDS Slab, PageAllocator, Arena, DebugAllocator

CONSTANTS
    Allocators,   \* [kind, self]: the allocators a caller may have made
    Requests,     \* for each kind, the sizes the callers ask for
    Efforts,      \* for each kind, the efforts it is made with, [effort, retry_limit]
    U32,          \* 2^32, the numbers a retry_limit holds
    MaxHeld,      \* bound, for each kind: the callers hold at most this many blocks
    MaxOverruns   \* bound: the callers write past the end of this many blocks

\* How the callers make them: slot sizes and alignments are powers of two, an
\* entry of a table fits a page, sizes and limits are unsigned.
ASSUME DispatchAssumption ==
    /\ SlabInitialCap \in Nat \ {0} /\ SlabWordBits \in Nat \ {0}
    /\ PageEntryBytes \in Nat \ {0} /\ PageEntryBytes <= PageSize
    /\ ChunkDefault \in Nat /\ ChunkHeader \in Nat /\ CanaryBytes \in Nat
    /\ \A a \in Allocators :
          \/ a.kind = "slab" /\ SlotFits(a.self.slot_size) /\ a.self = SlabInit(a.self.slot_size)
          \/ a.kind = "page" /\ PageAligns(a.self.align) /\ a.self = PageInit(a.self.align)
          \/ a.kind = "arena" /\ a.self.align \in Nat \ {0} /\ a.self = ArenaInit(a.self.align)
          \/ a.kind = "debug" /\ a.self.config \in DebugConfigs /\ a.self = DebugInit(a.self.config)
    /\ \A a \in Allocators : /\ Requests[a.kind] \subseteq Nat
                              /\ \A e \in Efforts[a.kind] : e.retry_limit \in 0..U32 - 1
    /\ U32 \in Nat \ {0}

VARIABLES
    kind,    \* which typed allocator, "slab", "page", "arena" or "debug"
    self,    \* its struct
    effort,  \* base.effort and base.retry_limit
    held,    \* the blocks of the callers, [addr, len]
    call,    \* the call under way, and the attempts it has left
    ended,   \* "open", "deinit", or an abort: "misuse" of a caller's, else "fatal"
    stale    \* the last zeroed block came with bytes of an earlier tenant

dispatch == <<kind, self, effort, held, call, ended, stale>>

Idle == [op |-> "none"]
HeldAddrs == {b.addr : b \in held}

DispatchInit ==
    /\ \E a \in Allocators : kind = a.kind /\ self = a.self
    /\ effort \in Efforts[kind]
    /\ held = {} /\ call = Idle /\ ended = "open" /\ stale = FALSE

\* The sum is a u32's: the largest limit leaves no attempt at all.
allocator_attempt_limit(e) ==
    CASE e.effort \in {"retry", "retry_fallback"} /\ e.retry_limit # 0 -> (e.retry_limit + 1) % U32
      [] e.effort \in {"retry", "retry_fallback"} /\ e.retry_limit = 0 -> 2
      [] OTHER -> 1

\* A call before its first attempt.  Without an attempt it returns NULL and has
\* done nothing: a remap to zero has freed nothing either.
Begun(c) == IF c.left = 0 THEN Idle ELSE c

\* The function table of each typed allocator.
allocate(n, z) ==
    CASE kind = "slab" -> slab_allocator_allocate(self, n, z)
      [] kind = "page" -> page_allocator_allocate(self, n, z)
      [] kind = "arena" -> arena_allocator_allocate(self, n, z)
      [] kind = "debug" -> debug_allocator_allocate(self, n, z)
resize(ptr, n) ==
    CASE kind = "slab" -> slab_allocator_resize(self, ptr, n)
      [] kind = "page" -> page_allocator_resize(self, ptr, n)
      [] kind = "arena" -> arena_allocator_resize(self, ptr, n)
      [] kind = "debug" -> debug_allocator_resize(self, ptr, n)
remap(ptr, n) ==
    CASE kind = "slab" -> slab_allocator_remap(self, ptr, n)
      [] kind = "page" -> page_allocator_remap(self, ptr, n)
      [] kind = "arena" -> arena_allocator_remap(self, ptr, n)
      [] kind = "debug" -> debug_allocator_remap(self, ptr, n)
deallocate(ptr) ==
    CASE kind = "slab" -> slab_allocator_deallocate(self, ptr)
      [] kind = "page" -> page_allocator_deallocate(self, ptr)
      [] kind = "arena" -> arena_allocator_deallocate(self, ptr)
      [] kind = "debug" -> debug_allocator_deallocate(self, ptr)

Open == ended = "open"
Ready == Open /\ call = Idle

AllocatorAlloc_dyn ==
    /\ Ready /\ Cardinality(held) < MaxHeld[kind]
    /\ \E n \in Requests[kind], z \in BOOLEAN :
          call' = Begun([op |-> "alloc", n |-> n, zeroed |-> z,
                         left |-> allocator_attempt_limit(effort)])
    /\ UNCHANGED <<kind, self, effort, held, ended, stale>>

AllocatorRemap_dyn ==
    /\ Ready
    /\ \E b \in held, n \in Requests[kind] \cup {0} :
          call' = Begun([op |-> "remap", block |-> b, n |-> n,
                         left |-> allocator_attempt_limit(effort)])
    /\ UNCHANGED <<kind, self, effort, held, ended, stale>>

\* The callers write what they are given, to the last byte.  (The bytes behind
\* a debug allocator's blocks are its backing's, which zeroes them.)
Written(s, addr, n) ==
    IF kind = "debug" THEN s ELSE [s EXCEPT !.dirty = @ \cup Bytes(addr, n)]

\* When the loop of AllocatorRemap_dyn breaks.
RemapBreaks(o, n) == o.ptr # NULL \/ n = 0

NextTry == IF call.left = 1 THEN Idle ELSE [call EXCEPT !.left = @ - 1]

AllocAttempt ==
    /\ Open /\ call.op = "alloc"
    /\ \E o \in allocate(call.n, call.zeroed) :
          IF o.ptr = NULL
          THEN self' = o.self /\ call' = NextTry /\ UNCHANGED <<held, stale>>
          ELSE /\ self' = Written(o.self, o.ptr, call.n)
               /\ stale' = (call.zeroed /\ Bytes(o.ptr, call.n) \cap o.self.dirty # {})
               /\ held' = held \cup {[addr |-> o.ptr, len |-> call.n]}
               /\ call' = Idle
    /\ UNCHANGED <<kind, effort, ended>>

\* A block that moved or changed its size; a remap to zero frees it.
RemapAttempt ==
    /\ Open /\ call.op = "remap"
    /\ \E o \in remap(call.block.addr, call.n) :
          IF o.abort
          THEN /\ ended' = IF kind = "arena" THEN "misuse" ELSE "fatal"
               /\ UNCHANGED <<self, held, call>>
          ELSE /\ UNCHANGED ended
               /\ self' = IF o.ptr = NULL THEN o.self ELSE Written(o.self, o.ptr, call.n)
               /\ held' = IF o.ptr = NULL
                          THEN IF call.n = 0 THEN held \ {call.block} ELSE held
                          ELSE (held \ {call.block}) \cup {[addr |-> o.ptr, len |-> call.n]}
               /\ call' = IF RemapBreaks(o, call.n) THEN Idle ELSE NextTry
    /\ UNCHANGED <<kind, effort, stale>>

\* AllocatorResize_dyn refuses a size of zero.
AllocatorResize_dyn ==
    /\ Ready
    /\ \E b \in held, n \in Requests[kind] \ {0} : \E o \in resize(b.addr, n) :
          IF o.ptr = NULL THEN UNCHANGED <<self, held>>
          ELSE /\ self' = Written(o.self, b.addr, n)
               /\ held' = (held \ {b}) \cup {[addr |-> b.addr, len |-> n]}
    /\ UNCHANGED <<kind, effort, call, ended, stale>>

AllocatorFree_dyn ==
    /\ Ready
    /\ \E b \in held : \E o \in deallocate(b.addr) :
          IF o.abort THEN ended' = "fatal" /\ UNCHANGED <<self, held>>
          ELSE self' = o.self /\ held' = held \ {b} /\ UNCHANGED ended
    /\ UNCHANGED <<kind, effort, call, stale>>

\* A pointer the callers do not hold: one freed before, or inside a block.
FreeStale ==
    /\ Ready
    /\ \E page \in Pages, d \in 0..ChunkHeader :
          LET ptr == page * PageSize + d
          IN  /\ ptr \notin HeldAddrs
              /\ \E o \in deallocate(ptr) :
                    /\ self' = o.self
                    /\ ended' = IF o.abort THEN "misuse" ELSE ended
    /\ UNCHANGED <<kind, effort, held, call, stale>>

CallerOverruns ==
    /\ Ready /\ kind = "debug"
    /\ self.overruns < MaxOverruns
    /\ \E b \in held : b.addr \notin self.smashed /\ self' = Overrun(self, b.addr)
    /\ UNCHANGED <<kind, effort, held, call, ended, stale>>

ArenaReset ==
    /\ Ready /\ kind = "arena"
    /\ self' = ArenaAllocatorReset(self) /\ held' = {}
    /\ UNCHANGED <<kind, effort, call, ended, stale>>

\* The typed Deinit macros.
Deinit ==
    /\ Ready
    /\ self' = CASE kind = "slab" -> SlabAllocatorDeinit(self)
                 [] kind = "page" -> PageAllocatorDeinit(self)
                 [] kind = "arena" -> ArenaAllocatorDeinit(self)
                 [] kind = "debug" -> DebugAllocatorDeinit(self)
    /\ held' = {} /\ ended' = "deinit"
    /\ UNCHANGED <<kind, effort, call, stale>>

DispatchNext ==
    \/ AllocatorAlloc_dyn \/ AllocatorRemap_dyn \/ AllocAttempt \/ RemapAttempt
    \/ AllocatorResize_dyn \/ AllocatorFree_dyn \/ FreeStale \/ CallerOverruns
    \/ ArenaReset \/ Deinit

DispatchSpec == DispatchInit /\ [][DispatchNext]_dispatch

------------------------------------------------------------------------------
Room(ptr) ==
    CASE kind = "slab" -> SlabRoom(self, ptr)
      [] kind = "page" -> PageRoom(self, ptr)
      [] kind = "arena" -> ArenaRoom(self, ptr)
      [] kind = "debug" -> DebugRoom(self, ptr)

\* Every typed allocator's own books are right after every call, whatever the
\* kernel refused in the middle of it: its blocks are the callers', with the
\* room they were told of, no call on one of them aborts, and what Deinit gives
\* back is all that it had mapped.
AllocatorBooksExact ==
    /\ Open => /\ CASE kind = "slab" -> SlabInv(self, HeldAddrs)
                   [] kind = "page" -> PageInv(self, HeldAddrs)
                   [] kind = "arena" -> ArenaInv(self, held)
                   [] kind = "debug" -> DebugInv(self, held)
               /\ \A b \in held : b.len <= Room(b.addr)
    /\ ended # "fatal"
    /\ ended = "deinit" => self.footprint = 0

\* A block asked for zeroed holds nothing an earlier tenant wrote, on every
\* path that can hand it out: a free slot, a retained region, a bump after a
\* reset, a fresh mapping.
ZeroedMeansZero == ~stale

\* The typed allocators keep the contract of Allocator.h; a call retried after
\* a failed attempt has its effect once.
Dispatched == INSTANCE AllocatorContract WITH live <- held
AllocatorsImplementContract == Dispatched!ContractSpec
=============================================================================
