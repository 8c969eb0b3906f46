------------------------------- MODULE Budget -------------------------------
(***************************************************************************)
(* The budget allocator (Std/Allocator/Budget.c, Budget.h): a pool of      *)
(* equal slots carved out of the caller's buffer behind a bitmap with one  *)
(* bit for each, served lowest first and never grown.                      *)
(***************************************************************************)
EXTENDS Integers, FiniteSets

CONSTANTS
    Buffers,    \* [addr, bytes, slot_size, alignment]: what Init is given
    Sizes,      \* the sizes callers ask for
    WordBytes,  \* sizeof(u64), 8 in the code
    WordBits    \* the bits of a bitmap word, 64 in the code

\* Init asserts a slot size and an alignment of at least a pointer.
BufferType ==
    {b \in [addr : Nat, bytes : Nat, slot_size : Nat, alignment : Nat] :
       b.slot_size > 0 /\ b.alignment >= WordBytes}

ASSUME BudgetAssumption ==
    /\ Buffers \subseteq BufferType /\ Sizes \subseteq Nat
    /\ WordBytes \in Nat \ {0} /\ WordBits \in Nat /\ WordBits >= 4

VARIABLES
    pool,    \* the layout: [slots, slot_size, slot_count, bitmap, bitmap_words, end]
    bitmap,  \* the bits that are set
    stats,   \* base.stats: [bytes_in_use, peak_bytes_in_use]
    live,    \* what the callers hold: [addr, len]
    fatal    \* a LOG_FATAL has ended the program

vars == <<pool, bitmap, stats, live, fatal>>

------------------------------------------------------------------------------
\* BudgetAllocatorInitAligned.

ALIGN_UP(x, a) == ((x + a - 1) \div a) * a
CEIL_DIV(x, d) == (x + d - 1) \div d

\* The bytes of the buffer from its first u64 boundary on.
Avail(b) == b.bytes - (ALIGN_UP(b.addr, WordBytes) - b.addr)
SlotBytes(b) == ALIGN_UP(b.slot_size, b.alignment)

\* Mutant: the assertion forgets the bitmap.
BigEnoughForSlot(b) == Avail(b) >= SlotBytes(b) + b.alignment - 1

\* Mutant: no assertion at all.
BigEnoughAny(b) == Avail(b) > 0

\* Init's assertion; it aborts on a buffer that fails it.
BigEnough(b) == Avail(b) >= WordBytes + SlotBytes(b) + b.alignment - 1

\* The bitmap's start and words, and the slots behind it.
Base(b) == ALIGN_UP(b.addr, WordBytes)
Words(b) == CEIL_DIV(Avail(b) \div SlotBytes(b), WordBits)
Slots(b) == ALIGN_UP(Base(b) + Words(b) * WordBytes, b.alignment)

BudgetAllocatorInit(b) ==
    [bitmap |-> Base(b), bitmap_words |-> Words(b), slots |-> Slots(b),
     slot_size |-> SlotBytes(b),
     slot_count |-> ((b.addr + b.bytes) - Slots(b)) \div SlotBytes(b),
     alignment |-> b.alignment, end |-> b.addr + b.bytes]

Pools == {BudgetAllocatorInit(b) : b \in {x \in Buffers : BigEnough(x)}}
NoStats == [bytes_in_use |-> 0, peak_bytes_in_use |-> 0]

Init == pool \in Pools /\ bitmap = {} /\ stats = NoStats /\ live = {} /\ fatal = FALSE

------------------------------------------------------------------------------
\* The calls.

Bits == 0..(pool.bitmap_words * WordBits - 1)
SlotAddr(i) == pool.slots + i * pool.slot_size

\* Mutant: ctz of the bitmap instead of its complement.
FirstSet(i) == i \in Bits /\ i \in bitmap \cup {0} /\ (0..(i - 1)) \cap bitmap = {}

\* budget_first_free_bit: the lowest clear bit, unless it is past the slots.
FirstFree(i) == i \in Bits \ bitmap /\ (0..(i - 1)) \subseteq bitmap /\ i < pool.slot_count

Raised(in_use) ==
    [bytes_in_use |-> in_use,
     peak_bytes_in_use |-> IF in_use > stats.peak_bytes_in_use THEN in_use
                           ELSE stats.peak_bytes_in_use]

\* It returns NULL, and changes nothing, when no slot fits or none is free.
budget_allocator_allocate(n) ==
    \E i \in Bits :
        /\ n \in 1..pool.slot_size /\ FirstFree(i)
        /\ bitmap' = bitmap \cup {i}
        /\ live' = live \cup {[addr |-> SlotAddr(i), len |-> n]}
        /\ stats' = Raised(stats.bytes_in_use + pool.slot_size)
        /\ UNCHANGED <<pool, fatal>>

IndexOf(ptr) == (ptr - pool.slots) \div pool.slot_size

\* Mutant: a pointer into the middle of a slot is taken for the slot.
OwnedInside(ptr) ==
    /\ ptr >= pool.slots /\ ptr < pool.slots + pool.slot_count * pool.slot_size
    /\ IndexOf(ptr) \in bitmap

\* Is ptr the address of a slot that is in use? If not, the call is fatal.
Owned(ptr) ==
    /\ ptr >= pool.slots /\ ptr < pool.slots + pool.slot_count * pool.slot_size
    /\ (ptr - pool.slots) % pool.slot_size = 0
    /\ IndexOf(ptr) \in bitmap

\* Mutant: the slot goes, its bytes stay accounted.
LoweredNot(in_use) == stats

Lowered(in_use) ==
    [stats EXCEPT !.bytes_in_use = IF pool.slot_size <= in_use THEN in_use - pool.slot_size ELSE 0]

budget_allocator_deallocate(ptr) ==
    IF Owned(ptr)
      THEN /\ bitmap' = bitmap \ {IndexOf(ptr)}
           /\ live' = {b \in live : b.addr # ptr}
           /\ stats' = Lowered(stats.bytes_in_use)
           /\ UNCHANGED <<pool, fatal>>
      ELSE fatal' = TRUE /\ UNCHANGED <<pool, bitmap, stats, live>>

\* In place or not at all: a slot is what it is.
Refit(b, n) ==
    /\ n \in 1..pool.slot_size
    /\ live' = (live \ {b}) \cup {[b EXCEPT !.len = n]}
    /\ UNCHANGED <<pool, bitmap, stats, fatal>>

budget_allocator_resize(b, n) == Refit(b, n)
budget_allocator_remap(b, n) ==
    \/ n = 0 /\ budget_allocator_deallocate(b.addr)
    \/ Refit(b, n)

\* AllocatorResetStats keeps what is outstanding.
AllocatorResetStats ==
    /\ stats' = [stats EXCEPT !.peak_bytes_in_use = stats.bytes_in_use]
    /\ UNCHANGED <<pool, bitmap, live, fatal>>

\* BudgetAllocatorDeinit, and the Init that makes the handle usable again.
BudgetAllocatorDeinit ==
    /\ pool' \in Pools /\ bitmap' = {} /\ stats' = NoStats /\ live' = {}
    /\ UNCHANGED fatal

\* Callers free what they hold, but also what they do not.
Pointers == (pool.bitmap - 1)..(pool.end + 1)

Next ==
    /\ ~fatal
    /\ \/ \E n \in Sizes : budget_allocator_allocate(n)
       \/ \E ptr \in Pointers : budget_allocator_deallocate(ptr)
       \/ \E b \in live, n \in Sizes :
            budget_allocator_resize(b, n) \/ budget_allocator_remap(b, n)
       \/ AllocatorResetStats
       \/ BudgetAllocatorDeinit

Spec == Init /\ [][Next]_vars

------------------------------------------------------------------------------
\* Properties.

\* The layout keeps its types; bits, blocks and counters keep theirs.
BudgetTypeOK ==
    /\ pool \in [bitmap : Nat, bitmap_words : Nat, slots : Nat, slot_size : Nat,
                 slot_count : Nat, alignment : Nat, end : Nat]
    /\ bitmap \subseteq Bits
    /\ live \subseteq [addr : Nat, len : Nat]
    /\ stats \in [bytes_in_use : Nat, peak_bytes_in_use : Nat]
    /\ fatal \in BOOLEAN

\* The sizes Init works out of the buffer: there is a slot, every slot has a
\* bit, the bitmap ends before the slots and they end within the buffer,
\* and every slot is aligned (what budget_validate_self_structural checks).
PoolInsideBuffer ==
    /\ pool.slot_count > 0 /\ pool.bitmap_words * WordBits >= pool.slot_count
    /\ pool.bitmap % WordBytes = 0 /\ pool.bitmap + pool.bitmap_words * WordBytes <= pool.slots
    /\ pool.slots + pool.slot_count * pool.slot_size <= pool.end
    /\ pool.slots % pool.alignment = 0 /\ pool.slot_size % pool.alignment = 0

\* A bit is set exactly when a caller holds the block in its slot, so a free
\* of anything else - a pointer outside, inside a slot, or freed before -
\* takes nobody's block.
BitsAreBlocks ==
    /\ \A b \in live : \E i \in bitmap : b.addr = SlotAddr(i) /\ b.len \in 1..pool.slot_size
    /\ \A i \in bitmap : i < pool.slot_count /\ \E b \in live : b.addr = SlotAddr(i)
    /\ \A a, b \in live : a.addr = b.addr => a = b

\* bytes_in_use is the slots in use, and the peak is at least that.
StatsExact ==
    /\ stats.bytes_in_use = Cardinality(bitmap) * pool.slot_size
    /\ stats.peak_bytes_in_use >= stats.bytes_in_use

\* The pool implements the allocator contract.
Contract == INSTANCE AllocatorContract
ImplementsContract == Contract!ContractSpec
=============================================================================
