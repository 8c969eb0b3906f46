------------------------- MODULE AllocatorContract -------------------------
(***************************************************************************)
(* What <Misra/Std/Allocator.h> promises of every allocator, whatever      *)
(* memory it manages: the caller's blocks never overlap, an allocation     *)
(* adds one block, a free removes one, a remap replaces one, and a call    *)
(* that fails leaves every block as it was.                                *)
(***************************************************************************)
EXTENDS Naturals

VARIABLE live  \* the blocks the caller holds: [addr |-> Nat, len |-> Nat]

Disjoint(a, b) == a.addr + a.len <= b.addr \/ b.addr + b.len <= a.addr
Fits(b, S) == b.len > 0 /\ \A x \in S : Disjoint(b, x)

ContractInit == live = {}

Alloc ==
    \E b \in live' \ live : live' = live \cup {b} /\ Fits(b, live)

Free == \E b \in live : live' = live \ {b}

\* A remap may move the block, or extend or cut it where it stands.
Remap ==
    \E b \in live, d \in live' \ live :
        /\ live' = (live \ {b}) \cup {d}
        /\ Fits(d, live \ {b})

\* Deinit (or an arena's reset) takes every block back.
FreeAll == live' = {}

ContractNext == Alloc \/ Free \/ Remap \/ FreeAll

ContractSpec == ContractInit /\ [][ContractNext]_live
=============================================================================
