---------------------------- MODULE MCAllocators ----------------------------
(***************************************************************************)
(* The allocators side by side, one of them in each behaviour.             *)
(*                                                                         *)
(* Budget: buffers at every offset from a word boundary and of every       *)
(* length from the smallest that Init accepts; words of four bits, so that *)
(* the bitmap takes one word, or two, or has bits no slot stands behind.   *)
(*                                                                         *)
(* The others: three pages of eight units.  Slabs of four slots (two       *)
(* bitmap words) and of one (a tail); page tables that grow at the second  *)
(* and third entry; arenas whose chunk takes one page, or two for a large  *)
(* block; debug allocators with every combination of the flags.            *)
(***************************************************************************)
EXTENDS Budget, Allocator

MCBuffers == [addr : {16, 17, 23}, bytes : 4..72, slot_size : {3, 9}, alignment : {8, 16}]

MCPages == 1..3
MCAllocatorsMade ==
    {[kind |-> "slab", self |-> SlabInit(n)] : n \in {2, 8}} \cup
    {[kind |-> "page", self |-> PageInit(a)] : a \in {1, 16}} \cup
    {[kind |-> "arena", self |-> ArenaInit(a)] : a \in {2, 4}} \cup
    {[kind |-> "debug", self |-> DebugInit(c)] :
       c \in DebugConfigs}
MCRequests == [slab |-> {1, 2, 3}, page |-> {1, 8, 9}, arena |-> {2, 5}, debug |-> {1, 8}]
MCHeld == [slab |-> 4, page |-> 3, arena |-> 2, debug |-> 2]
Once == [effort |-> "once", retry_limit |-> 0]
Twice == [effort |-> "retry", retry_limit |-> 0]
Never == [effort |-> "retry", retry_limit |-> 3]
MCEfforts ==
    [slab |-> {Once, Twice}, page |-> {Once, Twice, Never}, arena |-> {Once}, debug |-> {Twice}]

NoAllocator ==
    /\ kind = "budget" /\ self = [footprint |-> 0] /\ effort = Once
    /\ held = {} /\ call = Idle /\ ended = "misuse" /\ stale = FALSE
NoBudget ==
    /\ pool = CHOOSE p \in Pools : TRUE
    /\ bitmap = {} /\ stats = NoStats /\ live = {} /\ fatal = TRUE

MCInit == (Init /\ NoAllocator) \/ (DispatchInit /\ NoBudget)
MCNext ==
    \/ kind = "budget" /\ Next /\ UNCHANGED dispatch
    \/ kind # "budget" /\ DispatchNext /\ UNCHANGED vars
MCSpec == MCInit /\ [][MCNext]_<<vars, dispatch>>
=============================================================================
