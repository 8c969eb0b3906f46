------------------------------ MODULE Multimap ------------------------------
(***************************************************************************)
(* What <Misra/Std/Container/Map.h> promises: a bag of key/value pairs.    *)
(* Every call either does what its name says or, when memory or a copy     *)
(* callback fails, says so and leaves the bag as it was.                   *)
(***************************************************************************)
EXTENDS Naturals, FiniteSets

CONSTANTS Keys, Values

VARIABLES
    bag,  \* how many entries hold each pair
    ret   \* the last call, and the status (0, 1) or the count it returned

Pairs == Keys \X Values
PairsOf(k) == {k} \X Values

Added(b, p) == [b EXCEPT ![p] = @ + 1]
Removed(b, p) == [b EXCEPT ![p] = @ - 1]
Without(b, P) == [p \in Pairs |-> IF p \in P THEN 0 ELSE b[p]]
CountIn(b, P) == Cardinality(UNION {{p} \X (1..b[p]) : p \in P})

Returned(call, n) == [call |-> call, n |-> n]

MultimapInit == bag = [p \in Pairs |-> 0] /\ ret = Returned("init", 1)

\* Only calls that allocate or copy may fail, and they change nothing then.
Fail ==
    /\ \E c \in {"insert", "set_only", "set_first", "rehash"} : ret' = Returned(c, 0)
    /\ UNCHANGED bag

Insert(p) == bag' = Added(bag, p) /\ ret' = Returned("insert", 1)

\* MapSetOnly: whatever the key held, it now holds this value alone.
SetOnly(p) ==
    /\ bag' = Added(Without(bag, PairsOf(p[1])), p)
    /\ ret' = Returned("set_only", 1)

\* MapSetFirst: one entry of the key changes its value.
SetFirst(p) ==
    /\ \E q \in PairsOf(p[1]) : bag[q] > 0 /\ bag' = Added(Removed(bag, q), p)
    /\ ret' = Returned("set_first", 1)

\* MapEnsurePtr: an entry of the key there is, or the default goes in.
Ensure(p) ==
    /\ ret' \in {Returned("ensure", 0), Returned("ensure", 1)}
    /\ IF CountIn(bag, PairsOf(p[1])) = 0 /\ ret'.n = 1
         THEN bag' = Added(bag, p)
         ELSE UNCHANGED bag
    /\ CountIn(bag, PairsOf(p[1])) > 0 => ret'.n = 1

\* MapRemoveFirst, MapRemovePair: one entry goes, and 0 means there is none.
RemoveOne(P) ==
    \/ \E q \in P : bag[q] > 0 /\ bag' = Removed(bag, q) /\ ret' = Returned("remove", 1)
    \/ CountIn(bag, P) = 0 /\ ret' = Returned("remove", 0) /\ UNCHANGED bag

\* MapRemoveAll, MapRemoveIf, MapRetainIf: every such entry goes, counted.
RemoveEach(P) ==
    bag' = Without(bag, P) /\ ret' = Returned("remove_each", CountIn(bag, P))

Rehash == ret' = Returned("rehash", 1) /\ UNCHANGED bag
Empty == ret' = Returned("empty", 1) /\ bag' = [p \in Pairs |-> 0]

MultimapNext ==
    \/ Fail \/ Rehash \/ Empty
    \/ \E p \in Pairs : Insert(p) \/ SetOnly(p) \/ SetFirst(p) \/ Ensure(p)
    \/ \E p \in Pairs : RemoveOne({p})
    \/ \E k \in Keys : RemoveOne(PairsOf(k))
    \/ \E P \in SUBSET Pairs : RemoveEach(P)

MultimapSpec == MultimapInit /\ [][MultimapNext]_<<bag, ret>>
=============================================================================
