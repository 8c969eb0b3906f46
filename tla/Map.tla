-------------------------------- MODULE Map --------------------------------
(***************************************************************************)
(* Map(K, V), the open-addressing multimap of Std/Container/Map.c: a probe *)
(* table with tombstones, whose policy says where to probe and how far,    *)
(* and which is rebuilt when it is loaded or when a probe runs out.        *)
(***************************************************************************)
EXTENDS Naturals, FiniteSetsExt

CONSTANTS
    Keys, Values,
    Hash,            \* key_hash: a number for every key
    Policies,        \* [next |-> "linear" or "quadratic", max_probe_count |-> n]
    Predicates,      \* what MapRemoveIf and MapRetainIf may be asked: sets of pairs
    MinCapacity,     \* default_next_capacity's first table, 8 in the code
    MaxCapacity,     \* the largest table the allocator can serve
    MaxLength,       \* the callers' bound on the entries they insert
    Requests,        \* the sizes callers reserve or rehash for
    MaxAttempts,     \* how often an insertion may grow the table, 32 in the code
    WordBits,        \* the width of a counter, 64 in the code
    ClearsTombs,     \* callers clear maps that hold tombstones
    RetryFails       \* a rehash may run out of memory after it has retried

Power[i \in 0..WordBits] == IF i = 0 THEN 1 ELSE 2 * Power[i - 1]

\* The counters wrap there.
WordSize == Power[WordBits]

\* The sizes a table can have.
Tables == {c \in {Power[i] : i \in 0..(WordBits - 1)} : MinCapacity <= c}

ASSUME MapAssumption ==
    /\ Hash \in [Keys -> Nat] /\ Predicates \subseteq SUBSET (Keys \X Values)
    /\ Policies \subseteq [next : {"linear", "quadratic"}, max_probe_count : Nat \ {0}]
    /\ WordBits \in Nat \ {0} /\ {MinCapacity, MaxCapacity} \subseteq Tables
    /\ MaxLength \in Nat \ {0} /\ Requests \subseteq Nat
    /\ {ClearsTombs, RetryFails} \subseteq BOOLEAN

\* No size that is asked for comes near the width of a word, and memory runs
\* out before the attempts of an insertion do.
ASSUME BoundsAssumption ==
    /\ \A n \in Requests \cup {MaxCapacity + 1} : 4 * n < WordSize
    /\ MaxAttempts \in 0..WordBits /\ MaxCapacity < MinCapacity * Power[MaxAttempts]

VARIABLES
    map,  \* the GenericMap: [slots, length, tombstones, policy]
    ret   \* the last call and what it returned

vars == <<map, ret>>

Pairs == Keys \X Values
EMPTY == [key |-> "EMPTY"]
TOMB == [key |-> "TOMBSTONE"]
Entry(p) == [key |-> p[1], value |-> p[2]]
Entries == {Entry(p) : p \in Pairs}

\* A table without storage: capacity 0.
NoSlots == [i \in {} |-> EMPTY]
Fresh(c) == [i \in 0..(c - 1) |-> EMPTY]
Capacity(m) == Cardinality(DOMAIN m.slots)
Occupied(m) == {i \in DOMAIN m.slots : m.slots[i] \notin {EMPTY, TOMB}}
Holding(m, P) == {i \in Occupied(m) : <<m.slots[i].key, m.slots[i].value>> \in P}
SlotsOf(m, k) == Holding(m, {k} \X Values)

------------------------------------------------------------------------------
\* The default policy callbacks.

Larger(a, b) == IF a > b THEN a ELSE b

\* Mutant: deleted slots do not count as load.
ShouldRehashLive(m, pending) ==
    /\ m.length + pending # 0
    /\ Capacity(m) = 0 \/ (m.length + pending) * 4 >= Capacity(m) * 3

default_should_rehash(m, pending) ==
    /\ m.length + pending # 0
    /\ Capacity(m) = 0 \/ ((m.length + m.tombstones + pending) * 4) % WordSize >= Capacity(m) * 3

default_next_capacity(m, n) ==
    LET needed == Larger(n, m.length)
    IN  IF needed = 0 THEN 0
        ELSE Min({c \in Tables : (c * 3) \div 4 >= needed})

\* Where probe number p of hash h looks in a table of capacity c.
ProbeIndex(policy, h, p, c) ==
    IF policy.next = "linear" THEN (h + p) % c ELSE (h + (p * (p + 1)) \div 2) % c

------------------------------------------------------------------------------
\* map_scan_slots.

Probes(m) == IF Capacity(m) = 0 THEN {} ELSE 0..(m.policy.max_probe_count - 1)
At(m, k, p) == ProbeIndex(m.policy, Hash[k], p, Capacity(m))
SlotAt(m, k, p) == m.slots[At(m, k, p)]

\* A scan looks as far as its first empty slot, or as its budget.
Scanned(m, k) ==
    LET gaps == {p \in Probes(m) : SlotAt(m, k, p) = EMPTY}
    IN  {p \in Probes(m) : \A q \in gaps : p < q}
FirstOf(m, k, P) == IF P = {} THEN Capacity(m) ELSE At(m, k, Min(P))

map_find_index(m, k) ==
    FirstOf(m, k, {p \in Scanned(m, k) : SlotAt(m, k, p) # TOMB /\ SlotAt(m, k, p).key = k})

\* The slot a new entry takes: the first tombstone of the scan, or else the
\* empty slot that ended it; the capacity when the budget ran out.
InsertIndex(m, k) ==
    LET tombs == {p \in Scanned(m, k) : SlotAt(m, k, p) = TOMB}
    IN  FirstOf(m, k, IF tombs # {} THEN tombs ELSE Probes(m) \ Scanned(m, k))

map_find_next_index(m, k, previous) ==
    FirstOf(m, k, {p \in Scanned(m, k) :
                     /\ SlotAt(m, k, p) # TOMB /\ SlotAt(m, k, p).key = k
                     /\ At(m, k, p) # previous
                     /\ \E q \in 0..p : At(m, k, q) = previous})

\* The slots a cursor visits: MapFindFirst, then MapFindNext until it ends.
\* It cannot visit more than a slot a step, so it is cut at capacity + 1.
Walk(m, k) ==
    LET at[i \in 0..(Capacity(m) + 1)] ==
            IF i = 0 THEN map_find_index(m, k)
            ELSE LET prev == at[i - 1]
                 IN  IF prev = Capacity(m) THEN prev ELSE map_find_next_index(m, k, prev)
    IN  at

map_value_count(m, k) ==
    LET at == Walk(m, k)
    IN  Cardinality({i \in DOMAIN at : at[i] < Capacity(m)})

------------------------------------------------------------------------------
\* Slots filled and emptied.

\* Mutant: a reused tombstone is still counted.
FillUncounted(m, i, e) == [m EXCEPT !.slots[i] = e, !.length = @ + 1]

Fill(m, i, e) ==
    [m EXCEPT !.slots[i] = e, !.length = @ + 1,
              !.tombstones = IF m.slots[i] = TOMB THEN (@ + WordSize - 1) % WordSize ELSE @]

\* Mutant: the slot is emptied, which cuts the probes that pass over it.
RemoveToEmpty(m, i) == [m EXCEPT !.slots[i] = EMPTY, !.length = @ - 1]

map_remove_at_index(m, i) ==
    [m EXCEPT !.slots[i] = TOMB, !.length = @ - 1, !.tombstones = (@ + 1) % WordSize]

\* [map |-> the table, ok |-> whether the entry found a slot]
map_insert_raw_entry(m, e) ==
    LET i == InsertIndex(m, e.key)
    IN  IF i >= Capacity(m) THEN [map |-> m, ok |-> FALSE]
                            ELSE [map |-> Fill(m, i, e), ok |-> TRUE]

RemoveSlots(m, S) ==
    [m EXCEPT !.slots = [i \in DOMAIN @ |-> IF i \in S THEN TOMB ELSE @[i]],
              !.length = @ - Cardinality(S),
              !.tombstones = (@ + Cardinality(S)) % WordSize]

clear_map(m) ==
    [m EXCEPT !.slots = [i \in DOMAIN @ |-> IF i \in Occupied(m) THEN EMPTY ELSE @[i]],
              !.length = 0, !.tombstones = 0]

\* The removal walks on from the slot it has just made a tombstone.
map_remove_all(m, k) ==
    LET step[i \in 0..Capacity(m)] ==
            IF i = 0 THEN [map |-> m, at |-> map_find_index(m, k)]
            ELSE LET s == step[i - 1]
                     without == map_remove_at_index(s.map, s.at)
                 IN  IF s.at >= Capacity(m) THEN s
                     ELSE [map |-> without, at |-> map_find_next_index(without, k, s.at)]
    IN  step[Capacity(m)].map

------------------------------------------------------------------------------
\* rehash_map.

\* The old entries, in slot order, into a fresh table of capacity c.
Refill(m, c, policy) ==
    LET start == [slots |-> Fresh(c), length |-> 0, tombstones |-> 0, policy |-> policy]
        to[i \in 0..Capacity(m)] ==
            IF i = 0 THEN [map |-> start, ok |-> TRUE]
            ELSE LET prev == to[i - 1]
                 IN  IF prev.ok /\ i - 1 \in Occupied(m)
                       THEN map_insert_raw_entry(prev.map, m.slots[i - 1])
                       ELSE prev
    IN  to[Capacity(m)]

Kept(ok, retried, m) == [ok |-> ok, retried |-> retried, map |-> m]

\* The tables are tried in order of size until one takes every entry (those
\* of the set fit do). When none is left to try, the old storage comes back
\* and nothing else does.
Rebuilt(m, policy, tables, fit) ==
    CASE fit # {} -> Kept(TRUE, FALSE, Refill(m, Min(fit), policy).map)
      [] tables = {} -> Kept(FALSE, FALSE, m)
      [] OTHER -> Kept(FALSE, TRUE, [Refill(m, Max(tables), policy).map EXCEPT !.slots = m.slots])

BuildFrom(m, policy, tables) ==
    Rebuilt(m, policy, tables, {c \in tables : Refill(m, c, policy).ok})

\* Capacities double from the one the policy asks for, and an allocation of
\* noMem slots or more fails.
rehash_map(m, n, policy, noMem) ==
    IF m.length = 0 /\ n = 0
      THEN Kept(TRUE, FALSE, [slots |-> NoSlots, length |-> 0, tombstones |-> 0, policy |-> policy])
      ELSE BuildFrom(m, policy, {c \in Tables : default_next_capacity(m, n) <= c /\ c < noMem})

reserve_map(m, n, noMem) ==
    IF default_next_capacity(m, n) = Capacity(m) /\ ~default_should_rehash(m, 0)
      THEN Kept(TRUE, FALSE, m)
      ELSE rehash_map(m, n, m.policy, noMem)

\* g, the outcome of the rehash before, with the table of g.map rebuilt for n
\* entries when needed.
RehashIf(needed, g, n, noMem) ==
    IF g.ok /\ needed THEN rehash_map(g.map, n, g.map.policy, noMem) ELSE g

\* The storage an insertion starts from: allocated, and not loaded.
Unloaded(g, noMem) ==
    RehashIf(default_should_rehash(g.map, 1), g, g.map.length + 1, noMem)
Roomy(m, noMem) ==
    Unloaded(RehashIf(Capacity(m) = 0, Kept(TRUE, FALSE, m), 1, noMem), noMem)

\* One attempt to find k a slot: the table grows when the budget runs out.
\* The attempts end in a slot or without memory, so that the abort after the
\* last of them is never reached.
Attempt(g, k, noMem) ==
    RehashIf(InsertIndex(g.map, k) >= Capacity(g.map), g,
             Larger(Capacity(g.map) + 1, g.map.length + 1), noMem)
GrowFor(m, k, noMem) ==
    LET grown[i \in 0..MaxAttempts] ==
            IF i = 0 THEN Roomy(m, noMem) ELSE Attempt(grown[i - 1], k, noMem)
    IN  grown[MaxAttempts]

\* copied: the deep-copy callbacks of the key and the value succeed. When
\* they do not, the slot is as it was, whatever the table has become.
Place(g, p, copied) ==
    IF g.ok /\ copied
      THEN [g EXCEPT !.map = Fill(g.map, InsertIndex(g.map, p[1]), Entry(p))]
      ELSE [g EXCEPT !.ok = FALSE]
map_insert(m, p, noMem, copied) == Place(GrowFor(m, p[1], noMem), p, copied)

\* The key's entries give way to one.
Replaced(raw) == Kept(raw.ok, FALSE, raw.map)
Replace(m, p) == Replaced(map_insert_raw_entry(map_remove_all(m, p[1]), Entry(p)))

\* Mutant: the old entries go before the new one is copied.
SetOnlyEarly(m, p, noMem, copied) ==
    IF map_find_index(m, p[1]) >= Capacity(m) THEN map_insert(m, p, noMem, copied)
    ELSE IF copied THEN Replace(m, p) ELSE Kept(FALSE, FALSE, map_remove_all(m, p[1]))

\* The new entry is copied aside first, so a failure leaves the old ones.
map_set_only(m, p, noMem, copied) ==
    IF map_find_index(m, p[1]) >= Capacity(m) THEN map_insert(m, p, noMem, copied)
    ELSE IF copied THEN Replace(m, p) ELSE Kept(FALSE, FALSE, m)

\* The pair's first slot in cursor order.
PairIndex(m, p) ==
    LET at == Walk(m, p[1])
        hits == {i \in DOMAIN at : at[i] \in Holding(m, {p})}
    IN  IF hits = {} THEN Capacity(m) ELSE at[Min(hits)]

------------------------------------------------------------------------------
\* The calls.

Init ==
    /\ map \in [slots : {NoSlots}, length : {0}, tombstones : {0}, policy : Policies]
    /\ ret = [call |-> "init", n |-> 1]

Returns(call, n) == ret' = [call |-> call, n |-> n]
Status(call, ok) == Returns(call, IF ok THEN 1 ELSE 0)

\* How far the allocator goes in this call.
NoMem == {c \in Tables : c <= 2 * MaxCapacity}

\* The call's outcome r, unless it is of the kind RetryFails excludes.
Outcome(call, r) ==
    /\ r.retried => RetryFails
    /\ map' = r.map
    /\ Status(call, r.ok)

Insert(p, noMem, copied) ==
    /\ map.length < MaxLength
    /\ Outcome("insert", map_insert(map, p, noMem, copied))

SetOnly(p, noMem, copied) ==
    /\ map.length < MaxLength
    /\ Outcome("set_only", map_set_only(map, p, noMem, copied))

EnsurePtr(p, noMem, copied) ==
    /\ map.length < MaxLength
    /\ IF map_find_index(map, p[1]) < Capacity(map)
         THEN Status("ensure", TRUE) /\ UNCHANGED map
         ELSE Outcome("ensure", map_insert(map, p, noMem, copied))

SetFirst(p, copied) ==
    LET i == map_find_index(map, p[1])
    IN  IF i < Capacity(map) /\ copied
          THEN map' = [map EXCEPT !.slots[i] = Entry(p)] /\ Status("set_first", TRUE)
          ELSE UNCHANGED map /\ Status("set_first", FALSE)

RemoveAt(i) ==
    IF i < Capacity(map)
      THEN map' = map_remove_at_index(map, i) /\ Status("remove", TRUE)
      ELSE UNCHANGED map /\ Status("remove", FALSE)

Remove(k) == RemoveAt(map_find_index(map, k))
RemovePair(p) == RemoveAt(PairIndex(map, p))

RemoveAll(k) ==
    /\ map' = map_remove_all(map, k)
    /\ Returns("remove_each", map.length - map'.length)

\* MapRemoveIf(pred); MapRetainIf(pred) removes what pred does not hold of.
RemoveIf(P) ==
    /\ map' = RemoveSlots(map, Holding(map, P))
    /\ Returns("remove_each", Cardinality(Holding(map, P)))
RetainIf(P) == RemoveIf(Pairs \ P)

Clear ==
    /\ TOMB \in Range(map.slots) => ClearsTombs
    /\ map' = clear_map(map)
    /\ Status("empty", TRUE)

\* MapDeinit, and the MapInit that makes the handle usable again.
Deinit ==
    /\ \E policy \in Policies :
         map' = [slots |-> NoSlots, length |-> 0, tombstones |-> 0, policy |-> policy]
    /\ Status("empty", TRUE)

Reserve(n, noMem) == Outcome("rehash", reserve_map(map, n, noMem))
Compact(noMem) == Outcome("rehash", rehash_map(map, map.length, map.policy, noMem))
RehashWithPolicy(n, policy, noMem) == Outcome("rehash", rehash_map(map, n, policy, noMem))

Next ==
    \/ \E p \in Pairs, noMem \in NoMem, copied \in BOOLEAN :
         Insert(p, noMem, copied) \/ SetOnly(p, noMem, copied) \/ EnsurePtr(p, noMem, copied)
    \/ \E p \in Pairs, copied \in BOOLEAN : SetFirst(p, copied)
    \/ \E k \in Keys : Remove(k) \/ RemoveAll(k)
    \/ \E p \in Pairs : RemovePair(p)
    \/ \E P \in Predicates : RemoveIf(P) \/ RetainIf(P)
    \/ Clear \/ Deinit
    \/ \E noMem \in NoMem :
         \/ Compact(noMem)
         \/ \E n \in Requests :
              \/ Reserve(n, noMem)
              \/ \E policy \in Policies : RehashWithPolicy(n, policy, noMem)

Spec == Init /\ [][Next]_vars

------------------------------------------------------------------------------
\* Properties.

\* The table, its counters and its policy are what their types say, and what
\* the last call returned is a status or a count.
MapTypeOK ==
    /\ DOMAIN map = {"slots", "length", "tombstones", "policy"}
    /\ DOMAIN map.slots \in {0..(c - 1) : c \in Tables \cup {0}}
    /\ Range(map.slots) \subseteq Entries \cup {EMPTY, TOMB}
    /\ map.length \in 0..MaxLength /\ map.tombstones \in 0..(WordSize - 1)
    /\ map.policy \in Policies
    /\ ret.n \in 0..MaxLength

\* length and tombstones, which decide when the table is rebuilt, count the
\* occupied and the deleted slots of a table that is well formed.
CountersExact ==
    /\ MapTypeOK
    /\ map.length = Cardinality(Occupied(map))
    /\ map.tombstones = Cardinality({i \in DOMAIN map.slots : map.slots[i] = TOMB})

\* A cursor over a key visits every entry of the key, each once, and ends:
\* MapValueCount, MapForeachValueForKey, MapRemovePair and MapContainsPair
\* are all this walk, and no reuse of a tombstone, wrap of the probe or
\* rebuild of the table may hide an entry from it or send it round again.
CursorExact ==
    \A k \in Keys :
        /\ map_value_count(map, k) = Cardinality(SlotsOf(map, k))
        /\ SlotsOf(map, k) \subseteq Range(Walk(map, k))

\* Entries and tombstones together never fill the table, so that there is
\* an empty slot for a scan to end at: without one, a cursor whose probe
\* budget exceeds the capacity comes back to the slots it has visited.
ScansEnd == Capacity(map) > 0 => EMPTY \in Range(map.slots)

\* A rehash that fails leaves the map and its policy unchanged
\* (Map/Memory.h:91, 134), however many tables it had tried.
FailedRehashKeepsMap == [][ret'.call = "rehash" /\ ret'.n = 0 => UNCHANGED map]_vars

\* Implementation of the multimap: the bag of the entries in the table.
Multi == INSTANCE Multimap WITH bag <- [p \in Pairs |-> Cardinality(Holding(map, {p}))]
ImplementsMultimap == Multi!MultimapSpec
=============================================================================
