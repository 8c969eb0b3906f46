---------------------------- MODULE GraphProofs ----------------------------
(***************************************************************************)
(* What TLAPS proves of the graph, for every number of slots, edges,       *)
(* visits and generations, as long as the list of free indices gets the    *)
(* memory it asks for: the two adjacency lists of every edge mirror each   *)
(* other whatever is added, removed and committed, iterators neither skip  *)
(* nor repeat, and every step is one of the directed graph of the header.  *)
(***************************************************************************)
EXTENDS Graph, Lemmas

------------------------------------------------------------------------------
\* Loops.

\* A loop from a, whose k-th round F[k] leads from the set S[k - 1] to S[k].
Rounds(n, S, a, F) ==
    n \in Nat /\ a \in S[0] /\ \A k \in 1..n : \A x \in S[k - 1] : F[k][x] \in S[k]

RunOfRounds(n, S, a, F, f) ==
    /\ f = [k \in 0..n |-> f[k]] /\ f[0] = a
    /\ \A k \in 1..n : f[k] = F[k][f[k - 1]]
    /\ \A k \in 0..n : f[k] \in S[k]

\* It has a run, which stays in these sets.
LEMMA RunThrough ==
  ASSUME NEW n, NEW S, NEW a, NEW F, Rounds(n, S, a, F)
  PROVE  \E f : RunOfRounds(n, S, a, F, f)
<1> DEFINE U == UNION {S[k] : k \in 0..n}
           F2 == [k \in Nat |-> [x \in U |-> IF k \in 1..n /\ x \in S[k - 1] THEN F[k][x] ELSE a]]
<1> USE DEF Rounds
<1>1. a \in U  BY 0 \in 0..n
<1>2. \A k \in 1..n : k \in 0..n /\ k - 1 \in 0..n /\ S[k] \subseteq U  OBVIOUS
<1>3. F2 \in [Nat -> [U -> U]]
  <2> SUFFICES ASSUME NEW k \in Nat, NEW x \in U
               PROVE  (IF k \in 1..n /\ x \in S[k - 1] THEN F[k][x] ELSE a) \in U
    OBVIOUS
  <2> QED  BY <1>1, <1>2
<1>4. \A k \in 1..n : \A x \in S[k - 1] : F2[k][x] = F[k][x]  BY <1>2
<1> HIDE DEF F2, U
<1>5. PICK f \in [0..n -> U] : f[0] = a /\ \A k \in 1..n : f[k] = F2[k][f[k - 1]]
  <2>1. Loop(U, a, F2, n)  BY <1>1, <1>3 DEF Loop
  <2>2. \E f : RunOf(U, a, F2, n, f)  BY <2>1, LoopRuns
  <2> QED  BY <2>2 DEF RunOf
<1> DEFINE T == {k \in Nat : k <= n => f[k] \in S[k]}
<1>6. 0 \in T  BY <1>5
<1>7. ASSUME NEW k \in Nat, k \in T PROVE k + 1 \in T
  <2> SUFFICES ASSUME k + 1 <= n PROVE f[k + 1] \in S[k + 1]  OBVIOUS
  <2>1. k + 1 \in 1..n /\ (k + 1) - 1 = k /\ k <= n  OBVIOUS
  <2> QED  BY <2>1, <1>4, <1>5, <1>7
<1>8. Nat \subseteq T
  <2> HIDE DEF T
  <2> QED  BY <1>6, <1>7, SetInduction
<1>9. \A k \in 0..n : f[k] \in S[k]  BY <1>8
<1>10. \A k \in 1..n : f[k] = F[k][f[k - 1]]
  <2> SUFFICES ASSUME NEW k \in 1..n PROVE f[k] = F[k][f[k - 1]]  OBVIOUS
  <2>1. k - 1 \in 0..n  OBVIOUS
  <2> QED  BY <2>1, <1>4, <1>5, <1>9
<1>11. f = [k \in 0..n |-> f[k]]  OBVIOUS
<1> QED  BY <1>5, <1>9, <1>10, <1>11 DEF RunOfRounds

\* A run whose rounds lead from S[k - 1] to S[k] stays in these sets.
LEMMA StaysIn ==
  ASSUME NEW n \in Nat, NEW S, NEW f, f[0] \in S[0],
         \A k \in 1..n : f[k - 1] \in S[k - 1] => f[k] \in S[k]
  PROVE  \A k \in 0..n : f[k] \in S[k]
<1> DEFINE T == {k \in Nat : k <= n => f[k] \in S[k]}
<1>1. 0 \in T  OBVIOUS
<1>2. ASSUME NEW k \in Nat, k \in T PROVE k + 1 \in T
  <2> SUFFICES ASSUME k + 1 <= n PROVE f[k + 1] \in S[k + 1]  OBVIOUS
  <2>1. k + 1 \in 1..n /\ (k + 1) - 1 = k /\ k <= n  OBVIOUS
  <2> QED  BY <2>1, <1>2
<1>3. Nat \subseteq T
  <2> HIDE DEF T
  <2> QED  BY <1>1, <1>2, SetInduction
<1> QED  BY <1>3

------------------------------------------------------------------------------
\* Lists.

\* What a sequence lists, in the terms of the community modules.
LEMMA ListFacts ==
  ASSUME NEW D, NEW s \in Seq(D)
  PROVE  /\ Len(s) \in Nat /\ DOMAIN s = 1..Len(s) /\ Range(s) = Listed(s) /\ Listed(s) \subseteq D
         /\ \A x : Contains(s, x) <=> x \in Listed(s)
         /\ IsInjective(s) <=> Once(D, s)
         /\ s = <<>> <=> Listed(s) = {}
<1>1. Len(s) \in Nat /\ DOMAIN s = 1..Len(s) /\ \A k \in 1..Len(s) : s[k] \in D  BY ElementOfSeq
<1>2. s = <<>> <=> Listed(s) = {}
  <2>1. s = <<>> => Listed(s) = {}  BY DEF Listed
  <2>2. s # <<>> => Len(s) # 0  BY EmptySeq
  <2>3. Len(s) # 0 => 1 \in 1..Len(s)  BY <1>1
  <2>4. s # <<>> => s[1] \in Listed(s)  BY <2>2, <2>3 DEF Listed
  <2> QED  BY <2>1, <2>4
<1>3. IsInjective(s) <=> Once(D, s)  BY <1>1 DEF IsInjective, Once
<1> QED  BY <1>1, <1>2, <1>3 DEF Range, Listed, Contains

\* The first occurrence goes.
LEMMA RemoveFirstProps ==
  ASSUME NEW D, NEW s, Once(D, s), NEW x
  PROVE  /\ Once(D, RemoveFirst(s, x)) /\ Listed(RemoveFirst(s, x)) = Listed(s) \ {x}
         /\ x \notin Listed(s) => RemoveFirst(s, x) = s
         /\ x \in Listed(s) => Len(RemoveFirst(s, x)) = Len(s) - 1
<1>1. s \in Seq(D) /\ Len(s) \in Nat /\ \A j, k \in 1..Len(s) : s[j] = s[k] => j = k  BY DEF Once
<1>2. CASE x \notin Listed(s)
  <2>1. RemoveFirst(s, x) = s  BY <1>2 DEF RemoveFirst, Listed
  <2>2. Listed(s) \ {x} = Listed(s)  BY <1>2
  <2> QED  BY <1>2, <2>1, <2>2
<1>3. CASE x \in Listed(s)
  <2>1. PICK i \in 1..Len(s) : s[i] = x  BY <1>3 DEF Listed
  <2>2. {j \in 1..Len(s) : s[j] = x} = {i}  BY <1>1, <2>1
  <2>3. Min({i}) = i  BY DEF Min
  <2>4. SelectInSeq(s, LAMBDA v : v = x) = i  BY <2>2, <2>3 DEF SelectInSeq
  <2>5. RemoveFirst(s, x) = RemoveAt(s, i)  BY <2>1, <2>4 DEF RemoveFirst
  <2> DEFINE a == SubSeq(s, 1, i - 1)
             b == SubSeq(s, i + 1, Len(s))
             m == Len(s) - 1
  <2>6. i - 1 \in Nat /\ m \in Nat /\ i - 1 <= m /\ i \in 1..Len(s) /\ Len(s) \in Nat  BY <1>1
  <2>7. a \in Seq(D) /\ Len(a) = i - 1 /\ \A k \in 1..(i - 1) : a[k] = s[k]
    <3>1. \A k \in 1..(i - 1) : s[k] \in D  BY <1>1, <2>6, ElementOfSeq
    <3> QED  BY <1>1, <2>6, <3>1, SubSeqProperties
  <2>8. b \in Seq(D) /\ Len(b) = Len(s) - i /\ \A k \in 1..(Len(s) - i) : b[k] = s[i + k]
    <3>1. \A k \in (i + 1)..Len(s) : s[k] \in D  BY <1>1, <2>6, ElementOfSeq
    <3> QED  BY <1>1, <2>6, <3>1, SubSeqProperties
  <2> HIDE DEF a, b
  <2>9. /\ a \o b \in Seq(D) /\ Len(a \o b) = m
        /\ \A k \in 1..m : (a \o b)[k] = IF k <= i - 1 THEN a[k] ELSE b[k - (i - 1)]
    BY <2>6, <2>7, <2>8, ConcatProperties
  <2>10. /\ Cut(s, i) \in Seq(D) /\ Len(Cut(s, i)) = m
         /\ \A k \in 1..m : Cut(s, i)[k] = IF k < i THEN s[k] ELSE s[k + 1]
         /\ Listed(Cut(s, i)) = Listed(s) \ {s[i]}
    BY <1>1, CutProps
  <2>11. \A k \in 1..m : (a \o b)[k] = Cut(s, i)[k]
    <3> SUFFICES ASSUME NEW k \in 1..m PROVE (a \o b)[k] = Cut(s, i)[k]  OBVIOUS
    <3>1. CASE k < i
      <4>1. k \in 1..(i - 1)  BY <3>1, <2>6
      <4> QED  BY <4>1, <3>1, <2>6, <2>7, <2>9, <2>10
    <3>2. CASE ~(k < i)
      <4>1. k - (i - 1) \in 1..(Len(s) - i) /\ i + (k - (i - 1)) = k + 1 /\ ~(k <= i - 1)
        BY <3>2, <2>6
      <4> QED  BY <4>1, <3>2, <2>8, <2>9, <2>10
    <3> QED  BY <3>1, <3>2
  <2>12. a \o b = Cut(s, i)  BY <2>9, <2>10, <2>11, SeqEqual
  <2>13. RemoveFirst(s, x) = Cut(s, i)  BY <2>5, <2>12 DEF RemoveAt, a, b
  <2>14. \A j, k \in 1..m : Cut(s, i)[j] = Cut(s, i)[k] => j = k
    <3> SUFFICES ASSUME NEW j \in 1..m, NEW k \in 1..m, Cut(s, i)[j] = Cut(s, i)[k]
                 PROVE  j = k
      OBVIOUS
    <3>1. (IF j < i THEN s[j] ELSE s[j + 1]) = (IF k < i THEN s[k] ELSE s[k + 1])  BY <2>10
    <3>2. {j, j + 1, k, k + 1} \subseteq 1..Len(s)  BY <2>6
    <3> QED  BY <3>1, <3>2, <1>1, <2>6
  <2>15. Once(D, Cut(s, i))  BY <2>10, <2>14 DEF Once
  <2> QED  BY <1>3, <2>1, <2>10, <2>13, <2>15
<1> QED  BY <1>2, <1>3

------------------------------------------------------------------------------
\* Graphs.

GraphType ==
    [slots : Seq(SlotType), free_indices : Seq(Indices),
     pending_edge_removals : Seq(NodeIds \X NodeIds),
     live_count : Nat, edge_count : Nat, pending_delete_count : Nat,
     slots_capacity : Nat, free_capacity : Nat, aborted : BOOLEAN]

SlotsOf(g) == 1..Len(g.slots)

Typed(g) == g \in GraphType /\ Len(g.slots) <= MaxSlots

\* Of one slot: nothing is listed twice, and a free slot is blank.
Tidy(s) ==
    /\ Once(NodeIds, s.out) /\ Once(NodeIds, s.in)
    /\ ~s.occupied => s = FreeSlot(s.generation)

\* The entry of slot i in either list is mirrored in the other one.
Mirrored(g, i) ==
    /\ \A id \in Listed(g.slots[i].out) : IsLive(g, id) /\ IdAt(g, i) \in Listed(Slot(g, id).in)
    /\ \A id \in Listed(g.slots[i].in) : IsLive(g, id) /\ IdAt(g, i) \in Listed(Slot(g, id).out)

Linked(g) ==
    /\ Typed(g) /\ ~g.aborted
    /\ \A i \in SlotsOf(g) : Tidy(g.slots[i])
    /\ \A i \in Occupied(g) : Mirrored(g, i)
    /\ g.edge_count = Cardinality(OutEdges(g))

\* What a slot is apart from its edges.
Face(s) == <<s.occupied, s.marked, s.generation, s.visit_count>>

\* h has the nodes of g, and differs in edges only.
Same(g, h) ==
    /\ Len(h.slots) = Len(g.slots)
    /\ \A i \in SlotsOf(g) : Face(h.slots[i]) = Face(g.slots[i])
    /\ h.free_indices = g.free_indices /\ h.pending_edge_removals = g.pending_edge_removals
    /\ h.live_count = g.live_count /\ h.pending_delete_count = g.pending_delete_count

\* The slots of a graph.
LEMMA SlotFacts ==
  ASSUME NEW g, Typed(g)
  PROVE  /\ Len(g.slots) \in Nat /\ DOMAIN g.slots = SlotsOf(g) /\ g.slots \in Seq(SlotType)
         /\ SlotsOf(g) \subseteq Indices
         /\ \A i \in SlotsOf(g) : g.slots[i] \in SlotType /\ IdAt(g, i) \in NodeIds
         /\ Occupied(g) \subseteq SlotsOf(g) /\ Marked(g) \subseteq Occupied(g)
<1>1. g.slots \in Seq(SlotType)  BY DEF Typed, GraphType
<1>2. Len(g.slots) \in Nat /\ DOMAIN g.slots = 1..Len(g.slots)
  BY <1>1
<1>3. \A i \in 1..Len(g.slots) : g.slots[i] \in SlotType  BY <1>1, ElementOfSeq
<1>4. MaxSlots \in Nat  BY GraphAssumption
<1>5. SlotsOf(g) \subseteq Indices  BY <1>2, <1>4 DEF Typed, SlotsOf, Indices
<1>6. \A i \in SlotsOf(g) : IdAt(g, i) \in NodeIds
  BY <1>3, <1>5 DEF SlotsOf, IdAt, NodeIds, SlotType
<1> QED  BY <1>1, <1>2, <1>3, <1>5, <1>6 DEF SlotsOf, Occupied, Marked

\* A graph's parts have their types.
LEMMA TypedParts ==
  ASSUME NEW g, Typed(g)
  PROVE  /\ g.free_indices \in Seq(Indices) /\ g.pending_edge_removals \in Seq(NodeIds \X NodeIds)
         /\ g.live_count \in Nat /\ g.edge_count \in Nat /\ g.pending_delete_count \in Nat
         /\ g.slots_capacity \in Nat /\ g.free_capacity \in Nat /\ g.aborted \in BOOLEAN
BY DEF Typed, GraphType

\* The edges, entry by entry.
LEMMA EdgesAre ==
  ASSUME NEW g, Typed(g)
  PROVE  /\ \A e : e \in OutEdges(g) <=>
                   \E i \in Occupied(g) : \E id \in Listed(g.slots[i].out) : e = <<IdAt(g, i), id>>
         /\ \A e : e \in InEdges(g) <=>
                   \E i \in Occupied(g) : \E id \in Listed(g.slots[i].in) : e = <<id, IdAt(g, i)>>
<1>1. ASSUME NEW i \in Occupied(g)
      PROVE  Range(g.slots[i].out) = Listed(g.slots[i].out) /\ Range(g.slots[i].in) = Listed(g.slots[i].in)
  <2>1. g.slots[i] \in SlotType  BY SlotFacts
  <2>2. g.slots[i].out \in Seq(NodeIds) /\ g.slots[i].in \in Seq(NodeIds)  BY <2>1 DEF SlotType
  <2> QED  BY <2>2, ListFacts
<1>2. \A e : e \in OutEdges(g) <=>
             \E i \in Occupied(g) : \E id \in Range(g.slots[i].out) : e = <<IdAt(g, i), id>>
  BY DEF OutEdges
<1>3. \A e : e \in InEdges(g) <=>
             \E i \in Occupied(g) : \E id \in Range(g.slots[i].in) : e = <<id, IdAt(g, i)>>
  BY DEF InEdges
<1> QED  BY <1>1, <1>2, <1>3

\* There are finitely many.
LEMMA EdgesFinite ==
  ASSUME NEW g, Typed(g)
  PROVE  OutEdges(g) \subseteq NodeIds \X NodeIds /\ IsFiniteSet(OutEdges(g))
<1>1. IsFiniteSet(NodeIds)
  <2> DEFINE A == 1..MaxSlots
             B == 1..MaxGeneration
  <2>1. IsFiniteSet(A) /\ IsFiniteSet(B)  BY GraphAssumption, FS_Interval
  <2>2. IsFiniteSet(A \X B)
    <3> HIDE DEF A, B
    <3> QED  BY <2>1, FS_Product
  <2> QED  BY <2>2 DEF NodeIds, Indices
<1>2. IsFiniteSet(NodeIds \X NodeIds)  BY <1>1, FS_Product
<1>3. OutEdges(g) \subseteq NodeIds \X NodeIds
  <2> SUFFICES ASSUME NEW e \in OutEdges(g) PROVE e \in NodeIds \X NodeIds  OBVIOUS
  <2>1. PICK i \in Occupied(g) : \E id \in Listed(g.slots[i].out) : e = <<IdAt(g, i), id>>
    BY EdgesAre
  <2>2. i \in SlotsOf(g) /\ g.slots[i] \in SlotType /\ IdAt(g, i) \in NodeIds  BY SlotFacts
  <2>3. g.slots[i].out \in Seq(NodeIds)  BY <2>2 DEF SlotType
  <2>4. Listed(g.slots[i].out) \subseteq NodeIds  BY <2>3, ListFacts
  <2> QED  BY <2>1, <2>2, <2>4
<1> QED  BY <1>2, <1>3, FS_Subset

\* A live id is the id of its slot.
LEMMA LiveFacts ==
  ASSUME NEW g, Typed(g), NEW id \in NodeIds
  PROVE  /\ IsLive(g, id) <=> id[1] \in Occupied(g) /\ IdAt(g, id[1]) = id
         /\ IsLive(g, id) <=> id \in LiveIds(g)
<1>1. id = <<id[1], id[2]>>  BY DEF NodeIds
<1>2. IsLive(g, id) <=> id[1] \in Occupied(g) /\ IdAt(g, id[1]) = id
  BY <1>1 DEF IsLive, Occupied, IdAt
<1>3. \A i \in Occupied(g) : IdAt(g, i)[1] = i  BY DEF IdAt
<1> QED  BY <1>2, <1>3 DEF LiveIds

\* Graphs with the same nodes agree on which they are.
LEMMA SameFacts ==
  ASSUME NEW g, NEW h, Typed(g), Typed(h), Same(g, h)
  PROVE  /\ SlotsOf(h) = SlotsOf(g) /\ Occupied(h) = Occupied(g) /\ Marked(h) = Marked(g)
         /\ \A i \in SlotsOf(g) : IdAt(h, i) = IdAt(g, i) /\ h.slots[i].visit_count = g.slots[i].visit_count
         /\ \A i \in SlotsOf(g) : h.slots[i].occupied = g.slots[i].occupied
                               /\ h.slots[i].marked = g.slots[i].marked
                               /\ h.slots[i].generation = g.slots[i].generation
         /\ \A id : IsLive(h, id) <=> IsLive(g, id)
<1>1. SlotsOf(h) = SlotsOf(g) /\ DOMAIN g.slots = SlotsOf(g) /\ DOMAIN h.slots = SlotsOf(g)
  BY SlotFacts DEF Same, SlotsOf
<1>2. \A i \in SlotsOf(g) : /\ h.slots[i].occupied = g.slots[i].occupied
                            /\ h.slots[i].marked = g.slots[i].marked
                            /\ h.slots[i].generation = g.slots[i].generation
                            /\ h.slots[i].visit_count = g.slots[i].visit_count
  BY DEF Same, Face
<1> QED  BY <1>1, <1>2 DEF Occupied, Marked, IdAt, IsLive

------------------------------------------------------------------------------
\* One slot changes.

\* h is g but for its slots.
Elsewhere(g, h) ==
    /\ h.free_indices = g.free_indices /\ h.pending_edge_removals = g.pending_edge_removals
    /\ h.live_count = g.live_count /\ h.edge_count = g.edge_count
    /\ h.pending_delete_count = g.pending_delete_count
    /\ h.slots_capacity = g.slots_capacity /\ h.free_capacity = g.free_capacity
    /\ h.aborted = g.aborted

SlotSet(g, i, s, h) == h = [g EXCEPT !.slots[i] = s]

\* A slot replaced.
LEMMA SlotUpdate ==
  ASSUME NEW g, Typed(g), NEW i \in SlotsOf(g), NEW s \in SlotType, NEW h, SlotSet(g, i, s, h)
  PROVE  /\ Typed(h) /\ Elsewhere(g, h) /\ Len(h.slots) = Len(g.slots) /\ SlotsOf(h) = SlotsOf(g)
         /\ h.slots[i] = s /\ \A k \in SlotsOf(g) : k # i => h.slots[k] = g.slots[k]
<1>1. g \in GraphType /\ g.slots \in Seq(SlotType) /\ i \in 1..Len(g.slots) /\ DOMAIN g.slots = 1..Len(g.slots)
  BY SlotFacts DEF SlotsOf, Typed
<1>2. h.slots = [g.slots EXCEPT ![i] = s]  BY <1>1 DEF GraphType, SlotSet
<1>3. h.slots \in Seq(SlotType) /\ Len(h.slots) = Len(g.slots)  BY <1>1, <1>2, ExceptSeq
<1>4. h.slots[i] = s /\ \A k \in 1..Len(g.slots) : k # i => h.slots[k] = g.slots[k]  BY <1>1, <1>2
<1>5. h = [g EXCEPT !.slots = h.slots]  BY <1>1, <1>2 DEF GraphType, SlotSet
<1>6. h \in GraphType /\ Elsewhere(g, h)  BY <1>1, <1>3, <1>5 DEF GraphType, Elsewhere
<1> QED  BY <1>3, <1>4, <1>6 DEF Typed, SlotsOf

WithOut(s, t) == [s EXCEPT !.out = t]
WithIn(s, t) == [s EXCEPT !.in = t]

\* A list of a slot replaced.
LEMMA SlotLists ==
  ASSUME NEW s \in SlotType, NEW t \in Seq(NodeIds)
  PROVE  /\ WithOut(s, t) \in SlotType /\ WithIn(s, t) \in SlotType
         /\ WithOut(s, t).out = t /\ WithOut(s, t).in = s.in
         /\ WithIn(s, t).in = t /\ WithIn(s, t).out = s.out
         /\ Face(WithOut(s, t)) = Face(s) /\ Face(WithIn(s, t)) = Face(s)
BY DEF SlotType, Face, WithOut, WithIn

\* h is g with other lists: out in slot i, in in slot j.
Relisted(g, h, i, out, j, in) ==
    /\ Typed(h) /\ Len(h.slots) = Len(g.slots)
    /\ \A k \in SlotsOf(g) :
        /\ Face(h.slots[k]) = Face(g.slots[k])
        /\ h.slots[k].out = IF k = i THEN out ELSE g.slots[k].out
        /\ h.slots[k].in = IF k = j THEN in ELSE g.slots[k].in

\* One list after the other.
LEMMA TwoLists ==
  ASSUME NEW g, Typed(g), NEW i \in SlotsOf(g), NEW j \in SlotsOf(g),
         NEW out \in Seq(NodeIds), NEW in \in Seq(NodeIds),
         NEW h, SlotSet(g, i, WithOut(g.slots[i], out), h),
         NEW k, SlotSet(h, j, WithIn(h.slots[j], in), k)
  PROVE  Relisted(g, k, i, out, j, in) /\ Elsewhere(g, k) /\ h.slots[j].in = g.slots[j].in
<1>1. g.slots[i] \in SlotType  BY SlotFacts
<1> DEFINE s == WithOut(g.slots[i], out)
<1>2. s \in SlotType /\ s.out = out /\ s.in = g.slots[i].in /\ Face(s) = Face(g.slots[i])  BY <1>1, SlotLists
<1>3. SlotSet(g, i, s, h)  OBVIOUS
<1> HIDE DEF s
<1>4. /\ Typed(h) /\ Elsewhere(g, h) /\ Len(h.slots) = Len(g.slots) /\ SlotsOf(h) = SlotsOf(g)
      /\ h.slots[i] = s /\ \A m \in SlotsOf(g) : m # i => h.slots[m] = g.slots[m]
  BY <1>2, <1>3, SlotUpdate
<1>5. h.slots[j] \in SlotType /\ j \in SlotsOf(h)  BY <1>4, SlotFacts
<1> DEFINE t == WithIn(h.slots[j], in)
<1>6. t \in SlotType /\ t.in = in /\ t.out = h.slots[j].out /\ Face(t) = Face(h.slots[j])
  BY <1>5, SlotLists
<1>7. SlotSet(h, j, t, k)  OBVIOUS
<1> HIDE DEF t
<1>8. /\ Typed(k) /\ Elsewhere(h, k) /\ Len(k.slots) = Len(h.slots) /\ SlotsOf(k) = SlotsOf(h)
      /\ k.slots[j] = t /\ \A m \in SlotsOf(h) : m # j => k.slots[m] = h.slots[m]
  BY <1>4, <1>5, <1>6, <1>7, SlotUpdate
<1>9. Elsewhere(g, k)  BY <1>4, <1>8 DEF Elsewhere
<1>10. h.slots[j].in = g.slots[j].in  BY <1>2, <1>4
<1>11. ASSUME NEW m \in SlotsOf(g)
       PROVE  /\ Face(k.slots[m]) = Face(g.slots[m])
              /\ k.slots[m].out = IF m = i THEN out ELSE g.slots[m].out
              /\ k.slots[m].in = IF m = j THEN in ELSE g.slots[m].in
  <2>1. /\ Face(h.slots[m]) = Face(g.slots[m]) /\ h.slots[m].in = g.slots[m].in
        /\ h.slots[m].out = IF m = i THEN out ELSE g.slots[m].out
    BY <1>2, <1>4
  <2> QED  BY <2>1, <1>4, <1>6, <1>8
<1> QED  BY <1>4, <1>8, <1>9, <1>10, <1>11 DEF Relisted

\* The edge goes from both lists.
LEMMA RemoveEdgeLists ==
  ASSUME NEW g, Linked(g), NEW e \in OutEdges(g), NEW h, h = graph_remove_edge_now(g, e)
  PROVE  /\ Relisted(g, h, e[1][1], RemoveFirst(Slot(g, e[1]).out, e[2]),
                           e[2][1], RemoveFirst(Slot(g, e[2]).in, e[1]))
         /\ Same(g, h) /\ h.edge_count = g.edge_count - 1 /\ ~h.aborted
         /\ e[1][1] \in Occupied(g) /\ IdAt(g, e[1][1]) = e[1] /\ e[2] \in Listed(Slot(g, e[1]).out)
         /\ e[2][1] \in Occupied(g) /\ IdAt(g, e[2][1]) = e[2] /\ e[1] \in Listed(Slot(g, e[2]).in)
<1>1. Typed(g)  BY DEF Linked
<1>2. PICK i \in Occupied(g) : \E id \in Listed(g.slots[i].out) : e = <<IdAt(g, i), id>>
  BY <1>1, EdgesAre
<1>3. PICK b \in Listed(g.slots[i].out) : e = <<IdAt(g, i), b>>  BY <1>2
<1>4. e[1] = IdAt(g, i) /\ e[1][1] = i /\ e[2] = b  BY <1>3 DEF IdAt
<1>5. e \in NodeIds \X NodeIds  BY <1>1, EdgesFinite
<1>6. IsLive(g, b) /\ e[1] \in Listed(Slot(g, b).in)  BY <1>4 DEF Linked, Mirrored
<1> DEFINE j == b[1]
<1>7. j \in Occupied(g) /\ IdAt(g, j) = b /\ i \in SlotsOf(g) /\ j \in SlotsOf(g)
  BY <1>1, <1>4, <1>5, <1>6, LiveFacts, SlotFacts
<1>8. Tidy(g.slots[i]) /\ Tidy(g.slots[j])  BY <1>7 DEF Linked
<1> DEFINE out == RemoveFirst(g.slots[i].out, b)
           in == RemoveFirst(g.slots[j].in, e[1])
<1>9. Once(NodeIds, out) /\ Once(NodeIds, in)  BY <1>8, RemoveFirstProps DEF Tidy
<1>10. out \in Seq(NodeIds) /\ in \in Seq(NodeIds)  BY <1>9 DEF Once
<1>11. g.slots[i].out \in Seq(NodeIds) /\ g.slots[j].in \in Seq(NodeIds)  BY <1>8 DEF Tidy, Once
<1>12. Contains(Slot(g, e[1]).out, e[2]) /\ Contains(Slot(g, e[2]).in, e[1])
  BY <1>3, <1>4, <1>6, <1>11, ListFacts DEF Slot
<1> DEFINE h1 == TakeOut(g, e)
           h2 == TakeIn(h1, e)
<1>13. SlotSet(g, i, WithOut(g.slots[i], out), h1)
  <2>1. g \in GraphType /\ g.slots \in Seq(SlotType) /\ i \in DOMAIN g.slots /\ g.slots[i] \in SlotType
    BY <1>1, <1>7, SlotFacts DEF Typed
  <2> QED  BY <1>4, <2>1 DEF TakeOut, SlotSet, WithOut
<1>14. SlotSet(h1, j, WithIn(h1.slots[j], RemoveFirst(h1.slots[j].in, e[1])), h2)
  BY <1>4 DEF TakeIn, SlotSet, WithIn
<1> HIDE DEF h1, h2, out, in, j
<1>15. h1.slots[j].in = g.slots[j].in
  <2> DEFINE k == [h1 EXCEPT !.slots[j] = WithIn(h1.slots[j], in)]
  <2>1. SlotSet(h1, j, WithIn(h1.slots[j], in), k)  BY DEF SlotSet
  <2> HIDE DEF k
  <2>2. Relisted(g, k, i, out, j, in) /\ Elsewhere(g, k) /\ h1.slots[j].in = g.slots[j].in
    BY <2>1, <1>1, <1>7, <1>10, <1>13, TwoLists
  <2> QED  BY <2>2
<1>16. SlotSet(h1, j, WithIn(h1.slots[j], in), h2)  BY <1>14, <1>15 DEF in
<1>17. Relisted(g, h2, i, out, j, in) /\ Elsewhere(g, h2)
  BY <1>1, <1>7, <1>10, <1>13, <1>16, TwoLists
<1>18. h = [h2 EXCEPT !.edge_count = @ - 1, !.aborted = @ \/ ~Contains(Slot(g, e[2]).in, e[1])]
  BY <1>12 DEF graph_remove_edge_now, h1, h2
<1>19. h2 \in GraphType /\ h2.edge_count = g.edge_count /\ ~h2.aborted /\ g.edge_count \in Nat
  BY <1>1, <1>17, TypedParts DEF Relisted, Typed, Elsewhere, Linked
<1>20. g.edge_count >= 1
  <2>1. IsFiniteSet(OutEdges(g)) /\ OutEdges(g) # {}  BY <1>1, EdgesFinite
  <2>2. Cardinality(OutEdges(g)) # 0 /\ Cardinality(OutEdges(g)) \in Nat
    BY <2>1, FS_EmptySet, FS_CardinalityType
  <2> QED  BY <2>2 DEF Linked
<1>21. /\ h \in GraphType /\ h.slots = h2.slots /\ h.edge_count = g.edge_count - 1 /\ ~h.aborted
       /\ h.free_indices = h2.free_indices /\ h.pending_edge_removals = h2.pending_edge_removals
       /\ h.live_count = h2.live_count /\ h.pending_delete_count = h2.pending_delete_count
  <2>1. g.edge_count - 1 \in Nat  BY <1>19, <1>20
  <2>2. (h2.aborted \/ ~Contains(Slot(g, e[2]).in, e[1])) = FALSE  BY <1>12, <1>19
  <2>3. h = [h2 EXCEPT !.edge_count = g.edge_count - 1, !.aborted = FALSE]  BY <1>18, <1>19, <2>2
  <2> QED  BY <2>1, <2>3, <1>19 DEF GraphType
<1>22. Relisted(g, h, i, out, j, in)  BY <1>17, <1>21 DEF Relisted, Typed
<1>23. Same(g, h)  BY <1>17, <1>21 DEF Relisted, Same, Elsewhere
<1> QED  BY <1>3, <1>4, <1>6, <1>7, <1>21, <1>22, <1>23 DEF Slot, out, in, j

------------------------------------------------------------------------------
\* Edges go.

\* h has the nodes of g and, of its edges, those in E.
Trimmed(g, h, E) == Linked(h) /\ Same(g, h) /\ OutEdges(h) = E

\* One edge.
LEMMA RemoveEdgeStep ==
  ASSUME NEW g, Linked(g), NEW e \in OutEdges(g), NEW h, h = graph_remove_edge_now(g, e)
  PROVE  Trimmed(g, h, OutEdges(g) \ {e})
<1> DEFINE a == e[1]
           b == e[2]
           i == a[1]
           j == b[1]
           out == RemoveFirst(g.slots[i].out, b)
           in == RemoveFirst(g.slots[j].in, a)
<1>1. Typed(g)  BY DEF Linked
<1>2. /\ Relisted(g, h, i, out, j, in) /\ Same(g, h) /\ h.edge_count = g.edge_count - 1 /\ ~h.aborted
      /\ i \in Occupied(g) /\ IdAt(g, i) = a /\ b \in Listed(g.slots[i].out)
      /\ j \in Occupied(g) /\ IdAt(g, j) = b /\ a \in Listed(g.slots[j].in)
  BY RemoveEdgeLists DEF Slot
<1>3. Typed(h) /\ e \in NodeIds \X NodeIds /\ e = <<a, b>>
  BY <1>1, <1>2, EdgesFinite DEF Relisted
<1>4. /\ SlotsOf(h) = SlotsOf(g) /\ Occupied(h) = Occupied(g) /\ Occupied(g) \subseteq SlotsOf(g)
      /\ \A k \in SlotsOf(g) : IdAt(h, k) = IdAt(g, k) /\ IdAt(g, k)[1] = k
      /\ \A k \in SlotsOf(g) : h.slots[k].occupied = g.slots[k].occupied
                            /\ h.slots[k].marked = g.slots[k].marked
                            /\ h.slots[k].generation = g.slots[k].generation
                            /\ h.slots[k].visit_count = g.slots[k].visit_count
      /\ \A id : IsLive(h, id) <=> IsLive(g, id)
  BY <1>1, <1>2, <1>3, SameFacts, SlotFacts DEF IdAt
<1>5. \A k \in SlotsOf(g) : /\ h.slots[k].out = IF k = i THEN out ELSE g.slots[k].out
                            /\ h.slots[k].in = IF k = j THEN in ELSE g.slots[k].in
  BY <1>2 DEF Relisted
<1>6. i \in SlotsOf(g) /\ j \in SlotsOf(g)  BY <1>2, <1>4
<1>7. \A k \in SlotsOf(g) : Tidy(g.slots[k])  BY DEF Linked
<1>8. /\ Once(NodeIds, out) /\ Listed(out) = Listed(g.slots[i].out) \ {b}
      /\ Once(NodeIds, in) /\ Listed(in) = Listed(g.slots[j].in) \ {a}
  BY <1>6, <1>7, RemoveFirstProps DEF Tidy
<1> HIDE DEF out, in, i, j, a, b
<1>9. \A k \in SlotsOf(g) :
        /\ Listed(h.slots[k].out) = IF k = i THEN Listed(g.slots[k].out) \ {b} ELSE Listed(g.slots[k].out)
        /\ Listed(h.slots[k].in) = IF k = j THEN Listed(g.slots[k].in) \ {a} ELSE Listed(g.slots[k].in)
  BY <1>5, <1>8
<1>10. ASSUME NEW k \in SlotsOf(h) PROVE Tidy(h.slots[k])
  <2>1. k \in SlotsOf(g) /\ Tidy(g.slots[k])  BY <1>4, <1>7
  <2>2. Once(NodeIds, h.slots[k].out) /\ Once(NodeIds, h.slots[k].in)
    BY <2>1, <1>5, <1>8 DEF Tidy
  <2>3. ASSUME ~h.slots[k].occupied PROVE h.slots[k] = FreeSlot(h.slots[k].generation)
    <3>1. ~g.slots[k].occupied /\ k \notin Occupied(g)  BY <2>1, <2>3, <1>4 DEF Occupied
    <3>2. g.slots[k] = FreeSlot(g.slots[k].generation) /\ k # i /\ k # j  BY <3>1, <2>1, <1>2 DEF Tidy, i, j
    <3>3. h.slots[k].out = g.slots[k].out /\ h.slots[k].in = g.slots[k].in  BY <3>2, <2>1, <1>5
    <3>4. h.slots[k] \in SlotType /\ g.slots[k] \in SlotType  BY <2>1, <1>1, <1>3, SlotFacts
    <3>5. h.slots[k] = g.slots[k]  BY <3>3, <3>4, <2>1, <1>4 DEF SlotType
    <3> QED  BY <3>2, <3>5
  <2> QED  BY <2>2, <2>3 DEF Tidy
<1>11. ASSUME NEW k \in Occupied(h) PROVE Mirrored(h, k)
  <2>1. k \in Occupied(g) /\ k \in SlotsOf(g) /\ Mirrored(g, k)  BY <1>4 DEF Linked
  <2>2. Tidy(g.slots[k])  BY <2>1, <1>7
  <2>3. Listed(g.slots[k].out) \subseteq NodeIds /\ Listed(g.slots[k].in) \subseteq NodeIds
    BY <2>2, ListFacts DEF Tidy, Once
  <2>4. ASSUME NEW id \in Listed(h.slots[k].out)
        PROVE  IsLive(h, id) /\ IdAt(h, k) \in Listed(Slot(h, id).in)
    <3>1. id \in Listed(g.slots[k].out) /\ (k = i => id # b)  BY <2>1, <1>9
    <3>2. IsLive(g, id) /\ IdAt(g, k) \in Listed(g.slots[id[1]].in) /\ id \in NodeIds
      BY <3>1, <2>1, <2>3 DEF Mirrored, Slot
    <3>3. id[1] \in Occupied(g) /\ IdAt(g, id[1]) = id  BY <3>2, <1>1, LiveFacts
    <3>4. id[1] \in SlotsOf(g)  BY <3>3, <1>4
    <3>5. ~(id[1] = j /\ IdAt(g, k) = a)
      <4>1. id[1] = j => id = b  BY <3>3, <1>2 DEF j, b
      <4>2. IdAt(g, k) = a => k = i  BY <2>1, <1>4 DEF i
      <4> QED  BY <4>1, <4>2, <3>1
    <3>6. IdAt(g, k) \in Listed(h.slots[id[1]].in)  BY <3>2, <3>4, <3>5, <1>9
    <3> QED  BY <3>2, <3>6, <2>1, <1>4 DEF Slot
  <2>5. ASSUME NEW id \in Listed(h.slots[k].in)
        PROVE  IsLive(h, id) /\ IdAt(h, k) \in Listed(Slot(h, id).out)
    <3>1. id \in Listed(g.slots[k].in) /\ (k = j => id # a)  BY <2>1, <1>9
    <3>2. IsLive(g, id) /\ IdAt(g, k) \in Listed(g.slots[id[1]].out) /\ id \in NodeIds
      BY <3>1, <2>1, <2>3 DEF Mirrored, Slot
    <3>3. id[1] \in Occupied(g) /\ IdAt(g, id[1]) = id  BY <3>2, <1>1, LiveFacts
    <3>4. id[1] \in SlotsOf(g)  BY <3>3, <1>4
    <3>5. ~(id[1] = i /\ IdAt(g, k) = b)
      <4>1. id[1] = i => id = a  BY <3>3, <1>2 DEF i, a
      <4>2. IdAt(g, k) = b => k = j  BY <2>1, <1>4 DEF j
      <4> QED  BY <4>1, <4>2, <3>1
    <3>6. IdAt(g, k) \in Listed(h.slots[id[1]].out)  BY <3>2, <3>4, <3>5, <1>9
    <3> QED  BY <3>2, <3>6, <2>1, <1>4 DEF Slot
  <2> QED  BY <2>4, <2>5 DEF Mirrored
<1>12. \A f : f \in OutEdges(h) <=> f \in OutEdges(g) /\ f # e
  <2> SUFFICES ASSUME NEW f PROVE f \in OutEdges(h) <=> f \in OutEdges(g) /\ f # e  OBVIOUS
  <2>1. f \in OutEdges(h) <=> \E k \in Occupied(g) : \E id \in Listed(h.slots[k].out) : f = <<IdAt(g, k), id>>
    <3>1. f \in OutEdges(h) <=> \E k \in Occupied(h) : \E id \in Listed(h.slots[k].out) : f = <<IdAt(h, k), id>>
      BY <1>3, EdgesAre
    <3> QED  BY <3>1, <1>4
  <2>2. f \in OutEdges(g) <=> \E k \in Occupied(g) : \E id \in Listed(g.slots[k].out) : f = <<IdAt(g, k), id>>
    BY <1>1, EdgesAre
  <2>3. ASSUME NEW k \in Occupied(g), NEW id \in Listed(h.slots[k].out), f = <<IdAt(g, k), id>>
        PROVE  f \in OutEdges(g) /\ f # e
    <3>1. k \in SlotsOf(g)  BY <1>4
    <3>2. id \in Listed(g.slots[k].out) /\ (k = i => id # b)  BY <3>1, <1>9
    <3>3. f = e => IdAt(g, k) = a /\ id = b  BY <2>3, <1>3
    <3>4. IdAt(g, k) = a => k = i  BY <3>1, <1>4 DEF i
    <3> QED  BY <3>2, <3>3, <3>4, <2>2, <2>3
  <2>4. ASSUME NEW k \in Occupied(g), NEW id \in Listed(g.slots[k].out), f = <<IdAt(g, k), id>>, f # e
        PROVE  id \in Listed(h.slots[k].out)
    <3>1. k \in SlotsOf(g)  BY <1>4
    <3>2. ~(k = i /\ id = b)  BY <2>4, <1>2, <1>3
    <3> QED  BY <3>1, <3>2, <2>4, <1>9
  <2> QED  BY <2>1, <2>2, <2>3, <2>4
<1>13. OutEdges(h) = OutEdges(g) \ {e}  BY <1>12
<1>14. h.edge_count = Cardinality(OutEdges(h))
  <2>1. IsFiniteSet(OutEdges(g))  BY <1>1, EdgesFinite
  <2>2. Cardinality(OutEdges(g) \ {e}) = Cardinality(OutEdges(g)) - 1  BY <2>1, FS_RemoveElement
  <2>3. g.edge_count = Cardinality(OutEdges(g))  BY DEF Linked
  <2> QED  BY <2>2, <2>3, <1>2, <1>13
<1> QED  BY <1>2, <1>3, <1>10, <1>11, <1>13, <1>14 DEF Trimmed, Linked

\* An edge that is not there, of a node that is.
LEMMA RemoveNoEdge ==
  ASSUME NEW g, Linked(g), NEW e \in NodeIds \X NodeIds, IsLive(g, e[1]), e \notin OutEdges(g)
  PROVE  graph_remove_edge_now(g, e) = g
<1>1. Typed(g)  BY DEF Linked
<1> DEFINE i == e[1][1]
<1>2. i \in Occupied(g) /\ IdAt(g, i) = e[1] /\ e = <<e[1], e[2]>>  BY <1>1, LiveFacts
<1>3. g.slots[i] \in SlotType  BY <1>1, <1>2, SlotFacts
<1>4. g.slots[i].out \in Seq(NodeIds)  BY <1>3 DEF SlotType
<1>5. e[2] \notin Listed(g.slots[i].out)  BY <1>1, <1>2, EdgesAre
<1>6. ~Contains(Slot(g, e[1]).out, e[2])  BY <1>4, <1>5, ListFacts DEF Slot
<1> QED  BY <1>6 DEF graph_remove_edge_now

\* Graphs in a row that have the same nodes.
LEMMA SameTwice ==
  ASSUME NEW g, NEW h, NEW k, Same(g, h), Same(h, k)
  PROVE  Same(g, k)
BY DEF Same, SlotsOf

\* Some of a list of edges, all of nodes that are there.
LEMMA RemoveEdgesStep ==
  ASSUME NEW g, Linked(g), NEW edges \in Seq(NodeIds \X NodeIds),
         \A k \in 1..Len(edges) : IsLive(g, edges[k][1]),
         NEW S, NEW h, h = RemoveEdges(g, edges, S)
  PROVE  Trimmed(g, h, OutEdges(g) \ (Listed(edges) \cap S))
<1> DEFINE n == Len(edges)
           Gone(k) == {edges[m] : m \in 1..k} \cap S
           step(f, k) == IF edges[k] \in S THEN graph_remove_edge_now(f, edges[k]) ELSE f
           R == [k \in 0..n |-> {f \in GraphType : Trimmed(g, f, OutEdges(g) \ Gone(k))}]
           F == [k \in 1..n |-> [f \in R[k - 1] |-> step(f, k)]]
           Runs(f) == f = [k \in 0..n |-> IF k = 0 THEN g
                                          ELSE IF edges[k] \in S THEN graph_remove_edge_now(f[k - 1], edges[k])
                                          ELSE f[k - 1]]
           after == CHOOSE f : Runs(f)
<1>1. n \in Nat /\ Typed(g) /\ \A k \in 1..n : edges[k] \in NodeIds \X NodeIds
  BY ElementOfSeq DEF Linked
<1>2. g \in R[0]
  <2>1. Gone(0) = {} /\ 0 \in 0..n  BY <1>1
  <2>2. Same(g, g) /\ g \in GraphType  BY <1>1 DEF Same, Typed
  <2> QED  BY <2>1, <2>2, <1>1 DEF Trimmed
<1>3. ASSUME NEW k \in 1..n, NEW f \in R[k - 1] PROVE step(f, k) \in R[k]
  <2> DEFINE e == edges[k]
             z == step(f, k)
  <2>1. k \in 0..n /\ k - 1 \in 0..n /\ e \in NodeIds \X NodeIds /\ IsLive(g, e[1])  BY <1>1
  <2>2. Gone(k) = IF e \in S THEN Gone(k - 1) \cup {e} ELSE Gone(k - 1)
    <3>1. \A m : m \in 1..k <=> m \in 1..(k - 1) \/ m = k  BY <1>1
    <3> QED  BY <3>1
  <2>3. f \in GraphType /\ Trimmed(g, f, OutEdges(g) \ Gone(k - 1))  BY <2>1
  <2>4. Linked(f) /\ Same(g, f) /\ OutEdges(f) = OutEdges(g) \ Gone(k - 1) /\ Typed(f)
    BY <2>3 DEF Trimmed, Linked
  <2>5. IsLive(f, e[1])  BY <2>1, <2>4, <1>1, SameFacts
  <2> HIDE DEF Gone, e
  <2>6. CASE e \notin S
    <3>1. z = f  BY <2>6 DEF e
    <3> QED  BY <3>1, <2>1, <2>2, <2>3, <2>6
  <2>7. CASE e \in S /\ e \in OutEdges(f)
    <3>1. z = graph_remove_edge_now(f, e)  BY <2>7 DEF e
    <3> HIDE DEF z
    <3>2. Trimmed(f, z, OutEdges(f) \ {e})  BY <3>1, <2>4, <2>7, RemoveEdgeStep
    <3>3. Linked(z) /\ Same(f, z) /\ OutEdges(z) = OutEdges(f) \ {e}  BY <3>2 DEF Trimmed
    <3>4. Same(g, z)  BY <2>4, <3>3, SameTwice
    <3>5. OutEdges(z) = OutEdges(g) \ Gone(k)  BY <2>2, <2>4, <2>7, <3>3
    <3>6. Trimmed(g, z, OutEdges(g) \ Gone(k)) /\ z \in GraphType
      BY <3>3, <3>4, <3>5 DEF Trimmed, Linked, Typed
    <3> QED  BY <3>6, <2>1 DEF z
  <2>8. CASE e \in S /\ e \notin OutEdges(f)
    <3>1. z = f
      <4>1. graph_remove_edge_now(f, e) = f  BY <2>1, <2>4, <2>5, <2>8, RemoveNoEdge
      <4> QED  BY <4>1, <2>8 DEF e
    <3>2. OutEdges(f) = OutEdges(g) \ Gone(k)  BY <2>2, <2>4, <2>8
    <3>3. Trimmed(g, f, OutEdges(g) \ Gone(k))  BY <3>2, <2>4 DEF Trimmed
    <3> QED  BY <3>1, <3>3, <2>1, <2>3
  <2> QED  BY <2>6, <2>7, <2>8
<1>4. PICK f : RunOfRounds(n, R, g, F, f)
  <2>1. \A k \in 1..n : \A x \in R[k - 1] : F[k][x] \in R[k]
    <3> SUFFICES ASSUME NEW k \in 1..n, NEW x \in R[k - 1] PROVE F[k][x] \in R[k]  OBVIOUS
    <3>1. F[k][x] = step(x, k)
      <4> HIDE DEF R, step
      <4> QED  OBVIOUS
    <3> HIDE DEF F, R, step
    <3> QED  BY <3>1, <1>3
  <2> HIDE DEF F, R, n
  <2>2. Rounds(n, R, g, F)  BY <2>1, <1>1, <1>2 DEF Rounds
  <2> QED  BY <2>2, RunThrough
<1>5. Runs(f)
  <2> HIDE DEF R
  <2>1. f = [k \in 0..n |-> f[k]] /\ f[0] = g /\ \A k \in 0..n : f[k] \in R[k]
    BY <1>4 DEF RunOfRounds
  <2>2. ASSUME NEW k \in 0..n, k # 0 PROVE f[k] = step(f[k - 1], k)
    <3> HIDE DEF step, n
    <3>1. k \in 1..n /\ k - 1 \in 0..n  BY <1>1, <2>2
    <3>2. f[k] = F[k][f[k - 1]]
      <4> HIDE DEF F
      <4> QED  BY <3>1, <1>4 DEF RunOfRounds
    <3>3. f[k - 1] \in R[k - 1]  BY <3>1, <2>1
    <3> QED  BY <3>1, <3>2, <3>3
  <2> HIDE DEF F
  <2> QED  BY <2>1, <2>2
<1>6. Runs(after)  BY <1>5
<1> HIDE DEF after, F, n
<1>7. \A k \in 0..n : after[k] \in R[k]
  <2>1. after[0] \in R[0]
    <3>1. after[0] = g  BY <1>1, <1>6
    <3> QED  BY <3>1, <1>2
  <2>2. ASSUME NEW k \in 1..n, after[k - 1] \in R[k - 1] PROVE after[k] \in R[k]
    <3>1. k # 0 /\ k \in 0..n  BY <1>1
    <3>2. after[k] = step(after[k - 1], k)  BY <3>1, <1>6
    <3> HIDE DEF R, step
    <3> QED  BY <3>2, <2>2, <1>3
  <2> HIDE DEF R
  <2> QED  BY <2>1, <2>2, <1>1, StaysIn
<1>8. h = after[n]  BY DEF RemoveEdges, after, n
<1>9. h \in R[n] /\ n \in 0..n
  <2> HIDE DEF R
  <2> QED  BY <1>1, <1>7, <1>8
<1>10. Trimmed(g, h, OutEdges(g) \ Gone(n))  BY <1>9
<1>11. Gone(n) = Listed(edges) \cap S  BY DEF Listed, n
<1> QED  BY <1>10, <1>11

------------------------------------------------------------------------------
\* The sweeps of a commit that remove edges.

\* The edges from a node to the nodes of a list.
LEMMA EdgesFromFacts ==
  ASSUME NEW g, Typed(g), NEW i \in SlotsOf(g), NEW t \in Seq(NodeIds)
  PROVE  /\ EdgesFrom(g, i, t) \in Seq(NodeIds \X NodeIds)
         /\ Listed(EdgesFrom(g, i, t)) = {<<IdAt(g, i), x>> : x \in Listed(t)}
         /\ \A k \in 1..Len(EdgesFrom(g, i, t)) : EdgesFrom(g, i, t)[k][1] = IdAt(g, i)
         /\ Range(EdgesFrom(g, i, t)) = Listed(EdgesFrom(g, i, t))
<1> DEFINE n == Len(t)
           s == [k \in 1..n |-> <<IdAt(g, i), t[k]>>]
<1>1. n \in Nat /\ DOMAIN t = 1..n /\ \A k \in 1..n : t[k] \in NodeIds  BY ElementOfSeq
<1>2. IdAt(g, i) \in NodeIds  BY SlotFacts
<1>3. s = EdgesFrom(g, i, t)  BY <1>1 DEF EdgesFrom
<1>4. s \in [1..n -> NodeIds \X NodeIds]  BY <1>1, <1>2
<1> HIDE DEF n
<1>5. s \in Seq(NodeIds \X NodeIds) /\ Len(s) = n  BY <1>1, <1>4
<1>6. Listed(s) = {<<IdAt(g, i), x>> : x \in Listed(t)}  BY <1>5 DEF Listed, n
<1>7. \A k \in 1..Len(s) : s[k][1] = IdAt(g, i)  BY <1>5
<1>8. Range(s) = Listed(s)  BY <1>5, ListFacts
<1> HIDE DEF s
<1> QED  BY <1>3, <1>5, <1>6, <1>7, <1>8

\* A list read backwards lists the same.
LEMMA ReverseFacts ==
  ASSUME NEW D, NEW s \in Seq(D)
  PROVE  Reverse(s) \in Seq(D) /\ Listed(Reverse(s)) = Listed(s)
<1> DEFINE n == Len(s)
           t == [k \in 1..n |-> s[(n - k) + 1]]
<1>1. n \in Nat /\ \A k \in 1..n : s[k] \in D  BY ElementOfSeq
<1>2. \A k \in 1..n : (n - k) + 1 \in 1..n /\ (n - ((n - k) + 1)) + 1 = k  BY <1>1
<1>3. t = Reverse(s)  BY DEF Reverse
<1>4. t \in [1..n -> D]  BY <1>1, <1>2
<1> HIDE DEF n
<1>5. t \in Seq(D) /\ Len(t) = n  BY <1>1, <1>4
<1>6. \A k \in 1..n : t[k] = s[(n - k) + 1] /\ t[(n - k) + 1] = s[k]  BY <1>2
<1> HIDE DEF t
<1>7. Listed(t) \subseteq Listed(s)
  <2> SUFFICES ASSUME NEW k \in 1..n PROVE t[k] \in Listed(s)  BY <1>5 DEF Listed
  <2> QED  BY <1>2, <1>6 DEF Listed, n
<1>8. Listed(s) \subseteq Listed(t)
  <2> SUFFICES ASSUME NEW k \in 1..n PROVE s[k] \in Listed(t)  BY DEF Listed, n
  <2> QED  BY <1>2, <1>5, <1>6 DEF Listed
<1> QED  BY <1>3, <1>5, <1>7, <1>8

\* The edges of a slot are those that start there.
LEMMA EdgesOfSlot ==
  ASSUME NEW g, Typed(g), NEW i \in Occupied(g), NEW e
  PROVE  e \in OutEdges(g) /\ e[1][1] = i
           <=> \E x \in Listed(g.slots[i].out) : e = <<IdAt(g, i), x>>
<1>1. \A k \in Occupied(g) : IdAt(g, k)[1] = k  BY DEF IdAt
<1>2. e \in OutEdges(g) <=> \E k \in Occupied(g) : \E x \in Listed(g.slots[k].out) : e = <<IdAt(g, k), x>>
  BY EdgesAre
<1> QED  BY <1>1, <1>2

\* What a sweep that removes the edges in S is left with after k slots.
LeftOf(g, S, k) == {e \in OutEdges(g) : ~(e[1][1] \in 1..k /\ e \in S)}

FromMarked(g) == {e \in OutEdges(g) : e[1][1] \in Marked(g)}
ToMarked(g) == {e \in OutEdges(g) : e[1][1] \notin Marked(g) /\ e[2][1] \in Marked(g)}

\* A marked slot loses the edges that start there.
LEMMA UnlinkMarkedStep ==
  ASSUME NEW g, Linked(g), NEW i \in SlotsOf(g), NEW h, h = UnlinkMarked(g, i)
  PROVE  Trimmed(g, h, {e \in OutEdges(g) : ~(e[1][1] = i /\ i \in Marked(g))})
<1>1. Typed(g) /\ Same(g, g)  BY DEF Linked, Same
<1>2. CASE i \notin Marked(g)
  <2>1. h = g  BY <1>2 DEF UnlinkMarked
  <2>2. {e \in OutEdges(g) : ~(e[1][1] = i /\ i \in Marked(g))} = OutEdges(g)  BY <1>2
  <2> QED  BY <2>1, <2>2, <1>1 DEF Trimmed
<1>3. CASE i \in Marked(g)
  <2> DEFINE t == Reverse(g.slots[i].out)
             es == EdgesFrom(g, i, t)
  <2>1. i \in Occupied(g) /\ g.slots[i] \in SlotType /\ IdAt(g, i) \in NodeIds  BY <1>1, <1>3, SlotFacts
  <2>2. g.slots[i].out \in Seq(NodeIds)  BY <2>1 DEF SlotType
  <2>3. t \in Seq(NodeIds) /\ Listed(t) = Listed(g.slots[i].out)  BY <2>2, ReverseFacts
  <2> HIDE DEF t
  <2>4. /\ es \in Seq(NodeIds \X NodeIds) /\ Listed(es) = {<<IdAt(g, i), x>> : x \in Listed(t)}
        /\ \A k \in 1..Len(es) : es[k][1] = IdAt(g, i)
        /\ Range(es) = Listed(es)
    BY <1>1, <2>3, EdgesFromFacts
  <2>5. h = RemoveEdges(g, es, Range(es))
    BY <1>3 DEF UnlinkMarked, graph_remove_all_outgoing_edges, t
  <2> HIDE DEF es
  <2>6. IsLive(g, IdAt(g, i))
    <3>1. IdAt(g, i)[1] = i  BY DEF IdAt
    <3> QED  BY <3>1, <1>1, <2>1, LiveFacts
  <2>7. Trimmed(g, h, OutEdges(g) \ (Listed(es) \cap Range(es)))
    BY <2>4, <2>5, <2>6, RemoveEdgesStep
  <2>8. OutEdges(g) \ (Listed(es) \cap Range(es)) = {e \in OutEdges(g) : ~(e[1][1] = i /\ i \in Marked(g))}
    <3>1. \A e \in OutEdges(g) : e[1][1] = i <=> e \in Listed(es)  BY <1>1, <2>1, <2>3, <2>4, EdgesOfSlot
    <3> QED  BY <3>1, <2>4, <1>3
  <2> QED  BY <2>7, <2>8
<1> QED  BY <1>2, <1>3

\* Another one loses those that lead to marked slots.
LEMMA UnlinkLiveStep ==
  ASSUME NEW g, Linked(g), NEW i \in SlotsOf(g), NEW h, h = UnlinkLive(g, i)
  PROVE  Trimmed(g, h, {e \in OutEdges(g) : ~(e[1][1] = i /\ i \notin Marked(g) /\ e[2][1] \in Marked(g))})
<1>1. Typed(g) /\ Same(g, g)  BY DEF Linked, Same
<1>2. CASE i \notin Occupied(g) \ Marked(g)
  <2>1. h = g  BY <1>2 DEF UnlinkLive
  <2>2. \A e \in OutEdges(g) : e[1][1] \in Occupied(g)
    <3>1. \A k \in Occupied(g) : IdAt(g, k)[1] = k  BY DEF IdAt
    <3> QED  BY <3>1, <1>1, EdgesAre
  <2>3. {e \in OutEdges(g) : ~(e[1][1] = i /\ i \notin Marked(g) /\ e[2][1] \in Marked(g))} = OutEdges(g)
    BY <1>2, <2>2
  <2> QED  BY <2>1, <2>3, <1>1 DEF Trimmed
<1>3. CASE i \in Occupied(g) \ Marked(g)
  <2> DEFINE t == g.slots[i].out
             es == EdgesFrom(g, i, t)
             S == {e \in Range(es) : ~IsLive(g, e[2]) \/ Slot(g, e[2]).marked}
  <2>1. i \in Occupied(g) /\ g.slots[i] \in SlotType /\ IdAt(g, i) \in NodeIds  BY <1>1, <1>3, SlotFacts
  <2>2. t \in Seq(NodeIds)  BY <2>1 DEF SlotType
  <2>3. /\ es \in Seq(NodeIds \X NodeIds) /\ Listed(es) = {<<IdAt(g, i), x>> : x \in Listed(t)}
        /\ \A k \in 1..Len(es) : es[k][1] = IdAt(g, i)
        /\ Range(es) = Listed(es)
    <3> HIDE DEF t
    <3> QED  BY <1>1, <2>2, EdgesFromFacts
  <2>4. h = RemoveEdges(g, es, S)
    BY <1>3 DEF UnlinkLive, graph_remove_marked_outgoing_edges
  <2>5. IsLive(g, IdAt(g, i))
    <3>1. IdAt(g, i)[1] = i  BY DEF IdAt
    <3> QED  BY <3>1, <1>1, <2>1, LiveFacts
  <2>6. \A e \in OutEdges(g) : e[1][1] = i <=> e \in Listed(es)  BY <1>1, <2>1, <2>3, EdgesOfSlot
  <2>7. \A e \in OutEdges(g) : e \in S <=> e[1][1] = i /\ e[2][1] \in Marked(g)
    <3> SUFFICES ASSUME NEW e \in OutEdges(g), e \in Listed(es)
                 PROVE  ~IsLive(g, e[2]) \/ Slot(g, e[2]).marked <=> e[2][1] \in Marked(g)
      BY <2>3, <2>6
    <3>1. e[2] \in Listed(t) /\ e \in NodeIds \X NodeIds  BY <2>3, <1>1, EdgesFinite
    <3>2. IsLive(g, e[2])  BY <3>1, <2>1 DEF Linked, Mirrored
    <3>3. e[2][1] \in Occupied(g)  BY <3>1, <3>2, <1>1, LiveFacts
    <3> QED  BY <3>2, <3>3 DEF Marked, Slot
  <2> HIDE DEF es, S
  <2>8. Trimmed(g, h, OutEdges(g) \ (Listed(es) \cap S))
    BY <2>3, <2>4, <2>5, RemoveEdgesStep
  <2>9. OutEdges(g) \ (Listed(es) \cap S)
          = {e \in OutEdges(g) : ~(e[1][1] = i /\ i \notin Marked(g) /\ e[2][1] \in Marked(g))}
    BY <2>6, <2>7, <1>3
  <2> QED  BY <2>8, <2>9
<1> QED  BY <1>2, <1>3

\* The sweep that empties the lists of the marked slots.
LEMMA UnlinkMarkedSweep ==
  ASSUME NEW g, Linked(g), NEW h, h = Sweep(UnlinkMarked, g)
  PROVE  Trimmed(g, h, OutEdges(g) \ FromMarked(g))
<1> DEFINE n == Len(g.slots)
           R == [k \in 0..n |-> {f \in GraphType : Trimmed(g, f, LeftOf(g, FromMarked(g), k))}]
           F == [k \in 1..n |-> [f \in R[k - 1] |-> UnlinkMarked(f, k)]]
           Runs(f) == f = [k \in 0..n |-> IF k = 0 THEN g ELSE UnlinkMarked(f[k - 1], k)]
           after == CHOOSE f : Runs(f)
<1>1. n \in Nat /\ Typed(g)  BY SlotFacts DEF Linked
<1>2. g \in R[0]
  <2>1. LeftOf(g, FromMarked(g), 0) = OutEdges(g) /\ 0 \in 0..n  BY <1>1 DEF LeftOf
  <2>2. Same(g, g) /\ g \in GraphType  BY <1>1 DEF Same, Typed
  <2> QED  BY <2>1, <2>2 DEF Trimmed
<1>3. ASSUME NEW k \in 1..n, NEW f \in R[k - 1] PROVE UnlinkMarked(f, k) \in R[k]
  <2> DEFINE z == UnlinkMarked(f, k)
  <2>1. k \in 0..n /\ k - 1 \in 0..n /\ k \in SlotsOf(g)  BY <1>1 DEF SlotsOf
  <2>2. Trimmed(g, f, LeftOf(g, FromMarked(g), k - 1))  BY <2>1
  <2>3. Linked(f) /\ Same(g, f) /\ OutEdges(f) = LeftOf(g, FromMarked(g), k - 1) /\ Typed(f)
    BY <2>2 DEF Trimmed, Linked
  <2>4. SlotsOf(f) = SlotsOf(g) /\ Marked(f) = Marked(g)  BY <1>1, <2>3, SameFacts
  <2> HIDE DEF z
  <2>5. Trimmed(f, z, {e \in OutEdges(f) : ~(e[1][1] = k /\ k \in Marked(f))})
    BY <2>1, <2>3, <2>4, UnlinkMarkedStep DEF z
  <2>6. Linked(z) /\ Same(f, z) /\ OutEdges(z) = {e \in OutEdges(f) : ~(e[1][1] = k /\ k \in Marked(f))}
    BY <2>5 DEF Trimmed
  <2>7. Same(g, z)  BY <2>3, <2>6, SameTwice
  <2>8. OutEdges(z) = LeftOf(g, FromMarked(g), k)
    <3>1. \A m : m \in 1..k <=> m \in 1..(k - 1) \/ m = k  BY <1>1
    <3> QED  BY <3>1, <2>3, <2>4, <2>6 DEF LeftOf, FromMarked
  <2>9. Trimmed(g, z, LeftOf(g, FromMarked(g), k)) /\ z \in GraphType
    BY <2>6, <2>7, <2>8 DEF Trimmed, Linked, Typed
  <2> QED  BY <2>1, <2>9 DEF z
<1>4. PICK f : RunOfRounds(n, R, g, F, f)
  <2>1. \A k \in 1..n : \A x \in R[k - 1] : F[k][x] \in R[k]
    <3> SUFFICES ASSUME NEW k \in 1..n, NEW x \in R[k - 1] PROVE F[k][x] \in R[k]  OBVIOUS
    <3>1. F[k][x] = UnlinkMarked(x, k)
      <4> HIDE DEF R
      <4> QED  OBVIOUS
    <3> HIDE DEF F, R
    <3> QED  BY <3>1, <1>3
  <2> HIDE DEF F, R, n
  <2>2. Rounds(n, R, g, F)  BY <2>1, <1>1, <1>2 DEF Rounds
  <2> QED  BY <2>2, RunThrough
<1>5. Runs(f)
  <2> HIDE DEF R
  <2>1. f = [k \in 0..n |-> f[k]] /\ f[0] = g /\ \A k \in 0..n : f[k] \in R[k]
    BY <1>4 DEF RunOfRounds
  <2>2. ASSUME NEW k \in 0..n, k # 0 PROVE f[k] = UnlinkMarked(f[k - 1], k)
    <3> HIDE DEF n
    <3>1. k \in 1..n /\ k - 1 \in 0..n  BY <1>1, <2>2
    <3>2. f[k] = F[k][f[k - 1]]
      <4> HIDE DEF F
      <4> QED  BY <3>1, <1>4 DEF RunOfRounds
    <3>3. f[k - 1] \in R[k - 1]  BY <3>1, <2>1
    <3> QED  BY <3>1, <3>2, <3>3
  <2> HIDE DEF F
  <2> QED  BY <2>1, <2>2
<1>6. Runs(after)  BY <1>5
<1> HIDE DEF after, F, n
<1>7. \A k \in 0..n : after[k] \in R[k]
  <2>1. after[0] \in R[0]
    <3>1. after[0] = g  BY <1>1, <1>6
    <3> QED  BY <3>1, <1>2
  <2>2. ASSUME NEW k \in 1..n, after[k - 1] \in R[k - 1] PROVE after[k] \in R[k]
    <3>1. k # 0 /\ k \in 0..n  BY <1>1
    <3>2. after[k] = UnlinkMarked(after[k - 1], k)  BY <3>1, <1>6
    <3> HIDE DEF R
    <3> QED  BY <3>2, <2>2, <1>3
  <2> HIDE DEF R
  <2> QED  BY <2>1, <2>2, <1>1, StaysIn
<1>8. h = after[n]  BY DEF Sweep, after, n
<1>9. h \in R[n] /\ n \in 0..n
  <2> HIDE DEF R
  <2> QED  BY <1>1, <1>7, <1>8
<1>10. Trimmed(g, h, LeftOf(g, FromMarked(g), n))  BY <1>9
<1>11. LeftOf(g, FromMarked(g), n) = OutEdges(g) \ FromMarked(g)
  <2>1. \A e \in OutEdges(g) : e[1][1] \in 1..n
    <3>1. \A k \in Occupied(g) : IdAt(g, k)[1] = k /\ k \in SlotsOf(g)  BY <1>1, SlotFacts DEF IdAt
    <3> QED  BY <3>1, <1>1, EdgesAre DEF n, SlotsOf
  <2> QED  BY <2>1 DEF LeftOf
<1> QED  BY <1>10, <1>11

\* And the one that takes the marked slots off the other lists.
LEMMA UnlinkLiveSweep ==
  ASSUME NEW g, Linked(g), NEW h, h = Sweep(UnlinkLive, g)
  PROVE  Trimmed(g, h, OutEdges(g) \ ToMarked(g))
<1> DEFINE n == Len(g.slots)
           R == [k \in 0..n |-> {f \in GraphType : Trimmed(g, f, LeftOf(g, ToMarked(g), k))}]
           F == [k \in 1..n |-> [f \in R[k - 1] |-> UnlinkLive(f, k)]]
           Runs(f) == f = [k \in 0..n |-> IF k = 0 THEN g ELSE UnlinkLive(f[k - 1], k)]
           after == CHOOSE f : Runs(f)
<1>1. n \in Nat /\ Typed(g)  BY SlotFacts DEF Linked
<1>2. g \in R[0]
  <2>1. LeftOf(g, ToMarked(g), 0) = OutEdges(g) /\ 0 \in 0..n  BY <1>1 DEF LeftOf
  <2>2. Same(g, g) /\ g \in GraphType  BY <1>1 DEF Same, Typed
  <2> QED  BY <2>1, <2>2 DEF Trimmed
<1>3. ASSUME NEW k \in 1..n, NEW f \in R[k - 1] PROVE UnlinkLive(f, k) \in R[k]
  <2> DEFINE z == UnlinkLive(f, k)
  <2>1. k \in 0..n /\ k - 1 \in 0..n /\ k \in SlotsOf(g)  BY <1>1 DEF SlotsOf
  <2>2. Trimmed(g, f, LeftOf(g, ToMarked(g), k - 1))  BY <2>1
  <2>3. Linked(f) /\ Same(g, f) /\ OutEdges(f) = LeftOf(g, ToMarked(g), k - 1) /\ Typed(f)
    BY <2>2 DEF Trimmed, Linked
  <2>4. SlotsOf(f) = SlotsOf(g) /\ Marked(f) = Marked(g)  BY <1>1, <2>3, SameFacts
  <2> HIDE DEF z
  <2>5. Trimmed(f, z, {e \in OutEdges(f) : ~(e[1][1] = k /\ k \notin Marked(f) /\ e[2][1] \in Marked(f))})
    BY <2>1, <2>3, <2>4, UnlinkLiveStep DEF z
  <2>6. Linked(z) /\ Same(f, z) /\ OutEdges(z) = {e \in OutEdges(f) : ~(e[1][1] = k /\ k \notin Marked(f) /\ e[2][1] \in Marked(f))}
    BY <2>5 DEF Trimmed
  <2>7. Same(g, z)  BY <2>3, <2>6, SameTwice
  <2>8. OutEdges(z) = LeftOf(g, ToMarked(g), k)
    <3>1. \A m : m \in 1..k <=> m \in 1..(k - 1) \/ m = k  BY <1>1
    <3> QED  BY <3>1, <2>3, <2>4, <2>6 DEF LeftOf, ToMarked
  <2>9. Trimmed(g, z, LeftOf(g, ToMarked(g), k)) /\ z \in GraphType
    BY <2>6, <2>7, <2>8 DEF Trimmed, Linked, Typed
  <2> QED  BY <2>1, <2>9 DEF z
<1>4. PICK f : RunOfRounds(n, R, g, F, f)
  <2>1. \A k \in 1..n : \A x \in R[k - 1] : F[k][x] \in R[k]
    <3> SUFFICES ASSUME NEW k \in 1..n, NEW x \in R[k - 1] PROVE F[k][x] \in R[k]  OBVIOUS
    <3>1. F[k][x] = UnlinkLive(x, k)
      <4> HIDE DEF R
      <4> QED  OBVIOUS
    <3> HIDE DEF F, R
    <3> QED  BY <3>1, <1>3
  <2> HIDE DEF F, R, n
  <2>2. Rounds(n, R, g, F)  BY <2>1, <1>1, <1>2 DEF Rounds
  <2> QED  BY <2>2, RunThrough
<1>5. Runs(f)
  <2> HIDE DEF R
  <2>1. f = [k \in 0..n |-> f[k]] /\ f[0] = g /\ \A k \in 0..n : f[k] \in R[k]
    BY <1>4 DEF RunOfRounds
  <2>2. ASSUME NEW k \in 0..n, k # 0 PROVE f[k] = UnlinkLive(f[k - 1], k)
    <3> HIDE DEF n
    <3>1. k \in 1..n /\ k - 1 \in 0..n  BY <1>1, <2>2
    <3>2. f[k] = F[k][f[k - 1]]
      <4> HIDE DEF F
      <4> QED  BY <3>1, <1>4 DEF RunOfRounds
    <3>3. f[k - 1] \in R[k - 1]  BY <3>1, <2>1
    <3> QED  BY <3>1, <3>2, <3>3
  <2> HIDE DEF F
  <2> QED  BY <2>1, <2>2
<1>6. Runs(after)  BY <1>5
<1> HIDE DEF after, F, n
<1>7. \A k \in 0..n : after[k] \in R[k]
  <2>1. after[0] \in R[0]
    <3>1. after[0] = g  BY <1>1, <1>6
    <3> QED  BY <3>1, <1>2
  <2>2. ASSUME NEW k \in 1..n, after[k - 1] \in R[k - 1] PROVE after[k] \in R[k]
    <3>1. k # 0 /\ k \in 0..n  BY <1>1
    <3>2. after[k] = UnlinkLive(after[k - 1], k)  BY <3>1, <1>6
    <3> HIDE DEF R
    <3> QED  BY <3>2, <2>2, <1>3
  <2> HIDE DEF R
  <2> QED  BY <2>1, <2>2, <1>1, StaysIn
<1>8. h = after[n]  BY DEF Sweep, after, n
<1>9. h \in R[n] /\ n \in 0..n
  <2> HIDE DEF R
  <2> QED  BY <1>1, <1>7, <1>8
<1>10. Trimmed(g, h, LeftOf(g, ToMarked(g), n))  BY <1>9
<1>11. LeftOf(g, ToMarked(g), n) = OutEdges(g) \ ToMarked(g)
  <2>1. \A e \in OutEdges(g) : e[1][1] \in 1..n
    <3>1. \A k \in Occupied(g) : IdAt(g, k)[1] = k /\ k \in SlotsOf(g)  BY <1>1, SlotFacts DEF IdAt
    <3> QED  BY <3>1, <1>1, EdgesAre DEF n, SlotsOf
  <2> QED  BY <2>1 DEF LeftOf
<1> QED  BY <1>10, <1>11

------------------------------------------------------------------------------
\* Free slots and their indices.

Freed(g) ==
    Once(Indices, g.free_indices) /\ Listed(g.free_indices) = SlotsOf(g) \ Occupied(g)

Counted(g) ==
    g.live_count = Cardinality(Occupied(g)) /\ g.pending_delete_count = Cardinality(Marked(g))

\* A free slot.
LEMMA FreeSlotFacts ==
  ASSUME NEW n \in 1..MaxGeneration
  PROVE  /\ FreeSlot(n) \in SlotType /\ NewSlot(n) \in SlotType /\ Tidy(FreeSlot(n)) /\ Tidy(NewSlot(n))
         /\ FreeSlot(n).occupied = FALSE /\ FreeSlot(n).marked = FALSE /\ FreeSlot(n).generation = n
         /\ FreeSlot(n).visit_count = 0 /\ FreeSlot(n).out = <<>> /\ FreeSlot(n).in = <<>>
         /\ NewSlot(n).occupied = TRUE /\ NewSlot(n).marked = FALSE /\ NewSlot(n).generation = n
         /\ NewSlot(n).visit_count = 0 /\ NewSlot(n).out = <<>> /\ NewSlot(n).in = <<>>
<1>1. <<>> \in Seq(NodeIds) /\ Len(<<>>) = 0  OBVIOUS
<1>2. Once(NodeIds, <<>>)  BY DEF Once
<1> QED  BY <1>1, <1>2 DEF FreeSlot, NewSlot, SlotType, Tidy

\* Powers of two are numbers.
LEMMA Pow2Type ==
  ASSUME NEW n \in Nat
  PROVE  NextPow2(n) \in Nat
<1> DEFINE step(x) == IF x < n THEN 2 * x ELSE x
           R == [k \in 0..n |-> Nat]
           F == [k \in 1..n |-> [x \in Nat |-> step(x)]]
           Runs(f) == f = [k \in 0..n |-> IF k = 0 THEN 1 ELSE IF f[k - 1] < n THEN 2 * f[k - 1] ELSE f[k - 1]]
           n2 == CHOOSE f : Runs(f)
<1>1. Rounds(n, R, 1, F)
  <2>1. 1 \in R[0]  OBVIOUS
  <2>2. \A x \in Nat : step(x) \in Nat  OBVIOUS
  <2>3. \A k \in 1..n : R[k - 1] = Nat /\ R[k] = Nat /\ \A x \in Nat : F[k][x] = step(x)  OBVIOUS
  <2> HIDE DEF R, F, step
  <2> QED  BY <2>1, <2>2, <2>3 DEF Rounds
<1>2. PICK f : RunOfRounds(n, R, 1, F, f)
  <2> HIDE DEF R, F
  <2> QED  BY <1>1, RunThrough
<1>3. Runs(f)
  <2>1. f = [k \in 0..n |-> f[k]] /\ f[0] = 1 /\ \A k \in 0..n : f[k] \in Nat
    BY <1>2 DEF RunOfRounds
  <2>2. ASSUME NEW k \in 0..n, k # 0 PROVE f[k] = step(f[k - 1])
    <3>1. k \in 1..n /\ k - 1 \in 0..n  BY <2>2
    <3>2. f[k] = F[k][f[k - 1]]
      <4> HIDE DEF F
      <4> QED  BY <3>1, <1>2 DEF RunOfRounds
    <3>3. f[k - 1] \in Nat  BY <3>1, <2>1
    <3> QED  BY <3>1, <3>2, <3>3
  <2> QED  BY <2>1, <2>2
<1>4. Runs(n2)  BY <1>3
<1> HIDE DEF n2, F
<1>5. \A k \in 0..n : n2[k] \in R[k]
  <2>1. n2[0] \in R[0]  BY <1>4
  <2>2. ASSUME NEW k \in 1..n, n2[k - 1] \in R[k - 1] PROVE n2[k] \in R[k]
    <3>1. k # 0 /\ k \in 0..n /\ k - 1 \in 0..n  OBVIOUS
    <3>2. n2[k] = step(n2[k - 1])  BY <3>1, <1>4
    <3>3. n2[k - 1] \in Nat  BY <3>1, <2>2
    <3> QED  BY <3>1, <3>2, <3>3
  <2> HIDE DEF R
  <2> QED  BY <2>1, <2>2, StaysIn
<1>6. n2[n] \in Nat  BY <1>5
<1> QED  BY <1>6 DEF NextPow2, n2

\* So are capacities.
LEMMA CapacityType ==
  ASSUME NEW m \in Nat, NEW c \in Nat
  PROVE  AppendCapacity(m, c) \in Nat
<1>1. NextPow2(m + 1) \in Nat  BY Pow2Type
<1> QED  BY <1>1 DEF AppendCapacity, Larger

\* An index put back, when the list gets the memory it needs.
LEMMA PushFreeIndex ==
  ASSUME ~IndexGrowthFails, NEW g, Typed(g), NEW i \in Indices, NEW h, h = graph_push_free_index(g, i)
  PROVE  /\ Typed(h) /\ h.slots = g.slots /\ h.free_indices = Append(g.free_indices, i)
         /\ h.pending_edge_removals = g.pending_edge_removals /\ h.live_count = g.live_count
         /\ h.edge_count = g.edge_count /\ h.pending_delete_count = g.pending_delete_count
         /\ h.slots_capacity = g.slots_capacity /\ h.aborted = g.aborted
<1> DEFINE c == AppendCapacity(Len(g.free_indices), g.free_capacity)
<1>1. g \in GraphType /\ g.free_indices \in Seq(Indices) /\ g.free_capacity \in Nat  BY TypedParts DEF Typed
<1>2. c \in Nat
  <2>1. Len(g.free_indices) \in Nat  BY <1>1
  <2> QED  BY <2>1, <1>1, CapacityType
<1>3. h = [g EXCEPT !.free_indices = Append(g.free_indices, i), !.free_capacity = c]
  BY <1>1 DEF graph_push_free_index, GraphType
<1>4. Append(g.free_indices, i) \in Seq(Indices)  BY <1>1, AppendProperties
<1> HIDE DEF c
<1> QED  BY <1>1, <1>2, <1>3, <1>4 DEF Typed, GraphType

\* Finitely many slots are taken.
LEMMA OccupiedFinite ==
  ASSUME NEW g, Typed(g)
  PROVE  /\ IsFiniteSet(Occupied(g)) /\ IsFiniteSet(Marked(g))
         /\ Cardinality(Occupied(g)) \in Nat /\ Cardinality(Marked(g)) \in Nat
<1>1. Len(g.slots) \in Nat /\ Occupied(g) \subseteq SlotsOf(g) /\ Marked(g) \subseteq Occupied(g)  BY SlotFacts
<1>2. IsFiniteSet(SlotsOf(g))  BY <1>1, FS_Interval DEF SlotsOf
<1>3. IsFiniteSet(Occupied(g))  BY <1>1, <1>2, FS_Subset
<1>4. IsFiniteSet(Marked(g))  BY <1>1, <1>3, FS_Subset
<1> QED  BY <1>3, <1>4, FS_CardinalityType

------------------------------------------------------------------------------
\* The sweep that gives the marked slots up.

\* No edge starts or ends at a marked node.
Isolated(g) == \A i \in Marked(g) : g.slots[i].out = <<>> /\ g.slots[i].in = <<>>

Releasable(g) == \A i \in Marked(g) : g.slots[i].generation < MaxGeneration

Ready(g) == Linked(g) /\ Freed(g) /\ Counted(g) /\ Isolated(g) /\ Releasable(g)

\* f is g without the marked nodes in S.
Released(g, f, S) ==
    /\ Len(f.slots) = Len(g.slots) /\ f.pending_edge_removals = g.pending_edge_removals
    /\ OutEdges(f) = OutEdges(g)
    /\ \A i \in SlotsOf(g) : f.slots[i] = IF i \in Marked(g) \cap S THEN FreeSlot(g.slots[i].generation + 1)
                                          ELSE g.slots[i]

\* In h, slot i of g, which has no edges, is the free slot s.
OneFreed(g, i, s, h) ==
    /\ Linked(g) /\ i \in Occupied(g) /\ g.slots[i].out = <<>> /\ g.slots[i].in = <<>>
    /\ s \in SlotType /\ Tidy(s) /\ s.occupied = FALSE
    /\ Typed(h) /\ ~h.aborted /\ h.edge_count = g.edge_count /\ Len(h.slots) = Len(g.slots)
    /\ h.slots[i] = s /\ \A k \in SlotsOf(g) : k # i => h.slots[k] = g.slots[k]

\* The edges stay.
LEMMA FreeOneSlot ==
  ASSUME NEW g, NEW i, NEW s, NEW h, OneFreed(g, i, s, h)
  PROVE  Linked(h) /\ OutEdges(h) = OutEdges(g) /\ Occupied(h) = Occupied(g) \ {i} /\ Marked(h) = Marked(g) \ {i}
<1> USE DEF OneFreed
<1>1. Typed(g) /\ SlotsOf(h) = SlotsOf(g)  BY DEF Linked, SlotsOf
<1>2. /\ DOMAIN g.slots = SlotsOf(g) /\ DOMAIN h.slots = SlotsOf(g) /\ i \in SlotsOf(g)
      /\ Occupied(g) \subseteq SlotsOf(g) /\ Marked(g) \subseteq Occupied(g)
  BY <1>1, SlotFacts
<1>3. Occupied(h) = Occupied(g) \ {i}  BY <1>2 DEF Occupied
<1>4. Marked(h) = Marked(g) \ {i}  BY <1>2, <1>3 DEF Marked
<1>5. \A k \in SlotsOf(g) : k # i => IdAt(h, k) = IdAt(g, k)  BY DEF IdAt
<1>6. \A k \in SlotsOf(h) : Tidy(h.slots[k])  BY <1>1 DEF Linked
<1>7. Listed(g.slots[i].out) = {} /\ Listed(g.slots[i].in) = {}  BY DEF Listed
<1>8. \A k \in Occupied(g) : Listed(g.slots[k].out) \subseteq NodeIds /\ Listed(g.slots[k].in) \subseteq NodeIds
  <2> SUFFICES ASSUME NEW k \in Occupied(g)
               PROVE  Listed(g.slots[k].out) \subseteq NodeIds /\ Listed(g.slots[k].in) \subseteq NodeIds
    OBVIOUS
  <2>1. Tidy(g.slots[k])  BY <1>2 DEF Linked
  <2> QED  BY <2>1, ListFacts DEF Tidy, Once
<1>9. ASSUME NEW k \in Occupied(h) PROVE Mirrored(h, k)
  <2>1. k \in Occupied(g) /\ k # i /\ k \in SlotsOf(g) /\ Mirrored(g, k)  BY <1>2, <1>3 DEF Linked
  <2>2. h.slots[k] = g.slots[k] /\ IdAt(h, k) = IdAt(g, k)  BY <2>1, <1>5
  <2>3. ASSUME NEW id \in NodeIds, IsLive(g, id), id[1] # i
        PROVE  IsLive(h, id) /\ Slot(h, id) = Slot(g, id)
    <3>1. id[1] \in SlotsOf(g)  BY <2>3, <1>2 DEF IsLive
    <3>2. h.slots[id[1]] = g.slots[id[1]]  BY <3>1, <2>3
    <3> QED  BY <2>3, <3>1, <3>2, <1>2 DEF IsLive, Slot
  <2>4. ASSUME NEW id \in Listed(h.slots[k].out)
        PROVE  IsLive(h, id) /\ IdAt(h, k) \in Listed(Slot(h, id).in)
    <3>1. id \in NodeIds /\ IsLive(g, id) /\ IdAt(g, k) \in Listed(Slot(g, id).in)
      BY <2>1, <2>2, <1>8 DEF Mirrored
    <3>2. id[1] # i  BY <3>1, <1>7 DEF Slot
    <3> QED  BY <3>1, <3>2, <2>2, <2>3
  <2>5. ASSUME NEW id \in Listed(h.slots[k].in)
        PROVE  IsLive(h, id) /\ IdAt(h, k) \in Listed(Slot(h, id).out)
    <3>1. id \in NodeIds /\ IsLive(g, id) /\ IdAt(g, k) \in Listed(Slot(g, id).out)
      BY <2>1, <2>2, <1>8 DEF Mirrored
    <3>2. id[1] # i  BY <3>1, <1>7 DEF Slot
    <3> QED  BY <3>1, <3>2, <2>2, <2>3
  <2> QED  BY <2>4, <2>5 DEF Mirrored
<1>10. OutEdges(h) = OutEdges(g)
  <2> SUFFICES ASSUME NEW e PROVE e \in OutEdges(h) <=> e \in OutEdges(g)  OBVIOUS
  <2>1. e \in OutEdges(h) <=> \E k \in Occupied(h) : \E id \in Listed(h.slots[k].out) : e = <<IdAt(h, k), id>>
    BY EdgesAre
  <2>2. e \in OutEdges(g) <=> \E k \in Occupied(g) : \E id \in Listed(g.slots[k].out) : e = <<IdAt(g, k), id>>
    BY <1>1, EdgesAre
  <2>3. \A k \in Occupied(h) : k \in Occupied(g) /\ h.slots[k] = g.slots[k] /\ IdAt(h, k) = IdAt(g, k)
    BY <1>2, <1>3, <1>5
  <2>4. \A k \in Occupied(g) : k # i => k \in Occupied(h)  BY <1>3
  <2> QED  BY <2>1, <2>2, <2>3, <2>4, <1>7
<1> QED  BY <1>3, <1>4, <1>6, <1>9, <1>10 DEF Linked

\* One slot of the sweep.
LEMMA ReleaseMarkedStep ==
  ASSUME ~IndexGrowthFails, NEW g, Ready(g), NEW i \in SlotsOf(g), NEW h, h = ReleaseMarked(g, i)
  PROVE  Ready(h) /\ Released(g, h, {i}) /\ Marked(h) = Marked(g) \ {i}
<1>1. Linked(g) /\ Typed(g) /\ Freed(g) /\ Counted(g) /\ Isolated(g) /\ Releasable(g)  BY DEF Ready, Linked
<1>2. CASE i \notin Marked(g)
  <2>1. h = g  BY <1>2 DEF ReleaseMarked
  <2>2. Released(g, g, {i})  BY <1>2 DEF Released
  <2> QED  BY <2>1, <2>2, <1>2
<1>3. CASE i \in Marked(g)
  <2> DEFINE s == FreeSlot(g.slots[i].generation + 1)
             u == graph_release_slot(g, i)
             v == graph_push_free_index(u, i)
  <2>1. /\ i \in Occupied(g) /\ i \in Indices /\ g.slots[i] \in SlotType
        /\ g.slots[i].out = <<>> /\ g.slots[i].in = <<>> /\ g.slots[i].generation < MaxGeneration
    BY <1>1, <1>3, SlotFacts DEF Isolated, Releasable
  <2>2. g.slots[i].generation + 1 \in 1..MaxGeneration
    BY <2>1, GraphAssumption DEF SlotType
  <2>3. s \in SlotType /\ Tidy(s) /\ s.occupied = FALSE  BY <2>2, FreeSlotFacts
  <2>4. SlotSet(g, i, s, u)
    <3>1. g \in GraphType /\ g.slots \in Seq(SlotType) /\ i \in DOMAIN g.slots  BY <1>1, SlotFacts DEF Typed
    <3> QED  BY <3>1 DEF SlotSet, graph_release_slot
  <2> HIDE DEF s, u, v
  <2>5. /\ Typed(u) /\ Elsewhere(g, u) /\ Len(u.slots) = Len(g.slots) /\ SlotsOf(u) = SlotsOf(g)
        /\ u.slots[i] = s /\ \A k \in SlotsOf(g) : k # i => u.slots[k] = g.slots[k]
    BY <1>1, <2>3, <2>4, SlotUpdate
  <2>6. /\ Typed(v) /\ v.slots = u.slots /\ v.free_indices = Append(u.free_indices, i)
        /\ v.pending_edge_removals = u.pending_edge_removals /\ v.live_count = u.live_count
        /\ v.edge_count = u.edge_count /\ v.pending_delete_count = u.pending_delete_count
        /\ v.aborted = u.aborted
    BY <2>1, <2>5, PushFreeIndex DEF v
  <2>7. h = [v EXCEPT !.live_count = @ - 1, !.pending_delete_count = @ - 1,
                      !.aborted = @ \/ g.slots[i].out # <<>> \/ g.slots[i].in # <<>>]
    BY <1>3 DEF ReleaseMarked, v, u
  <2>8. /\ v \in GraphType /\ v.aborted = FALSE
        /\ v.live_count = Cardinality(Occupied(g)) /\ v.pending_delete_count = Cardinality(Marked(g))
    BY <1>1, <2>5, <2>6, TypedParts DEF Typed, Elsewhere, Linked, Counted
  <2>9. /\ Cardinality(Occupied(g) \ {i}) = Cardinality(Occupied(g)) - 1 /\ Cardinality(Occupied(g) \ {i}) \in Nat
        /\ Cardinality(Marked(g) \ {i}) = Cardinality(Marked(g)) - 1 /\ Cardinality(Marked(g) \ {i}) \in Nat
    <3>1. IsFiniteSet(Occupied(g)) /\ IsFiniteSet(Marked(g))  BY <1>1, OccupiedFinite
    <3>2. IsFiniteSet(Occupied(g) \ {i}) /\ IsFiniteSet(Marked(g) \ {i})  BY <3>1, FS_RemoveElement
    <3> QED  BY <3>1, <3>2, <2>1, <1>3, FS_RemoveElement, FS_CardinalityType
  <2>10. /\ h \in GraphType /\ h.slots = u.slots /\ h.aborted = FALSE /\ h.free_indices = v.free_indices
         /\ h.live_count = Cardinality(Occupied(g) \ {i}) /\ h.edge_count = v.edge_count
         /\ h.pending_delete_count = Cardinality(Marked(g) \ {i})
         /\ h.pending_edge_removals = v.pending_edge_removals
    <3>1. h = [v EXCEPT !.live_count = Cardinality(Occupied(g) \ {i}),
                        !.pending_delete_count = Cardinality(Marked(g) \ {i}), !.aborted = FALSE]
      BY <2>1, <2>7, <2>8, <2>9 DEF GraphType
    <3> QED  BY <3>1, <2>6, <2>8, <2>9 DEF GraphType
  <2>11. Typed(h)  BY <2>5, <2>10 DEF Typed
  <2>12. /\ Len(h.slots) = Len(g.slots) /\ h.slots[i] = s /\ h.edge_count = g.edge_count
         /\ \A k \in SlotsOf(g) : k # i => h.slots[k] = g.slots[k]
         /\ h.free_indices = Append(g.free_indices, i) /\ h.pending_edge_removals = g.pending_edge_removals
    BY <2>5, <2>6, <2>10 DEF Elsewhere
  <2>13. Linked(h) /\ OutEdges(h) = OutEdges(g) /\ Occupied(h) = Occupied(g) \ {i} /\ Marked(h) = Marked(g) \ {i}
    <3>1. OneFreed(g, i, s, h)  BY <1>1, <2>1, <2>3, <2>10, <2>11, <2>12 DEF OneFreed
    <3> QED  BY <3>1, FreeOneSlot
  <2>14. SlotsOf(h) = SlotsOf(g)  BY <2>12 DEF SlotsOf
  <2>15. Freed(h)
    <3>1. Once(Indices, g.free_indices) /\ Listed(g.free_indices) = SlotsOf(g) \ Occupied(g)  BY <1>1 DEF Freed
    <3>2. Once(Indices, h.free_indices) /\ Listed(h.free_indices) = Listed(g.free_indices) \cup {i}
      BY <3>1, <2>1, <2>12, OncePush
    <3> QED  BY <3>1, <3>2, <2>13, <2>14 DEF Freed
  <2>16. Counted(h)  BY <2>10, <2>13 DEF Counted
  <2>17. Isolated(h) /\ Releasable(h)
    <3>1. \A k \in Marked(h) : k \in Marked(g) /\ h.slots[k] = g.slots[k]
      BY <1>1, <2>12, <2>13, SlotFacts
    <3> QED  BY <3>1, <1>1 DEF Isolated, Releasable
  <2>18. Released(g, h, {i})  BY <1>3, <2>12, <2>13 DEF Released, s
  <2> QED  BY <2>13, <2>15, <2>16, <2>17, <2>18 DEF Ready
<1> QED  BY <1>2, <1>3

\* The whole sweep.
LEMMA ReleaseMarkedSweep ==
  ASSUME NEW g, ~IndexGrowthFails, Ready(g), NEW h, h = Sweep(ReleaseMarked, g)
  PROVE  Ready(h) /\ Released(g, h, Marked(g)) /\ Marked(h) = {}
<1> DEFINE n == Len(g.slots)
           R == [k \in 0..n |-> {f \in GraphType : Ready(f) /\ Released(g, f, 1..k) /\ Marked(f) = Marked(g) \ (1..k)}]
           F == [k \in 1..n |-> [f \in R[k - 1] |-> ReleaseMarked(f, k)]]
           Runs(f) == f = [k \in 0..n |-> IF k = 0 THEN g ELSE ReleaseMarked(f[k - 1], k)]
           after == CHOOSE f : Runs(f)
<1>1. n \in Nat /\ Typed(g) /\ Marked(g) \subseteq 1..n  BY SlotFacts DEF Ready, Linked, SlotsOf
<1>2. g \in R[0]
  <2>1. Released(g, g, 1..0)  BY <1>1 DEF Released
  <2>2. Marked(g) = Marked(g) \ (1..0) /\ 0 \in 0..n /\ g \in GraphType  BY <1>1 DEF Typed
  <2> QED  BY <2>1, <2>2
<1>3. ASSUME NEW k \in 1..n, NEW f \in R[k - 1] PROVE ReleaseMarked(f, k) \in R[k]
  <2> DEFINE z == ReleaseMarked(f, k)
  <2>1. k \in 0..n /\ k - 1 \in 0..n /\ k \in SlotsOf(g) /\ \A m : m \in 1..k <=> m \in 1..(k - 1) \/ m = k
    BY <1>1 DEF SlotsOf
  <2>2. Ready(f) /\ Released(g, f, 1..(k - 1)) /\ Marked(f) = Marked(g) \ (1..(k - 1))  BY <2>1
  <2>3. SlotsOf(f) = SlotsOf(g)  BY <2>2 DEF Released, SlotsOf
  <2> HIDE DEF z
  <2>4. Ready(z) /\ Released(f, z, {k}) /\ Marked(z) = Marked(f) \ {k}
    BY <2>1, <2>2, <2>3, ReleaseMarkedStep DEF z
  <2>5. Marked(z) = Marked(g) \ (1..k)  BY <2>1, <2>2, <2>4
  <2>6. Released(g, z, 1..k)
    <3>1. ASSUME NEW i \in SlotsOf(g)
          PROVE  z.slots[i] = IF i \in Marked(g) \cap (1..k) THEN FreeSlot(g.slots[i].generation + 1)
                              ELSE g.slots[i]
      <4>1. f.slots[i] = IF i \in Marked(g) \cap (1..(k - 1)) THEN FreeSlot(g.slots[i].generation + 1)
                         ELSE g.slots[i]
        BY <2>2 DEF Released
      <4>2. z.slots[i] = IF i \in Marked(f) \cap {k} THEN FreeSlot(f.slots[i].generation + 1) ELSE f.slots[i]
        BY <2>3, <2>4 DEF Released
      <4>3. CASE i = k
        <5>1. i \notin 1..(k - 1) /\ i \in 1..k  BY <4>3, <1>1, <2>1
        <5> QED  BY <4>1, <4>2, <4>3, <5>1, <2>2
      <4>4. CASE i # k
        <5>1. i \in 1..(k - 1) <=> i \in 1..k  BY <4>4, <2>1
        <5> QED  BY <4>1, <4>2, <4>4, <5>1
      <4> QED  BY <4>3, <4>4
    <3> QED  BY <3>1, <2>2, <2>4 DEF Released
  <2>7. z \in GraphType  BY <2>4 DEF Ready, Linked, Typed
  <2> QED  BY <2>1, <2>4, <2>5, <2>6, <2>7 DEF z
<1>4. PICK f : RunOfRounds(n, R, g, F, f)
  <2>1. \A k \in 1..n : \A x \in R[k - 1] : F[k][x] \in R[k]
    <3> SUFFICES ASSUME NEW k \in 1..n, NEW x \in R[k - 1] PROVE F[k][x] \in R[k]  OBVIOUS
    <3>1. F[k][x] = ReleaseMarked(x, k)
      <4> HIDE DEF R
      <4> QED  OBVIOUS
    <3> HIDE DEF F, R
    <3> QED  BY <3>1, <1>3
  <2> HIDE DEF F, R, n
  <2>2. Rounds(n, R, g, F)  BY <2>1, <1>1, <1>2 DEF Rounds
  <2> QED  BY <2>2, RunThrough
<1>5. Runs(f)
  <2> HIDE DEF R
  <2>1. f = [k \in 0..n |-> f[k]] /\ f[0] = g /\ \A k \in 0..n : f[k] \in R[k]
    BY <1>4 DEF RunOfRounds
  <2>2. ASSUME NEW k \in 0..n, k # 0 PROVE f[k] = ReleaseMarked(f[k - 1], k)
    <3> HIDE DEF n
    <3>1. k \in 1..n /\ k - 1 \in 0..n  BY <1>1, <2>2
    <3>2. f[k] = F[k][f[k - 1]]
      <4> HIDE DEF F
      <4> QED  BY <3>1, <1>4 DEF RunOfRounds
    <3>3. f[k - 1] \in R[k - 1]  BY <3>1, <2>1
    <3> QED  BY <3>1, <3>2, <3>3
  <2> HIDE DEF F
  <2> QED  BY <2>1, <2>2
<1>6. Runs(after)  BY <1>5
<1> HIDE DEF after, F, n
<1>7. \A k \in 0..n : after[k] \in R[k]
  <2>1. after[0] \in R[0]
    <3>1. after[0] = g  BY <1>1, <1>6
    <3> QED  BY <3>1, <1>2
  <2>2. ASSUME NEW k \in 1..n, after[k - 1] \in R[k - 1] PROVE after[k] \in R[k]
    <3>1. k # 0 /\ k \in 0..n  BY <1>1
    <3>2. after[k] = ReleaseMarked(after[k - 1], k)  BY <3>1, <1>6
    <3> HIDE DEF R
    <3> QED  BY <3>2, <2>2, <1>3
  <2> HIDE DEF R
  <2> QED  BY <2>1, <2>2, <1>1, StaysIn
<1>8. h = after[n]  BY DEF Sweep, after, n
<1>9. h \in R[n] /\ n \in 0..n
  <2> HIDE DEF R
  <2> QED  BY <1>1, <1>7, <1>8
<1>10. Ready(h) /\ Released(g, h, 1..n) /\ Marked(h) = Marked(g) \ (1..n)  BY <1>9
<1>11. Released(g, h, Marked(g))
  <2>1. Marked(g) \cap (1..n) = Marked(g) \cap Marked(g)  BY <1>1
  <2> QED  BY <2>1, <1>10 DEF Released
<1> QED  BY <1>1, <1>10, <1>11

------------------------------------------------------------------------------
\* A commit.

Pending(g) ==
    /\ Once(NodeIds \X NodeIds, g.pending_edge_removals)
    /\ Listed(g.pending_edge_removals) \subseteq OutEdges(g)

\* What holds of the graph between two calls.
Valid(g) == Linked(g) /\ Freed(g) /\ Counted(g) /\ Pending(g)

\* Two graphs with the same slots have the same nodes and edges.
LEMMA SameSlots ==
  ASSUME NEW g, NEW h, h.slots = g.slots
  PROVE  /\ Occupied(h) = Occupied(g) /\ Marked(h) = Marked(g) /\ SlotsOf(h) = SlotsOf(g)
         /\ OutEdges(h) = OutEdges(g) /\ LiveIds(h) = LiveIds(g)
         /\ \A i : IdAt(h, i) = IdAt(g, i)
         /\ \A id : (IsLive(h, id) <=> IsLive(g, id)) /\ Slot(h, id) = Slot(g, id)
<1>1. Occupied(h) = Occupied(g) /\ SlotsOf(h) = SlotsOf(g)  BY DEF Occupied, SlotsOf
<1>2. \A i : IdAt(h, i) = IdAt(g, i)  BY DEF IdAt
<1>3. Marked(h) = Marked(g)  BY <1>1 DEF Marked
<1>4. OutEdges(h) = OutEdges(g)  BY <1>1, <1>2 DEF OutEdges
<1>5. LiveIds(h) = LiveIds(g)  BY <1>1, <1>2 DEF LiveIds
<1>6. \A id : (IsLive(h, id) <=> IsLive(g, id)) /\ Slot(h, id) = Slot(g, id)  BY DEF IsLive, Slot
<1> QED  BY <1>1, <1>2, <1>3, <1>4, <1>5, <1>6

\* And are linked alike.
LEMMA LinkedCopy ==
  ASSUME NEW g, Linked(g), NEW h, Typed(h), h.slots = g.slots, h.edge_count = g.edge_count, ~h.aborted
  PROVE  Linked(h)
<1>1. /\ Occupied(h) = Occupied(g) /\ SlotsOf(h) = SlotsOf(g) /\ OutEdges(h) = OutEdges(g)
      /\ \A i : IdAt(h, i) = IdAt(g, i)
      /\ \A id : (IsLive(h, id) <=> IsLive(g, id)) /\ Slot(h, id) = Slot(g, id)
  BY SameSlots
<1>2. \A i \in Occupied(h) : Mirrored(h, i)
  <2> SUFFICES ASSUME NEW i \in Occupied(g) PROVE Mirrored(h, i)  BY <1>1
  <2>1. Mirrored(g, i)  BY DEF Linked
  <2> QED  BY <2>1, <1>1 DEF Mirrored
<1>3. \A i \in SlotsOf(h) : Tidy(h.slots[i])  BY <1>1 DEF Linked
<1> QED  BY <1>1, <1>2, <1>3 DEF Linked

\* The slots of g and the edges of E as a commit leaves them in h.
Committed(g, h, E) ==
    /\ Valid(h) /\ Len(h.slots) = Len(g.slots)
    /\ h.pending_edge_removals = <<>> /\ Marked(h) = {} /\ OutEdges(h) = E
    /\ \A i \in SlotsOf(g) : IF i \in Marked(g) THEN h.slots[i] = FreeSlot(g.slots[i].generation + 1)
                            ELSE Face(h.slots[i]) = Face(g.slots[i])

\* The edges no one has asked to remove, in either way.
Staying(g) ==
    {e \in OutEdges(g) \ Listed(g.pending_edge_removals) : e[1][1] \notin Marked(g) /\ e[2][1] \notin Marked(g)}

\* The pending removals.
LEMMA PendingGo ==
  ASSUME NEW g, Valid(g), NEW h, h = RemovePendingEdges(g)
  PROVE  /\ Linked(h) /\ OutEdges(h) = OutEdges(g) \ Listed(g.pending_edge_removals)
         /\ Len(h.slots) = Len(g.slots) /\ \A i \in SlotsOf(g) : Face(h.slots[i]) = Face(g.slots[i])
         /\ h.free_indices = g.free_indices /\ h.pending_edge_removals = <<>>
         /\ h.live_count = g.live_count /\ h.pending_delete_count = g.pending_delete_count
<1> DEFINE p == g.pending_edge_removals
           u == RemoveEdges(g, p, Range(p))
<1>1. Linked(g) /\ Typed(g) /\ p \in Seq(NodeIds \X NodeIds) /\ Listed(p) \subseteq OutEdges(g)
  BY DEF Valid, Linked, Pending, Once
<1>2. Range(p) = Listed(p)  BY <1>1, ListFacts
<1>3. \A k \in 1..Len(p) : IsLive(g, p[k][1])
  <2> SUFFICES ASSUME NEW k \in 1..Len(p) PROVE IsLive(g, p[k][1])  OBVIOUS
  <2> DEFINE e == p[k]
  <2>1. e \in OutEdges(g)  BY <1>1 DEF Listed
  <2> HIDE DEF e
  <2>2. PICK i \in Occupied(g) : \E x \in Listed(g.slots[i].out) : e = <<IdAt(g, i), x>>
    BY <1>1, <2>1, EdgesAre
  <2>3. e[1] = IdAt(g, i) /\ IdAt(g, i)[1] = i /\ IdAt(g, i) \in NodeIds  BY <2>2, <1>1, SlotFacts DEF IdAt
  <2>4. IsLive(g, e[1])  BY <2>3, <1>1, LiveFacts
  <2> QED  BY <2>4 DEF e
<1> HIDE DEF p
<1>4. Trimmed(g, u, OutEdges(g) \ (Listed(p) \cap Range(p)))  BY <1>1, <1>3, RemoveEdgesStep
<1>5. Linked(u) /\ Same(g, u) /\ OutEdges(u) = OutEdges(g) \ Listed(p) /\ u \in GraphType
  BY <1>2, <1>4 DEF Trimmed, Linked, Typed
<1>6. h = [u EXCEPT !.pending_edge_removals = <<>>]  BY DEF RemovePendingEdges, p
<1> HIDE DEF u
<1>7. /\ h \in GraphType /\ h.slots = u.slots /\ h.edge_count = u.edge_count /\ h.aborted = u.aborted
      /\ h.free_indices = u.free_indices /\ h.pending_edge_removals = <<>>
      /\ h.live_count = u.live_count /\ h.pending_delete_count = u.pending_delete_count
  <2>1. <<>> \in Seq(NodeIds \X NodeIds)  OBVIOUS
  <2> QED  BY <2>1, <1>5, <1>6 DEF GraphType
<1>8. Typed(h) /\ ~h.aborted  BY <1>5, <1>7 DEF Typed, Linked
<1>9. Linked(h)  BY <1>5, <1>7, <1>8, LinkedCopy
<1>10. OutEdges(h) = OutEdges(u)  BY <1>7, SameSlots
<1> QED  BY <1>5, <1>7, <1>9, <1>10 DEF Same, p

\* A slot in either of whose lists there is something has an edge.
LEMMA NoEdgesNoLists ==
  ASSUME NEW g, Linked(g), NEW i \in Occupied(g),
         \A e \in OutEdges(g) : e[1][1] # i /\ e[2][1] # i
  PROVE  g.slots[i].out = <<>> /\ g.slots[i].in = <<>>
<1>1. Typed(g) /\ i \in SlotsOf(g) /\ Mirrored(g, i)  BY SlotFacts DEF Linked
<1>2. Tidy(g.slots[i])  BY <1>1 DEF Linked
<1>3. g.slots[i].out \in Seq(NodeIds) /\ g.slots[i].in \in Seq(NodeIds)  BY <1>2 DEF Tidy, Once
<1>4. IdAt(g, i)[1] = i  BY DEF IdAt
<1>5. Listed(g.slots[i].out) = {}
  <2> SUFFICES ASSUME NEW x \in Listed(g.slots[i].out) PROVE FALSE  OBVIOUS
  <2> DEFINE e == <<IdAt(g, i), x>>
  <2>1. e \in OutEdges(g)  BY <1>1, EdgesAre
  <2> QED  BY <2>1, <1>4
<1>6. Listed(g.slots[i].in) = {}
  <2> SUFFICES ASSUME NEW x \in Listed(g.slots[i].in) PROVE FALSE  OBVIOUS
  <2>1. x \in NodeIds  BY <1>3, ListFacts
  <2>2. IsLive(g, x) /\ IdAt(g, i) \in Listed(g.slots[x[1]].out)  BY <1>1 DEF Mirrored, Slot
  <2>3. x[1] \in Occupied(g) /\ IdAt(g, x[1]) = x  BY <1>1, <2>1, <2>2, LiveFacts
  <2> DEFINE e == <<x, IdAt(g, i)>>
  <2>4. e \in OutEdges(g)  BY <1>1, <2>2, <2>3, EdgesAre
  <2> QED  BY <2>4, <1>4
<1> QED  BY <1>3, <1>5, <1>6, ListFacts

\* The whole commit.
LEMMA CommitProps ==
  ASSUME ~IndexGrowthFails, NEW g, Valid(g), Releasable(g), NEW h, h = CommitPending(g)
  PROVE  Committed(g, h, Staying(g))
<1> DEFINE v == RemovePendingEdges(g)
           w == Sweep(UnlinkMarked, v)
           x == Sweep(UnlinkLive, w)
           D == OutEdges(g) \ Listed(g.pending_edge_removals)
           M == Marked(g)
<1>1. Typed(g) /\ Linked(g) /\ Freed(g) /\ Counted(g)  BY DEF Valid, Linked
<1>2. /\ Linked(v) /\ OutEdges(v) = D
      /\ Len(v.slots) = Len(g.slots) /\ \A i \in SlotsOf(g) : Face(v.slots[i]) = Face(g.slots[i])
      /\ v.free_indices = g.free_indices /\ v.pending_edge_removals = <<>>
      /\ v.live_count = g.live_count /\ v.pending_delete_count = g.pending_delete_count
  BY PendingGo
<1>3. h = Sweep(ReleaseMarked, x)  BY DEF CommitPending
<1>4. Trimmed(v, w, OutEdges(v) \ FromMarked(v))
  <2> HIDE DEF v
  <2> QED  BY <1>2, UnlinkMarkedSweep
<1>5. Linked(w) /\ Same(v, w) /\ OutEdges(w) = D \ FromMarked(v)  BY <1>2, <1>4 DEF Trimmed
<1>6. Trimmed(w, x, OutEdges(w) \ ToMarked(w))
  <2> HIDE DEF w
  <2> QED  BY <1>5, UnlinkLiveSweep
<1>7. Linked(x) /\ Same(w, x) /\ OutEdges(x) = (D \ FromMarked(v)) \ ToMarked(w)  BY <1>5, <1>6 DEF Trimmed
<1> HIDE DEF v, w, x, D, M
<1>8. Same(v, x)  BY <1>5, <1>7, SameTwice
<1>9. Typed(v) /\ Typed(w) /\ Typed(x)  BY <1>2, <1>5, <1>7 DEF Linked
<1>10. \A i \in SlotsOf(g) : /\ v.slots[i].occupied = g.slots[i].occupied
                            /\ v.slots[i].marked = g.slots[i].marked
                            /\ v.slots[i].generation = g.slots[i].generation
  BY <1>2 DEF Face
<1>11. SlotsOf(v) = SlotsOf(g) /\ DOMAIN v.slots = SlotsOf(g) /\ DOMAIN g.slots = SlotsOf(g)
  BY <1>1, <1>2, <1>9, SlotFacts DEF SlotsOf
<1>12. Occupied(v) = Occupied(g) /\ Marked(v) = M  BY <1>10, <1>11 DEF Occupied, Marked, M
<1>13. Marked(w) = M  BY <1>5, <1>9, <1>12, SameFacts
<1>14. /\ SlotsOf(x) = SlotsOf(g) /\ Occupied(x) = Occupied(g) /\ Marked(x) = M
       /\ \A i \in SlotsOf(g) : x.slots[i].generation = g.slots[i].generation
  BY <1>8, <1>9, <1>10, <1>11, <1>12, SameFacts
<1>15. OutEdges(x) = Staying(g)
  <2>1. FromMarked(v) = {e \in D : e[1][1] \in M}  BY <1>2, <1>12 DEF FromMarked
  <2>2. ToMarked(w) = {e \in D \ FromMarked(v) : e[1][1] \notin M /\ e[2][1] \in M}
    BY <1>5, <1>13 DEF ToMarked
  <2> QED  BY <2>1, <2>2, <1>7 DEF Staying, D, M
<1>16. Ready(x)
  <2>1. Isolated(x)
    <3> SUFFICES ASSUME NEW i \in Marked(x) PROVE x.slots[i].out = <<>> /\ x.slots[i].in = <<>>
      BY DEF Isolated
    <3>1. i \in Occupied(x) /\ i \in Marked(g)  BY <1>9, <1>14, SlotFacts DEF M
    <3>2. \A e \in OutEdges(x) : e[1][1] # i /\ e[2][1] # i  BY <1>15, <3>1 DEF Staying
    <3> QED  BY <3>1, <3>2, <1>7, NoEdgesNoLists
  <2>2. Releasable(x)  BY <1>1, <1>14, SlotFacts DEF Releasable, M
  <2>3. Freed(x) /\ Counted(x)  BY <1>1, <1>2, <1>8, <1>14 DEF Freed, Counted, Same, M
  <2> QED  BY <2>1, <2>2, <2>3, <1>7 DEF Ready
<1>17. Ready(h) /\ Released(x, h, Marked(x)) /\ Marked(h) = {}  BY <1>3, <1>16, ReleaseMarkedSweep
<1>18. h.pending_edge_removals = <<>> /\ OutEdges(h) = Staying(g) /\ Len(h.slots) = Len(g.slots)
  BY <1>2, <1>8, <1>15, <1>17 DEF Released, Same
<1>19. Valid(h)
  <2>1. Once(NodeIds \X NodeIds, <<>>) /\ Listed(<<>>) = {}  BY DEF Once, Listed
  <2> QED  BY <2>1, <1>17, <1>18 DEF Valid, Ready, Pending
<1>20. ASSUME NEW i \in SlotsOf(g)
       PROVE  IF i \in Marked(g) THEN h.slots[i] = FreeSlot(g.slots[i].generation + 1)
              ELSE Face(h.slots[i]) = Face(g.slots[i])
  <2>1. h.slots[i] = IF i \in M THEN FreeSlot(x.slots[i].generation + 1) ELSE x.slots[i]
    BY <1>14, <1>17 DEF Released
  <2>2. Face(x.slots[i]) = Face(g.slots[i])  BY <1>2, <1>8, <1>11 DEF Same
  <2> QED  BY <2>1, <2>2, <1>14 DEF M
<1> QED  BY <1>17, <1>18, <1>19, <1>20 DEF Committed

------------------------------------------------------------------------------
\* Clearing.

\* f is g with the indices up to k listed as free.
Listing(g, f, k) ==
    /\ Typed(f) /\ f.slots = g.slots /\ f.pending_edge_removals = g.pending_edge_removals
    /\ f.live_count = g.live_count /\ f.edge_count = g.edge_count
    /\ f.pending_delete_count = g.pending_delete_count /\ f.aborted = g.aborted
    /\ Once(Indices, f.free_indices) /\ Listed(f.free_indices) = 1..k

\* All indices are put on the list of free ones.
LEMMA FreeAllSweep ==
  ASSUME NEW g, ~IndexGrowthFails, Typed(g), g.free_indices = <<>>, NEW h, h = Sweep(graph_push_free_index, g)
  PROVE  Listing(g, h, Len(g.slots))
<1> DEFINE n == Len(g.slots)
           R == [k \in 0..n |-> {f \in GraphType : Listing(g, f, k)}]
           F == [k \in 1..n |-> [f \in R[k - 1] |-> graph_push_free_index(f, k)]]
           Runs(f) == f = [k \in 0..n |-> IF k = 0 THEN g ELSE graph_push_free_index(f[k - 1], k)]
           after == CHOOSE f : Runs(f)
<1>1. n \in Nat /\ SlotsOf(g) \subseteq Indices /\ g \in GraphType  BY SlotFacts DEF Typed
<1>2. g \in R[0]
  <2>1. Once(Indices, <<>>) /\ Listed(<<>>) = 1..0 /\ 0 \in 0..n  BY <1>1 DEF Once, Listed
  <2> QED  BY <2>1, <1>1 DEF Listing
<1>3. ASSUME NEW k \in 1..n, NEW f \in R[k - 1] PROVE graph_push_free_index(f, k) \in R[k]
  <2> DEFINE z == graph_push_free_index(f, k)
  <2>1. k \in 0..n /\ k - 1 \in 0..n /\ k \in Indices /\ 1..k = 1..(k - 1) \cup {k} /\ k \notin 1..(k - 1)
    BY <1>1 DEF SlotsOf
  <2>2. Listing(g, f, k - 1)  BY <2>1
  <2> HIDE DEF z
  <2>3. /\ Typed(z) /\ z.slots = f.slots /\ z.free_indices = Append(f.free_indices, k)
        /\ z.pending_edge_removals = f.pending_edge_removals /\ z.live_count = f.live_count
        /\ z.edge_count = f.edge_count /\ z.pending_delete_count = f.pending_delete_count
        /\ z.aborted = f.aborted
    BY <2>1, <2>2, PushFreeIndex DEF z, Listing
  <2>4. Once(Indices, z.free_indices) /\ Listed(z.free_indices) = 1..k
    <3>1. Once(Indices, f.free_indices) /\ Listed(f.free_indices) = 1..(k - 1)  BY <2>2 DEF Listing
    <3>2. k \notin Listed(f.free_indices)  BY <3>1, <2>1
    <3>3. /\ Once(Indices, Append(f.free_indices, k))
          /\ Listed(Append(f.free_indices, k)) = Listed(f.free_indices) \cup {k}
      BY <3>1, <3>2, <2>1, OncePush
    <3> QED  BY <3>1, <3>3, <2>1, <2>3
  <2>5. Listing(g, z, k) /\ z \in GraphType  BY <2>2, <2>3, <2>4 DEF Listing, Typed
  <2> QED  BY <2>1, <2>5 DEF z
<1>4. PICK f : RunOfRounds(n, R, g, F, f)
  <2>1. \A k \in 1..n : \A x \in R[k - 1] : F[k][x] \in R[k]
    <3> SUFFICES ASSUME NEW k \in 1..n, NEW x \in R[k - 1] PROVE F[k][x] \in R[k]  OBVIOUS
    <3>1. F[k][x] = graph_push_free_index(x, k)
      <4> HIDE DEF R
      <4> QED  OBVIOUS
    <3> HIDE DEF F, R
    <3> QED  BY <3>1, <1>3
  <2> HIDE DEF F, R, n
  <2>2. Rounds(n, R, g, F)  BY <2>1, <1>1, <1>2 DEF Rounds
  <2> QED  BY <2>2, RunThrough
<1>5. Runs(f)
  <2> HIDE DEF R
  <2>1. f = [k \in 0..n |-> f[k]] /\ f[0] = g /\ \A k \in 0..n : f[k] \in R[k]
    BY <1>4 DEF RunOfRounds
  <2>2. ASSUME NEW k \in 0..n, k # 0 PROVE f[k] = graph_push_free_index(f[k - 1], k)
    <3> HIDE DEF n
    <3>1. k \in 1..n /\ k - 1 \in 0..n  BY <1>1, <2>2
    <3>2. f[k] = F[k][f[k - 1]]
      <4> HIDE DEF F
      <4> QED  BY <3>1, <1>4 DEF RunOfRounds
    <3>3. f[k - 1] \in R[k - 1]  BY <3>1, <2>1
    <3> QED  BY <3>1, <3>2, <3>3
  <2> HIDE DEF F
  <2> QED  BY <2>1, <2>2
<1>6. Runs(after)  BY <1>5
<1> HIDE DEF after, F, n
<1>7. \A k \in 0..n : after[k] \in R[k]
  <2>1. after[0] \in R[0]
    <3>1. after[0] = g  BY <1>1, <1>6
    <3> QED  BY <3>1, <1>2
  <2>2. ASSUME NEW k \in 1..n, after[k - 1] \in R[k - 1] PROVE after[k] \in R[k]
    <3>1. k # 0 /\ k \in 0..n  BY <1>1
    <3>2. after[k] = graph_push_free_index(after[k - 1], k)  BY <3>1, <1>6
    <3> HIDE DEF R
    <3> QED  BY <3>2, <2>2, <1>3
  <2> HIDE DEF R
  <2> QED  BY <2>1, <2>2, <1>1, StaysIn
<1>8. h = after[n]  BY DEF Sweep, after, n
<1>9. h \in R[n] /\ n \in 0..n
  <2> HIDE DEF R
  <2> QED  BY <1>1, <1>7, <1>8
<1> QED  BY <1>9 DEF n

\* Every slot is blank, and those that were taken have a new generation.
AllFree(g, h) ==
    /\ Valid(h) /\ Len(h.slots) = Len(g.slots) /\ h.pending_edge_removals = <<>>
    /\ Occupied(h) = {} /\ Marked(h) = {} /\ OutEdges(h) = {}
    /\ \A i \in SlotsOf(g) : h.slots[i] = FreeSlot(g.slots[i].generation + Status(g.slots[i].occupied))

\* The graph cleared.
LEMMA ClearProps ==
  ASSUME ~IndexGrowthFails, NEW g, Valid(g), \A i \in Occupied(g) : g.slots[i].generation < MaxGeneration,
         NEW h, h = Cleared(g)
  PROVE  AllFree(g, h)
<1> DEFINE n == Len(g.slots)
           sl == [i \in DOMAIN g.slots |-> FreeSlot(g.slots[i].generation + Status(g.slots[i].occupied))]
           b == [g EXCEPT !.slots = sl, !.free_indices = <<>>, !.pending_edge_removals = <<>>,
                          !.live_count = 0, !.edge_count = 0, !.pending_delete_count = 0]
<1>1. Typed(g) /\ ~g.aborted /\ g \in GraphType  BY DEF Valid, Linked, Typed
<1>2. n \in Nat /\ DOMAIN g.slots = 1..n /\ \A i \in 1..n : g.slots[i] \in SlotType
  BY <1>1, SlotFacts DEF SlotsOf
<1>3. \A i \in 1..n : g.slots[i].generation + Status(g.slots[i].occupied) \in 1..MaxGeneration
  <2> SUFFICES ASSUME NEW i \in 1..n
               PROVE  g.slots[i].generation + Status(g.slots[i].occupied) \in 1..MaxGeneration
    OBVIOUS
  <2>1. g.slots[i].generation \in 1..MaxGeneration /\ g.slots[i].occupied \in BOOLEAN  BY <1>2 DEF SlotType
  <2>2. g.slots[i].occupied => g.slots[i].generation < MaxGeneration  BY <1>2 DEF Occupied
  <2>3. CASE g.slots[i].occupied
    <3>1. Status(g.slots[i].occupied) = 1  BY <2>3 DEF Status
    <3> QED  BY <3>1, <2>1, <2>2, <2>3, GraphAssumption
  <2>4. CASE ~g.slots[i].occupied
    <3>1. Status(g.slots[i].occupied) = 0  BY <2>4 DEF Status
    <3> QED  BY <3>1, <2>1
  <2> QED  BY <2>3, <2>4
<1>4. \A i \in 1..n : sl[i] = FreeSlot(g.slots[i].generation + Status(g.slots[i].occupied))  BY <1>2
<1>5. sl \in Seq(SlotType) /\ Len(sl) = n
  <2>1. \A i \in 1..n : sl[i] \in SlotType  BY <1>3, <1>4, FreeSlotFacts
  <2>2. sl = [i \in 1..n |-> sl[i]]  BY <1>2
  <2> HIDE DEF sl, n
  <2>3. sl \in [1..n -> SlotType]  BY <2>1, <2>2
  <2> QED  BY <2>3, <1>2
<1>6. \A i \in 1..n : Tidy(sl[i]) /\ sl[i].occupied = FALSE
  <2> SUFFICES ASSUME NEW i \in 1..n PROVE Tidy(sl[i]) /\ sl[i].occupied = FALSE  OBVIOUS
  <2> DEFINE m == g.slots[i].generation + Status(g.slots[i].occupied)
  <2>1. m \in 1..MaxGeneration /\ sl[i] = FreeSlot(m)  BY <1>3, <1>4
  <2> HIDE DEF m, sl
  <2> QED  BY <2>1, FreeSlotFacts
<1>7. h = Sweep(graph_push_free_index, b)  BY <1>1 DEF Cleared, GraphType
<1> HIDE DEF sl
<1>8. /\ b \in GraphType /\ b.slots = sl /\ b.free_indices = <<>> /\ b.pending_edge_removals = <<>>
      /\ b.live_count = 0 /\ b.edge_count = 0 /\ b.pending_delete_count = 0 /\ b.aborted = FALSE
  <2>1. <<>> \in Seq(Indices) /\ <<>> \in Seq(NodeIds \X NodeIds)  OBVIOUS
  <2> QED  BY <2>1, <1>1, <1>5 DEF GraphType
<1> HIDE DEF b
<1>9. Typed(b) /\ Len(b.slots) = n  BY <1>1, <1>5, <1>8 DEF Typed
<1>10. Listing(b, h, n)  BY <1>7, <1>8, <1>9, FreeAllSweep
<1>11. /\ Typed(h) /\ h.slots = sl /\ h.pending_edge_removals = <<>>
       /\ h.live_count = 0 /\ h.edge_count = 0 /\ h.pending_delete_count = 0 /\ ~h.aborted
       /\ Once(Indices, h.free_indices) /\ Listed(h.free_indices) = 1..n
  BY <1>8, <1>10 DEF Listing
<1>12. DOMAIN sl = 1..n /\ SlotsOf(h) = 1..n  BY <1>5, <1>11 DEF SlotsOf
<1>13. Occupied(h) = {} /\ Marked(h) = {}  BY <1>6, <1>11, <1>12 DEF Occupied, Marked
<1>14. OutEdges(h) = {}  BY <1>13 DEF OutEdges
<1>15. Cardinality({}) = 0  BY FS_EmptySet
<1>16. Linked(h)  BY <1>6, <1>11, <1>12, <1>13, <1>14, <1>15 DEF Linked
<1>17. Freed(h) /\ Counted(h)  BY <1>11, <1>12, <1>13, <1>15 DEF Freed, Counted
<1>18. Pending(h)
  <2>1. Once(NodeIds \X NodeIds, <<>>) /\ Listed(<<>>) = {}  BY DEF Once, Listed
  <2> QED  BY <2>1, <1>11 DEF Pending
<1> QED  BY <1>4, <1>5, <1>11, <1>13, <1>14, <1>16, <1>17, <1>18 DEF AllFree, Valid, SlotsOf

------------------------------------------------------------------------------
\* What the calls do to the graph.

MarkedIds(g) == {IdAt(g, i) : i \in Marked(g)}
VisitsOf(g) == [id \in NodeIds |-> IF IsLive(g, id) THEN Slot(g, id).visit_count ELSE 0]

\* What an iterator sees of a slot.
View(s) == <<s.occupied, s.generation, s.out, s.in>>
SameView(g, h) == Len(h.slots) = Len(g.slots) /\ \A i \in SlotsOf(g) : View(h.slots[i]) = View(g.slots[i])

\* Graphs that look the same have the same nodes and edges.
LEMMA ViewFacts ==
  ASSUME NEW g, NEW h, Typed(g), Typed(h), SameView(g, h)
  PROVE  /\ SlotsOf(h) = SlotsOf(g) /\ Occupied(h) = Occupied(g) /\ OutEdges(h) = OutEdges(g)
         /\ LiveIds(h) = LiveIds(g) /\ IssuedIds(h) = IssuedIds(g)
         /\ \A i \in SlotsOf(g) : IdAt(h, i) = IdAt(g, i)
         /\ \A id : IsLive(h, id) <=> IsLive(g, id)
         /\ \A i \in SlotsOf(g) : /\ h.slots[i].occupied = g.slots[i].occupied
                                  /\ h.slots[i].generation = g.slots[i].generation
                                  /\ h.slots[i].out = g.slots[i].out
                                  /\ h.slots[i].in = g.slots[i].in
<1>1. SlotsOf(h) = SlotsOf(g) /\ DOMAIN g.slots = SlotsOf(g) /\ DOMAIN h.slots = SlotsOf(g)
  BY SlotFacts DEF SameView, SlotsOf
<1>2. \A i \in SlotsOf(g) : /\ h.slots[i].occupied = g.slots[i].occupied
                            /\ h.slots[i].generation = g.slots[i].generation
                            /\ h.slots[i].out = g.slots[i].out
                            /\ h.slots[i].in = g.slots[i].in
  BY DEF SameView, View
<1>3. Occupied(h) = Occupied(g) /\ \A i \in SlotsOf(g) : IdAt(h, i) = IdAt(g, i)
  BY <1>1, <1>2 DEF Occupied, IdAt
<1>4. \A id : IsLive(h, id) <=> IsLive(g, id)  BY <1>1, <1>2 DEF IsLive
<1>5. Occupied(g) \subseteq SlotsOf(g)  BY SlotFacts
<1>6. LiveIds(h) = LiveIds(g)  BY <1>3, <1>5 DEF LiveIds
<1>7. OutEdges(h) = OutEdges(g)
  <2>1. \A i \in Occupied(g) : IdAt(h, i) = IdAt(g, i) /\ h.slots[i].out = g.slots[i].out
    BY <1>2, <1>3, <1>5
  <2>2. \A e : e \in OutEdges(h) <=> e \in OutEdges(g)  BY <2>1, <1>3, EdgesAre
  <2> QED  BY <2>2
<1>8. IssuedIds(h) = IssuedIds(g)  BY <1>1, <1>2, <1>4 DEF IssuedIds, Slot
<1> QED  BY <1>1, <1>2, <1>3, <1>4, <1>6, <1>7, <1>8

\* And are linked alike.
LEMMA ViewLinked ==
  ASSUME NEW g, Linked(g), NEW h, Typed(h), SameView(g, h), h.edge_count = g.edge_count, ~h.aborted,
         \A i \in SlotsOf(g) : ~g.slots[i].occupied => h.slots[i] = g.slots[i]
  PROVE  Linked(h)
<1>1. Typed(g)  BY DEF Linked
<1>2. /\ SlotsOf(h) = SlotsOf(g) /\ Occupied(h) = Occupied(g) /\ OutEdges(h) = OutEdges(g)
      /\ \A i \in SlotsOf(g) : IdAt(h, i) = IdAt(g, i)
      /\ \A id : IsLive(h, id) <=> IsLive(g, id)
      /\ \A i \in SlotsOf(g) : /\ h.slots[i].occupied = g.slots[i].occupied
                               /\ h.slots[i].generation = g.slots[i].generation
                               /\ h.slots[i].out = g.slots[i].out
                               /\ h.slots[i].in = g.slots[i].in
  BY <1>1, ViewFacts
<1>3. \A i \in SlotsOf(h) : Tidy(h.slots[i])
  <2> SUFFICES ASSUME NEW i \in SlotsOf(g) PROVE Tidy(h.slots[i])  BY <1>2
  <2>1. Tidy(g.slots[i])  BY DEF Linked
  <2> QED  BY <2>1, <1>2 DEF Tidy
<1>4. \A i \in Occupied(h) : Mirrored(h, i)
  <2> SUFFICES ASSUME NEW i \in Occupied(g) PROVE Mirrored(h, i)  BY <1>2
  <2>1. Mirrored(g, i) /\ i \in SlotsOf(g)  BY <1>1, SlotFacts DEF Linked
  <2>2. \A id : IsLive(g, id) => id[1] \in SlotsOf(g)  BY <1>1, SlotFacts DEF IsLive
  <2>3. \A id : IsLive(g, id) => Slot(h, id).out = Slot(g, id).out /\ Slot(h, id).in = Slot(g, id).in
    BY <2>2, <1>2 DEF Slot
  <2> QED  BY <2>1, <2>3, <1>2 DEF Mirrored
<1> QED  BY <1>2, <1>3, <1>4 DEF Linked

\* Slot i of g is free, or comes after the last one; in h a new node is there.
NodeAdded(g, i, n, h) ==
    /\ Linked(g) /\ i \notin Occupied(g) /\ n \in 1..MaxGeneration
    /\ Typed(h) /\ ~h.aborted /\ h.edge_count = g.edge_count
    /\ SlotsOf(h) = SlotsOf(g) \cup {i}
    /\ h.slots[i] = NewSlot(n) /\ \A k \in SlotsOf(g) : k # i => h.slots[k] = g.slots[k]

\* The others stay as they are.
LEMMA AddNodeFacts ==
  ASSUME NEW g, NEW i, NEW n, NEW h, NodeAdded(g, i, n, h)
  PROVE  /\ Linked(h) /\ OutEdges(h) = OutEdges(g)
         /\ Occupied(h) = Occupied(g) \cup {i} /\ Marked(h) = Marked(g)
         /\ LiveIds(h) = LiveIds(g) \cup {<<i, n>>} /\ MarkedIds(h) = MarkedIds(g)
<1> USE DEF NodeAdded
<1> DEFINE s == NewSlot(n)
<1>1. Typed(g)  BY DEF Linked
<1>2. /\ DOMAIN g.slots = SlotsOf(g) /\ DOMAIN h.slots = SlotsOf(h)
      /\ Occupied(g) \subseteq SlotsOf(g) /\ Marked(g) \subseteq Occupied(g)
  BY <1>1, SlotFacts
<1>3. /\ s.occupied = TRUE /\ s.marked = FALSE /\ s.generation = n /\ s.out = <<>> /\ s.in = <<>> /\ Tidy(s)
  BY FreeSlotFacts
<1> HIDE DEF s
<1>4. Occupied(h) = Occupied(g) \cup {i}  BY <1>2, <1>3 DEF Occupied, s
<1>5. \A k \in Occupied(g) : k # i /\ h.slots[k] = g.slots[k] /\ IdAt(h, k) = IdAt(g, k)
  BY <1>2 DEF IdAt
<1>6. Marked(h) = Marked(g)  BY <1>2, <1>3, <1>4, <1>5 DEF Marked, s
<1>7. IdAt(h, i) = <<i, n>>  BY <1>3 DEF IdAt, s
<1>8. LiveIds(h) = LiveIds(g) \cup {<<i, n>>}  BY <1>4, <1>5, <1>7 DEF LiveIds
<1>9. MarkedIds(h) = MarkedIds(g)  BY <1>2, <1>5, <1>6 DEF MarkedIds
<1>10. \A k \in SlotsOf(h) : Tidy(h.slots[k])  BY <1>3 DEF Linked, s
<1>11. Listed(h.slots[i].out) = {} /\ Listed(h.slots[i].in) = {}  BY <1>3 DEF Listed, s
<1>12. OutEdges(h) = OutEdges(g)
  <2> SUFFICES ASSUME NEW e PROVE e \in OutEdges(h) <=> e \in OutEdges(g)  OBVIOUS
  <2>1. e \in OutEdges(h) <=> \E k \in Occupied(h) : \E id \in Listed(h.slots[k].out) : e = <<IdAt(h, k), id>>
    BY EdgesAre
  <2>2. e \in OutEdges(g) <=> \E k \in Occupied(g) : \E id \in Listed(g.slots[k].out) : e = <<IdAt(g, k), id>>
    BY <1>1, EdgesAre
  <2> QED  BY <2>1, <2>2, <1>4, <1>5, <1>11
<1>13. ASSUME NEW k \in Occupied(h) PROVE Mirrored(h, k)
  <2>1. CASE k = i
    BY <2>1, <1>11 DEF Mirrored
  <2>2. CASE k # i
    <3>1. k \in Occupied(g) /\ Mirrored(g, k)  BY <2>2, <1>4 DEF Linked
    <3>2. \A id : IsLive(g, id) => id[1] \in Occupied(g)  BY DEF IsLive, Occupied
    <3>3. \A id : IsLive(g, id) => IsLive(h, id) /\ Slot(h, id) = Slot(g, id)
      BY <3>2, <1>2, <1>4, <1>5 DEF IsLive, Slot
    <3> QED  BY <3>1, <3>3, <1>5 DEF Mirrored
  <2> QED  BY <2>1, <2>2
<1> QED  BY <1>4, <1>6, <1>8, <1>9, <1>10, <1>12, <1>13 DEF Linked

\* A slot is its fields.
LEMMA SlotEqual ==
  ASSUME NEW s \in SlotType, NEW t \in SlotType,
         s.occupied = t.occupied, s.marked = t.marked, s.generation = t.generation,
         s.visit_count = t.visit_count, s.out = t.out, s.in = t.in
  PROVE  s = t
BY DEF SlotType

\* h is g with an edge from a to b, and one more edge counted.
EdgeAdded(g, a, b, h) == h = [AddIn(AddOut(g, <<a, b>>), <<a, b>>) EXCEPT !.edge_count = @ + 1]

\* A new edge, in both lists.
LEMMA AddEdgeFacts ==
  ASSUME NEW g, Linked(g), NEW a, NEW b, a \in LiveIds(g), b \in LiveIds(g),
         b \notin Listed(Slot(g, a).out), NEW h, EdgeAdded(g, a, b, h)
  PROVE  Trimmed(g, h, OutEdges(g) \cup {<<a, b>>}) /\ <<a, b>> \notin OutEdges(g)
<1> DEFINE e == <<a, b>>
           i == a[1]
           j == b[1]
           out == Append(g.slots[i].out, b)
           in == Append(g.slots[j].in, a)
           h1 == AddOut(g, e)
           h2 == AddIn(h1, e)
<1>1. Typed(g) /\ a \in NodeIds /\ b \in NodeIds
  <2>1. Typed(g)  BY DEF Linked
  <2>2. LiveIds(g) \subseteq NodeIds  BY <2>1, SlotFacts DEF LiveIds
  <2> QED  BY <2>1, <2>2
<1>2. i \in Occupied(g) /\ IdAt(g, i) = a /\ j \in Occupied(g) /\ IdAt(g, j) = b
  BY <1>1, LiveFacts
<1>3. i \in SlotsOf(g) /\ j \in SlotsOf(g) /\ g.slots[i] \in SlotType  BY <1>1, <1>2, SlotFacts
<1>4. Tidy(g.slots[i]) /\ Tidy(g.slots[j]) /\ Mirrored(g, i) /\ Mirrored(g, j)  BY <1>2, <1>3 DEF Linked
<1>5. b \notin Listed(g.slots[i].out)  BY DEF Slot
<1>6. a \notin Listed(g.slots[j].in)
  <2>1. a \in Listed(g.slots[j].in) => b \in Listed(g.slots[i].out)  BY <1>2, <1>4 DEF Mirrored, Slot
  <2> QED  BY <2>1, <1>5
<1>7. Once(NodeIds, out) /\ Listed(out) = Listed(g.slots[i].out) \cup {b}
  BY <1>1, <1>4, <1>5, OncePush DEF Tidy
<1>8. Once(NodeIds, in) /\ Listed(in) = Listed(g.slots[j].in) \cup {a}
  BY <1>1, <1>4, <1>6, OncePush DEF Tidy
<1>9. out \in Seq(NodeIds) /\ in \in Seq(NodeIds)  BY <1>7, <1>8 DEF Once
<1>10. SlotSet(g, i, WithOut(g.slots[i], out), h1)
  <2>1. g \in GraphType /\ g.slots \in Seq(SlotType) /\ i \in DOMAIN g.slots /\ g.slots[i] \in SlotType
    BY <1>1, <1>3, SlotFacts DEF Typed
  <2> QED  BY <2>1 DEF AddOut, SlotSet, WithOut
<1>11. SlotSet(h1, j, WithIn(h1.slots[j], Append(h1.slots[j].in, a)), h2)
  BY DEF AddIn, SlotSet, WithIn
<1>12. h = [h2 EXCEPT !.edge_count = @ + 1]  BY DEF EdgeAdded
<1> HIDE DEF h1, h2, out, in, i, j
<1>13. h1.slots[j].in = g.slots[j].in
  <2> DEFINE k == [h1 EXCEPT !.slots[j] = WithIn(h1.slots[j], in)]
  <2>1. SlotSet(h1, j, WithIn(h1.slots[j], in), k)  BY DEF SlotSet
  <2> HIDE DEF k
  <2>2. Relisted(g, k, i, out, j, in) /\ Elsewhere(g, k) /\ h1.slots[j].in = g.slots[j].in
    BY <2>1, <1>1, <1>3, <1>9, <1>10, TwoLists
  <2> QED  BY <2>2
<1>14. SlotSet(h1, j, WithIn(h1.slots[j], in), h2)  BY <1>11, <1>13 DEF in
<1>15. Relisted(g, h2, i, out, j, in) /\ Elsewhere(g, h2)
  BY <1>1, <1>3, <1>9, <1>10, <1>14, TwoLists
<1>16. h2 \in GraphType /\ h2.edge_count = g.edge_count /\ ~h2.aborted /\ g.edge_count \in Nat
  BY <1>1, <1>15, TypedParts DEF Relisted, Typed, Elsewhere, Linked
<1>17. /\ h \in GraphType /\ h.slots = h2.slots /\ h.edge_count = g.edge_count + 1 /\ ~h.aborted
       /\ h.free_indices = h2.free_indices /\ h.pending_edge_removals = h2.pending_edge_removals
       /\ h.live_count = h2.live_count /\ h.pending_delete_count = h2.pending_delete_count
  <2>1. g.edge_count + 1 \in Nat  BY <1>16
  <2>2. h = [h2 EXCEPT !.edge_count = g.edge_count + 1]  BY <1>12, <1>16
  <2> QED  BY <2>1, <2>2, <1>16 DEF GraphType
<1>18. Relisted(g, h, i, out, j, in) /\ Typed(h)  BY <1>15, <1>17 DEF Relisted, Typed
<1>19. Same(g, h)  BY <1>15, <1>17 DEF Relisted, Same, Elsewhere
<1>20. /\ SlotsOf(h) = SlotsOf(g) /\ Occupied(h) = Occupied(g) /\ Occupied(g) \subseteq SlotsOf(g)
       /\ \A k \in SlotsOf(g) : IdAt(h, k) = IdAt(g, k) /\ IdAt(g, k)[1] = k
       /\ \A k \in SlotsOf(g) : h.slots[k].occupied = g.slots[k].occupied
                             /\ h.slots[k].marked = g.slots[k].marked
                             /\ h.slots[k].generation = g.slots[k].generation
                             /\ h.slots[k].visit_count = g.slots[k].visit_count
       /\ \A id : IsLive(h, id) <=> IsLive(g, id)
  BY <1>1, <1>18, <1>19, SameFacts, SlotFacts DEF IdAt
<1>21. \A k \in SlotsOf(g) :
        /\ h.slots[k].out = IF k = i THEN out ELSE g.slots[k].out
        /\ h.slots[k].in = IF k = j THEN in ELSE g.slots[k].in
  BY <1>18 DEF Relisted
<1>22. \A k \in SlotsOf(g) :
        /\ Listed(h.slots[k].out) = IF k = i THEN Listed(g.slots[k].out) \cup {b} ELSE Listed(g.slots[k].out)
        /\ Listed(h.slots[k].in) = IF k = j THEN Listed(g.slots[k].in) \cup {a} ELSE Listed(g.slots[k].in)
  BY <1>7, <1>8, <1>21
<1>23. ASSUME NEW k \in SlotsOf(h) PROVE Tidy(h.slots[k])
  <2>1. k \in SlotsOf(g) /\ Tidy(g.slots[k])  BY <1>20 DEF Linked
  <2>2. Once(NodeIds, h.slots[k].out) /\ Once(NodeIds, h.slots[k].in)
    BY <2>1, <1>7, <1>8, <1>21 DEF Tidy
  <2>3. ASSUME ~h.slots[k].occupied PROVE h.slots[k] = FreeSlot(h.slots[k].generation)
    <3>1. ~g.slots[k].occupied /\ k \notin Occupied(g)  BY <2>1, <2>3, <1>20 DEF Occupied
    <3>2. g.slots[k] = FreeSlot(g.slots[k].generation) /\ k # i /\ k # j  BY <3>1, <2>1, <1>2 DEF Tidy
    <3>3. h.slots[k].out = g.slots[k].out /\ h.slots[k].in = g.slots[k].in  BY <3>2, <2>1, <1>21
    <3>4. h.slots[k] \in SlotType /\ g.slots[k] \in SlotType  BY <2>1, <1>1, <1>18, <1>20, SlotFacts
    <3>5. /\ h.slots[k].occupied = g.slots[k].occupied /\ h.slots[k].marked = g.slots[k].marked
          /\ h.slots[k].generation = g.slots[k].generation /\ h.slots[k].visit_count = g.slots[k].visit_count
      BY <2>1, <1>20
    <3>6. h.slots[k] = g.slots[k]  BY <3>3, <3>4, <3>5, SlotEqual
    <3> QED  BY <3>2, <3>6
  <2> QED  BY <2>2, <2>3 DEF Tidy
<1>24. IsLive(g, a) /\ IsLive(g, b)  BY <1>1, LiveFacts
<1>25. ASSUME NEW k \in Occupied(h) PROVE Mirrored(h, k)
  <2>1. k \in Occupied(g) /\ k \in SlotsOf(g) /\ Mirrored(g, k)  BY <1>20 DEF Linked
  <2>2. \A id : IsLive(g, id) => id[1] \in SlotsOf(g)  BY <1>1, SlotFacts DEF IsLive
  <2>3. ASSUME NEW id \in Listed(h.slots[k].out)
        PROVE  IsLive(h, id) /\ IdAt(h, k) \in Listed(Slot(h, id).in)
    <3>1. CASE id \in Listed(g.slots[k].out)
      BY <3>1, <2>1, <2>2, <1>20, <1>22 DEF Mirrored, Slot
    <3>2. CASE id \notin Listed(g.slots[k].out)
      <4>1. k = i /\ id = b  BY <3>2, <2>1, <1>22
      <4> QED  BY <4>1, <1>2, <1>3, <1>20, <1>22, <1>24 DEF Slot, j
    <3> QED  BY <3>1, <3>2
  <2>4. ASSUME NEW id \in Listed(h.slots[k].in)
        PROVE  IsLive(h, id) /\ IdAt(h, k) \in Listed(Slot(h, id).out)
    <3>1. CASE id \in Listed(g.slots[k].in)
      BY <3>1, <2>1, <2>2, <1>20, <1>22 DEF Mirrored, Slot
    <3>2. CASE id \notin Listed(g.slots[k].in)
      <4>1. k = j /\ id = a  BY <3>2, <2>1, <1>22
      <4> QED  BY <4>1, <1>2, <1>3, <1>20, <1>22, <1>24 DEF Slot, i
    <3> QED  BY <3>1, <3>2
  <2> QED  BY <2>3, <2>4 DEF Mirrored
<1>26. OutEdges(h) = OutEdges(g) \cup {e}
  <2> SUFFICES ASSUME NEW f PROVE f \in OutEdges(h) <=> f \in OutEdges(g) \/ f = e  OBVIOUS
  <2>1. f \in OutEdges(h) <=> \E k \in Occupied(g) : \E id \in Listed(h.slots[k].out) : f = <<IdAt(g, k), id>>
    <3>1. f \in OutEdges(h) <=> \E k \in Occupied(h) : \E id \in Listed(h.slots[k].out) : f = <<IdAt(h, k), id>>
      BY <1>18, EdgesAre
    <3> QED  BY <3>1, <1>20
  <2>2. f \in OutEdges(g) <=> \E k \in Occupied(g) : \E id \in Listed(g.slots[k].out) : f = <<IdAt(g, k), id>>
    BY <1>1, EdgesAre
  <2>3. \A k \in Occupied(g) : Listed(h.slots[k].out) = IF k = i THEN Listed(g.slots[k].out) \cup {b}
                                                      ELSE Listed(g.slots[k].out)
    BY <1>20, <1>22
  <2> QED  BY <2>1, <2>2, <2>3, <1>2
<1>27. e \notin OutEdges(g)
  <2> SUFFICES ASSUME e \in OutEdges(g) PROVE FALSE  OBVIOUS
  <2>1. PICK k \in Occupied(g) : \E id \in Listed(g.slots[k].out) : e = <<IdAt(g, k), id>>  BY <1>1, EdgesAre
  <2>2. k = i  BY <2>1, <1>20 DEF i
  <2> QED  BY <2>1, <2>2, <1>5
<1>28. h.edge_count = Cardinality(OutEdges(h))
  <2>1. IsFiniteSet(OutEdges(g))  BY <1>1, EdgesFinite
  <2>2. Cardinality(OutEdges(g) \cup {e}) = Cardinality(OutEdges(g)) + 1  BY <2>1, <1>27, FS_AddElement
  <2>3. g.edge_count = Cardinality(OutEdges(g))  BY DEF Linked
  <2> QED  BY <2>2, <2>3, <1>17, <1>26
<1>29. Linked(h)  BY <1>17, <1>18, <1>23, <1>25, <1>28 DEF Linked
<1> QED  BY <1>19, <1>26, <1>27, <1>29 DEF Trimmed

------------------------------------------------------------------------------
\* Iterators.

\* A set of naturals that is not empty has a least element.
LEMMA LeastProps ==
  ASSUME NEW R, R \subseteq Nat, R # {}
  PROVE  Min(R) \in R /\ \A y \in R : Min(R) <= y
<1> DEFINE L == OpToRel(<, Nat)
<1>1. IsWellFoundedOn(L, Nat)  BY NatLessThanWellFounded
<1>2. \E x \in R : \A y \in R : ~ (<<y, x>> \in L)
  <2> HIDE DEF L
  <2> QED  BY <1>1, WFMin
<1>3. PICK x \in R : \A y \in R : ~ (<<y, x>> \in L)  BY <1>2
<1>4. ASSUME NEW y \in R PROVE x <= y
  <2>1. x \in Nat /\ y \in Nat  OBVIOUS
  <2>2. ~ (<<y, x>> \in L)  BY <1>3
  <2>3. ~(y < x)  BY <2>1, <2>2 DEF OpToRel
  <2> HIDE DEF L
  <2> QED  BY <2>1, <2>3
<1>5. \E z \in R : \A y \in R : z =< y  BY <1>4
<1> QED  BY <1>5, Zenon DEF Min

\* What a longer list lists.
LEMMA AppendLists ==
  ASSUME NEW D, NEW s \in Seq(D), NEW x \in D
  PROVE  /\ Append(s, x) \in Seq(D) /\ Len(Append(s, x)) = Len(s) + 1
         /\ Append(s, x)[Len(s) + 1] = x /\ \A k \in 1..Len(s) : Append(s, x)[k] = s[k]
         /\ Listed(Append(s, x)) = Listed(s) \cup {x}
<1> DEFINE t == Append(s, x)
           n == Len(s)
<1>1. n \in Nat /\ t \in Seq(D) /\ Len(t) = n + 1 /\ t[n + 1] = x /\ \A k \in 1..n : t[k] = s[k]
  BY AppendProperties
<1> HIDE DEF t
<1>2. \A k \in 1..(n + 1) : k \in 1..n \/ k = n + 1  BY <1>1
<1>3. \A k \in 1..n : k \in 1..(n + 1)  BY <1>1
<1>4. n + 1 \in 1..(n + 1)  BY <1>1
<1>5. Listed(t) = Listed(s) \cup {x}
  <2> HIDE DEF n
  <2>1. Listed(t) = {t[k] : k \in 1..(n + 1)} /\ Listed(s) = {s[k] : k \in 1..n}  BY <1>1 DEF Listed, n
  <2> QED  BY <2>1, <1>1, <1>2, <1>3, <1>4
<1> QED  BY <1>1, <1>5 DEF t

Iterator(k, d, a, s) == [kind |-> k, id |-> d, at |-> a, seen |-> s]

MovedTo(it, at, seen, nxt) == nxt = [it EXCEPT !.at = at, !.seen = seen]

\* An iterator moved on.
LEMMA IterMoved ==
  ASSUME NEW it, NEW k, NEW d, NEW a, NEW s, it = Iterator(k, d, a, s),
         NEW m, NEW t, NEW nxt, MovedTo(it, m, t, nxt)
  PROVE  nxt = Iterator(k, d, m, t)
<1> DEFINE x == [it EXCEPT !.at = m]
<1>1. x = Iterator(k, d, m, s)
  <2>1. it = [kind |-> k, id |-> d, at |-> a, seen |-> s]  BY DEF Iterator
  <2>2. x = [kind |-> k, id |-> d, at |-> m, seen |-> s]  BY <2>1
  <2> QED  BY <2>2 DEF Iterator
<1>2. nxt = [x EXCEPT !.seen = t]  BY DEF MovedTo
<1> HIDE DEF x
<1> QED
  <2>1. x = [kind |-> k, id |-> d, at |-> m, seen |-> s]  BY <1>1 DEF Iterator
  <2>2. nxt = [kind |-> k, id |-> d, at |-> m, seen |-> t]  BY <1>2, <2>1
  <2> QED  BY <2>2 DEF Iterator

NodeIter(g, it) ==
    /\ it = Iterator("node", <<>>, it.at, it.seen)
    /\ it.at \in Nat /\ it.seen \in Seq(NodeIds)
    /\ Listed(it.seen) = {IdAt(g, i) : i \in {j \in Occupied(g) : j <= it.at}}
    /\ \A j, k \in 1..Len(it.seen) : j < k => it.seen[j][1] < it.seen[k][1]

ListOf(g, it) == IF it.kind = "out" THEN Slot(g, it.id).out ELSE Slot(g, it.id).in

ListIter(g, it) ==
    /\ it = Iterator(it.kind, it.id, it.at, it.seen)
    /\ it.kind \in {"out", "in"} /\ it.id \in LiveIds(g)
    /\ it.at \in 0..Len(ListOf(g, it)) /\ it.seen = SubSeq(ListOf(g, it), 1, it.at)

\* What holds of an iterator over g.
IterFine(g, it) == it = NoIter \/ NodeIter(g, it) \/ ListIter(g, it)

\* A live node has a list.
LEMMA ListOfLive ==
  ASSUME NEW g, Typed(g), NEW it, it.id \in LiveIds(g)
  PROVE  /\ it.id \in NodeIds /\ it.id[1] \in SlotsOf(g) /\ IsLive(g, it.id)
         /\ ListOf(g, it) \in Seq(NodeIds) /\ Len(ListOf(g, it)) \in Nat
<1>1. PICK i \in Occupied(g) : it.id = IdAt(g, i)  BY DEF LiveIds
<1>2. i \in SlotsOf(g) /\ g.slots[i] \in SlotType /\ IdAt(g, i) \in NodeIds /\ IdAt(g, i)[1] = i
  BY SlotFacts DEF IdAt
<1>3. Slot(g, it.id).out \in Seq(NodeIds) /\ Slot(g, it.id).in \in Seq(NodeIds)
  BY <1>1, <1>2 DEF Slot, SlotType
<1>4. ListOf(g, it) \in Seq(NodeIds)  BY <1>3 DEF ListOf
<1>5. IsLive(g, it.id)  BY <1>1, <1>2, LiveFacts
<1> QED  BY <1>1, <1>2, <1>4, <1>5

\* An iterator does not notice what leaves lists and generations alone.
LEMMA IterKept ==
  ASSUME NEW g, NEW h, Typed(g), Typed(h), SameView(g, h), NEW it, IterFine(g, it)
  PROVE  IterFine(h, it)
<1>1. /\ SlotsOf(h) = SlotsOf(g) /\ Occupied(h) = Occupied(g) /\ LiveIds(h) = LiveIds(g)
      /\ \A i \in SlotsOf(g) : IdAt(h, i) = IdAt(g, i)
      /\ \A i \in SlotsOf(g) : h.slots[i].out = g.slots[i].out /\ h.slots[i].in = g.slots[i].in
  BY ViewFacts
<1>2. Occupied(g) \subseteq SlotsOf(g)  BY SlotFacts
<1>3. CASE it = NoIter  BY <1>3 DEF IterFine
<1>4. CASE NodeIter(g, it)
  <2>1. {IdAt(h, i) : i \in {j \in Occupied(h) : j <= it.at}} = {IdAt(g, i) : i \in {j \in Occupied(g) : j <= it.at}}
    BY <1>1, <1>2
  <2> QED  BY <1>4, <2>1 DEF IterFine, NodeIter
<1>5. CASE ListIter(g, it)
  <2>1. it.id[1] \in SlotsOf(g)  BY <1>5, ListOfLive DEF ListIter
  <2>2. ListOf(h, it) = ListOf(g, it)  BY <1>1, <2>1 DEF ListOf, Slot
  <2> QED  BY <1>1, <1>5, <2>2 DEF IterFine, ListIter
<1> QED  BY <1>3, <1>4, <1>5 DEF IterFine

\* The node iterator goes on to the next slot that is taken.
LEMMA NodeIterGoesOn ==
  ASSUME NEW g, Typed(g), NEW it, NodeIter(g, it), NEW later,
         later = {i \in Occupied(g) : i > it.at}, later # {},
         NEW nxt, MovedTo(it, Min(later), Append(it.seen, IdAt(g, Min(later))), nxt)
  PROVE  NodeIter(g, nxt)
<1> DEFINE m == Min(later)
           at == it.at
           s == it.seen
           t == Append(s, IdAt(g, m))
           n == Len(s)
<1>1. Occupied(g) \subseteq SlotsOf(g) /\ SlotsOf(g) \subseteq Nat  BY SlotFacts DEF SlotsOf
<1>2. m \in later /\ \A y \in later : m <= y  BY <1>1, LeastProps
<1>3. m \in Occupied(g) /\ m > at /\ m \in Nat /\ at \in Nat  BY <1>1, <1>2 DEF NodeIter
<1>4. IdAt(g, m) \in NodeIds /\ IdAt(g, m)[1] = m  BY <1>1, <1>3, SlotFacts DEF IdAt
<1>5. nxt = Iterator("node", <<>>, m, t)
  <2>1. it = Iterator("node", <<>>, at, s)  BY DEF NodeIter
  <2>2. MovedTo(it, m, t, nxt)  OBVIOUS
  <2> HIDE DEF m, t
  <2> QED  BY <2>1, <2>2, IterMoved
<1>6. s \in Seq(NodeIds) /\ n \in Nat
  <2>1. s \in Seq(NodeIds)  BY DEF NodeIter
  <2> QED  BY <2>1
<1>7. /\ t \in Seq(NodeIds) /\ Len(t) = n + 1 /\ t[n + 1] = IdAt(g, m) /\ \A k \in 1..n : t[k] = s[k]
      /\ Listed(t) = Listed(s) \cup {IdAt(g, m)}
  <2> DEFINE x == IdAt(g, m)
  <2>1. x \in NodeIds  BY <1>4
  <2> HIDE DEF x
  <2>2. /\ Append(s, x) \in Seq(NodeIds) /\ Len(Append(s, x)) = n + 1 /\ Append(s, x)[n + 1] = x
        /\ \A k \in 1..n : Append(s, x)[k] = s[k] /\ Listed(Append(s, x)) = Listed(s) \cup {x}
    BY <2>1, <1>6, AppendLists
  <2>3. Listed(Append(s, x)) = Listed(s) \cup {x}  BY <2>1, <1>6, AppendLists
  <2> QED  BY <2>2, <2>3 DEF x
<1>8. nxt.at = m /\ nxt.seen = t /\ nxt = Iterator("node", <<>>, nxt.at, nxt.seen)
  <2> HIDE DEF m, t
  <2>1. nxt.at = m /\ nxt.seen = t  BY <1>5 DEF Iterator
  <2> QED  BY <1>5, <2>1
<1> HIDE DEF m, t
<1>9. {j \in Occupied(g) : j <= m} = {j \in Occupied(g) : j <= at} \cup {m}
  <2> SUFFICES ASSUME NEW j \in Occupied(g) PROVE j <= m <=> (j <= at \/ j = m)  BY <1>3
  <2>1. j \in Nat /\ (j \in later <=> j > at)  BY <1>1
  <2>2. j > at => m <= j  BY <2>1, <1>2
  <2> HIDE DEF at
  <2> QED  BY <2>1, <2>2, <1>3
<1>10. Listed(t) = {IdAt(g, i) : i \in {j \in Occupied(g) : j <= m}}
  <2>1. Listed(s) = {IdAt(g, i) : i \in {j \in Occupied(g) : j <= at}}  BY DEF NodeIter
  <2> QED  BY <2>1, <1>7, <1>9
<1>11. ASSUME NEW j \in 1..n PROVE s[j][1] < m
  <2>1. s[j] \in Listed(s)  BY DEF Listed
  <2>2. PICK i \in Occupied(g) : i <= at /\ s[j] = IdAt(g, i)  BY <2>1 DEF NodeIter
  <2>3. s[j][1] = i /\ i \in Nat  BY <2>2, <1>1 DEF IdAt
  <2> QED  BY <2>2, <2>3, <1>3
<1>12. ASSUME NEW j \in 1..(n + 1), NEW k \in 1..(n + 1), j < k PROVE t[j][1] < t[k][1]
  <2>1. j \in 1..n  BY <1>6, <1>12
  <2>2. CASE k = n + 1
    <3>1. t[k][1] = m /\ t[j] = s[j]  BY <2>1, <2>2, <1>4, <1>7
    <3> QED  BY <3>1, <2>1, <1>11
  <2>3. CASE k # n + 1
    <3>1. k \in 1..n  BY <1>6, <2>3
    <3>2. t[j] = s[j] /\ t[k] = s[k]  BY <2>1, <3>1, <1>7
    <3> QED  BY <2>1, <3>1, <3>2, <1>12 DEF NodeIter
  <2> QED  BY <2>2, <2>3
<1> QED  BY <1>3, <1>7, <1>8, <1>10, <1>12 DEF NodeIter

\* The iterators of a list go on to the next entry.
LEMMA ListIterGoesOn ==
  ASSUME NEW g, Typed(g), NEW it, ListIter(g, it), NEW list, list = ListOf(g, it), ~(it.at >= Len(list)),
         NEW nxt, MovedTo(it, it.at + 1, Append(it.seen, list[it.at + 1]), nxt)
  PROVE  ListIter(g, nxt)
<1> DEFINE n == it.at
           t == Append(SubSeq(list, 1, n), list[n + 1])
<1>1. list \in Seq(NodeIds) /\ Len(list) \in Nat  BY ListOfLive DEF ListIter
<1>2. n \in 0..Len(list) /\ it.seen = SubSeq(list, 1, n)  BY DEF ListIter
<1>3. n \in Nat /\ n + 1 \in 1..Len(list)  BY <1>1, <1>2
<1>4. it = Iterator(it.kind, it.id, n, it.seen)  BY DEF ListIter
<1>5. nxt = Iterator(it.kind, it.id, n + 1, t)
  <2>1. MovedTo(it, n + 1, t, nxt)  BY <1>2
  <2> HIDE DEF n, t
  <2> QED  BY <2>1, <1>4, IterMoved
<1>6. t = SubSeq(list, 1, n + 1)
  <2> DEFINE u == SubSeq(list, 1, n)
             v == SubSeq(list, 1, n + 1)
  <2>1. \A k \in 1..(n + 1) : k \in 1..Len(list) /\ list[k] \in NodeIds  BY <1>1, <1>3, ElementOfSeq
  <2>2. u \in Seq(NodeIds) /\ Len(u) = n /\ \A k \in 1..n : u[k] = list[k]
    <3>1. \A k \in 1..n : list[k] \in NodeIds  BY <2>1, <1>3
    <3> QED  BY <3>1, <1>3, SubSeqProperties
  <2>3. v \in Seq(NodeIds) /\ Len(v) = n + 1 /\ \A k \in 1..(n + 1) : v[k] = list[k]
    BY <2>1, <1>3, SubSeqProperties
  <2>4. list[n + 1] \in NodeIds  BY <2>1, <1>3
  <2> HIDE DEF u, v
  <2>5. /\ Append(u, list[n + 1]) \in Seq(NodeIds) /\ Len(Append(u, list[n + 1])) = n + 1
        /\ Append(u, list[n + 1])[n + 1] = list[n + 1] /\ \A k \in 1..n : Append(u, list[n + 1])[k] = u[k]
    BY <2>2, <2>4, AppendLists
  <2>6. \A k \in 1..(n + 1) : k \in 1..n \/ k = n + 1  BY <1>3
  <2>7. \A k \in 1..(n + 1) : Append(u, list[n + 1])[k] = v[k]  BY <2>2, <2>3, <2>5, <2>6
  <2>8. Append(u, list[n + 1]) = v  BY <2>3, <2>5, <2>7, SeqEqual
  <2> QED  BY <2>8 DEF u, v
<1>7. nxt.kind = it.kind /\ nxt.id = it.id /\ nxt.at = n + 1 /\ nxt.seen = SubSeq(list, 1, n + 1)
      /\ nxt = Iterator(nxt.kind, nxt.id, nxt.at, nxt.seen)
  <2> DEFINE k == it.kind
             d == it.id
             m == n + 1
             s == SubSeq(list, 1, n + 1)
  <2>1. nxt = Iterator(k, d, m, s)  BY <1>5, <1>6
  <2> HIDE DEF k, d, m, s
  <2>2. nxt.kind = k /\ nxt.id = d /\ nxt.at = m /\ nxt.seen = s  BY <2>1 DEF Iterator
  <2>3. nxt = Iterator(nxt.kind, nxt.id, nxt.at, nxt.seen)  BY <2>1, <2>2
  <2> QED  BY <2>2, <2>3 DEF k, d, m, s
<1>8. ListOf(g, nxt) = list  BY <1>7 DEF ListOf
<1>9. n + 1 \in 0..Len(list)  BY <1>3
<1> QED  BY <1>7, <1>8, <1>9 DEF ListIter

------------------------------------------------------------------------------
\* What the calls do to nodes and edges.

\* The nodes, the edges, what is marked, what is pending, what was ever issued, and the visits.
Holds(g, nodes, edges, marked, doomed, issued, visits) ==
    /\ LiveIds(g) = nodes /\ OutEdges(g) = edges
    /\ MarkedIds(g) = marked /\ Listed(g.pending_edge_removals) = doomed
    /\ IssuedIds(g) = issued /\ VisitsOf(g) = visits

Alike(g, h) ==
    Holds(h, LiveIds(g), OutEdges(g), MarkedIds(g), Listed(g.pending_edge_removals), IssuedIds(g), VisitsOf(g))

\* What a graph with other lists keeps.
LEMMA FaceFacts ==
  ASSUME NEW g, NEW h, Typed(g), Typed(h), Same(g, h)
  PROVE  /\ LiveIds(h) = LiveIds(g) /\ MarkedIds(h) = MarkedIds(g)
         /\ IssuedIds(h) = IssuedIds(g) /\ VisitsOf(h) = VisitsOf(g)
<1>1. /\ SlotsOf(h) = SlotsOf(g) /\ Occupied(h) = Occupied(g) /\ Marked(h) = Marked(g)
      /\ \A i \in SlotsOf(g) : IdAt(h, i) = IdAt(g, i) /\ h.slots[i].visit_count = g.slots[i].visit_count
      /\ \A i \in SlotsOf(g) : h.slots[i].generation = g.slots[i].generation
      /\ \A id : IsLive(h, id) <=> IsLive(g, id)
  BY SameFacts
<1>2. /\ DOMAIN g.slots = SlotsOf(g) /\ DOMAIN h.slots = SlotsOf(g)
      /\ Occupied(g) \subseteq SlotsOf(g) /\ Marked(g) \subseteq SlotsOf(g)
  BY <1>1, SlotFacts
<1>3. LiveIds(h) = LiveIds(g)  BY <1>1, <1>2 DEF LiveIds
<1>4. MarkedIds(h) = MarkedIds(g)  BY <1>1, <1>2 DEF MarkedIds
<1>5. IssuedIds(h) = IssuedIds(g)  BY <1>1, <1>2 DEF IssuedIds, Slot
<1>6. VisitsOf(h) = VisitsOf(g)
  <2>1. \A id : IsLive(g, id) => id[1] \in SlotsOf(g)  BY <1>2 DEF IsLive
  <2>2. \A id \in NodeIds : (IF IsLive(h, id) THEN Slot(h, id).visit_count ELSE 0)
                            = (IF IsLive(g, id) THEN Slot(g, id).visit_count ELSE 0)
    BY <1>1, <2>1 DEF Slot
  <2> QED  BY <2>2 DEF VisitsOf
<1> QED  BY <1>3, <1>4, <1>5, <1>6

\* What a graph with the same slots keeps.
LEMMA SlotsAlike ==
  ASSUME NEW g, NEW h, Typed(g), Typed(h), h.slots = g.slots
  PROVE  /\ SameView(g, h) /\ LiveIds(h) = LiveIds(g) /\ OutEdges(h) = OutEdges(g) /\ MarkedIds(h) = MarkedIds(g)
         /\ IssuedIds(h) = IssuedIds(g) /\ VisitsOf(h) = VisitsOf(g)
<1>1. /\ Occupied(h) = Occupied(g) /\ Marked(h) = Marked(g) /\ SlotsOf(h) = SlotsOf(g)
      /\ OutEdges(h) = OutEdges(g) /\ LiveIds(h) = LiveIds(g)
      /\ \A i : IdAt(h, i) = IdAt(g, i)
      /\ \A id : (IsLive(h, id) <=> IsLive(g, id)) /\ Slot(h, id) = Slot(g, id)
  BY SameSlots
<1>2. MarkedIds(h) = MarkedIds(g)  BY <1>1 DEF MarkedIds
<1>3. IssuedIds(h) = IssuedIds(g)  BY <1>1 DEF IssuedIds
<1>4. VisitsOf(h) = VisitsOf(g)  BY <1>1 DEF VisitsOf
<1>5. SameView(g, h)  BY DEF SameView
<1> QED  BY <1>1, <1>2, <1>3, <1>4, <1>5

\* Nothing happens to the graph, but its arrays may grow.
LEMMA NothingHappens ==
  ASSUME NEW g, Valid(g), NEW h, Typed(h), h.slots = g.slots, h.free_indices = g.free_indices,
         h.pending_edge_removals = g.pending_edge_removals, h.live_count = g.live_count,
         h.edge_count = g.edge_count, h.pending_delete_count = g.pending_delete_count, h.aborted = g.aborted
  PROVE  Valid(h) /\ SameView(g, h) /\ Alike(g, h)
<1>1. Linked(g) /\ Typed(g) /\ ~h.aborted  BY DEF Valid, Linked
<1>2. Linked(h)  BY <1>1, LinkedCopy
<1>3. Occupied(h) = Occupied(g) /\ Marked(h) = Marked(g) /\ SlotsOf(h) = SlotsOf(g) /\ OutEdges(h) = OutEdges(g)
  BY SameSlots
<1>4. Valid(h)  BY <1>2, <1>3 DEF Valid, Freed, Counted, Pending
<1>5. SameView(g, h) /\ Alike(g, h)  BY <1>1, SlotsAlike DEF Alike, Holds
<1> QED  BY <1>4, <1>5

\* Arrays that are reserved.
LEMMA ReserveProps ==
  ASSUME NEW g, Valid(g), NEW n \in Nat, NEW failing, NEW h, h = reserve_graph(g, n, failing)
  PROVE  Valid(h) /\ SameView(g, h) /\ Alike(g, h) /\ h.slots = g.slots /\ h.free_indices = g.free_indices
         /\ h.live_count = g.live_count
<1>1. Typed(g)  BY DEF Valid, Linked
<1>2. g \in GraphType /\ g.free_capacity \in Nat /\ g.slots_capacity \in Nat
  BY <1>1, TypedParts DEF Typed
<1> DEFINE c == IF failing = "free_indices" THEN g.free_capacity ELSE Larger(g.free_capacity, n)
           d == IF failing \in {"free_indices", "slots"} THEN g.slots_capacity ELSE Larger(g.slots_capacity, n)
<1>3. c \in Nat /\ d \in Nat  BY <1>2 DEF Larger
<1>4. h = [g EXCEPT !.free_capacity = c, !.slots_capacity = d]  BY <1>2 DEF reserve_graph
<1> HIDE DEF c, d
<1>5. /\ h \in GraphType /\ h.slots = g.slots /\ h.free_indices = g.free_indices
      /\ h.pending_edge_removals = g.pending_edge_removals /\ h.live_count = g.live_count
      /\ h.edge_count = g.edge_count /\ h.pending_delete_count = g.pending_delete_count /\ h.aborted = g.aborted
  BY <1>2, <1>3, <1>4 DEF GraphType
<1>6. Typed(h)  BY <1>1, <1>5 DEF Typed
<1> QED  BY <1>5, <1>6, NothingHappens

\* The node added is one that was never there.
LEMMA NodeGiven ==
  ASSUME NEW g, Valid(g), NEW i, NEW n, NEW h, NodeAdded(g, i, n, h), i \in Indices,
         i \in SlotsOf(g) => n = g.slots[i].generation, i \notin SlotsOf(g) => n = 1,
         Freed(h), h.pending_edge_removals = g.pending_edge_removals,
         h.live_count = g.live_count + 1, h.pending_delete_count = g.pending_delete_count
  PROVE  /\ Valid(h) /\ <<i, n>> \in NodeIds \ IssuedIds(g)
         /\ Holds(h, LiveIds(g) \cup {<<i, n>>}, OutEdges(g), MarkedIds(g), Listed(g.pending_edge_removals),
                  IssuedIds(g) \cup {<<i, n>>}, VisitsOf(g))
<1> DEFINE p == <<i, n>>
<1>1. Typed(g) /\ Linked(g) /\ Typed(h) /\ n \in 1..MaxGeneration /\ i \notin Occupied(g)
      /\ SlotsOf(h) = SlotsOf(g) \cup {i} /\ h.slots[i] = NewSlot(n)
      /\ \A k \in SlotsOf(g) : k # i => h.slots[k] = g.slots[k]
  BY DEF Valid, Linked, NodeAdded
<1>2. /\ Linked(h) /\ OutEdges(h) = OutEdges(g) /\ Occupied(h) = Occupied(g) \cup {i} /\ Marked(h) = Marked(g)
      /\ LiveIds(h) = LiveIds(g) \cup {p} /\ MarkedIds(h) = MarkedIds(g)
  BY AddNodeFacts
<1>3. DOMAIN g.slots = SlotsOf(g) /\ DOMAIN h.slots = SlotsOf(h)  BY <1>1, SlotFacts
<1>4. h.slots[i].generation = n /\ h.slots[i].visit_count = 0 /\ h.slots[i].occupied = TRUE
  BY <1>1, FreeSlotFacts
<1>5. p \in NodeIds /\ p[1] = i /\ p[2] = n  BY <1>1 DEF NodeIds
<1>6. \A id \in NodeIds : id = <<id[1], id[2]>> /\ id[2] \in 1..MaxGeneration  BY DEF NodeIds
<1>7. \A id : IsLive(g, id) => id[1] # i  BY <1>1, <1>3 DEF IsLive, Occupied
<1> HIDE DEF p
<1>8. p \notin IssuedIds(g)
  <2>1. ~IsLive(g, p)  BY <1>5, <1>7
  <2>2. p[1] \in DOMAIN g.slots => ~(p[2] < Slot(g, p).generation)
    <3> SUFFICES ASSUME i \in SlotsOf(g) PROVE ~(n < g.slots[i].generation)  BY <1>3, <1>5 DEF Slot
    <3>1. n = g.slots[i].generation /\ n \in Int  BY <1>1
    <3> QED  BY <3>1
  <2> QED  BY <2>1, <2>2 DEF IssuedIds
<1>9. \A id \in NodeIds : IsLive(h, id) <=> IsLive(g, id) \/ id = p
  <2> SUFFICES ASSUME NEW id \in NodeIds PROVE IsLive(h, id) <=> IsLive(g, id) \/ id = p  OBVIOUS
  <2>1. CASE id[1] = i  BY <2>1, <1>1, <1>3, <1>4, <1>6, <1>7 DEF IsLive, p
  <2>2. CASE id[1] # i  BY <2>2, <1>1, <1>3, <1>5 DEF IsLive
  <2> QED  BY <2>1, <2>2
<1>10. IssuedIds(h) = IssuedIds(g) \cup {p}
  <2> SUFFICES ASSUME NEW id \in NodeIds PROVE id \in IssuedIds(h) <=> id \in IssuedIds(g) \/ id = p
    BY <1>5 DEF IssuedIds
  <2>1. CASE id[1] = i
    <3>1. id \in IssuedIds(h) <=> id[2] < n \/ IsLive(h, id)  BY <2>1, <1>1, <1>3, <1>4 DEF IssuedIds, Slot
    <3>2. id[2] < n => i \in SlotsOf(g)  BY <1>1, <1>6
    <3>3. id \in IssuedIds(g) <=> i \in SlotsOf(g) /\ id[2] < n
      BY <2>1, <1>1, <1>3, <1>7 DEF IssuedIds, Slot
    <3> QED  BY <2>1, <3>1, <3>2, <3>3, <1>7, <1>9
  <2>2. CASE id[1] # i
    <3>1. id # p  BY <2>2, <1>5
    <3> QED  BY <2>2, <3>1, <1>1, <1>3, <1>9 DEF IssuedIds, Slot
  <2> QED  BY <2>1, <2>2
<1>11. VisitsOf(h) = VisitsOf(g)
  <2>1. ASSUME NEW id \in NodeIds
        PROVE  (IF IsLive(h, id) THEN Slot(h, id).visit_count ELSE 0)
               = (IF IsLive(g, id) THEN Slot(g, id).visit_count ELSE 0)
    <3>1. CASE id = p  BY <3>1, <1>4, <1>5, <1>7, <1>9 DEF Slot
    <3>2. CASE id # p /\ IsLive(g, id)
      <4>1. id[1] \in SlotsOf(g) /\ id[1] # i  BY <3>2, <1>3, <1>7 DEF IsLive
      <4> QED  BY <3>2, <4>1, <1>1, <1>9 DEF Slot
    <3>3. CASE id # p /\ ~IsLive(g, id)  BY <3>3, <1>9
    <3> QED  BY <3>1, <3>2, <3>3
  <2> QED  BY <2>1 DEF VisitsOf
<1>12. Counted(h)
  <2>1. IsFiniteSet(Occupied(g))  BY <1>1, OccupiedFinite
  <2>2. Cardinality(Occupied(g) \cup {i}) = Cardinality(Occupied(g)) + 1  BY <2>1, <1>1, FS_AddElement
  <2> QED  BY <2>2, <1>2 DEF Valid, Counted
<1>13. Valid(h)  BY <1>2, <1>12 DEF Valid, Pending
<1> QED  BY <1>2, <1>5, <1>8, <1>10, <1>11, <1>13 DEF Holds, p

------------------------------------------------------------------------------
\* Nodes come.

\* A list without its last member.
LEMMA FrontFacts ==
  ASSUME NEW D, NEW s, Once(D, s), s # <<>>
  PROVE  /\ Once(D, Front(s)) /\ Last(s) \in D /\ Last(s) \in Listed(s)
         /\ Listed(Front(s)) = Listed(s) \ {Last(s)} /\ Append(Front(s), Last(s)) = s
<1> DEFINE n == Len(s)
           t == Front(s)
           x == Last(s)
<1>1. s \in Seq(D) /\ n \in Nat /\ \A j, k \in 1..n : s[j] = s[k] => j = k  BY DEF Once
<1>2. n # 0  BY <1>1, EmptySeq
<1>3. n - 1 \in Nat /\ n \in 1..n /\ \A k \in 1..n : s[k] \in D  BY <1>1, <1>2, ElementOfSeq
<1>4. x = s[n] /\ x \in D /\ x \in Listed(s)  BY <1>3 DEF Last, Listed
<1>5. t \in Seq(D) /\ Len(t) = n - 1 /\ \A k \in 1..(n - 1) : t[k] = s[k]
  <2> DEFINE m == n - 1
             u == SubSeq(s, 1, m)
  <2>1. \A k \in 1..m : s[k] \in D  BY <1>3
  <2>2. m \in Nat  BY <1>3
  <2> HIDE DEF m
  <2>3. u \in Seq(D) /\ Len(u) = m /\ \A k \in 1..m : u[k] = s[k]
    BY <2>1, <2>2, SubSeqProperties
  <2> QED  BY <2>3 DEF Front, m
<1> HIDE DEF t, x
<1>6. \A k \in 1..n : k \in 1..(n - 1) \/ k = n  BY <1>3
<1>7. \A k \in 1..(n - 1) : k \in 1..n /\ k # n  BY <1>3
<1>8. Once(D, t)
  <2>1. \A j, k \in 1..(n - 1) : t[j] = t[k] => j = k  BY <1>1, <1>5, <1>7
  <2> QED  BY <2>1, <1>5 DEF Once
<1>9. Listed(t) = Listed(s) \ {x}
  <2> HIDE DEF n
  <2>1. Listed(t) = {t[k] : k \in 1..(n - 1)} /\ Listed(s) = {s[k] : k \in 1..n}  BY <1>5 DEF Listed, n
  <2>2. \A k \in 1..(n - 1) : s[k] # x  BY <1>1, <1>3, <1>4, <1>7
  <2> QED  BY <2>1, <2>2, <1>4, <1>5, <1>6, <1>7
<1>10. Append(t, x) = s
  <2>1. /\ Append(t, x) \in Seq(D) /\ Len(Append(t, x)) = (n - 1) + 1 /\ Append(t, x)[(n - 1) + 1] = x
        /\ \A k \in 1..(n - 1) : Append(t, x)[k] = t[k]
    BY <1>4, <1>5, AppendLists
  <2>2. (n - 1) + 1 = n  BY <1>3
  <2>3. \A k \in 1..n : Append(t, x)[k] = s[k]  BY <2>1, <2>2, <1>4, <1>5, <1>6
  <2> QED  BY <2>1, <2>2, <2>3, <1>1, SeqEqual
<1> QED  BY <1>4, <1>8, <1>9, <1>10 DEF t, x

\* A graph whose list of free indices is another one.
LEMMA IndicesSet ==
  ASSUME NEW g, Typed(g), NEW s \in Seq(Indices), NEW h, h = [g EXCEPT !.free_indices = s]
  PROVE  /\ Typed(h) /\ h.slots = g.slots /\ h.free_indices = s
         /\ h.pending_edge_removals = g.pending_edge_removals /\ h.live_count = g.live_count
         /\ h.edge_count = g.edge_count /\ h.pending_delete_count = g.pending_delete_count /\ h.aborted = g.aborted
         /\ h.slots_capacity = g.slots_capacity /\ h.free_capacity = g.free_capacity
<1>1. g \in GraphType  BY DEF Typed
<1>2. h \in GraphType  BY <1>1 DEF GraphType
<1> QED  BY <1>1, <1>2 DEF Typed, GraphType

Taken(g) == [g EXCEPT !.free_indices = Front(@)]

\* The last free index is taken.
LEMMA TakenFacts ==
  ASSUME NEW g, Valid(g), g.free_indices # <<>>, NEW i, i = Last(g.free_indices), NEW k, k = Taken(g)
  PROVE  /\ Typed(k) /\ k.slots = g.slots /\ k.free_indices = Front(g.free_indices)
         /\ k.pending_edge_removals = g.pending_edge_removals /\ k.live_count = g.live_count
         /\ k.edge_count = g.edge_count /\ k.pending_delete_count = g.pending_delete_count /\ k.aborted = g.aborted
         /\ Once(Indices, Front(g.free_indices)) /\ Listed(Front(g.free_indices)) = Listed(g.free_indices) \ {i}
         /\ Append(Front(g.free_indices), i) = g.free_indices
         /\ i \in SlotsOf(g) /\ i \in Indices /\ i \notin Occupied(g) /\ g.slots[i].occupied = FALSE
         /\ g.slots[i] = FreeSlot(g.slots[i].generation) /\ g.slots[i].generation \in 1..MaxGeneration
<1>1. Typed(g) /\ Linked(g)  BY DEF Valid, Linked
<1>2. Once(Indices, g.free_indices) /\ Listed(g.free_indices) = SlotsOf(g) \ Occupied(g)
  BY DEF Valid, Freed
<1> DEFINE s == Front(g.free_indices)
<1>3. /\ Once(Indices, s) /\ i \in Indices /\ i \in Listed(g.free_indices)
      /\ Listed(s) = Listed(g.free_indices) \ {i} /\ Append(s, i) = g.free_indices
  BY <1>2, FrontFacts
<1> HIDE DEF s
<1>4. s \in Seq(Indices)  BY <1>3 DEF Once
<1>5. k = [g EXCEPT !.free_indices = s]  BY DEF Taken, s
<1>6. /\ Typed(k) /\ k.slots = g.slots /\ k.free_indices = s
      /\ k.pending_edge_removals = g.pending_edge_removals /\ k.live_count = g.live_count
      /\ k.edge_count = g.edge_count /\ k.pending_delete_count = g.pending_delete_count /\ k.aborted = g.aborted
  BY <1>1, <1>4, <1>5, IndicesSet
<1>7. i \in SlotsOf(g) /\ i \notin Occupied(g)  BY <1>2, <1>3
<1>8. g.slots[i] \in SlotType /\ DOMAIN g.slots = SlotsOf(g)  BY <1>1, <1>7, SlotFacts
<1>9. g.slots[i].occupied = FALSE /\ g.slots[i].generation \in 1..MaxGeneration
  BY <1>7, <1>8 DEF Occupied, SlotType
<1>10. g.slots[i] = FreeSlot(g.slots[i].generation)  BY <1>1, <1>7, <1>9 DEF Linked, Tidy
<1> QED  BY <1>3, <1>6, <1>7, <1>9, <1>10 DEF s

Reused(g, i, h) ==
    h = [Taken(g) EXCEPT !.slots[i] = NewSlot(@.generation), !.live_count = @ + 1,
                         !.aborted = @ \/ g.slots[i].occupied]

\* A free slot is used again.
LEMMA ReuseProps ==
  ASSUME NEW g, Valid(g), g.free_indices # <<>>, NEW i, i = Last(g.free_indices), NEW h, Reused(g, i, h)
  PROVE  \E p \in NodeIds \ IssuedIds(g) :
            /\ Valid(h)
            /\ Holds(h, LiveIds(g) \cup {p}, OutEdges(g), MarkedIds(g), Listed(g.pending_edge_removals),
                     IssuedIds(g) \cup {p}, VisitsOf(g))
<1> DEFINE t == Taken(g)
           n == g.slots[i].generation
           s == NewSlot(n)
           k == [t EXCEPT !.slots[i] = s]
<1>1. Typed(g) /\ Linked(g) /\ ~g.aborted  BY DEF Valid, Linked
<1>2. /\ Typed(t) /\ t.slots = g.slots /\ t.free_indices = Front(g.free_indices)
      /\ t.pending_edge_removals = g.pending_edge_removals /\ t.live_count = g.live_count
      /\ t.edge_count = g.edge_count /\ t.pending_delete_count = g.pending_delete_count /\ t.aborted = g.aborted
      /\ Once(Indices, Front(g.free_indices)) /\ Listed(Front(g.free_indices)) = Listed(g.free_indices) \ {i}
      /\ i \in SlotsOf(g) /\ i \in Indices /\ i \notin Occupied(g) /\ g.slots[i].occupied = FALSE
      /\ n \in 1..MaxGeneration
  BY TakenFacts
<1> HIDE DEF t, n
<1>3. s \in SlotType  BY <1>2, FreeSlotFacts
<1>4. SlotsOf(t) = SlotsOf(g)  BY <1>2 DEF SlotsOf
<1>5. SlotSet(t, i, s, k)  BY DEF SlotSet
<1> HIDE DEF s
<1> HIDE DEF k
<1>6. /\ Typed(k) /\ Elsewhere(t, k) /\ SlotsOf(k) = SlotsOf(t) /\ k.slots[i] = s
      /\ \A m \in SlotsOf(t) : m # i => k.slots[m] = t.slots[m]
  BY <1>2, <1>3, <1>4, <1>5, SlotUpdate
<1>7. h = [k EXCEPT !.live_count = g.live_count + 1, !.aborted = FALSE]
  <2>1. h = [t EXCEPT !.slots[i] = NewSlot(t.slots[i].generation), !.live_count = t.live_count + 1,
                      !.aborted = t.aborted \/ g.slots[i].occupied]
    BY DEF Reused, t
  <2>2. t.slots[i].generation = n  BY <1>2 DEF n
  <2>3. (t.aborted \/ g.slots[i].occupied) = FALSE  BY <1>1, <1>2
  <2>4. h = [t EXCEPT !.slots[i] = s, !.live_count = g.live_count + 1, !.aborted = FALSE]
    BY <2>1, <2>2, <2>3, <1>2 DEF s
  <2> QED  BY <2>4 DEF k
<1>8. k \in GraphType /\ g.live_count \in Nat  BY <1>1, <1>6, TypedParts DEF Typed
<1>9. /\ h \in GraphType /\ h.slots = k.slots /\ h.free_indices = k.free_indices
      /\ h.pending_edge_removals = k.pending_edge_removals /\ h.edge_count = k.edge_count
      /\ h.pending_delete_count = k.pending_delete_count /\ h.live_count = g.live_count + 1 /\ ~h.aborted
  <2>1. g.live_count + 1 \in Nat  BY <1>8
  <2> QED  BY <2>1, <1>7, <1>8 DEF GraphType
<1>10. Typed(h)  BY <1>6, <1>9 DEF Typed
<1>11. SlotsOf(h) = SlotsOf(g)  BY <1>4, <1>6, <1>9 DEF SlotsOf
<1>12. NodeAdded(g, i, n, h)
  <2>1. h.slots[i] = NewSlot(n) /\ \A m \in SlotsOf(g) : m # i => h.slots[m] = g.slots[m]
    BY <1>2, <1>4, <1>6, <1>9 DEF s
  <2>2. h.edge_count = g.edge_count  BY <1>2, <1>6, <1>9 DEF Elsewhere
  <2>3. SlotsOf(h) = SlotsOf(g) \cup {i}  BY <1>2, <1>11
  <2> QED  BY <2>1, <2>2, <2>3, <1>1, <1>2, <1>9, <1>10 DEF NodeAdded
<1>13. Occupied(h) = Occupied(g) \cup {i}  BY <1>12, AddNodeFacts
<1>14. h.free_indices = Front(g.free_indices) /\ h.pending_edge_removals = g.pending_edge_removals
       /\ h.pending_delete_count = g.pending_delete_count
  BY <1>2, <1>6, <1>9 DEF Elsewhere
<1>15. Freed(h)
  <2>1. Listed(g.free_indices) = SlotsOf(g) \ Occupied(g)  BY DEF Valid, Freed
  <2>2. Listed(h.free_indices) = SlotsOf(h) \ Occupied(h)  BY <2>1, <1>2, <1>11, <1>13, <1>14
  <2> QED  BY <2>2, <1>2, <1>14 DEF Freed
<1>16. n = g.slots[i].generation  BY DEF n
<1>17. /\ Valid(h) /\ <<i, n>> \in NodeIds \ IssuedIds(g)
       /\ Holds(h, LiveIds(g) \cup {<<i, n>>}, OutEdges(g), MarkedIds(g), Listed(g.pending_edge_removals),
                IssuedIds(g) \cup {<<i, n>>}, VisitsOf(g))
  BY <1>2, <1>9, <1>12, <1>14, <1>15, <1>16, NodeGiven
<1> QED  BY <1>17

GivenBack(g, i, h) ==
    h = graph_push_free_index([Taken(g) EXCEPT !.slots[i] = FreeSlot(@.generation)], i)

\* Or its index goes back where it was.
LEMMA GiveBackProps ==
  ASSUME ~IndexGrowthFails, NEW g, Valid(g), g.free_indices # <<>>, NEW i, i = Last(g.free_indices),
         NEW h, GivenBack(g, i, h)
  PROVE  Valid(h) /\ SameView(g, h) /\ Alike(g, h)
<1> DEFINE t == Taken(g)
           n == g.slots[i].generation
           s == FreeSlot(n)
           k == [t EXCEPT !.slots[i] = FreeSlot(t.slots[i].generation)]
<1>1. Typed(g) /\ Linked(g) /\ ~g.aborted  BY DEF Valid, Linked
<1>2. /\ Typed(t) /\ t.slots = g.slots /\ t.free_indices = Front(g.free_indices)
      /\ t.pending_edge_removals = g.pending_edge_removals /\ t.live_count = g.live_count
      /\ t.edge_count = g.edge_count /\ t.pending_delete_count = g.pending_delete_count /\ t.aborted = g.aborted
      /\ Append(Front(g.free_indices), i) = g.free_indices
      /\ i \in SlotsOf(g) /\ i \in Indices
      /\ g.slots[i] = s /\ n \in 1..MaxGeneration
  BY TakenFacts
<1>3. h = graph_push_free_index(k, i)  BY DEF GivenBack
<1> HIDE DEF t, n
<1>4. s \in SlotType  BY <1>2, FreeSlotFacts
<1>5. SlotsOf(t) = SlotsOf(g)  BY <1>2 DEF SlotsOf
<1>6. SlotSet(t, i, s, k)
  <2>1. t.slots[i].generation = n  BY <1>2 DEF n
  <2> QED  BY <2>1 DEF SlotSet
<1> HIDE DEF s, k
<1>7. /\ Typed(k) /\ Elsewhere(t, k) /\ Len(k.slots) = Len(t.slots) /\ k.slots[i] = s
      /\ \A m \in SlotsOf(t) : m # i => k.slots[m] = t.slots[m]
  BY <1>2, <1>4, <1>5, <1>6, SlotUpdate
<1>8. k.slots = g.slots
  <2>1. k.slots \in Seq(SlotType) /\ g.slots \in Seq(SlotType)  BY <1>1, <1>7, SlotFacts
  <2>2. Len(k.slots) = Len(g.slots) /\ \A m \in 1..Len(g.slots) : k.slots[m] = g.slots[m]
    BY <1>2, <1>5, <1>7 DEF SlotsOf
  <2> QED  BY <2>1, <2>2, SeqEqual
<1>9. /\ Typed(h) /\ h.slots = k.slots /\ h.free_indices = Append(k.free_indices, i)
      /\ h.pending_edge_removals = k.pending_edge_removals /\ h.live_count = k.live_count
      /\ h.edge_count = k.edge_count /\ h.pending_delete_count = k.pending_delete_count /\ h.aborted = k.aborted
  BY <1>2, <1>3, <1>7, PushFreeIndex
<1>10. /\ h.slots = g.slots /\ h.free_indices = g.free_indices
       /\ h.pending_edge_removals = g.pending_edge_removals /\ h.live_count = g.live_count
       /\ h.edge_count = g.edge_count /\ h.pending_delete_count = g.pending_delete_count /\ h.aborted = g.aborted
  BY <1>2, <1>7, <1>8, <1>9 DEF Elsewhere
<1> QED  BY <1>9, <1>10, NothingHappens

Appended(g, capacity, h) ==
    h = [g EXCEPT !.slots = Append(@, NewSlot(1)), !.slots_capacity = capacity, !.live_count = @ + 1]

\* A slot is appended.
LEMMA AppendProps ==
  ASSUME NEW g, Valid(g), g.free_indices = <<>>, Len(g.slots) < MaxSlots, NEW capacity \in Nat,
         NEW h, Appended(g, capacity, h)
  PROVE  \E p \in NodeIds \ IssuedIds(g) :
            /\ Valid(h)
            /\ Holds(h, LiveIds(g) \cup {p}, OutEdges(g), MarkedIds(g), Listed(g.pending_edge_removals),
                     IssuedIds(g) \cup {p}, VisitsOf(g))
<1> DEFINE i == Len(g.slots) + 1
           sl == Append(g.slots, NewSlot(1))
<1>1. Typed(g) /\ Linked(g) /\ ~g.aborted  BY DEF Valid, Linked
<1>2. Len(g.slots) \in Nat /\ g.slots \in Seq(SlotType) /\ Occupied(g) \subseteq SlotsOf(g)  BY <1>1, SlotFacts
<1>3. MaxSlots \in Nat /\ 1 \in 1..MaxGeneration  BY GraphAssumption
<1>4. i \in Indices /\ i \notin SlotsOf(g)  BY <1>2, <1>3 DEF Indices, SlotsOf
<1>5. NewSlot(1) \in SlotType  BY <1>3, FreeSlotFacts
<1>6. /\ sl \in Seq(SlotType) /\ Len(sl) = i /\ sl[i] = NewSlot(1) /\ \A k \in 1..Len(g.slots) : sl[k] = g.slots[k]
  BY <1>2, <1>5, AppendLists
<1>7. g \in GraphType /\ g.live_count \in Nat  BY <1>1, TypedParts DEF Typed
<1>8. h = [g EXCEPT !.slots = sl, !.slots_capacity = capacity, !.live_count = g.live_count + 1]
  BY DEF Appended
<1> HIDE DEF sl
<1>9. /\ h \in GraphType /\ h.slots = sl /\ h.free_indices = g.free_indices
      /\ h.pending_edge_removals = g.pending_edge_removals /\ h.edge_count = g.edge_count
      /\ h.pending_delete_count = g.pending_delete_count /\ h.live_count = g.live_count + 1 /\ ~h.aborted
  <2>1. g.live_count + 1 \in Nat  BY <1>7
  <2>2. sl \in Seq(SlotType)  BY <1>6
  <2> QED  BY <2>1, <2>2, <1>1, <1>7, <1>8 DEF GraphType
<1>10. Typed(h) /\ SlotsOf(h) = SlotsOf(g) \cup {i}
  BY <1>2, <1>3, <1>6, <1>9 DEF Typed, SlotsOf
<1> HIDE DEF i
<1>11. NodeAdded(g, i, 1, h)
  <2>1. h.slots[i] = NewSlot(1) /\ \A m \in SlotsOf(g) : m # i => h.slots[m] = g.slots[m]
    BY <1>6, <1>9 DEF SlotsOf
  <2> QED  BY <2>1, <1>1, <1>2, <1>3, <1>4, <1>9, <1>10 DEF NodeAdded
<1>12. Occupied(h) = Occupied(g) \cup {i}  BY <1>11, AddNodeFacts
<1>13. Freed(h)
  <2>1. Once(Indices, g.free_indices) /\ Listed(g.free_indices) = SlotsOf(g) \ Occupied(g)  BY DEF Valid, Freed
  <2> QED  BY <2>1, <1>4, <1>9, <1>10, <1>12 DEF Freed
<1>14. /\ Valid(h) /\ <<i, 1>> \in NodeIds \ IssuedIds(g)
       /\ Holds(h, LiveIds(g) \cup {<<i, 1>>}, OutEdges(g), MarkedIds(g), Listed(g.pending_edge_removals),
                IssuedIds(g) \cup {<<i, 1>>}, VisitsOf(g))
  BY <1>4, <1>9, <1>11, <1>13, NodeGiven
<1> QED  BY <1>14

------------------------------------------------------------------------------
\* Edges come, and marks and visits change.

\* A new edge.
LEMMA EdgeGiven ==
  ASSUME NEW g, Valid(g), NEW a, NEW b, a \in LiveIds(g), b \in LiveIds(g),
         b \notin Listed(Slot(g, a).out), NEW h, EdgeAdded(g, a, b, h)
  PROVE  /\ Valid(h) /\ <<a, b>> \in (LiveIds(g) \X LiveIds(g)) \ OutEdges(g)
         /\ Holds(h, LiveIds(g), OutEdges(g) \cup {<<a, b>>}, MarkedIds(g), Listed(g.pending_edge_removals),
                  IssuedIds(g), VisitsOf(g))
<1>1. Linked(g) /\ Typed(g)  BY DEF Valid, Linked
<1>2. /\ Linked(h) /\ Typed(h) /\ Same(g, h) /\ OutEdges(h) = OutEdges(g) \cup {<<a, b>>}
      /\ <<a, b>> \notin OutEdges(g)
  BY <1>1, AddEdgeFacts DEF Trimmed, Linked
<1>3. /\ LiveIds(h) = LiveIds(g) /\ MarkedIds(h) = MarkedIds(g)
      /\ IssuedIds(h) = IssuedIds(g) /\ VisitsOf(h) = VisitsOf(g)
  BY <1>1, <1>2, FaceFacts
<1>4. SlotsOf(h) = SlotsOf(g) /\ Occupied(h) = Occupied(g) /\ Marked(h) = Marked(g)
  BY <1>1, <1>2, SameFacts
<1>5. /\ h.free_indices = g.free_indices /\ h.pending_edge_removals = g.pending_edge_removals
      /\ h.live_count = g.live_count /\ h.pending_delete_count = g.pending_delete_count
  BY <1>2 DEF Same
<1>6. Valid(h)  BY <1>2, <1>4, <1>5 DEF Valid, Freed, Counted, Pending
<1> QED  BY <1>2, <1>3, <1>5, <1>6 DEF Holds

\* An entry put at the end of a list and taken back.
LEMMA FrontAppend ==
  ASSUME NEW D, NEW s \in Seq(D), NEW x \in D
  PROVE  Front(Append(s, x)) = s
<1> DEFINE t == Append(s, x)
           n == Len(s)
           u == SubSeq(t, 1, n)
<1>1. n \in Nat /\ t \in Seq(D) /\ Len(t) = n + 1 /\ \A k \in 1..n : t[k] = s[k]
  BY AppendLists
<1>2. (n + 1) - 1 = n  BY <1>1
<1>3. Front(t) = u  BY <1>1, <1>2 DEF Front
<1> HIDE DEF t, n
<1>4. \A k \in 1..n : t[k] \in D
  <2>1. \A k \in 1..n : k \in 1..Len(s)  BY DEF n
  <2> QED  BY <2>1, <1>1, ElementOfSeq
<1>5. u \in Seq(D) /\ Len(u) = n /\ \A k \in 1..n : u[k] = t[k]  BY <1>1, <1>4, SubSeqProperties
<1>6. u = s
  <2>1. Len(s) = n  BY DEF n
  <2> HIDE DEF u
  <2>2. \A k \in 1..n : u[k] = s[k]  BY <1>1, <1>5
  <2> QED  BY <2>1, <2>2, <1>5, SeqEqual
<1> QED  BY <1>3, <1>6 DEF t

TakenBack(g, a, b, h) == h = TakeBackOut(AddOut(g, <<a, b>>), <<a, b>>)

\* A new edge whose second entry does not fit.
LEMMA EdgeRefused ==
  ASSUME NEW g, Valid(g), NEW a, NEW b, a \in LiveIds(g), b \in LiveIds(g), NEW h, TakenBack(g, a, b, h)
  PROVE  Valid(h) /\ SameView(g, h) /\ Alike(g, h)
<1> DEFINE e == <<a, b>>
           i == a[1]
           s == g.slots[i]
           long == Append(s.out, b)
           t == WithOut(s, long)
           k == AddOut(g, e)
<1>1. Linked(g) /\ Typed(g)  BY DEF Valid, Linked
<1>2. a \in NodeIds /\ b \in NodeIds
  <2>1. LiveIds(g) \subseteq NodeIds  BY <1>1, SlotFacts DEF LiveIds
  <2> QED  BY <2>1
<1>3. i \in SlotsOf(g) /\ s \in SlotType /\ i \in DOMAIN g.slots
  <2>1. i \in Occupied(g)  BY <1>1, <1>2, LiveFacts
  <2> QED  BY <2>1, <1>1, SlotFacts
<1>4. s.out \in Seq(NodeIds)  BY <1>3 DEF SlotType
<1>5. long \in Seq(NodeIds) /\ Front(long) = s.out  BY <1>2, <1>4, FrontAppend, AppendLists
<1>6. SlotSet(g, i, t, k)
  <2>1. g \in GraphType /\ g.slots \in Seq(SlotType)  BY <1>1, SlotFacts DEF Typed
  <2> QED  BY <2>1, <1>3 DEF AddOut, SlotSet, WithOut
<1>7. h = TakeBackOut(k, e)  BY DEF TakenBack
<1> HIDE DEF k, long
<1>8. t \in SlotType /\ t.out = long /\ t.in = s.in /\ Face(t) = Face(s)  BY <1>3, <1>5, SlotLists
<1> HIDE DEF t
<1>9. /\ Typed(k) /\ Elsewhere(g, k) /\ Len(k.slots) = Len(g.slots) /\ SlotsOf(k) = SlotsOf(g)
      /\ k.slots[i] = t /\ \A m \in SlotsOf(g) : m # i => k.slots[m] = g.slots[m]
  BY <1>1, <1>3, <1>6, <1>8, SlotUpdate
<1> DEFINE u == WithOut(t, s.out)
<1>10. SlotSet(k, i, u, h)
  <2>1. k \in GraphType /\ k.slots \in Seq(SlotType) /\ i \in DOMAIN k.slots
    BY <1>3, <1>9, SlotFacts DEF Typed
  <2>2. Front(k.slots[i].out) = s.out  BY <1>5, <1>8, <1>9
  <2>3. h = [k EXCEPT !.slots[i].out = s.out]  BY <1>7, <2>2 DEF TakeBackOut
  <2>4. k.slots[i] = t  BY <1>9
  <2> HIDE DEF s, i
  <2> QED  BY <2>1, <2>3, <2>4 DEF SlotSet, WithOut
<1>11. u \in SlotType /\ u.out = s.out /\ u.in = t.in /\ Face(u) = Face(t)  BY <1>4, <1>8, SlotLists
<1> HIDE DEF u
<1>12. u = s
  <2>1. /\ u.occupied = s.occupied /\ u.marked = s.marked /\ u.generation = s.generation
        /\ u.visit_count = s.visit_count
    BY <1>8, <1>11 DEF Face
  <2> QED  BY <2>1, <1>3, <1>8, <1>11, SlotEqual
<1>13. /\ Typed(h) /\ Elsewhere(k, h) /\ Len(h.slots) = Len(k.slots)
       /\ h.slots[i] = u /\ \A m \in SlotsOf(k) : m # i => h.slots[m] = k.slots[m]
  BY <1>3, <1>9, <1>10, <1>11, SlotUpdate
<1>14. h.slots = g.slots
  <2>1. h.slots \in Seq(SlotType) /\ g.slots \in Seq(SlotType)  BY <1>1, <1>13, SlotFacts
  <2>2. Len(h.slots) = Len(g.slots) /\ \A m \in 1..Len(g.slots) : h.slots[m] = g.slots[m]
    BY <1>9, <1>12, <1>13 DEF SlotsOf
  <2> QED  BY <2>1, <2>2, SeqEqual
<1> QED  BY <1>9, <1>13, <1>14, NothingHappens DEF Elsewhere

\* Slot i of g, which is taken, is s in h, a slot that looks the same.
Touched(g, i, s, h) ==
    /\ Valid(g) /\ i \in Occupied(g) /\ s \in SlotType /\ View(s) = View(g.slots[i])
    /\ Typed(h) /\ Len(h.slots) = Len(g.slots)
    /\ h.slots[i] = s /\ \A k \in SlotsOf(g) : k # i => h.slots[k] = g.slots[k]
    /\ h.free_indices = g.free_indices /\ h.pending_edge_removals = g.pending_edge_removals
    /\ h.live_count = g.live_count /\ h.edge_count = g.edge_count /\ ~h.aborted

\* The nodes and edges stay.
LEMMA TouchedFacts ==
  ASSUME NEW g, NEW i, NEW s, NEW h, Touched(g, i, s, h)
  PROVE  /\ Linked(h) /\ Freed(h) /\ Pending(h) /\ SameView(g, h)
         /\ SlotsOf(h) = SlotsOf(g) /\ Occupied(h) = Occupied(g) /\ OutEdges(h) = OutEdges(g)
         /\ LiveIds(h) = LiveIds(g) /\ IssuedIds(h) = IssuedIds(g)
         /\ \A k \in SlotsOf(g) : IdAt(h, k) = IdAt(g, k)
         /\ \A id : IsLive(h, id) <=> IsLive(g, id)
<1> USE DEF Touched
<1>1. Linked(g) /\ Typed(g)  BY DEF Valid, Linked
<1>2. SameView(g, h)
  <2>1. \A k \in SlotsOf(g) : View(h.slots[k]) = View(g.slots[k])  OBVIOUS
  <2> QED  BY <2>1 DEF SameView
<1>3. /\ SlotsOf(h) = SlotsOf(g) /\ Occupied(h) = Occupied(g) /\ OutEdges(h) = OutEdges(g)
      /\ LiveIds(h) = LiveIds(g) /\ IssuedIds(h) = IssuedIds(g)
      /\ \A k \in SlotsOf(g) : IdAt(h, k) = IdAt(g, k)
      /\ \A id : IsLive(h, id) <=> IsLive(g, id)
  BY <1>1, <1>2, ViewFacts
<1>4. \A k \in SlotsOf(g) : ~g.slots[k].occupied => h.slots[k] = g.slots[k]
  <2>1. g.slots[i].occupied  BY DEF Occupied
  <2> QED  BY <2>1
<1>5. Linked(h)  BY <1>1, <1>2, <1>4, ViewLinked
<1>6. Freed(h) /\ Pending(h)  BY <1>3 DEF Valid, Freed, Pending
<1> QED  BY <1>2, <1>3, <1>5, <1>6

VisitSet(g, id, m, h) == h = [g EXCEPT !.slots[id[1]].visit_count = m]

\* A node's counter.
LEMMA VisitProps ==
  ASSUME NEW g, Valid(g), NEW id \in LiveIds(g), NEW m \in Nat, NEW h, VisitSet(g, id, m, h)
  PROVE  /\ Valid(h) /\ SameView(g, h)
         /\ Holds(h, LiveIds(g), OutEdges(g), MarkedIds(g), Listed(g.pending_edge_removals),
                  IssuedIds(g), [VisitsOf(g) EXCEPT ![id] = m])
<1> DEFINE i == id[1]
           s == [g.slots[i] EXCEPT !.visit_count = m]
<1>1. Linked(g) /\ Typed(g) /\ ~g.aborted  BY DEF Valid, Linked
<1>2. id \in NodeIds
  <2>1. LiveIds(g) \subseteq NodeIds  BY <1>1, SlotFacts DEF LiveIds
  <2> QED  BY <2>1
<1>3. IsLive(g, id) /\ i \in Occupied(g) /\ IdAt(g, i) = id  BY <1>1, <1>2, LiveFacts
<1>4. i \in SlotsOf(g) /\ g.slots[i] \in SlotType /\ i \in DOMAIN g.slots  BY <1>1, <1>3, SlotFacts
<1>5. /\ s \in SlotType /\ s.visit_count = m /\ View(s) = View(g.slots[i]) /\ s.marked = g.slots[i].marked
      /\ s.occupied = g.slots[i].occupied
  BY <1>4 DEF SlotType, View
<1>6. SlotSet(g, i, s, h)
  <2>1. g \in GraphType /\ g.slots \in Seq(SlotType)  BY <1>1, SlotFacts DEF Typed
  <2> QED  BY <2>1, <1>4 DEF VisitSet, SlotSet
<1> HIDE DEF s, i
<1>7. /\ Typed(h) /\ Elsewhere(g, h) /\ Len(h.slots) = Len(g.slots) /\ SlotsOf(h) = SlotsOf(g)
      /\ h.slots[i] = s /\ \A k \in SlotsOf(g) : k # i => h.slots[k] = g.slots[k]
  BY <1>1, <1>4, <1>5, <1>6, SlotUpdate
<1>8. Touched(g, i, s, h)  BY <1>1, <1>3, <1>5, <1>7 DEF Touched, Elsewhere
<1>9. /\ Linked(h) /\ Freed(h) /\ Pending(h) /\ SameView(g, h)
      /\ Occupied(h) = Occupied(g) /\ OutEdges(h) = OutEdges(g)
      /\ LiveIds(h) = LiveIds(g) /\ IssuedIds(h) = IssuedIds(g)
      /\ \A k \in SlotsOf(g) : IdAt(h, k) = IdAt(g, k)
      /\ \A p : IsLive(h, p) <=> IsLive(g, p)
  BY <1>8, TouchedFacts
<1>10. Occupied(g) \subseteq SlotsOf(g) /\ Marked(g) \subseteq SlotsOf(g) /\ DOMAIN g.slots = SlotsOf(g)
  BY <1>1, SlotFacts
<1>11. Marked(h) = Marked(g)
  <2>1. \A k \in Occupied(g) : h.slots[k].marked = g.slots[k].marked  BY <1>5, <1>7, <1>10
  <2> QED  BY <2>1, <1>9 DEF Marked
<1>12. MarkedIds(h) = MarkedIds(g)  BY <1>9, <1>10, <1>11 DEF MarkedIds
<1>13. VisitsOf(h) = [VisitsOf(g) EXCEPT ![id] = m]
  <2> DEFINE f == VisitsOf(g)
  <2>1. f = [p \in NodeIds |-> IF IsLive(g, p) THEN Slot(g, p).visit_count ELSE 0]  BY DEF VisitsOf
  <2>2. ASSUME NEW p \in NodeIds
        PROVE  (IF IsLive(h, p) THEN Slot(h, p).visit_count ELSE 0) = (IF p = id THEN m ELSE f[p])
    <3>1. CASE p = id  BY <3>1, <1>3, <1>5, <1>7, <1>9 DEF Slot, i
    <3>2. CASE p # id /\ IsLive(g, p)
      <4>1. p[1] \in Occupied(g) /\ IdAt(g, p[1]) = p  BY <3>2, <1>1, LiveFacts
      <4>2. p[1] # i  BY <3>2, <4>1, <1>3
      <4> QED  BY <3>2, <4>1, <4>2, <1>7, <1>9, <1>10, <2>1 DEF Slot
    <3>3. CASE p # id /\ ~IsLive(g, p)  BY <3>3, <1>9, <2>1
    <3> QED  BY <3>1, <3>2, <3>3
  <2>3. VisitsOf(h) = [p \in NodeIds |-> IF p = id THEN m ELSE f[p]]  BY <2>2 DEF VisitsOf
  <2> HIDE DEF f
  <2>4. [f EXCEPT ![id] = m] = [p \in NodeIds |-> IF p = id THEN m ELSE f[p]]  BY <2>1, <1>2
  <2> QED  BY <2>3, <2>4 DEF f
<1>14. Valid(h)  BY <1>7, <1>9, <1>11 DEF Valid, Counted, Elsewhere
<1> QED  BY <1>7, <1>9, <1>12, <1>13, <1>14 DEF Holds, Elsewhere

MarkSet(g, id, b, c, h) == h = [g EXCEPT !.slots[id[1]].marked = b, !.pending_delete_count = c]

\* A node's mark, which was the other way.
LEMMA MarkProps ==
  ASSUME NEW g, Valid(g), NEW id \in LiveIds(g), NEW b \in BOOLEAN, Slot(g, id).marked = ~b,
         NEW c, c = (IF b THEN g.pending_delete_count + 1 ELSE g.pending_delete_count - 1),
         NEW h, MarkSet(g, id, b, c, h)
  PROVE  /\ Valid(h) /\ SameView(g, h) /\ (b <=> id \notin MarkedIds(g))
         /\ Holds(h, LiveIds(g), OutEdges(g), IF b THEN MarkedIds(g) \cup {id} ELSE MarkedIds(g) \ {id},
                  Listed(g.pending_edge_removals), IssuedIds(g), VisitsOf(g))
<1> DEFINE i == id[1]
           s == [g.slots[i] EXCEPT !.marked = b]
           k == [g EXCEPT !.slots[i] = s]
<1>1. Linked(g) /\ Typed(g) /\ ~g.aborted  BY DEF Valid, Linked
<1>2. id \in NodeIds
  <2>1. LiveIds(g) \subseteq NodeIds  BY <1>1, SlotFacts DEF LiveIds
  <2> QED  BY <2>1
<1>3. IsLive(g, id) /\ i \in Occupied(g) /\ IdAt(g, i) = id  BY <1>1, <1>2, LiveFacts
<1>4. i \in SlotsOf(g) /\ g.slots[i] \in SlotType /\ i \in DOMAIN g.slots  BY <1>1, <1>3, SlotFacts
<1>5. /\ s \in SlotType /\ s.marked = b /\ View(s) = View(g.slots[i]) /\ s.visit_count = g.slots[i].visit_count
  BY <1>4 DEF SlotType, View
<1>6. Occupied(g) \subseteq SlotsOf(g) /\ Marked(g) \subseteq Occupied(g) /\ DOMAIN g.slots = SlotsOf(g)
      /\ IsFiniteSet(Marked(g)) /\ Cardinality(Marked(g)) \in Nat
      /\ g.pending_delete_count = Cardinality(Marked(g)) /\ g.live_count = Cardinality(Occupied(g))
  BY <1>1, SlotFacts, OccupiedFinite DEF Valid, Counted
<1>7. i \in Marked(g) <=> ~b  BY <1>3 DEF Marked, Slot
<1>8. c \in Nat /\ c = Cardinality(IF b THEN Marked(g) \cup {i} ELSE Marked(g) \ {i})
  <2>1. CASE b
    <3>1. Cardinality(Marked(g) \cup {i}) = Cardinality(Marked(g)) + 1  BY <2>1, <1>6, <1>7, FS_AddElement
    <3> QED  BY <2>1, <3>1, <1>6
  <2>2. CASE ~b
    <3>1. /\ IsFiniteSet(Marked(g) \ {i}) /\ Cardinality(Marked(g) \ {i}) = Cardinality(Marked(g)) - 1
      BY <2>2, <1>6, <1>7, FS_RemoveElement
    <3>2. Cardinality(Marked(g) \ {i}) \in Nat  BY <3>1, FS_CardinalityType
    <3> QED  BY <2>2, <3>1, <3>2, <1>6
  <2> QED  BY <2>1, <2>2
<1>9. g \in GraphType /\ g.slots \in Seq(SlotType)  BY <1>1, SlotFacts DEF Typed
<1>10. SlotSet(g, i, s, k)  BY DEF SlotSet
<1>11. h = [k EXCEPT !.pending_delete_count = c]  BY <1>4, <1>9 DEF MarkSet
<1> HIDE DEF s, i, k
<1>12. /\ Typed(k) /\ Elsewhere(g, k) /\ Len(k.slots) = Len(g.slots) /\ SlotsOf(k) = SlotsOf(g)
       /\ k.slots[i] = s /\ \A m \in SlotsOf(g) : m # i => k.slots[m] = g.slots[m]
  BY <1>1, <1>4, <1>5, <1>10, SlotUpdate
<1>13. /\ h \in GraphType /\ h.slots = k.slots /\ h.free_indices = k.free_indices
       /\ h.pending_edge_removals = k.pending_edge_removals /\ h.edge_count = k.edge_count
       /\ h.live_count = k.live_count /\ h.pending_delete_count = c /\ h.aborted = k.aborted
  <2>1. k \in GraphType  BY <1>12 DEF Typed
  <2> QED  BY <2>1, <1>8, <1>11 DEF GraphType
<1>14. Touched(g, i, s, h)  BY <1>1, <1>3, <1>5, <1>12, <1>13 DEF Touched, Elsewhere, Typed
<1>15. /\ Linked(h) /\ Freed(h) /\ Pending(h) /\ SameView(g, h)
       /\ Occupied(h) = Occupied(g) /\ OutEdges(h) = OutEdges(g)
       /\ LiveIds(h) = LiveIds(g) /\ IssuedIds(h) = IssuedIds(g)
       /\ \A m \in SlotsOf(g) : IdAt(h, m) = IdAt(g, m)
       /\ \A p : IsLive(h, p) <=> IsLive(g, p)
  BY <1>14, TouchedFacts
<1>16. Marked(h) = IF b THEN Marked(g) \cup {i} ELSE Marked(g) \ {i}
  <2>1. h.slots[i].marked = b  BY <1>5, <1>12, <1>13
  <2>2. \A m \in Occupied(g) : m # i => h.slots[m].marked = g.slots[m].marked  BY <1>6, <1>12, <1>13
  <2> QED  BY <2>1, <2>2, <1>3, <1>15 DEF Marked
<1>17. b <=> id \notin MarkedIds(g)
  <2>1. \A m \in Marked(g) : IdAt(g, m)[1] = m  BY DEF IdAt
  <2>2. id \in MarkedIds(g) <=> i \in Marked(g)  BY <2>1, <1>3 DEF MarkedIds, i
  <2> QED  BY <2>2, <1>7
<1>18. MarkedIds(h) = IF b THEN MarkedIds(g) \cup {id} ELSE MarkedIds(g) \ {id}
  <2>1. \A m \in Occupied(g) : IdAt(h, m) = IdAt(g, m) /\ IdAt(g, m)[1] = m  BY <1>6, <1>15 DEF IdAt
  <2>2. CASE b  BY <2>1, <2>2, <1>3, <1>6, <1>16 DEF MarkedIds
  <2>3. CASE ~b
    <3>1. \A m \in Marked(g) : IdAt(g, m) = id <=> m = i  BY <2>1, <1>3, <1>6
    <3> QED  BY <2>1, <2>3, <3>1, <1>6, <1>16 DEF MarkedIds
  <2> QED  BY <2>2, <2>3
<1>19. VisitsOf(h) = VisitsOf(g)
  <2>1. \A m \in SlotsOf(g) : h.slots[m].visit_count = g.slots[m].visit_count  BY <1>5, <1>12, <1>13
  <2>2. \A p : IsLive(g, p) => p[1] \in SlotsOf(g)  BY <1>6 DEF IsLive
  <2>3. \A p \in NodeIds : (IF IsLive(h, p) THEN Slot(h, p).visit_count ELSE 0)
                           = (IF IsLive(g, p) THEN Slot(g, p).visit_count ELSE 0)
    BY <2>1, <2>2, <1>15 DEF Slot
  <2> QED  BY <2>3 DEF VisitsOf
<1>20. Valid(h)
  <2>1. Counted(h)  BY <1>6, <1>8, <1>12, <1>13, <1>15, <1>16 DEF Counted, Elsewhere
  <2> QED  BY <2>1, <1>15 DEF Valid
<1> QED  BY <1>12, <1>13, <1>15, <1>17, <1>18, <1>19, <1>20 DEF Holds, Elsewhere

PendingSet(g, s, h) == h = [g EXCEPT !.pending_edge_removals = s]

\* The list of pending removals.
LEMMA PendingProps ==
  ASSUME NEW g, Valid(g), NEW s, Once(NodeIds \X NodeIds, s), Listed(s) \subseteq OutEdges(g),
         NEW h, PendingSet(g, s, h)
  PROVE  /\ Valid(h) /\ SameView(g, h)
         /\ Holds(h, LiveIds(g), OutEdges(g), MarkedIds(g), Listed(s), IssuedIds(g), VisitsOf(g))
<1>1. Linked(g) /\ Typed(g) /\ ~g.aborted /\ g \in GraphType  BY DEF Valid, Linked, Typed
<1>2. s \in Seq(NodeIds \X NodeIds)  BY DEF Once
<1>3. /\ h \in GraphType /\ h.slots = g.slots /\ h.free_indices = g.free_indices
      /\ h.pending_edge_removals = s /\ h.edge_count = g.edge_count /\ h.live_count = g.live_count
      /\ h.pending_delete_count = g.pending_delete_count /\ h.aborted = g.aborted
  BY <1>1, <1>2 DEF PendingSet, GraphType
<1>4. Typed(h)  BY <1>1, <1>3 DEF Typed
<1>5. Linked(h)  BY <1>1, <1>3, <1>4, LinkedCopy
<1>6. Occupied(h) = Occupied(g) /\ Marked(h) = Marked(g) /\ SlotsOf(h) = SlotsOf(g)  BY <1>3, SameSlots
<1>7. /\ SameView(g, h) /\ LiveIds(h) = LiveIds(g) /\ OutEdges(h) = OutEdges(g) /\ MarkedIds(h) = MarkedIds(g)
      /\ IssuedIds(h) = IssuedIds(g) /\ VisitsOf(h) = VisitsOf(g)
  BY <1>1, <1>3, <1>4, SlotsAlike
<1>8. Valid(h)  BY <1>3, <1>5, <1>6, <1>7 DEF Valid, Freed, Counted, Pending
<1> QED  BY <1>3, <1>7, <1>8 DEF Holds

------------------------------------------------------------------------------
\* Nodes go.

\* In h the slots R of g are given up, and the others keep their nodes.
Gone(g, h, R) ==
    /\ Typed(g) /\ Typed(h) /\ Len(h.slots) = Len(g.slots) /\ R \subseteq Occupied(g)
    /\ \A i \in R : g.slots[i].generation < MaxGeneration
    /\ \A i \in SlotsOf(g) : IF i \in R THEN h.slots[i] = FreeSlot(g.slots[i].generation + 1)
                             ELSE Face(h.slots[i]) = Face(g.slots[i])

IdsAt(g, R) == {IdAt(g, i) : i \in R}

\* Their ids stay issued.
LEMMA GoneFacts ==
  ASSUME NEW g, NEW h, NEW R, Gone(g, h, R)
  PROVE  /\ LiveIds(h) = LiveIds(g) \ IdsAt(g, R) /\ IssuedIds(h) = IssuedIds(g)
         /\ VisitsOf(h) = [id \in NodeIds |-> IF id \in IdsAt(g, R) THEN 0 ELSE VisitsOf(g)[id]]
         /\ \A id \in LiveIds(g) : id \in IdsAt(g, R) <=> id[1] \in R
<1> USE DEF Gone
<1>1. /\ SlotsOf(h) = SlotsOf(g) /\ DOMAIN g.slots = SlotsOf(g) /\ DOMAIN h.slots = SlotsOf(g)
      /\ Occupied(g) \subseteq SlotsOf(g) /\ R \subseteq SlotsOf(g)
      /\ \A i \in SlotsOf(g) : g.slots[i] \in SlotType
  BY SlotFacts DEF SlotsOf
<1>2. \A i \in SlotsOf(g) : g.slots[i].generation \in 1..MaxGeneration  BY <1>1 DEF SlotType
<1>3. ASSUME NEW i \in R
      PROVE  h.slots[i].occupied = FALSE /\ h.slots[i].generation = g.slots[i].generation + 1
  <2>1. i \in SlotsOf(g) /\ g.slots[i].generation + 1 \in 1..MaxGeneration
    <3>1. i \in SlotsOf(g) /\ g.slots[i].generation \in 1..MaxGeneration /\ g.slots[i].generation < MaxGeneration
      BY <1>1, <1>2
    <3>2. MaxGeneration \in Nat  BY GraphAssumption
    <3> QED  BY <3>1, <3>2
  <2>2. h.slots[i] = FreeSlot(g.slots[i].generation + 1)  BY <2>1
  <2> QED  BY <2>1, <2>2, FreeSlotFacts
<1>4. ASSUME NEW i \in SlotsOf(g) \ R
      PROVE  /\ h.slots[i].occupied = g.slots[i].occupied /\ h.slots[i].generation = g.slots[i].generation
             /\ h.slots[i].visit_count = g.slots[i].visit_count
  BY DEF Face
<1>5. \A id \in NodeIds : id = <<id[1], id[2]>> /\ id[1] \in Nat /\ id[2] \in Nat
  BY DEF NodeIds, Indices
<1>6. \A id : IsLive(g, id) => id[1] \in SlotsOf(g)  BY <1>1 DEF IsLive
<1>7. \A id \in NodeIds : IsLive(h, id) <=> IsLive(g, id) /\ id[1] \notin R
  <2> SUFFICES ASSUME NEW id \in NodeIds PROVE IsLive(h, id) <=> IsLive(g, id) /\ id[1] \notin R
    OBVIOUS
  <2>1. CASE id[1] \in R  BY <2>1, <1>3 DEF IsLive
  <2>2. CASE id[1] \notin R
    <3>1. CASE id[1] \in SlotsOf(g)  BY <2>2, <3>1, <1>1, <1>4 DEF IsLive
    <3>2. CASE id[1] \notin SlotsOf(g)  BY <3>2, <1>1 DEF IsLive
    <3> QED  BY <3>1, <3>2, <2>2
  <2> QED  BY <2>1, <2>2
<1>8. LiveIds(g) \subseteq NodeIds /\ LiveIds(h) \subseteq NodeIds
  BY <1>1, SlotFacts DEF LiveIds
<1>9. \A id \in NodeIds : IsLive(g, id) => (id \in IdsAt(g, R) <=> id[1] \in R)
  <2>1. \A id \in NodeIds : IsLive(g, id) => IdAt(g, id[1]) = id  BY LiveFacts
  <2>2. \A i \in R : IdAt(g, i)[1] = i  BY DEF IdAt
  <2> QED  BY <2>1, <2>2 DEF IdsAt
<1>10. \A id \in NodeIds : id \in IdsAt(g, R) => IsLive(g, id)
  <2>1. IdsAt(g, R) \subseteq LiveIds(g)  BY DEF IdsAt, LiveIds
  <2> QED  BY <2>1, LiveFacts
<1>11. \A id \in LiveIds(g) : id \in IdsAt(g, R) <=> id[1] \in R  BY <1>8, <1>9, LiveFacts
<1>12. LiveIds(h) = LiveIds(g) \ IdsAt(g, R)
  <2>1. \A id \in NodeIds : (id \in LiveIds(g) <=> IsLive(g, id)) /\ (id \in LiveIds(h) <=> IsLive(h, id))
    BY LiveFacts
  <2> QED  BY <2>1, <1>7, <1>8, <1>9
<1>13. IssuedIds(h) = IssuedIds(g)
  <2> SUFFICES ASSUME NEW id \in NodeIds, id[1] \in SlotsOf(g)
               PROVE  (id[2] < Slot(h, id).generation \/ IsLive(h, id))
                        <=> (id[2] < Slot(g, id).generation \/ IsLive(g, id))
    BY <1>1 DEF IssuedIds
  <2>1. CASE id[1] \in R
    <3> DEFINE n == g.slots[id[1]].generation
    <3>1. id[1] \in Occupied(g)  BY <2>1
    <3>2. IsLive(g, id) <=> n = id[2]  BY <3>1 DEF IsLive, Occupied
    <3>3. ~IsLive(h, id) /\ h.slots[id[1]].generation = n + 1  BY <2>1, <1>3, <1>7
    <3>4. n \in Nat /\ id[2] \in Nat  BY <1>2, <1>5
    <3>5. id[2] < n + 1 <=> id[2] < n \/ n = id[2]
      <4> HIDE DEF n
      <4> QED  BY <3>4
    <3> QED  BY <3>2, <3>3, <3>5 DEF Slot
  <2>2. CASE id[1] \notin R  BY <2>2, <1>4, <1>7 DEF Slot
  <2> QED  BY <2>1, <2>2
<1>14. VisitsOf(h) = [id \in NodeIds |-> IF id \in IdsAt(g, R) THEN 0 ELSE VisitsOf(g)[id]]
  <2> DEFINE f == VisitsOf(g)
  <2>1. \A id \in NodeIds : f[id] = IF IsLive(g, id) THEN Slot(g, id).visit_count ELSE 0  BY DEF VisitsOf
  <2>2. ASSUME NEW id \in NodeIds
        PROVE  (IF IsLive(h, id) THEN Slot(h, id).visit_count ELSE 0) = (IF id \in IdsAt(g, R) THEN 0 ELSE f[id])
    <3>1. CASE id \in IdsAt(g, R)  BY <3>1, <1>7, <1>9, <1>10
    <3>2. CASE id \notin IdsAt(g, R) /\ IsLive(g, id)
      <4>1. id[1] \in SlotsOf(g) \ R  BY <3>2, <1>6, <1>9
      <4> QED  BY <3>2, <4>1, <1>4, <1>7, <2>1 DEF Slot
    <3>3. CASE id \notin IdsAt(g, R) /\ ~IsLive(g, id)  BY <3>3, <1>7, <2>1
    <3> QED  BY <3>1, <3>2, <3>3
  <2> QED  BY <2>2 DEF VisitsOf
<1> QED  BY <1>11, <1>12, <1>13, <1>14

\* Edges have live ends.
LEMMA EdgeEnds ==
  ASSUME NEW g, Linked(g)
  PROVE  OutEdges(g) \subseteq LiveIds(g) \X LiveIds(g)
<1>1. Typed(g)  BY DEF Linked
<1> SUFFICES ASSUME NEW e \in OutEdges(g) PROVE e \in LiveIds(g) \X LiveIds(g)  OBVIOUS
<1>2. PICK i \in Occupied(g) : \E x \in Listed(g.slots[i].out) : e = <<IdAt(g, i), x>>  BY <1>1, EdgesAre
<1>3. PICK x \in Listed(g.slots[i].out) : e = <<IdAt(g, i), x>>  BY <1>2
<1>4. IsLive(g, x)  BY DEF Linked, Mirrored
<1>5. e \in NodeIds \X NodeIds  BY <1>1, EdgesFinite
<1>6. x \in NodeIds  BY <1>3, <1>5
<1>7. x \in LiveIds(g)  BY <1>1, <1>4, <1>6, LiveFacts
<1>8. IdAt(g, i) \in LiveIds(g)  BY DEF LiveIds
<1> QED  BY <1>3, <1>7, <1>8

\* What a commit does.
LEMMA CommitEffect ==
  ASSUME NEW g, Valid(g), Releasable(g), NEW h, Committed(g, h, Staying(g)),
         NEW nodes, nodes = LiveIds(g) \ MarkedIds(g)
  PROVE  Holds(h, nodes, (OutEdges(g) \ Listed(g.pending_edge_removals)) \cap (nodes \X nodes), {}, {},
               IssuedIds(g), [id \in NodeIds |-> IF id \in MarkedIds(g) THEN 0 ELSE VisitsOf(g)[id]])
<1>1. Linked(g) /\ Typed(g) /\ Typed(h)  BY DEF Valid, Linked, Committed
<1>2. Marked(g) \subseteq Occupied(g)  BY <1>1, SlotFacts
<1>3. Gone(g, h, Marked(g))  BY <1>1, <1>2 DEF Gone, Committed, Releasable
<1>4. IdsAt(g, Marked(g)) = MarkedIds(g)  BY DEF IdsAt, MarkedIds
<1>5. /\ LiveIds(h) = nodes /\ IssuedIds(h) = IssuedIds(g)
      /\ VisitsOf(h) = [id \in NodeIds |-> IF id \in MarkedIds(g) THEN 0 ELSE VisitsOf(g)[id]]
      /\ \A id \in LiveIds(g) : id \in MarkedIds(g) <=> id[1] \in Marked(g)
  BY <1>3, <1>4, GoneFacts
<1>6. OutEdges(h) = (OutEdges(g) \ Listed(g.pending_edge_removals)) \cap (nodes \X nodes)
  <2>1. OutEdges(h) = Staying(g)  BY DEF Committed
  <2>2. OutEdges(g) \subseteq LiveIds(g) \X LiveIds(g)  BY <1>1, EdgeEnds
  <2>3. ASSUME NEW e \in OutEdges(g)
        PROVE  e[1][1] \notin Marked(g) /\ e[2][1] \notin Marked(g) <=> e \in nodes \X nodes
    <3>1. PICK a \in LiveIds(g), b \in LiveIds(g) : e = <<a, b>>  BY <2>2
    <3>2. e \in nodes \X nodes <=> a \in nodes /\ b \in nodes  BY <3>1
    <3> QED  BY <3>1, <3>2, <1>5
  <2> QED  BY <2>1, <2>3 DEF Staying
<1>7. MarkedIds(h) = {}  BY DEF Committed, MarkedIds
<1>8. Listed(h.pending_edge_removals) = {}  BY DEF Committed, Listed
<1> QED  BY <1>5, <1>6, <1>7, <1>8 DEF Holds

\* How many things a commit removes.
LEMMA CommitCount ==
  ASSUME NEW g, Valid(g)
  PROVE  /\ Cardinality(Marked(g)) = Cardinality(MarkedIds(g)) /\ Cardinality(Marked(g)) \in Nat
         /\ Len(g.pending_edge_removals) = Cardinality(Listed(g.pending_edge_removals))
<1>1. Typed(g)  BY DEF Valid, Linked
<1>2. IsFiniteSet(Marked(g)) /\ Cardinality(Marked(g)) \in Nat  BY <1>1, OccupiedFinite
<1> DEFINE f == [i \in Marked(g) |-> IdAt(g, i)]
<1>3. \A x, y \in Marked(g) : f[x] = f[y] => x = y  BY DEF IdAt
<1>4. MarkedIds(g) = {f[i] : i \in Marked(g)}  BY DEF MarkedIds
<1> HIDE DEF f
<1>5. Cardinality(MarkedIds(g)) = Cardinality(Marked(g))  BY <1>2, <1>3, <1>4, AsMany
<1> DEFINE s == g.pending_edge_removals
           n == Len(s)
<1>6. Once(NodeIds \X NodeIds, s)  BY DEF Valid, Pending
<1>7. n \in Nat /\ \A j, k \in 1..n : s[j] = s[k] => j = k  BY <1>6 DEF Once
<1>8. Listed(s) = {s[k] : k \in 1..n}  BY DEF Listed
<1> HIDE DEF s, n
<1>9. IsFiniteSet(1..n) /\ Cardinality(1..n) = n  BY <1>7, FS_Interval
<1>10. Cardinality(Listed(s)) = n
  <2> DEFINE S == 1..n
  <2>1. IsFiniteSet(S) /\ (\A j, k \in S : s[j] = s[k] => j = k) /\ Listed(s) = {s[k] : k \in S}
    BY <1>7, <1>8, <1>9
  <2> HIDE DEF S
  <2>2. Cardinality(Listed(s)) = Cardinality(S)  BY <2>1, AsMany
  <2> QED  BY <2>2, <1>9 DEF S
<1> QED  BY <1>2, <1>5, <1>10 DEF s, n

\* What clearing does.
LEMMA ClearEffect ==
  ASSUME NEW g, Valid(g), \A i \in Occupied(g) : g.slots[i].generation < MaxGeneration, NEW h, AllFree(g, h)
  PROVE  Holds(h, {}, {}, {}, {}, IssuedIds(g), [id \in NodeIds |-> 0])
<1> DEFINE R == Occupied(g)
<1>1. Linked(g) /\ Typed(g) /\ Typed(h)  BY DEF Valid, Linked, AllFree
<1>2. \A i \in SlotsOf(g) : g.slots[i] \in SlotType /\ Tidy(g.slots[i])
      /\ (i \in R <=> g.slots[i].occupied) /\ DOMAIN g.slots = SlotsOf(g)
  BY <1>1, SlotFacts DEF Linked, Occupied
<1>3. ASSUME NEW i \in SlotsOf(g)
      PROVE  IF i \in R THEN h.slots[i] = FreeSlot(g.slots[i].generation + 1)
             ELSE Face(h.slots[i]) = Face(g.slots[i])
  <2>1. h.slots[i] = FreeSlot(g.slots[i].generation + Status(g.slots[i].occupied))  BY DEF AllFree
  <2>2. CASE i \in R
    <3>1. Status(g.slots[i].occupied) = 1  BY <2>2, <1>2 DEF Status
    <3> QED  BY <2>1, <2>2, <3>1
  <2>3. CASE i \notin R
    <3>1. Status(g.slots[i].occupied) = 0 /\ g.slots[i] = FreeSlot(g.slots[i].generation)
      BY <2>3, <1>2 DEF Status, Tidy
    <3>2. g.slots[i].generation + 0 = g.slots[i].generation  BY <1>2 DEF SlotType
    <3>3. h.slots[i] = g.slots[i]  BY <2>1, <3>1, <3>2
    <3> QED  BY <2>3, <3>3
  <2> QED  BY <2>2, <2>3
<1>4. Gone(g, h, R)  BY <1>1, <1>3 DEF Gone, AllFree
<1>5. IdsAt(g, R) = LiveIds(g)  BY DEF IdsAt, LiveIds
<1> HIDE DEF R
<1>6. /\ LiveIds(h) = LiveIds(g) \ LiveIds(g) /\ IssuedIds(h) = IssuedIds(g)
      /\ VisitsOf(h) = [id \in NodeIds |-> IF id \in LiveIds(g) THEN 0 ELSE VisitsOf(g)[id]]
  BY <1>4, <1>5, GoneFacts
<1>7. VisitsOf(h) = [id \in NodeIds |-> 0]
  <2>1. \A id \in NodeIds : id \notin LiveIds(g) => VisitsOf(g)[id] = 0  BY <1>1, LiveFacts DEF VisitsOf
  <2>2. \A id \in NodeIds : (IF id \in LiveIds(g) THEN 0 ELSE VisitsOf(g)[id]) = 0  BY <2>1
  <2> QED  BY <2>2, <1>6
<1>8. MarkedIds(h) = {} /\ OutEdges(h) = {}  BY DEF AllFree, MarkedIds
<1>9. Listed(h.pending_edge_removals) = {}  BY DEF AllFree, Listed
<1> QED  BY <1>6, <1>7, <1>8, <1>9 DEF Holds

\* The graph at the beginning.
LEMMA EmptyProps == Valid(EmptyGraph) /\ Holds(EmptyGraph, {}, {}, {}, {}, {}, [id \in NodeIds |-> 0])
<1> DEFINE g == EmptyGraph
<1>1. /\ g.slots = <<>> /\ g.free_indices = <<>> /\ g.pending_edge_removals = <<>>
      /\ g.live_count = 0 /\ g.edge_count = 0 /\ g.pending_delete_count = 0 /\ g.aborted = FALSE
  BY DEF EmptyGraph
<1>2. Typed(g)
  <2>1. g \in GraphType  BY DEF EmptyGraph, GraphType
  <2>2. MaxSlots \in Nat  BY GraphAssumption
  <2> QED  BY <2>1, <2>2, <1>1 DEF Typed
<1> HIDE DEF g
<1>3. SlotsOf(g) = {} /\ Occupied(g) = {} /\ Marked(g) = {}
  <2>1. SlotsOf(g) = {}  BY <1>1 DEF SlotsOf
  <2> QED  BY <2>1, <1>2, SlotFacts
<1>4. OutEdges(g) = {}  BY <1>3 DEF OutEdges
<1>5. Cardinality({}) = 0  BY FS_EmptySet
<1>6. Linked(g)  BY <1>1, <1>2, <1>3, <1>4, <1>5 DEF Linked
<1>7. Listed(<<>>) = {}  BY DEF Listed
<1>8. ASSUME NEW D PROVE Once(D, <<>>)  BY DEF Once
<1>9. Freed(g) /\ Counted(g) /\ Pending(g)
  BY <1>1, <1>3, <1>4, <1>5, <1>7, <1>8 DEF Freed, Counted, Pending
<1>10. \A id : ~IsLive(g, id)  BY <1>1 DEF IsLive
<1>11. LiveIds(g) = {} /\ MarkedIds(g) = {} /\ IssuedIds(g) = {}
  BY <1>1, <1>3 DEF LiveIds, MarkedIds, IssuedIds
<1>12. VisitsOf(g) = [id \in NodeIds |-> 0]  BY <1>10 DEF VisitsOf
<1>13. Valid(g) /\ Holds(g, {}, {}, {}, {}, {}, [id \in NodeIds |-> 0])
  BY <1>1, <1>4, <1>6, <1>7, <1>9, <1>11, <1>12 DEF Valid, Holds
<1> QED  BY <1>13 DEF g

------------------------------------------------------------------------------
\* The steps.

\* The inductive invariant.
IInv == Valid(graph) /\ IterFine(graph, iter)

Keeps == Valid(graph') /\ IterFine(graph', iter')

\* A call that leaves a sound graph keeps the invariant: it ends the iteration,
\* or the iterator notices nothing.
LEMMA CallKeeps ==
  ASSUME IInv, NEW n, NEW h, NEW bumps, Call(n, h, bumps), Valid(h), bumps \/ SameView(graph, h)
  PROVE  Keeps /\ graph' = h /\ ret' = n
<1>1. graph' = h /\ ret' = n /\ iter' = IF bumps THEN NoIter ELSE iter  BY DEF Call
<1>2. CASE bumps  BY <1>1, <1>2 DEF Keeps, IterFine
<1>3. CASE ~bumps
  <2>1. SameView(graph, h) /\ Typed(graph) /\ Typed(h)  BY <1>3 DEF IInv, Valid, Linked
  <2>2. IterFine(h, iter)  BY <2>1, IterKept DEF IInv
  <2> QED  BY <1>1, <1>3, <2>2 DEF Keeps
<1> QED  BY <1>2, <1>3

\* What the header calls the pending removals.
LEMMA DoomedAre ==
  ASSUME NEW g, Valid(g)
  PROVE  Range(g.pending_edge_removals) = Listed(g.pending_edge_removals)
<1>1. g.pending_edge_removals \in Seq(NodeIds \X NodeIds)  BY DEF Valid, Pending, Once
<1> QED  BY <1>1, ListFacts

\* The graph as the header has it, before and after a step.
LEMMA Contents ==
  ASSUME Valid(graph), Valid(graph'), NEW n, NEW e, NEW m, NEW d, NEW i, NEW v, Holds(graph', n, e, m, d, i, v)
  PROVE  /\ LiveIds(graph)' = n /\ OutEdges(graph)' = e /\ {IdAt(graph, k) : k \in Marked(graph)}' = m
         /\ Range(graph.pending_edge_removals)' = d /\ IssuedIds(graph)' = i
         /\ [id \in NodeIds |-> IF IsLive(graph, id) THEN Slot(graph, id).visit_count ELSE 0]' = v
         /\ Range(graph.pending_edge_removals) = Listed(graph.pending_edge_removals)
         /\ {IdAt(graph, k) : k \in Marked(graph)} = MarkedIds(graph)
         /\ [id \in NodeIds |-> IF IsLive(graph, id) THEN Slot(graph, id).visit_count ELSE 0] = VisitsOf(graph)
<1>1. Range(graph'.pending_edge_removals) = Listed(graph'.pending_edge_removals)  BY DoomedAre
<1>2. Range(graph.pending_edge_removals) = Listed(graph.pending_edge_removals)  BY DoomedAre
<1> QED  BY <1>1, <1>2 DEF Holds, MarkedIds, VisitsOf

\* A call that refuses, reserves, or answers.
LEMMA Quiet ==
  ASSUME Valid(graph), Valid(graph'), Alike(graph, graph'),
         ret' \in {Refused, 1} \/ \E id \in NodeIds : ret' = Status(id \in LiveIds(graph))
  PROVE  Contract!GraphNext
<1>1. UNCHANGED Contract!content  BY Contents DEF Alike, Contract!content
<1>2. CASE ret' = Refused  BY <1>1, <1>2 DEF Refused, Contract!GraphNext, Contract!Refuse, Contract!Refused
<1>3. CASE ret' = 1  BY <1>1, <1>3 DEF Contract!GraphNext, Contract!Reserve
<1>4. ASSUME NEW id \in NodeIds, ret' = Status(id \in LiveIds(graph)) PROVE Contract!GraphNext
  <2>1. Contract!Contains(id)  BY <1>1, <1>4 DEF Contract!Contains, Contract!Status, Status
  <2> QED  BY <2>1 DEF Contract!GraphNext
<1> QED  BY <1>2, <1>3, <1>4

\* A call that adds a node.
LEMMA AddsNode ==
  ASSUME Valid(graph), Valid(graph'), ret' = 1, NEW p \in NodeIds \ IssuedIds(graph),
         Holds(graph', LiveIds(graph) \cup {p}, OutEdges(graph), MarkedIds(graph),
               Listed(graph.pending_edge_removals), IssuedIds(graph) \cup {p}, VisitsOf(graph))
  PROVE  Contract!GraphNext
<1>1. Contract!AddNode(p)  BY Contents DEF Contract!AddNode
<1> QED  BY <1>1 DEF Contract!GraphNext

\* A call that adds an edge.
LEMMA AddsEdge ==
  ASSUME Valid(graph), Valid(graph'), ret' = 1, NEW e \in (LiveIds(graph) \X LiveIds(graph)) \ OutEdges(graph),
         Holds(graph', LiveIds(graph), OutEdges(graph) \cup {e}, MarkedIds(graph),
               Listed(graph.pending_edge_removals), IssuedIds(graph), VisitsOf(graph))
  PROVE  Contract!GraphNext
<1>1. Contract!AddEdge(e)  BY Contents DEF Contract!AddEdge
<1> QED  BY <1>1 DEF Contract!GraphNext

\* A call that marks a node, and one that takes the mark back.
LEMMA MarksNode ==
  ASSUME Valid(graph), Valid(graph'), NEW id \in LiveIds(graph), NEW m,
         Holds(graph', LiveIds(graph), OutEdges(graph), m,
               Listed(graph.pending_edge_removals), IssuedIds(graph), VisitsOf(graph)),
         \/ m = MarkedIds(graph) \cup {id} /\ ret' = Status(id \notin MarkedIds(graph))
         \/ m = MarkedIds(graph) \ {id} /\ ret' = Status(id \in MarkedIds(graph))
  PROVE  Contract!GraphNext
<1>1. CASE m = MarkedIds(graph) \cup {id} /\ ret' = Status(id \notin MarkedIds(graph))
  <2>1. Contract!MarkNode(id)  BY <1>1, Contents DEF Contract!MarkNode, Contract!Status, Status
  <2> QED  BY <2>1 DEF Contract!GraphNext
<1>2. CASE m = MarkedIds(graph) \ {id} /\ ret' = Status(id \in MarkedIds(graph))
  <2>1. Contract!UnmarkNode(id)  BY <1>2, Contents DEF Contract!UnmarkNode, Contract!Status, Status
  <2> QED  BY <2>1 DEF Contract!GraphNext
<1> QED  BY <1>1, <1>2

\* A call that asks for an edge to go, and one that no longer does.
LEMMA MarksEdge ==
  ASSUME Valid(graph), Valid(graph'), NEW e \in LiveIds(graph) \X LiveIds(graph), NEW d,
         Holds(graph', LiveIds(graph), OutEdges(graph), MarkedIds(graph), d, IssuedIds(graph), VisitsOf(graph)),
         \/ /\ d = Listed(graph.pending_edge_removals) \cup {e} /\ ret' = 1
            /\ e \in OutEdges(graph) \ Listed(graph.pending_edge_removals)
         \/ /\ d = Listed(graph.pending_edge_removals) \ {e}
            /\ ret' = Status(e \in Listed(graph.pending_edge_removals))
  PROVE  Contract!GraphNext
<1>1. CASE /\ d = Listed(graph.pending_edge_removals) \cup {e} /\ ret' = 1
           /\ e \in OutEdges(graph) \ Listed(graph.pending_edge_removals)
  <2>1. Contract!MarkEdge(e)  BY <1>1, Contents DEF Contract!MarkEdge
  <2> QED  BY <2>1 DEF Contract!GraphNext
<1>2. CASE /\ d = Listed(graph.pending_edge_removals) \ {e}
           /\ ret' = Status(e \in Listed(graph.pending_edge_removals))
  <2>1. Contract!UnmarkEdge(e)  BY <1>2, Contents DEF Contract!UnmarkEdge, Contract!Status, Status
  <2> QED  BY <2>1 DEF Contract!GraphNext
<1> QED  BY <1>1, <1>2

\* A call that counts a visit, or forgets them.
LEMMA Visits ==
  ASSUME Valid(graph), Valid(graph'), NEW id \in LiveIds(graph), NEW n, ret' = n,
         n = VisitsOf(graph)[id] + 1 \/ n = 0,
         Holds(graph', LiveIds(graph), OutEdges(graph), MarkedIds(graph),
               Listed(graph.pending_edge_removals), IssuedIds(graph), [VisitsOf(graph) EXCEPT ![id] = n])
  PROVE  Contract!GraphNext
<1> DEFINE v == VisitsOf(graph)
<1>1. Contract!Visit(id, n)  BY Contents DEF Contract!Visit
<1>2. CASE n = v[id] + 1
  <2>1. [p \in NodeIds |-> IF IsLive(graph, p) THEN Slot(graph, p).visit_count ELSE 0] = v  BY DEF VisitsOf
  <2> QED  BY <1>1, <1>2, <2>1 DEF Contract!GraphNext
<1>3. CASE n = 0  BY <1>1, <1>3 DEF Contract!GraphNext
<1> QED  BY <1>2, <1>3

\* A commit.
LEMMA Commits ==
  ASSUME Valid(graph), Valid(graph'),
         ret' = Cardinality(MarkedIds(graph)) + Cardinality(Listed(graph.pending_edge_removals)),
         NEW nodes, nodes = LiveIds(graph) \ MarkedIds(graph),
         Holds(graph', nodes, (OutEdges(graph) \ Listed(graph.pending_edge_removals)) \cap (nodes \X nodes),
               {}, {}, IssuedIds(graph), [id \in NodeIds |-> IF id \in MarkedIds(graph) THEN 0 ELSE VisitsOf(graph)[id]])
  PROVE  Contract!GraphNext
<1>1. Contract!Commit
  <2> DEFINE m == {IdAt(graph, k) : k \in Marked(graph)}
             d == Range(graph.pending_edge_removals)
             v == [id \in NodeIds |-> IF IsLive(graph, id) THEN Slot(graph, id).visit_count ELSE 0]
  <2>1. m = MarkedIds(graph) /\ d = Listed(graph.pending_edge_removals) /\ v = VisitsOf(graph)
    BY DoomedAre DEF MarkedIds, VisitsOf
  <2>2. /\ LiveIds(graph)' = nodes
        /\ OutEdges(graph)' = (OutEdges(graph) \ Listed(graph.pending_edge_removals)) \cap (nodes \X nodes)
        /\ m' = {} /\ d' = {} /\ IssuedIds(graph)' = IssuedIds(graph)
        /\ v' = [id \in NodeIds |-> IF id \in MarkedIds(graph) THEN 0 ELSE VisitsOf(graph)[id]]
    BY Contents
  <2> HIDE DEF m, d, v
  <2>3. LiveIds(graph)' = LiveIds(graph) \ m  BY <2>1, <2>2
  <2>4. OutEdges(graph)' = (OutEdges(graph) \ d) \cap (LiveIds(graph)' \X LiveIds(graph)')  BY <2>1, <2>2
  <2>5. v' = [id \in NodeIds |-> IF id \in m THEN 0 ELSE v[id]]  BY <2>1, <2>2
  <2>6. ret' = Contract!Cardinality(m) + Contract!Cardinality(d)
    <3>1. \A S : Contract!Cardinality(S) = Cardinality(S)  BY DEF Contract!Cardinality, Cardinality
    <3> QED  BY <2>1, <3>1
  <2>7. m' = {} /\ d' = {} /\ IssuedIds(graph)' = IssuedIds(graph)  BY <2>2
  <2> QED  BY <2>3, <2>4, <2>5, <2>6, <2>7, Zenon DEF Contract!Commit, m, d, v
<1> QED  BY <1>1 DEF Contract!GraphNext

\* The graph emptied, or ended.
LEMMA Empties ==
  ASSUME Valid(graph), Valid(graph'), ret' = 1, NEW i, i = IssuedIds(graph) \/ i = {},
         Holds(graph', {}, {}, {}, {}, i, [id \in NodeIds |-> 0])
  PROVE  Contract!GraphNext
<1>1. CASE i = IssuedIds(graph)
  <2>1. Contract!Clear  BY <1>1, Contents DEF Contract!Clear
  <2> QED  BY <2>1 DEF Contract!GraphNext
<1>2. CASE i = {}
  <2>1. Contract!Deinit  BY <1>2, Contents DEF Contract!Deinit, Contract!Empty
  <2> QED  BY <2>1 DEF Contract!GraphNext
<1> QED  BY <1>1, <1>2

------------------------------------------------------------------------------
\* Action by action.

\* GraphReserve.
LEMMA ReserveStep ==
  ASSUME IInv, NEW n \in Requests, GraphReserve(n)
  PROVE  Keeps /\ Contract!GraphNext
<1>1. Valid(graph) /\ n \in Nat  BY GraphAssumption DEF IInv
<1>2. PICK failing \in ReserveFailures(graph, n) :
        LET g == reserve_graph(graph, n, failing)
        IN  Call(IF failing = "none" THEN 1 ELSE Refused, g, g.slots_capacity # graph.slots_capacity)
  BY DEF GraphReserve
<1> DEFINE g == reserve_graph(graph, n, failing)
           r == IF failing = "none" THEN 1 ELSE Refused
           b == g.slots_capacity # graph.slots_capacity
<1>3. Call(r, g, b)  BY <1>2
<1>4. Valid(g) /\ SameView(graph, g) /\ Alike(graph, g)  BY <1>1, ReserveProps
<1>5. r \in {Refused, 1}  OBVIOUS
<1> HIDE DEF g, r, b
<1>6. Keeps /\ graph' = g /\ ret' = r  BY <1>3, <1>4, CallKeeps
<1> QED  BY <1>1, <1>4, <1>5, <1>6, Quiet

\* graph_push_node with a free slot.
LEMMA ReuseStep ==
  ASSUME ~IndexGrowthFails, IInv, ReuseSlot
  PROVE  Keeps /\ Contract!GraphNext
<1> DEFINE i == Last(graph.free_indices)
           g == [Taken(graph) EXCEPT !.slots[i] = NewSlot(@.generation), !.live_count = @ + 1,
                                     !.aborted = @ \/ graph.slots[i].occupied]
           h == graph_push_free_index([Taken(graph) EXCEPT !.slots[i] = FreeSlot(@.generation)], i)
<1>1. Valid(graph) /\ graph.free_indices # <<>>  BY DEF IInv, ReuseSlot
<1>2. Call(1, g, TRUE) \/ Call(Refused, h, FALSE)  BY DEF ReuseSlot, Taken
<1>3. Reused(graph, i, g) /\ GivenBack(graph, i, h)  BY DEF Reused, GivenBack
<1>4. CASE Call(1, g, TRUE)
  <2> HIDE DEF g, h
  <2>1. PICK p \in NodeIds \ IssuedIds(graph) :
          /\ Valid(g)
          /\ Holds(g, LiveIds(graph) \cup {p}, OutEdges(graph), MarkedIds(graph),
                   Listed(graph.pending_edge_removals), IssuedIds(graph) \cup {p}, VisitsOf(graph))
    BY <1>1, <1>3, ReuseProps
  <2>2. Keeps /\ graph' = g /\ ret' = 1  BY <1>4, <2>1, CallKeeps
  <2> QED  BY <1>1, <2>1, <2>2, AddsNode
<1>5. CASE Call(Refused, h, FALSE)
  <2> HIDE DEF g, h
  <2>1. Valid(h) /\ SameView(graph, h) /\ Alike(graph, h)  BY <1>1, <1>3, GiveBackProps
  <2>2. Keeps /\ graph' = h /\ ret' = Refused  BY <1>5, <2>1, CallKeeps
  <2> QED  BY <1>1, <2>1, <2>2, Quiet
<1> QED  BY <1>2, <1>4, <1>5

\* graph_push_node without one.
LEMMA AppendStep ==
  ASSUME IInv, AppendSlot
  PROVE  Keeps /\ Contract!GraphNext
<1> DEFINE n == Len(graph.slots) + 1
<1>1. Valid(graph) /\ Typed(graph) /\ graph.free_indices = <<>> /\ Len(graph.slots) < MaxSlots /\ n \in Nat
  <2>1. Valid(graph) /\ Typed(graph)  BY DEF IInv, Valid, Linked
  <2>2. Len(graph.slots) \in Nat  BY <2>1, SlotFacts
  <2> QED  BY <2>1, <2>2 DEF AppendSlot
<1>2. PICK failing \in ReserveFailures(graph, n) \cup {"payload", "append"} :
        LET g == reserve_graph(graph, n, failing)
            capacity == AppendCapacity(Len(g.slots), g.slots_capacity)
        IN  /\ failing = "append" => capacity > g.slots_capacity
            /\ IF failing = "none"
               THEN Call(1, [g EXCEPT !.slots = Append(@, NewSlot(1)), !.slots_capacity = capacity,
                                   !.live_count = @ + 1], TRUE)
               ELSE Call(Refused, g, g.slots_capacity # graph.slots_capacity)
  BY DEF AppendSlot
<1> DEFINE g == reserve_graph(graph, n, failing)
           c == AppendCapacity(Len(g.slots), g.slots_capacity)
           h == [g EXCEPT !.slots = Append(@, NewSlot(1)), !.slots_capacity = c, !.live_count = @ + 1]
           b == g.slots_capacity # graph.slots_capacity
<1>3. Call(1, h, TRUE) \/ Call(Refused, g, b)  BY <1>2
<1>4. Appended(g, c, h)  BY DEF Appended
<1> HIDE DEF h, b, n
<1>5. /\ Valid(g) /\ SameView(graph, g) /\ Alike(graph, g)
      /\ g.slots = graph.slots /\ g.free_indices = graph.free_indices
  BY <1>1, ReserveProps
<1> HIDE DEF g
<1>6. c \in Nat
  <2>1. Typed(g)  BY <1>5 DEF Valid, Linked
  <2> QED  BY <2>1, SlotFacts, TypedParts, CapacityType
<1> HIDE DEF c
<1>7. CASE Call(1, h, TRUE)
  <2>1. PICK p \in NodeIds \ IssuedIds(g) :
          /\ Valid(h)
          /\ Holds(h, LiveIds(g) \cup {p}, OutEdges(g), MarkedIds(g),
                   Listed(g.pending_edge_removals), IssuedIds(g) \cup {p}, VisitsOf(g))
    BY <1>1, <1>4, <1>5, <1>6, AppendProps
  <2>2. /\ LiveIds(g) = LiveIds(graph) /\ OutEdges(g) = OutEdges(graph) /\ MarkedIds(g) = MarkedIds(graph)
        /\ Listed(g.pending_edge_removals) = Listed(graph.pending_edge_removals)
        /\ IssuedIds(g) = IssuedIds(graph) /\ VisitsOf(g) = VisitsOf(graph)
    BY <1>5 DEF Alike, Holds
  <2>3. Keeps /\ graph' = h /\ ret' = 1  BY <1>7, <2>1, CallKeeps
  <2>4. p \in NodeIds \ IssuedIds(graph)  BY <2>1, <2>2
  <2>5. Holds(graph', LiveIds(graph) \cup {p}, OutEdges(graph), MarkedIds(graph),
              Listed(graph.pending_edge_removals), IssuedIds(graph) \cup {p}, VisitsOf(graph))
    BY <2>1, <2>2, <2>3
  <2> QED  BY <1>1, <2>1, <2>3, <2>4, <2>5, AddsNode
<1>8. CASE Call(Refused, g, b)
  <2>1. Keeps /\ graph' = g /\ ret' = Refused  BY <1>5, <1>8, CallKeeps
  <2> QED  BY <1>1, <1>5, <2>1, Quiet
<1> QED  BY <1>3, <1>7, <1>8

\* graph_add_edge.
LEMMA AddEdgeStep ==
  ASSUME IInv, NEW from \in LiveIds(graph), NEW to \in LiveIds(graph), graph_add_edge(<<from, to>>)
  PROVE  Keeps /\ Contract!GraphNext
<1> DEFINE e == <<from, to>>
           h == TakeBackOut(AddOut(graph, e), e)
           k == [AddIn(AddOut(graph, e), e) EXCEPT !.edge_count = @ + 1]
<1>1. Valid(graph) /\ Typed(graph)  BY DEF IInv, Valid, Linked
<1>2. \/ Call(Refused, graph, FALSE)
      \/ ~Contains(Slot(graph, from).out, to) /\ (Call(Refused, h, FALSE) \/ Call(1, k, TRUE))
  BY DEF graph_add_edge
<1>3. TakenBack(graph, from, to, h) /\ EdgeAdded(graph, from, to, k)  BY DEF TakenBack, EdgeAdded
<1> HIDE DEF h, k
<1>4. CASE Call(Refused, graph, FALSE)
  <2>1. SameView(graph, graph) /\ Alike(graph, graph)  BY <1>1, NothingHappens
  <2>2. Keeps /\ graph' = graph /\ ret' = Refused  BY <1>1, <1>4, <2>1, CallKeeps
  <2> QED  BY <1>1, <2>1, <2>2, Quiet
<1>5. CASE Call(Refused, h, FALSE)
  <2>1. Valid(h) /\ SameView(graph, h) /\ Alike(graph, h)  BY <1>1, <1>3, EdgeRefused
  <2>2. Keeps /\ graph' = h /\ ret' = Refused  BY <1>5, <2>1, CallKeeps
  <2> QED  BY <1>1, <2>1, <2>2, Quiet
<1>6. CASE ~Contains(Slot(graph, from).out, to) /\ Call(1, k, TRUE)
  <2>1. to \notin Listed(Slot(graph, from).out)
    <3>1. PICK i \in Occupied(graph) : from = IdAt(graph, i)  BY DEF LiveIds
    <3>2. Slot(graph, from) \in SlotType  BY <1>1, <3>1, SlotFacts DEF Slot, IdAt
    <3>3. Slot(graph, from).out \in Seq(NodeIds)  BY <3>2 DEF SlotType
    <3> QED  BY <1>6, <3>3, ListFacts
  <2>2. /\ Valid(k) /\ <<from, to>> \in (LiveIds(graph) \X LiveIds(graph)) \ OutEdges(graph)
        /\ Holds(k, LiveIds(graph), OutEdges(graph) \cup {<<from, to>>}, MarkedIds(graph),
                 Listed(graph.pending_edge_removals), IssuedIds(graph), VisitsOf(graph))
    BY <1>1, <1>3, <2>1, EdgeGiven
  <2>3. Keeps /\ graph' = k /\ ret' = 1  BY <1>6, <2>2, CallKeeps
  <2> QED  BY <1>1, <2>2, <2>3, AddsEdge
<1> QED  BY <1>2, <1>4, <1>5, <1>6

\* A live node, and its counter.
LEMMA LiveVisits ==
  ASSUME NEW g, Valid(g), NEW id \in LiveIds(g)
  PROVE  /\ id \in NodeIds /\ IsLive(g, id) /\ Slot(g, id) \in SlotType
         /\ Slot(g, id).visit_count \in Nat /\ VisitsOf(g)[id] = Slot(g, id).visit_count
<1>1. Typed(g)  BY DEF Valid, Linked
<1>2. PICK i \in Occupied(g) : id = IdAt(g, i)  BY DEF LiveIds
<1>3. id \in NodeIds /\ Slot(g, id) \in SlotType  BY <1>1, <1>2, SlotFacts DEF Slot, IdAt
<1>4. IsLive(g, id)  BY <1>1, <1>3, LiveFacts
<1>5. Slot(g, id).visit_count \in Nat  BY <1>3 DEF SlotType
<1>6. VisitsOf(g)[id] = Slot(g, id).visit_count  BY <1>3, <1>4 DEF VisitsOf
<1> QED  BY <1>3, <1>4, <1>5, <1>6

\* GraphNodeVisit and GraphNodeUnvisit.
LEMMA VisitStep ==
  ASSUME IInv, NEW id \in LiveIds(graph), GraphNodeVisit(id) \/ GraphNodeUnvisit(id)
  PROVE  Keeps /\ Contract!GraphNext
<1> DEFINE v == Slot(graph, id).visit_count
           h == [graph EXCEPT !.slots[id[1]].visit_count = @ + 1]
           k == [graph EXCEPT !.slots[id[1]].visit_count = 0]
<1>1. Valid(graph)  BY DEF IInv
<1>2. v \in Nat /\ VisitsOf(graph)[id] = v  BY <1>1, LiveVisits
<1>3. Call(v + 1, h, FALSE) \/ Call(0, k, FALSE)  BY DEF GraphNodeVisit, GraphNodeUnvisit
<1>4. VisitSet(graph, id, v + 1, h)  BY DEF VisitSet, Slot
<1>5. VisitSet(graph, id, 0, k)  BY DEF VisitSet
<1> HIDE DEF v, h, k
<1>6. ASSUME NEW n \in Nat, n = VisitsOf(graph)[id] + 1 \/ n = 0, NEW g, VisitSet(graph, id, n, g), Call(n, g, FALSE)
      PROVE  Keeps /\ Contract!GraphNext
  <2>1. /\ Valid(g) /\ SameView(graph, g)
        /\ Holds(g, LiveIds(graph), OutEdges(graph), MarkedIds(graph), Listed(graph.pending_edge_removals),
                 IssuedIds(graph), [VisitsOf(graph) EXCEPT ![id] = n])
    BY <1>1, <1>6, VisitProps
  <2>2. Keeps /\ graph' = g /\ ret' = n  BY <1>6, <2>1, CallKeeps
  <2>3. Holds(graph', LiveIds(graph), OutEdges(graph), MarkedIds(graph), Listed(graph.pending_edge_removals),
              IssuedIds(graph), [VisitsOf(graph) EXCEPT ![id] = n])
    BY <2>1, <2>2
  <2>4. Valid(graph')  BY <2>1, <2>2
  <2> QED  BY <1>1, <1>6, <2>2, <2>3, <2>4, Visits
<1>7. v + 1 \in Nat  BY <1>2
<1> QED  BY <1>2, <1>3, <1>4, <1>5, <1>6, <1>7

\* GraphMarkNodeForDeletion and its reverse; a call that finds the mark as it
\* is to be changes nothing.
LEMMA MarkStep ==
  ASSUME IInv, NEW id \in LiveIds(graph), GraphMarkNodeForDeletion(id) \/ GraphUnmarkNodeForDeletion(id)
  PROVE  Keeps /\ Contract!GraphNext
<1> DEFINE m == Slot(graph, id).marked
           h == [graph EXCEPT !.slots[id[1]].marked = TRUE, !.pending_delete_count = @ + 1]
           k == [graph EXCEPT !.slots[id[1]].marked = FALSE, !.pending_delete_count = @ - 1]
           c == graph.pending_delete_count
<1>1. Valid(graph)  BY DEF IInv
<1>2. IsLive(graph, id) /\ Slot(graph, id) \in SlotType  BY <1>1, LiveVisits
<1>3. m \in BOOLEAN  BY <1>2 DEF SlotType
<1>4. m <=> id \in MarkedIds(graph)
  <2>1. id[1] \in Occupied(graph) /\ id = IdAt(graph, id[1])
    <3>1. Typed(graph) /\ id \in NodeIds  BY <1>1, LiveVisits DEF Valid, Linked
    <3> QED  BY <3>1, <1>2, LiveFacts
  <2>2. m <=> id[1] \in Marked(graph)  BY <2>1 DEF Marked, Slot
  <2>3. \A i : IdAt(graph, i)[1] = i  BY DEF IdAt
  <2> QED  BY <2>1, <2>2, <2>3 DEF MarkedIds
<1>5. \/ m /\ Call(0, graph, FALSE)
      \/ ~m /\ Call(1, h, FALSE)
      \/ ~m /\ Call(0, graph, FALSE)
      \/ m /\ Call(1, k, FALSE)
  <2> DEFINE none == Call(0, graph, FALSE)
             marks == Call(1, h, FALSE)
             unmarks == Call(1, k, FALSE)
  <2>1. GraphMarkNodeForDeletion(id) => IF m THEN none ELSE marks  BY DEF GraphMarkNodeForDeletion
  <2>2. GraphUnmarkNodeForDeletion(id) => IF ~m THEN none ELSE unmarks  BY DEF GraphUnmarkNodeForDeletion
  <2> HIDE DEF none, marks, unmarks, m
  <2>3. (m /\ none) \/ (~m /\ marks) \/ (~m /\ none) \/ (m /\ unmarks)  BY <1>3, <2>1, <2>2, Zenon
  <2> QED  BY <2>3 DEF none, marks, unmarks
<1>6. MarkSet(graph, id, TRUE, c + 1, h)  BY DEF MarkSet
<1>7. MarkSet(graph, id, FALSE, c - 1, k)  BY DEF MarkSet
<1>8. Slot(graph, id).marked = m  OBVIOUS
<1> HIDE DEF h, k, m
<1>9. CASE Call(0, graph, FALSE)
  <2>1. SameView(graph, graph) /\ Alike(graph, graph)
    <3>1. Typed(graph)  BY <1>1 DEF Valid, Linked
    <3> QED  BY <1>1, <3>1, NothingHappens
  <2>2. Keeps /\ graph' = graph /\ ret' = 0  BY <1>1, <1>9, <2>1, CallKeeps
  <2>3. Holds(graph', LiveIds(graph), OutEdges(graph), MarkedIds(graph),
              Listed(graph.pending_edge_removals), IssuedIds(graph), VisitsOf(graph))
    BY <2>1, <2>2 DEF Alike
  <2>4. Valid(graph')  BY <1>1, <2>2
  <2>5. CASE id \in MarkedIds(graph)
    <3>1. MarkedIds(graph) = MarkedIds(graph) \cup {id} /\ ret' = Status(id \notin MarkedIds(graph))
      BY <2>2, <2>5 DEF Status
    <3> QED  BY <1>1, <2>2, <2>3, <2>4, <3>1, MarksNode
  <2>6. CASE id \notin MarkedIds(graph)
    <3>1. MarkedIds(graph) = MarkedIds(graph) \ {id} /\ ret' = Status(id \in MarkedIds(graph))
      BY <2>2, <2>6 DEF Status
    <3> QED  BY <1>1, <2>2, <2>3, <2>4, <3>1, MarksNode
  <2> QED  BY <2>5, <2>6
<1>10. CASE ~m /\ Call(1, h, FALSE)
  <2>1. /\ Valid(h) /\ SameView(graph, h)
        /\ Holds(h, LiveIds(graph), OutEdges(graph), MarkedIds(graph) \cup {id},
                 Listed(graph.pending_edge_removals), IssuedIds(graph), VisitsOf(graph))
    <3>1. c + 1 = (IF TRUE THEN graph.pending_delete_count + 1 ELSE graph.pending_delete_count - 1)
          /\ Slot(graph, id).marked = ~TRUE
      BY <1>3, <1>8, <1>10
    <3> HIDE DEF c
    <3>2. /\ Valid(h) /\ SameView(graph, h)
          /\ Holds(h, LiveIds(graph), OutEdges(graph),
                   IF TRUE THEN MarkedIds(graph) \cup {id} ELSE MarkedIds(graph) \ {id},
                   Listed(graph.pending_edge_removals), IssuedIds(graph), VisitsOf(graph))
      BY <1>1, <1>6, <3>1, MarkProps
    <3> QED  BY <3>2
  <2>2. Keeps /\ graph' = h /\ ret' = 1  BY <1>10, <2>1, CallKeeps
  <2>3. ret' = Status(id \notin MarkedIds(graph))  BY <1>4, <1>10, <2>2 DEF Status
  <2> QED  BY <1>1, <2>1, <2>2, <2>3, MarksNode
<1>11. CASE m /\ Call(1, k, FALSE)
  <2>1. /\ Valid(k) /\ SameView(graph, k)
        /\ Holds(k, LiveIds(graph), OutEdges(graph), MarkedIds(graph) \ {id},
                 Listed(graph.pending_edge_removals), IssuedIds(graph), VisitsOf(graph))
    <3>1. c - 1 = (IF FALSE THEN graph.pending_delete_count + 1 ELSE graph.pending_delete_count - 1)
          /\ Slot(graph, id).marked = ~FALSE
      BY <1>3, <1>8, <1>11
    <3> HIDE DEF c
    <3>2. /\ Valid(k) /\ SameView(graph, k)
          /\ Holds(k, LiveIds(graph), OutEdges(graph),
                   IF FALSE THEN MarkedIds(graph) \cup {id} ELSE MarkedIds(graph) \ {id},
                   Listed(graph.pending_edge_removals), IssuedIds(graph), VisitsOf(graph))
      BY <1>1, <1>7, <3>1, MarkProps
    <3> QED  BY <3>2
  <2>2. Keeps /\ graph' = k /\ ret' = 1  BY <1>11, <2>1, CallKeeps
  <2>3. ret' = Status(id \in MarkedIds(graph))  BY <1>4, <1>11, <2>2 DEF Status
  <2> QED  BY <1>1, <2>1, <2>2, <2>3, MarksNode
<1> QED  BY <1>5, <1>9, <1>10, <1>11

\* graph_mark_edge_for_removal.
LEMMA MarkEdgeStep ==
  ASSUME IInv, NEW from \in LiveIds(graph), NEW to \in LiveIds(graph),
         graph_mark_edge_for_removal(<<from, to>>)
  PROVE  Keeps /\ Contract!GraphNext
<1> DEFINE e == <<from, to>>
           p == graph.pending_edge_removals
           h == [graph EXCEPT !.pending_edge_removals = Append(@, e)]
<1>1. Valid(graph) /\ Typed(graph)  BY DEF IInv, Valid, Linked
<1>2. \/ Call(Refused, graph, FALSE)
      \/ Contains(Slot(graph, from).out, to) /\ ~Contains(p, e) /\ Call(1, h, FALSE)
  BY DEF graph_mark_edge_for_removal
<1>3. PendingSet(graph, Append(p, e), h)  BY DEF PendingSet
<1> HIDE DEF h
<1>4. CASE Call(Refused, graph, FALSE)
  <2>1. SameView(graph, graph) /\ Alike(graph, graph)  BY <1>1, NothingHappens
  <2>2. Keeps /\ graph' = graph /\ ret' = Refused  BY <1>1, <1>4, <2>1, CallKeeps
  <2> QED  BY <1>1, <2>1, <2>2, Quiet
<1>5. CASE Contains(Slot(graph, from).out, to) /\ ~Contains(p, e) /\ Call(1, h, FALSE)
  <2>1. e \in OutEdges(graph)
    <3>1. PICK i \in Occupied(graph) : from = IdAt(graph, i)  BY DEF LiveIds
    <3>2. Slot(graph, from) \in SlotType /\ Slot(graph, from) = graph.slots[i]
      BY <1>1, <3>1, SlotFacts DEF Slot, IdAt
    <3>3. Slot(graph, from).out \in Seq(NodeIds)  BY <3>2 DEF SlotType
    <3>4. to \in Listed(graph.slots[i].out)  BY <1>5, <3>2, <3>3, ListFacts
    <3> QED  BY <1>1, <3>1, <3>4, EdgesAre
  <2>2. Once(NodeIds \X NodeIds, p) /\ Listed(p) \subseteq OutEdges(graph)  BY <1>1 DEF Valid, Pending
  <2>3. e \notin Listed(p)
    <3>1. p \in Seq(NodeIds \X NodeIds)  BY <2>2 DEF Once
    <3> HIDE DEF p, e
    <3> QED  BY <1>5, <3>1, ListFacts
  <2>4. e \in NodeIds \X NodeIds /\ e \in LiveIds(graph) \X LiveIds(graph)  BY <1>1, LiveVisits
  <2> HIDE DEF p, e
  <2>5. Once(NodeIds \X NodeIds, Append(p, e)) /\ Listed(Append(p, e)) = Listed(p) \cup {e}
    BY <2>2, <2>3, <2>4, OncePush
  <2>6. Listed(Append(p, e)) \subseteq OutEdges(graph)  BY <2>1, <2>2, <2>5
  <2>7. /\ Valid(h) /\ SameView(graph, h)
        /\ Holds(h, LiveIds(graph), OutEdges(graph), MarkedIds(graph), Listed(p) \cup {e},
                 IssuedIds(graph), VisitsOf(graph))
    <3>1. /\ Valid(h) /\ SameView(graph, h)
          /\ Holds(h, LiveIds(graph), OutEdges(graph), MarkedIds(graph), Listed(Append(p, e)),
                   IssuedIds(graph), VisitsOf(graph))
      BY <1>1, <1>3, <2>5, <2>6, PendingProps
    <3> QED  BY <2>5, <3>1
  <2>8. Keeps /\ graph' = h /\ ret' = 1  BY <1>5, <2>7, CallKeeps
  <2>9. e \in OutEdges(graph) \ Listed(p)  BY <2>1, <2>3
  <2> QED  BY <1>1, <2>4, <2>7, <2>8, <2>9, MarksEdge DEF p
<1> QED  BY <1>2, <1>4, <1>5

\* graph_unmark_edge_for_removal.
LEMMA UnmarkEdgeStep ==
  ASSUME IInv, NEW from \in LiveIds(graph), NEW to \in LiveIds(graph),
         graph_unmark_edge_for_removal(<<from, to>>)
  PROVE  Keeps /\ Contract!GraphNext
<1> DEFINE e == <<from, to>>
           p == graph.pending_edge_removals
           r == Status(Contains(p, e))
           h == [graph EXCEPT !.pending_edge_removals = RemoveFirst(@, e)]
<1>1. Valid(graph)  BY DEF IInv
<1>2. Call(r, h, FALSE)  BY DEF graph_unmark_edge_for_removal
<1>3. PendingSet(graph, RemoveFirst(p, e), h)  BY DEF PendingSet
<1>4. Once(NodeIds \X NodeIds, p) /\ Listed(p) \subseteq OutEdges(graph)  BY <1>1 DEF Valid, Pending
<1>5. e \in LiveIds(graph) \X LiveIds(graph)  OBVIOUS
<1> HIDE DEF h, p, e, r
<1>6. Once(NodeIds \X NodeIds, RemoveFirst(p, e)) /\ Listed(RemoveFirst(p, e)) = Listed(p) \ {e}
  BY <1>4, RemoveFirstProps
<1>7. Listed(RemoveFirst(p, e)) \subseteq OutEdges(graph)  BY <1>4, <1>6
<1>8. /\ Valid(h) /\ SameView(graph, h)
      /\ Holds(h, LiveIds(graph), OutEdges(graph), MarkedIds(graph), Listed(p) \ {e},
               IssuedIds(graph), VisitsOf(graph))
  <2>1. /\ Valid(h) /\ SameView(graph, h)
        /\ Holds(h, LiveIds(graph), OutEdges(graph), MarkedIds(graph), Listed(RemoveFirst(p, e)),
                 IssuedIds(graph), VisitsOf(graph))
    BY <1>1, <1>3, <1>6, <1>7, PendingProps
  <2> QED  BY <1>6, <2>1
<1>9. Keeps /\ graph' = h /\ ret' = r  BY <1>2, <1>8, CallKeeps
<1>10. r = Status(e \in Listed(p))
  <2>1. p \in Seq(NodeIds \X NodeIds)  BY <1>4 DEF Once
  <2>2. Contains(p, e) <=> e \in Listed(p)  BY <2>1, ListFacts
  <2> QED  BY <2>2 DEF r, Status
<1> QED  BY <1>1, <1>5, <1>8, <1>9, <1>10, MarksEdge DEF p

\* graph_commit_changes.
LEMMA CommitStep ==
  ASSUME ~IndexGrowthFails, IInv, graph_commit_changes
  PROVE  Keeps /\ Contract!GraphNext
<1> DEFINE p == graph.pending_edge_removals
           m == MarkedIds(graph)
           d == Listed(p)
           nodes == LiveIds(graph) \ m
           edges == (OutEdges(graph) \ d) \cap (nodes \X nodes)
           v == VisitsOf(graph)
           visits == [id \in NodeIds |-> IF id \in m THEN 0 ELSE v[id]]
           c == Cardinality(Marked(graph)) + Len(p)
           h == CommitPending(graph)
<1>1. Valid(graph) /\ Typed(graph) /\ Linked(graph)  BY DEF IInv, Valid, Linked
<1>2. Releasable(graph)  BY DEF graph_commit_changes, CanRelease, Releasable
<1>3. IF graph.pending_delete_count = 0 /\ p = <<>> THEN Call(0, graph, FALSE) ELSE Call(c, h, CommitBumps(graph))
  BY DEF graph_commit_changes
<1>4. /\ Cardinality(Marked(graph)) = Cardinality(m) /\ Cardinality(Marked(graph)) \in Nat
      /\ Len(p) = Cardinality(d) /\ graph.pending_delete_count = Cardinality(Marked(graph))
  BY <1>1, CommitCount DEF Valid, Counted
<1>5. CASE graph.pending_delete_count = 0 /\ p = <<>>
  <2>1. Marked(graph) = {}
    <3>1. IsFiniteSet(Marked(graph))  BY <1>1, OccupiedFinite
    <3> QED  BY <3>1, <1>4, <1>5, FS_EmptySet
  <2>2. m = {}  BY <2>1 DEF MarkedIds
  <2>3. d = {}  BY <1>5 DEF Listed
  <2>4. nodes = LiveIds(graph)  BY <2>2
  <2>5. edges = OutEdges(graph)  BY <1>1, <2>3, <2>4, EdgeEnds
  <2>6. visits = VisitsOf(graph)
    <3>1. v = [id \in NodeIds |-> v[id]]  BY DEF VisitsOf
    <3> HIDE DEF v, m
    <3>2. visits = v  BY <2>2, <3>1
    <3> QED  BY <3>2 DEF v
  <2>7. Call(0, graph, FALSE)  BY <1>3, <1>5
  <2>8. SameView(graph, graph) /\ Alike(graph, graph)  BY <1>1, NothingHappens
  <2>9. Keeps /\ graph' = graph /\ ret' = 0  BY <1>1, <2>7, <2>8, CallKeeps
  <2>10. Holds(graph', nodes, edges, {}, {}, IssuedIds(graph), visits)
    <3> HIDE DEF nodes, edges, visits, m, d
    <3>1. MarkedIds(graph) = {} /\ Listed(graph.pending_edge_removals) = {}  BY <2>2, <2>3 DEF m, d
    <3> QED  BY <2>4, <2>5, <2>6, <2>8, <2>9, <3>1 DEF Alike
  <2>11. ret' = Cardinality(m) + Cardinality(d)
    <3>1. Len(p) = 0  BY <1>5
    <3> QED  BY <3>1, <1>4, <1>5, <2>9
  <2>12. Valid(graph')  BY <1>1, <2>9
  <2>13. nodes = LiveIds(graph) \ m  OBVIOUS
  <2> HIDE DEF nodes
  <2> QED  BY <1>1, <2>9, <2>10, <2>11, <2>12, <2>13, Commits
<1>6. CASE ~(graph.pending_delete_count = 0 /\ p = <<>>)
  <2>1. Call(c, h, CommitBumps(graph))  BY <1>3, <1>6
  <2>2. CommitBumps(graph)
    <3>1. graph.pending_delete_count \in Nat  BY <1>4
    <3> QED  BY <3>1, <1>6 DEF CommitBumps
  <2>3. nodes = LiveIds(graph) \ m  OBVIOUS
  <2>4. Committed(graph, h, Staying(graph))  BY <1>1, <1>2, CommitProps
  <2> HIDE DEF nodes, h, c
  <2>5. Holds(h, nodes, edges, {}, {}, IssuedIds(graph), visits)  BY <1>1, <1>2, <2>3, <2>4, CommitEffect
  <2>6. Valid(h)  BY <2>4 DEF Committed
  <2>7. Keeps /\ graph' = h /\ ret' = c  BY <2>1, <2>2, <2>6, CallKeeps
  <2>8. ret' = Cardinality(m) + Cardinality(d)  BY <1>4, <2>7 DEF c
  <2>9. Holds(graph', nodes, edges, {}, {}, IssuedIds(graph), visits)  BY <2>5, <2>7
  <2>10. Valid(graph')  BY <2>6, <2>7
  <2> QED  BY <1>1, <2>3, <2>7, <2>8, <2>9, <2>10, Commits
<1> QED  BY <1>5, <1>6

\* clear_graph, and deinit_graph after which a new graph begins.
LEMMA ClearStep ==
  ASSUME ~IndexGrowthFails, IInv, clear_graph \/ deinit_graph
  PROVE  Keeps /\ Contract!GraphNext
<1> DEFINE h == Cleared(graph)
<1>1. Valid(graph)  BY DEF IInv
<1>2. \A i \in Occupied(graph) : graph.slots[i].generation < MaxGeneration
  BY DEF clear_graph, deinit_graph, CanRelease
<1>3. AllFree(graph, h)  BY <1>1, <1>2, ClearProps
<1>4. Call(1, h, TRUE) \/ Call(1, IF h.aborted THEN h ELSE EmptyGraph, TRUE)  BY DEF clear_graph, deinit_graph
<1> HIDE DEF h
<1>5. Valid(h) /\ ~h.aborted  BY <1>3 DEF AllFree, Valid, Linked
<1>6. CASE Call(1, h, TRUE)
  <2>1. Holds(h, {}, {}, {}, {}, IssuedIds(graph), [id \in NodeIds |-> 0])  BY <1>1, <1>2, <1>3, ClearEffect
  <2>2. Keeps /\ graph' = h /\ ret' = 1  BY <1>5, <1>6, CallKeeps
  <2>3. Valid(graph') /\ Holds(graph', {}, {}, {}, {}, IssuedIds(graph), [id \in NodeIds |-> 0])
    BY <1>5, <2>1, <2>2
  <2> QED  BY <1>1, <2>2, <2>3, Empties
<1>7. CASE Call(1, EmptyGraph, TRUE)
  <2>1. Valid(EmptyGraph) /\ Holds(EmptyGraph, {}, {}, {}, {}, {}, [id \in NodeIds |-> 0])  BY EmptyProps
  <2>2. Keeps /\ graph' = EmptyGraph /\ ret' = 1  BY <1>7, <2>1, CallKeeps
  <2>3. Valid(graph') /\ Holds(graph', {}, {}, {}, {}, {}, [id \in NodeIds |-> 0])  BY <2>1, <2>2
  <2> QED  BY <1>1, <2>2, <2>3, Empties
<1> QED  BY <1>4, <1>5, <1>6, <1>7

\* graph_contains_node.
LEMMA ContainsStep ==
  ASSUME IInv, NEW id \in NodeIds, graph_contains_node(id)
  PROVE  Keeps /\ Contract!GraphNext
<1>1. Valid(graph) /\ Typed(graph)  BY DEF IInv, Valid, Linked
<1>2. SameView(graph, graph) /\ Alike(graph, graph)  BY <1>1, NothingHappens
<1>3. Call(Status(IsLive(graph, id)), graph, FALSE)  BY DEF graph_contains_node
<1>4. Keeps /\ graph' = graph /\ ret' = Status(IsLive(graph, id))  BY <1>1, <1>2, <1>3, CallKeeps
<1>5. IsLive(graph, id) <=> id \in LiveIds(graph)  BY <1>1, LiveFacts
<1>6. Status(IsLive(graph, id)) = Status(id \in LiveIds(graph))  BY <1>5 DEF Status
<1> QED  BY <1>1, <1>2, <1>4, <1>6, Quiet

\* An iteration begins.
LEMMA BeginStep ==
  ASSUME IInv, NEW kind, NEW id, BeginIter(kind, id), kind \in {"node", "out", "in"},
         kind = "node" => id = <<>>, kind # "node" => id \in LiveIds(graph)
  PROVE  Keeps /\ UNCHANGED <<graph, ret>>
<1>1. Valid(graph) /\ Typed(graph)  BY DEF IInv, Valid, Linked
<1>2. graph' = graph /\ ret' = ret  BY DEF BeginIter
<1>3. iter' = Iterator(kind, id, 0, <<>>)  BY DEF BeginIter, Iterator
<1>4. iter'.kind = kind /\ iter'.id = id /\ iter'.at = 0 /\ iter'.seen = <<>>  BY <1>3 DEF Iterator
<1>5. IterFine(graph, iter')
  <2>1. CASE kind = "node"
    <3>1. Occupied(graph) \subseteq SlotsOf(graph) /\ Len(graph.slots) \in Nat  BY <1>1, SlotFacts
    <3>2. {j \in Occupied(graph) : j <= 0} = {}  BY <3>1 DEF SlotsOf
    <3>3. Len(<<>>) = 0 /\ Listed(<<>>) = {}  BY DEF Listed
    <3>4. {IdAt(graph, i) : i \in {j \in Occupied(graph) : j <= iter'.at}} = {}  BY <1>4, <3>2
    <3>5. iter' = Iterator("node", <<>>, iter'.at, iter'.seen)  BY <1>3, <1>4, <2>1
    <3>6. iter'.at \in Nat /\ iter'.seen \in Seq(NodeIds) /\ Len(iter'.seen) = 0  BY <1>4, <3>3
    <3>7. Listed(iter'.seen) = {IdAt(graph, i) : i \in {j \in Occupied(graph) : j <= iter'.at}}
      BY <1>4, <3>3, <3>4
    <3>8. \A j, k \in 1..Len(iter'.seen) : j < k => iter'.seen[j][1] < iter'.seen[k][1]  BY <3>6
    <3>9. NodeIter(graph, iter')  BY <3>5, <3>6, <3>7, <3>8 DEF NodeIter
    <3> QED  BY <3>9 DEF IterFine
  <2>2. CASE kind # "node"
    <3>1. iter'.id \in LiveIds(graph)  BY <1>4, <2>2
    <3> DEFINE list == ListOf(graph, iter')
    <3>2. list \in Seq(NodeIds) /\ Len(list) \in Nat  BY <1>1, <3>1, ListOfLive
    <3>3. iter'.at \in 0..Len(list)  BY <1>4, <3>2
    <3>4. iter'.seen = SubSeq(list, 1, iter'.at)
      <4> HIDE DEF list
      <4>1. SubSeq(list, 1, 0) = <<>>
        <5> DEFINE u == SubSeq(list, 1, 0)
        <5>1. u \in Seq(NodeIds) /\ Len(u) = 0  BY <3>2, SubSeqProperties
        <5> HIDE DEF u
        <5>2. u = <<>>  BY <5>1, EmptySeq
        <5> QED  BY <5>2 DEF u
      <4> QED  BY <1>4, <4>1
    <3>5. ListIter(graph, iter')  BY <1>3, <1>4, <2>2, <3>1, <3>3, <3>4 DEF ListIter
    <3> QED  BY <3>5 DEF IterFine
  <2> QED  BY <2>1, <2>2
<1> QED  BY <1>1, <1>2, <1>5 DEF Keeps

\* The node iterator moves.
LEMMA NodeNextStep ==
  ASSUME IInv, graph_node_iter_next
  PROVE  Keeps /\ UNCHANGED <<graph, ret>>
<1> DEFINE later == {i \in Occupied(graph) : i > iter.at}
<1>1. Valid(graph) /\ Typed(graph) /\ IterFine(graph, iter)  BY DEF IInv, Valid, Linked
<1>2. iter.kind = "node" /\ graph' = graph /\ ret' = ret  BY DEF graph_node_iter_next
<1>3. \/ iter' = NoIter
      \/ later # {} /\ MovedTo(iter, Min(later), Append(iter.seen, IdAt(graph, Min(later))), iter')
  BY DEF graph_node_iter_next, MovedTo
<1>4. NodeIter(graph, iter)
  <2>1. iter # NoIter  BY <1>2 DEF NoIter
  <2>2. ~ListIter(graph, iter)  BY <1>2 DEF ListIter
  <2> QED  BY <1>1, <2>1, <2>2 DEF IterFine
<1>5. CASE iter' = NoIter  BY <1>1, <1>2, <1>5 DEF Keeps, IterFine
<1>6. CASE later # {} /\ MovedTo(iter, Min(later), Append(iter.seen, IdAt(graph, Min(later))), iter')
  <2>1. later = {i \in Occupied(graph) : i > iter.at}  OBVIOUS
  <2> HIDE DEF later
  <2>2. NodeIter(graph, iter')  BY <1>1, <1>4, <1>6, <2>1, NodeIterGoesOn
  <2> QED  BY <1>1, <1>2, <2>2 DEF Keeps, IterFine
<1> QED  BY <1>3, <1>5, <1>6

\* The iterators of neighbors and predecessors move.
LEMMA ListNextStep ==
  ASSUME IInv, graph_neighbor_iter_next \/ graph_predecessor_iter_next
  PROVE  Keeps /\ UNCHANGED <<graph, ret>>
<1> DEFINE list == ListOf(graph, iter)
<1>1. Valid(graph) /\ Typed(graph) /\ IterFine(graph, iter)  BY DEF IInv, Valid, Linked
<1>2. iter.kind \in {"out", "in"} /\ AdjacencyIterNext(list)
  BY DEF graph_neighbor_iter_next, graph_predecessor_iter_next, ListOf
<1>3. graph' = graph /\ ret' = ret  BY <1>2 DEF AdjacencyIterNext
<1>4. ListIter(graph, iter)
  <2>1. iter # NoIter  BY <1>2 DEF NoIter
  <2>2. ~NodeIter(graph, iter)
    <3> SUFFICES ASSUME NodeIter(graph, iter) PROVE FALSE  OBVIOUS
    <3>1. iter.kind = "node"
      <4> DEFINE a == iter.at
                 s == iter.seen
      <4>1. iter = Iterator("node", <<>>, a, s)  BY DEF NodeIter
      <4> HIDE DEF a, s
      <4> QED  BY <4>1 DEF Iterator
    <3> QED  BY <1>2, <3>1
  <2> QED  BY <1>1, <2>1, <2>2 DEF IterFine
<1>5. list = ListOf(graph, iter)  OBVIOUS
<1> HIDE DEF list
<1>6. \/ iter' = NoIter
      \/ ~(iter.at >= Len(list)) /\ MovedTo(iter, iter.at + 1, Append(iter.seen, list[iter.at + 1]), iter')
  BY <1>2 DEF AdjacencyIterNext, MovedTo
<1>7. CASE iter' = NoIter  BY <1>1, <1>3, <1>7 DEF Keeps, IterFine
<1>8. CASE ~(iter.at >= Len(list)) /\ MovedTo(iter, iter.at + 1, Append(iter.seen, list[iter.at + 1]), iter')
  <2>1. ListIter(graph, iter')  BY <1>1, <1>4, <1>5, <1>8, ListIterGoesOn
  <2> QED  BY <1>1, <1>3, <2>1 DEF Keeps, IterFine
<1> QED  BY <1>6, <1>7, <1>8

\* Every step.
LEMMA StepKeeps ==
  ASSUME ~IndexGrowthFails, IInv, Next
  PROVE  Keeps /\ (Contract!GraphNext \/ UNCHANGED <<graph, ret>>)
<1>1. ASSUME NEW id \in LiveIds(graph),
             \/ GraphNodeVisit(id) \/ GraphNodeUnvisit(id)
             \/ GraphMarkNodeForDeletion(id) \/ GraphUnmarkNodeForDeletion(id)
             \/ graph_neighbor_iter_begin(id) \/ graph_predecessor_iter_begin(id)
      PROVE  Keeps /\ (Contract!GraphNext \/ UNCHANGED <<graph, ret>>)
  <2>1. CASE GraphNodeVisit(id) \/ GraphNodeUnvisit(id)  BY <2>1, VisitStep
  <2>2. CASE GraphMarkNodeForDeletion(id) \/ GraphUnmarkNodeForDeletion(id)  BY <2>2, MarkStep
  <2>3. CASE graph_neighbor_iter_begin(id)  BY <2>3, BeginStep DEF graph_neighbor_iter_begin
  <2>4. CASE graph_predecessor_iter_begin(id)  BY <2>4, BeginStep DEF graph_predecessor_iter_begin
  <2> QED  BY <1>1, <2>1, <2>2, <2>3, <2>4
<1>2. ASSUME NEW from \in LiveIds(graph), NEW to \in LiveIds(graph),
             \/ graph_add_edge(<<from, to>>)
             \/ graph_mark_edge_for_removal(<<from, to>>)
             \/ graph_unmark_edge_for_removal(<<from, to>>)
      PROVE  Keeps /\ (Contract!GraphNext \/ UNCHANGED <<graph, ret>>)
  BY <1>2, AddEdgeStep, MarkEdgeStep, UnmarkEdgeStep
<1>3. CASE graph_push_node  BY <1>3, ReuseStep, AppendStep DEF graph_push_node
<1>4. CASE graph_commit_changes  BY <1>4, CommitStep
<1>5. CASE clear_graph \/ deinit_graph  BY <1>5, ClearStep
<1>6. ASSUME NEW n \in Requests, GraphReserve(n) PROVE Keeps /\ Contract!GraphNext  BY <1>6, ReserveStep
<1>7. ASSUME NEW id \in NodeIds, graph_contains_node(id) PROVE Keeps /\ Contract!GraphNext
  BY <1>7, ContainsStep
<1>8. CASE graph_node_iter_begin  BY <1>8, BeginStep DEF graph_node_iter_begin
<1>9. CASE graph_node_iter_next  BY <1>9, NodeNextStep
<1>10. CASE graph_neighbor_iter_next \/ graph_predecessor_iter_next  BY <1>10, ListNextStep
<1> QED  BY <1>1, <1>2, <1>3, <1>4, <1>5, <1>6, <1>7, <1>8, <1>9, <1>10 DEF Next

------------------------------------------------------------------------------
\* What the invariant says.

\* The two lists of every edge mirror each other.
LEMMA EdgesMirrored ==
  ASSUME NEW g, Linked(g)
  PROVE  OutEdges(g) = InEdges(g) /\ \A e \in OutEdges(g) : IsLive(g, e[2])
<1>1. Typed(g)  BY DEF Linked
<1>2. \A i \in Occupied(g) : /\ Listed(g.slots[i].out) \subseteq NodeIds
                             /\ Listed(g.slots[i].in) \subseteq NodeIds
                             /\ IdAt(g, i) \in NodeIds /\ i \in SlotsOf(g)
  <2> SUFFICES ASSUME NEW i \in Occupied(g)
               PROVE  /\ Listed(g.slots[i].out) \subseteq NodeIds /\ Listed(g.slots[i].in) \subseteq NodeIds
                      /\ IdAt(g, i) \in NodeIds /\ i \in SlotsOf(g)
    OBVIOUS
  <2>1. i \in SlotsOf(g) /\ g.slots[i] \in SlotType /\ IdAt(g, i) \in NodeIds  BY <1>1, SlotFacts
  <2>2. g.slots[i].out \in Seq(NodeIds) /\ g.slots[i].in \in Seq(NodeIds)  BY <2>1 DEF SlotType
  <2> QED  BY <2>1, <2>2, ListFacts
<1>3. ASSUME NEW id \in NodeIds, IsLive(g, id)
      PROVE  id[1] \in Occupied(g) /\ IdAt(g, id[1]) = id /\ Slot(g, id) = g.slots[id[1]]
  BY <1>1, <1>3, LiveFacts DEF Slot
<1>4. ASSUME NEW e \in OutEdges(g) PROVE e \in InEdges(g) /\ IsLive(g, e[2])
  <2>1. PICK i \in Occupied(g) : \E id \in Listed(g.slots[i].out) : e = <<IdAt(g, i), id>>  BY <1>1, EdgesAre
  <2>2. PICK id \in Listed(g.slots[i].out) : e = <<IdAt(g, i), id>>  BY <2>1
  <2>3. IsLive(g, id) /\ IdAt(g, i) \in Listed(Slot(g, id).in)  BY <2>2 DEF Linked, Mirrored
  <2>4. id \in NodeIds  BY <1>2, <2>2
  <2>5. e = <<IdAt(g, i), IdAt(g, id[1])>> /\ IdAt(g, i) \in Listed(g.slots[id[1]].in) /\ id[1] \in Occupied(g)
    BY <1>3, <2>2, <2>3, <2>4
  <2>6. e[2] = id  BY <2>2
  <2> QED  BY <1>1, <2>3, <2>5, <2>6, EdgesAre
<1>5. ASSUME NEW e \in InEdges(g) PROVE e \in OutEdges(g)
  <2>1. PICK i \in Occupied(g) : \E id \in Listed(g.slots[i].in) : e = <<id, IdAt(g, i)>>  BY <1>1, EdgesAre
  <2>2. PICK id \in Listed(g.slots[i].in) : e = <<id, IdAt(g, i)>>  BY <2>1
  <2>3. IsLive(g, id) /\ IdAt(g, i) \in Listed(Slot(g, id).out)  BY <2>2 DEF Linked, Mirrored
  <2>4. id \in NodeIds  BY <1>2, <2>2
  <2>5. e = <<IdAt(g, id[1]), IdAt(g, i)>> /\ IdAt(g, i) \in Listed(g.slots[id[1]].out) /\ id[1] \in Occupied(g)
    BY <1>3, <2>2, <2>3, <2>4
  <2> QED  BY <1>1, <2>5, EdgesAre
<1> QED  BY <1>4, <1>5

\* What validate_graph asks for.
LEMMA AdjacencyHolds ==
  ASSUME Valid(graph)
  PROVE  AdjacencyExact
<1>1. Linked(graph) /\ Typed(graph) /\ ~graph.aborted  BY DEF Valid, Linked
<1>2. GraphTypeOK  BY <1>1, TypedParts, SlotFacts DEF GraphTypeOK
<1>3. OutEdges(graph) = InEdges(graph) /\ \A e \in OutEdges(graph) : IsLive(graph, e[2])
  BY <1>1, EdgesMirrored
<1>4. DOMAIN graph.slots = SlotsOf(graph)  BY <1>1, SlotFacts
<1>5. ASSUME NEW s \in Range(graph.slots)
      PROVE  IsInjective(s.out) /\ IsInjective(s.in) /\ (~s.occupied => s = FreeSlot(s.generation))
  <2>1. PICK i \in SlotsOf(graph) : s = graph.slots[i]  BY <1>4 DEF Range
  <2>2. Tidy(s)  BY <1>1, <2>1 DEF Linked
  <2>3. s.out \in Seq(NodeIds) /\ s.in \in Seq(NodeIds)  BY <2>2 DEF Tidy, Once
  <2>4. IsInjective(s.out) /\ IsInjective(s.in)  BY <2>2, <2>3, ListFacts DEF Tidy
  <2> QED  BY <2>2, <2>4 DEF Tidy
<1>6. IsInjective(graph.free_indices) /\ Range(graph.free_indices) = DOMAIN graph.slots \ Occupied(graph)
  <2> DEFINE f == graph.free_indices
  <2>1. Once(Indices, f) /\ Listed(f) = DOMAIN graph.slots \ Occupied(graph)  BY <1>4 DEF Valid, Freed
  <2> HIDE DEF f
  <2>2. f \in Seq(Indices)  BY <2>1 DEF Once
  <2>3. IsInjective(f) /\ Range(f) = Listed(f)  BY <2>1, <2>2, ListFacts
  <2> QED  BY <2>1, <2>3 DEF f
<1>7. IsInjective(graph.pending_edge_removals) /\ Range(graph.pending_edge_removals) \subseteq OutEdges(graph)
  <2> DEFINE p == graph.pending_edge_removals
             D == NodeIds \X NodeIds
  <2>1. Once(D, p) /\ Listed(p) \subseteq OutEdges(graph)  BY DEF Valid, Pending
  <2> HIDE DEF p, D
  <2>2. p \in Seq(D)  BY <2>1 DEF Once
  <2>3. IsInjective(p) /\ Range(p) = Listed(p)  BY <2>1, <2>2, ListFacts
  <2> QED  BY <2>1, <2>3 DEF p
<1>8. /\ graph.live_count = Cardinality(Occupied(graph)) /\ graph.edge_count = Cardinality(OutEdges(graph))
      /\ graph.pending_delete_count = Cardinality(Marked(graph))
  BY DEF Valid, Linked, Counted
<1> QED  BY <1>1, <1>2, <1>3, <1>5, <1>6, <1>7, <1>8 DEF AdjacencyExact

\* What an iterator has returned.
LEMMA IterationHolds ==
  ASSUME IInv
  PROVE  IterationExact
<1>1. Typed(graph) /\ IterFine(graph, iter)  BY DEF IInv, Valid, Linked
<1>2. CASE iter = NoIter
  <2>1. iter.kind = "none"  BY <1>2 DEF NoIter
  <2> QED  BY <2>1 DEF IterationExact
<1>3. CASE NodeIter(graph, iter)
  <2>1. iter.kind = "node"
    <3> DEFINE a == iter.at
               s == iter.seen
    <3>1. iter = Iterator("node", <<>>, a, s)  BY <1>3 DEF NodeIter
    <3> HIDE DEF a, s
    <3> QED  BY <3>1 DEF Iterator
  <2>2. iter.seen \in Seq(NodeIds)  BY <1>3 DEF NodeIter
  <2>3. Range(iter.seen) = Listed(iter.seen) /\ DOMAIN iter.seen = 1..Len(iter.seen)  BY <2>2, ListFacts
  <2>4. /\ Range(iter.seen) = {IdAt(graph, i) : i \in {j \in Occupied(graph) : j <= iter.at}}
        /\ \A j, k \in DOMAIN iter.seen : j < k => iter.seen[j][1] < iter.seen[k][1]
    BY <1>3, <2>3 DEF NodeIter
  <2> QED  BY <2>1, <2>4 DEF IterationExact
<1>4. CASE ListIter(graph, iter)
  <2> DEFINE list == ListOf(graph, iter)
             n == iter.at
  <2>1. list \in Seq(NodeIds) /\ Len(list) \in Nat /\ IsLive(graph, iter.id)
    BY <1>1, <1>4, ListOfLive DEF ListIter
  <2>2. n \in 0..Len(list) /\ iter.seen = SubSeq(list, 1, n) /\ iter.kind \in {"out", "in"}
    BY <1>4 DEF ListIter
  <2>3. list = IF iter.kind = "out" THEN Slot(graph, iter.id).out ELSE Slot(graph, iter.id).in  BY DEF ListOf
  <2> HIDE DEF list, n
  <2> DEFINE u == SubSeq(list, 1, n)
             w == SubSeq(u, 1, n)
  <2>4. \A k \in 1..n : list[k] \in NodeIds /\ 1 + k - 1 = k
    <3>1. \A k \in 1..n : k \in 1..Len(list)  BY <2>1, <2>2
    <3> QED  BY <2>1, <3>1, ElementOfSeq
  <2>5. u \in Seq(NodeIds) /\ Len(u) = n /\ \A k \in 1..n : u[k] = list[k]
    BY <2>1, <2>2, <2>4, SubSeqProperties
  <2>6. iter.seen = u  BY <2>2
  <2> HIDE DEF u
  <2>7. w \in Seq(NodeIds) /\ Len(w) = n /\ \A k \in 1..n : w[k] = u[k]
    <3>1. \A k \in 1..n : u[k] \in NodeIds  BY <2>4, <2>5
    <3> QED  BY <2>1, <2>2, <2>4, <3>1, SubSeqProperties
  <2> HIDE DEF w
  <2>8. w = u  BY <2>5, <2>7, SeqEqual
  <2>9. IsPrefix(u, list)
    <3>1. Len(u) <= Len(list)  BY <2>1, <2>2, <2>5
    <3>2. SubSeq(u, 1, Len(u)) = SubSeq(list, 1, Len(u))  BY <2>5, <2>8 DEF u, w
    <3> QED  BY <3>1, <3>2 DEF IsPrefix
  <2>10. CASE iter.kind = "out"
    <3>1. IsPrefix(iter.seen, Slot(graph, iter.id).out)  BY <2>3, <2>6, <2>9, <2>10
    <3> QED  BY <2>1, <2>10, <3>1 DEF IterationExact
  <2>11. CASE iter.kind = "in"
    <3>1. IsPrefix(iter.seen, Slot(graph, iter.id).in)  BY <2>3, <2>6, <2>9, <2>11
    <3> QED  BY <2>1, <2>11, <3>1 DEF IterationExact
  <2> QED  BY <2>2, <2>10, <2>11
<1> QED  BY <1>1, <1>2, <1>3, <1>4 DEF IterFine

------------------------------------------------------------------------------
\* Theorems.

\* The invariant holds throughout: every graph a caller ever sees is linked,
\* its free slots listed, its counters right and its pending removals edges.
THEOREM Inductive ==
  ASSUME ~IndexGrowthFails
  PROVE  Spec => []IInv
<1>1. Init => IInv  BY EmptyProps DEF Init, IInv, IterFine
<1>2. IInv /\ [Next]_vars => IInv'
  <2> SUFFICES ASSUME IInv, [Next]_vars PROVE IInv'  OBVIOUS
  <2>1. CASE Next
    <3>1. Keeps  BY <2>1, StepKeeps
    <3> QED  BY <3>1 DEF Keeps, IInv
  <2>2. CASE UNCHANGED vars
    <3>1. graph' = graph /\ iter' = iter  BY <2>2 DEF vars
    <3> QED  BY <3>1 DEF IInv
  <2> QED  BY <2>1, <2>2
<1> QED  BY <1>1, <1>2, PTL DEF Spec

\* The adjacency lists mirror each other, free slots are listed, the counters
\* count, and no bookkeeping abort is reached.
THEOREM AdjacencyStaysExact ==
  ASSUME ~IndexGrowthFails
  PROVE  Spec => []AdjacencyExact
<1>1. IInv => AdjacencyExact  BY AdjacencyHolds DEF IInv
<1> QED  BY <1>1, Inductive, PTL

\* An iterator has returned each entry it went past exactly once, in order.
THEOREM IterationStaysExact ==
  ASSUME ~IndexGrowthFails
  PROVE  Spec => []IterationExact
<1>1. IInv => IterationExact  BY IterationHolds
<1> QED  BY <1>1, Inductive, PTL

\* Every call is one the header promises, or leaves nodes, edges and removals
\* alone: a refused call changes nothing, a commit removes what was asked for
\* and says how much, and an id never names a second node.
THEOREM GraphIsTheDirectedGraph ==
  ASSUME ~IndexGrowthFails
  PROVE  Spec => ImplementsGraph
<1>1. Init => Contract!GraphInit
  <2> SUFFICES ASSUME Init PROVE Contract!GraphInit  OBVIOUS
  <2>1. graph = EmptyGraph /\ ret = 1  BY DEF Init
  <2>2. Valid(graph) /\ Holds(graph, {}, {}, {}, {}, {}, [id \in NodeIds |-> 0])  BY <2>1, EmptyProps
  <2>3. Range(graph.pending_edge_removals) = {}  BY <2>2, DoomedAre DEF Holds
  <2> QED  BY <2>1, <2>2, <2>3 DEF Holds, MarkedIds, VisitsOf, Contract!GraphInit, Contract!Empty
<1>2. IInv /\ [Next]_vars => [Contract!GraphNext]_<<Contract!content, ret>>
  <2> SUFFICES ASSUME IInv, [Next]_vars
               PROVE  Contract!GraphNext \/ UNCHANGED <<Contract!content, ret>>
    OBVIOUS
  <2>1. ASSUME UNCHANGED <<graph, ret>> PROVE UNCHANGED <<Contract!content, ret>>
    <3>1. graph' = graph /\ ret' = ret  BY <2>1
    <3>2. Contract!content' = Contract!content  BY <3>1 DEF Contract!content
    <3> QED  BY <3>1, <3>2
  <2>2. CASE Next  BY <2>1, <2>2, StepKeeps
  <2>3. CASE UNCHANGED vars  BY <2>1, <2>3 DEF vars
  <2> QED  BY <2>2, <2>3
<1> QED  BY <1>1, <1>2, Inductive, PTL DEF Spec, ImplementsGraph, Contract!GraphSpec
=============================================================================
