---------------------------- MODULE HeapProofs ----------------------------
(***************************************************************************)
(* The heap allocator's theorems: every page of the table is found by its  *)
(* probe, the warm lists are the pages with room, every page the kernel    *)
(* gave is in one place, the counters are exact, and the blocks keep the   *)
(* allocator contract, whatever fails inside a call.                       *)
(*                                                                         *)
(* The links of the table are bucket numbers.  The proof names the buckets *)
(* by their pages (loc[p] is the bucket of page p), so that a move, which  *)
(* changes loc only, leaves the lists as they are.                         *)
(***************************************************************************)
EXTENDS Heap, SequenceTheorems, Lemmas

------------------------------------------------------------------------------
\* Numbers.

\* A set of naturals that is not empty has a least member.
LEMMA LeastProps ==
  ASSUME NEW S \in SUBSET Nat, S # {}
  PROVE  Least(S) \in S /\ \A y \in S : Least(S) <= y
<1> DEFINE T == {n \in Nat : \A m \in 0..n : m \notin S}
<1>1. SUFFICES \E x \in S : \A y \in S : x <= y
  BY DEF Least
<1>2. SUFFICES ASSUME ~\E x \in S : \A y \in S : x <= y
               PROVE  FALSE
  OBVIOUS
<1>3. 0 \in T
  <2>1. 0 \notin S  BY <1>2
  <2> QED  BY <2>1
<1>4. ASSUME NEW n \in Nat, n \in T PROVE n + 1 \in T
  <2>1. \A m \in 0..n : m \notin S  BY <1>4
  <2>2. \A y \in S : n + 1 <= y
    <3> SUFFICES ASSUME NEW y \in S, ~(n + 1 <= y) PROVE FALSE  OBVIOUS
    <3>1. y \in 0..n  OBVIOUS
    <3> QED  BY <3>1, <2>1
  <2>3. n + 1 \notin S  BY <1>2, <2>2
  <2>4. \A m \in 0..(n + 1) : m \in 0..n \/ m = n + 1  OBVIOUS
  <2> QED  BY <2>1, <2>3, <2>4
<1>5. Nat \subseteq T
  <2> HIDE DEF T
  <2> QED  BY <1>3, <1>4, SetInduction
<1>6. PICK y \in S : TRUE  OBVIOUS
<1>7. y \in T /\ y \in 0..y  BY <1>5, <1>6
<1> QED  BY <1>7

\* An interval from a to a + n - 1 has n members.
LEMMA RegionCard ==
  ASSUME NEW a \in Nat, NEW n \in Nat
  PROVE  IsFiniteSet(Region(a, n)) /\ Cardinality(Region(a, n)) = n
<1>1. a + n - 1 \in Int  OBVIOUS
<1>2. IsFiniteSet(a..(a + n - 1))  BY <1>1, FS_Interval
<1>3. Cardinality(a..(a + n - 1)) = IF a > a + n - 1 THEN 0 ELSE a + n - 1 - a + 1
  BY <1>1, FS_Interval
<1>4. (IF a > a + n - 1 THEN 0 ELSE a + n - 1 - a + 1) = n  OBVIOUS
<1>5. Region(a, n) = a..(a + n - 1)  BY DEF Region
<1> QED  BY <1>2, <1>3, <1>4, <1>5

\* A quotient that is rounded up.
LEMMA CeilDivProps ==
  ASSUME NEW a \in Nat, NEW b \in Nat \ {0}
  PROVE  CeilDiv(a, b) \in Nat /\ a <= CeilDiv(a, b) * b /\ (a > 0 => CeilDiv(a, b) > 0)
<1> DEFINE n == a + b - 1
           q == n \div b
<1>1. n \in Nat  OBVIOUS
<1>2. q \in Nat /\ b * q <= n /\ n < b * q + b  BY <1>1, DivProps
<1>3. CeilDiv(a, b) = q  BY DEF CeilDiv
<1> HIDE DEF q
<1>4. a <= b * q /\ q * b = b * q  BY <1>2
<1>5. a > 0 => q > 0
  <2> SUFFICES ASSUME a > 0, q = 0 PROVE FALSE  BY <1>2
  <2>1. b * q = 0  BY <1>2
  <2> QED  BY <1>4, <2>1
<1> QED  BY <1>2, <1>3, <1>4, <1>5

------------------------------------------------------------------------------
\* The buckets of a table, as a ring.

\* How far it is from bucket a on to bucket b.
Dist(cap, a, b) == IF a <= b THEN b - a ELSE b + cap - a
Ahead(cap, a, k) == IF a + k < cap THEN a + k ELSE a + k - cap

\* The bucket k ahead.
LEMMA AheadIs ==
  ASSUME NEW cap \in Nat \ {0}, NEW a \in 0..(cap - 1), NEW k \in 0..(cap - 1)
  PROVE  (a + k) % cap = Ahead(cap, a, k) /\ Ahead(cap, a, k) \in 0..(cap - 1)
         /\ Dist(cap, a, Ahead(cap, a, k)) = k
  BY SMT DEF Ahead, Dist

Home(cap, p) == Hash[p] % cap

\* The k-th bucket of a probe is k ahead of the home bucket.
LEMMA ProbeIs ==
  ASSUME NEW cap \in Nat \ {0}, NEW p \in Pages, NEW k \in 0..(cap - 1)
  PROVE  /\ Home(cap, p) \in 0..(cap - 1) /\ Probe(cap, p, 0) = Home(cap, p)
         /\ Probe(cap, p, k) = Ahead(cap, Home(cap, p), k)
<1>1. Hash[p] \in Nat  BY HeapAssumption
<1>2. Home(cap, p) \in 0..(cap - 1)  BY <1>1, DivProps DEF Home
<1>3. Probe(cap, p, k) = (Home(cap, p) + k) % cap
  <2> DEFINE n == Hash[p]
  <2>1. n \in Nat /\ k \in Nat  BY <1>1
  <2> HIDE DEF n
  <2>2. (n + k) % cap = ((n % cap) + k) % cap  BY <2>1, ModSum
  <2> QED  BY <2>2 DEF Probe, Home, n
<1>4. Probe(cap, p, 0) = Home(cap, p)  BY <1>1 DEF Probe, Home
<1> QED  BY <1>2, <1>3, <1>4, AheadIs

\* Every bucket is some way ahead of every other.
LEMMA DistType ==
  ASSUME NEW cap \in Nat \ {0}, NEW a \in 0..(cap - 1), NEW b \in 0..(cap - 1)
  PROVE  /\ Dist(cap, a, b) \in 0..(cap - 1) /\ Ahead(cap, a, Dist(cap, a, b)) = b
         /\ Dist(cap, a, b) = 0 <=> a = b
  BY SMT DEF Dist, Ahead

------------------------------------------------------------------------------
\* The table and the links in it, named by pages instead of buckets.

\* The fields of the allocator.
IsHeap(h) ==
    h = [pages |-> h.pages, count |-> h.count, warm |-> h.warm,
         recycle |-> h.recycle, recycleCap |-> h.recycleCap,
         xlUse |-> h.xlUse, xlUseCap |-> h.xlUseCap,
         xlFreed |-> h.xlFreed, xlFreedCap |-> h.xlFreedCap,
         retention |-> h.retention, footprint |-> h.footprint, inUse |-> h.inUse,
         mapped |-> h.mapped]

\* Only the table and the warm lists differ.
SameRest(g, h) ==
    /\ g.recycle = h.recycle /\ g.recycleCap = h.recycleCap
    /\ g.xlUse = h.xlUse /\ g.xlUseCap = h.xlUseCap
    /\ g.xlFreed = h.xlFreed /\ g.xlFreedCap = h.xlFreedCap
    /\ g.retention = h.retention /\ g.footprint = h.footprint /\ g.inUse = h.inUse
    /\ g.mapped = h.mapped

Content == [bits : SUBSET Nat, used : Nat, cls : Classes]
Descriptor ==
    [page : Pages \cup {None}, bits : SUBSET Nat, used : Nat, cls : Classes, prev : Int, next : Int]

Bucket(loc, q) == IF q = None THEN None ELSE loc[q]
DescOf(p, x, pr, nx) ==
    [page |-> p, bits |-> x.bits, used |-> x.used, cls |-> x.cls, prev |-> pr, next |-> nx]

\* The table of cap buckets has the page p of D in the bucket loc[p].
IsTable(pages, cap, D, loc, cont, prv, nxt) ==
    /\ cap \in Nat /\ D \subseteq Pages
    /\ pages \in [0..(cap - 1) -> Descriptor]
    /\ loc \in [D -> 0..(cap - 1)] /\ \A p, q \in D : loc[p] = loc[q] => p = q
    /\ cont \in [D -> Content]
    /\ prv \in [D -> D \cup {None}] /\ nxt \in [D -> D \cup {None}]
    /\ \A p \in D : pages[loc[p]] = DescOf(p, cont[p], Bucket(loc, prv[p]), Bucket(loc, nxt[p]))
    /\ \A b \in 0..(cap - 1) : (\A p \in D : loc[p] # b) => pages[b] = EmptyBucket

\* Links go both ways and start at the heads.
Linked(D, cont, prv, nxt, head) ==
    /\ head \in [Classes -> D \cup {None}]
    /\ \A p \in D : nxt[p] # None => prv[nxt[p]] = p /\ nxt[p] # p
    /\ \A p \in D : prv[p] # None => nxt[prv[p]] = p /\ prv[p] # p
    /\ \A c \in Classes : head[c] # None => cont[head[c]].cls = c /\ prv[head[c]] = None

HeadsAt(warm, loc, head) == warm = [c \in Classes |-> Bucket(loc, head[c])]

\* The heap h has that table.
Holds(h, cap, D, loc, cont, prv, nxt, head) ==
    /\ IsHeap(h)
    /\ IsTable(h.pages, cap, D, loc, cont, prv, nxt)
    /\ Linked(D, cont, prv, nxt, head)
    /\ HeadsAt(h.warm, loc, head)

\* No page is -1.
LEMMA NoneIsNoPage == None \notin Pages /\ None \in Int
  BY HeapAssumption DEF None

\* A bucket that moves takes along the links to it.
LEMMA MoveKeeps ==
  ASSUME NEW h, NEW cap, NEW D, NEW loc, NEW cont, NEW prv, NEW nxt, NEW head,
         Holds(h, cap, D, loc, cont, prv, nxt, head),
         NEW p \in D, NEW to \in 0..(cap - 1), \A q \in D : loc[q] # to
  PROVE  LET g == MoveBucket(h, loc[p], to)
             at == [loc EXCEPT ![p] = to]
         IN  /\ Holds(g, cap, D, at, cont, prv, nxt, head)
             /\ SameRest(g, h) /\ g.count = h.count
<1> DEFINE from == loc[p]
           d == h.pages[from]
           p1 == [h.pages EXCEPT ![to] = d, ![from] = EmptyBucket]
           p2 == IF d.prev = None THEN p1 ELSE [p1 EXCEPT ![d.prev].next = to]
           p3 == IF d.next = None THEN p2 ELSE [p2 EXCEPT ![d.next].prev = to]
           w2 == [h.warm EXCEPT ![d.cls] = IF d.prev = None /\ @ = from THEN to ELSE @]
           at == [loc EXCEPT ![p] = to]
           g == MoveBucket(h, from, to)
<1> USE DEF Holds
<1>1. g = [h EXCEPT !.pages = p3, !.warm = w2]
  BY DEF MoveBucket, IsHeap
<1>2. IsHeap(g) /\ g.pages = p3 /\ g.warm = w2 /\ SameRest(g, h) /\ g.count = h.count
  BY <1>1 DEF IsHeap, SameRest
<1>3. /\ cap \in Nat /\ D \subseteq Pages /\ D \subseteq Nat
      /\ h.pages \in [0..(cap - 1) -> Descriptor]
      /\ loc \in [D -> 0..(cap - 1)] /\ \A q, r \in D : loc[q] = loc[r] => q = r
      /\ cont \in [D -> Content]
      /\ prv \in [D -> D \cup {None}] /\ nxt \in [D -> D \cup {None}]
      /\ \A q \in D : h.pages[loc[q]] = DescOf(q, cont[q], Bucket(loc, prv[q]), Bucket(loc, nxt[q]))
      /\ \A b \in 0..(cap - 1) : (\A q \in D : loc[q] # b) => h.pages[b] = EmptyBucket
  BY HeapAssumption DEF IsTable
<1>4. None \notin D /\ None \in Int /\ \A b \in 0..(cap - 1) : b # None
  BY <1>3, NoneIsNoPage DEF None
<1>5. d = DescOf(p, cont[p], Bucket(loc, prv[p]), Bucket(loc, nxt[p])) /\ from \in 0..(cap - 1) /\ from # to
  BY <1>3
<1>6. /\ d.page = p /\ d.cls = cont[p].cls /\ d.cls \in Classes
      /\ d.prev = Bucket(loc, prv[p]) /\ d.next = Bucket(loc, nxt[p])
  BY <1>3, <1>5 DEF DescOf, Content
<1>7. /\ d.prev = None <=> prv[p] = None
      /\ d.next = None <=> nxt[p] = None
  BY <1>3, <1>4, <1>6 DEF Bucket
<1>8. EmptyBucket \in Descriptor /\ d \in Descriptor
  BY <1>3, <1>4, <1>5, HeapAssumption DEF EmptyBucket, Descriptor, Classes
<1>9. p1 \in [0..(cap - 1) -> Descriptor]
      /\ \A b \in 0..(cap - 1) : p1[b] = IF b = from THEN EmptyBucket ELSE IF b = to THEN d ELSE h.pages[b]
  BY <1>3, <1>5, <1>8
<1>10. p2 \in [0..(cap - 1) -> Descriptor]
       /\ \A b \in 0..(cap - 1) : p2[b] = IF d.prev # None /\ b = d.prev THEN [p1[b] EXCEPT !.next = to] ELSE p1[b]
  <2> HIDE DEF d, from, p1
  <2>1. to \in Int  BY <1>3
  <2> QED  BY <1>9, <2>1 DEF Descriptor
<1>11. p3 \in [0..(cap - 1) -> Descriptor]
       /\ \A b \in 0..(cap - 1) : p3[b] = IF d.next # None /\ b = d.next THEN [p2[b] EXCEPT !.prev = to] ELSE p2[b]
  <2> HIDE DEF d, from, p1, p2
  <2>1. to \in Int  BY <1>3
  <2> QED  BY <1>10, <2>1, ZenonT(60) DEF Descriptor
<1>12. /\ at \in [D -> 0..(cap - 1)] /\ \A q, r \in D : at[q] = at[r] => q = r
       /\ \A q \in D : at[q] = IF q = p THEN to ELSE loc[q]
  BY <1>3
<1>13. \A q \in D \cup {None} : Bucket(at, q) = IF q = p THEN to ELSE Bucket(loc, q)
  BY <1>4, <1>12 DEF Bucket
<1>14. /\ \A q \in D : nxt[q] # None => prv[nxt[q]] = q /\ nxt[q] # q
       /\ \A q \in D : prv[q] # None => nxt[prv[q]] = q /\ prv[q] # q
       /\ head \in [Classes -> D \cup {None}]
       /\ \A c \in Classes : head[c] # None => cont[head[c]].cls = c /\ prv[head[c]] = None
  BY DEF Linked
<1> HIDE DEF d, from, p1, p2, p3, at, g, w2
<1>15. ASSUME NEW q \in D
       PROVE  p3[at[q]] = DescOf(q, cont[q], Bucket(at, prv[q]), Bucket(at, nxt[q]))
  <2> DEFINE b == at[q]
             old == DescOf(q, cont[q], Bucket(loc, prv[q]), Bucket(loc, nxt[q]))
  <2>1. b \in 0..(cap - 1)  BY <1>12
  <2>2. p1[b] = old
    <3>1. h.pages[loc[q]] = old /\ (q = p => d = old)  BY <1>3, <1>5
    <3>2. from # to /\ (q # p => loc[q] # from)  BY <1>3, <1>5 DEF from
    <3>3. b = IF q = p THEN to ELSE loc[q]  BY <1>12
    <3>4. loc[q] # to  OBVIOUS
    <3> HIDE DEF b, old
    <3> QED  BY <2>1, <1>9, <3>1, <3>2, <3>3, <3>4
  <2>3. d.next # None /\ b = d.next <=> prv[q] = p
    <3>1. ASSUME d.next # None, b = d.next
          PROVE  prv[q] = p
      <4>1. nxt[p] # None /\ d.next = loc[nxt[p]] /\ nxt[p] \in D  BY <3>1, <1>3, <1>6, <1>7 DEF Bucket
      <4>2. nxt[p] # p /\ prv[nxt[p]] = p  BY <4>1, <1>14
      <4>3. at[nxt[p]] = at[q]  BY <4>1, <4>2, <3>1, <1>12
      <4> QED  BY <4>1, <4>2, <4>3, <1>12
    <3>2. ASSUME prv[q] = p
          PROVE  d.next # None /\ b = d.next
      <4>1. nxt[p] = q /\ q # p  BY <3>2, <1>4, <1>14
      <4>2. d.next = loc[q]  BY <4>1, <1>4, <1>6 DEF Bucket
      <4>3. loc[q] # None  BY <1>3, <1>4
      <4> QED  BY <4>1, <4>2, <4>3, <1>12
    <3> QED  BY <3>1, <3>2
  <2>4. d.prev # None /\ b = d.prev <=> nxt[q] = p
    <3>1. ASSUME d.prev # None, b = d.prev
          PROVE  nxt[q] = p
      <4>1. prv[p] # None /\ d.prev = loc[prv[p]] /\ prv[p] \in D  BY <3>1, <1>3, <1>6, <1>7 DEF Bucket
      <4>2. prv[p] # p /\ nxt[prv[p]] = p  BY <4>1, <1>14
      <4>3. at[prv[p]] = at[q]  BY <4>1, <4>2, <3>1, <1>12
      <4> QED  BY <4>1, <4>2, <4>3, <1>12
    <3>2. ASSUME nxt[q] = p
          PROVE  d.prev # None /\ b = d.prev
      <4>1. prv[p] = q /\ q # p  BY <3>2, <1>4, <1>14
      <4>2. d.prev = loc[q]  BY <4>1, <1>4, <1>6 DEF Bucket
      <4>3. loc[q] # None  BY <1>3, <1>4
      <4> QED  BY <4>1, <4>2, <4>3, <1>12
    <3> QED  BY <3>1, <3>2
  <2>5. p3[b] = DescOf(q, cont[q], IF prv[q] = p THEN to ELSE Bucket(loc, prv[q]),
                       IF nxt[q] = p THEN to ELSE Bucket(loc, nxt[q]))
    <3> HIDE DEF b
    <3>1. p2[b] = DescOf(q, cont[q], Bucket(loc, prv[q]), IF nxt[q] = p THEN to ELSE Bucket(loc, nxt[q]))
      BY <2>1, <2>2, <2>4, <1>10 DEF DescOf
    <3> QED  BY <2>1, <2>3, <3>1, <1>11 DEF DescOf
  <2>6. prv[q] \in D \cup {None} /\ nxt[q] \in D \cup {None}  BY <1>3
  <2> QED  BY <2>5, <2>6, <1>13
<1>16. ASSUME NEW b \in 0..(cap - 1), \A q \in D : at[q] # b
       PROVE  p3[b] = EmptyBucket
  <2>1. b # to  BY <1>12, <1>16
  <2>2. b = from \/ \A q \in D : loc[q] # b  BY <1>12, <1>16 DEF from
  <2>3. p1[b] = EmptyBucket  BY <1>3, <1>9, <2>1, <2>2
  <2>4. ~(d.next # None /\ b = d.next)
    <3>1. nxt[p] # None => nxt[p] \in D /\ nxt[p] # p  BY <1>3, <1>14
    <3>2. nxt[p] # None => at[nxt[p]] = loc[nxt[p]]  BY <3>1, <1>12
    <3> QED  BY <3>1, <3>2, <1>6, <1>7, <1>16 DEF Bucket
  <2>5. ~(d.prev # None /\ b = d.prev)
    <3>1. prv[p] # None => prv[p] \in D /\ prv[p] # p  BY <1>3, <1>14
    <3>2. prv[p] # None => at[prv[p]] = loc[prv[p]]  BY <3>1, <1>12
    <3> QED  BY <3>1, <3>2, <1>6, <1>7, <1>16 DEF Bucket
  <2> QED  BY <2>3, <2>4, <2>5, <1>10, <1>11
<1>17. IsTable(p3, cap, D, at, cont, prv, nxt)
  BY <1>3, <1>11, <1>12, <1>15, <1>16 DEF IsTable
<1>18. HeadsAt(w2, at, head)
  <2>1. h.warm = [c \in Classes |-> Bucket(loc, head[c])]  BY DEF HeadsAt
  <2>2. ASSUME NEW c \in Classes
        PROVE  w2[c] = Bucket(at, head[c])
    <3>1. h.warm[c] = Bucket(loc, head[c]) /\ head[c] \in D \cup {None}  BY <2>1, <1>14
    <3>2. w2[c] = IF c = d.cls /\ d.prev = None /\ h.warm[c] = from THEN to ELSE h.warm[c]
      BY <2>1, <1>6 DEF w2
    <3>3. head[c] = p <=> c = d.cls /\ d.prev = None /\ h.warm[c] = from
      <4>1. CASE head[c] = p
        BY <4>1, <3>1, <1>4, <1>6, <1>7, <1>14 DEF Bucket, from
      <4>2. CASE head[c] # p
        <5>1. h.warm[c] # from  BY <4>2, <3>1, <1>3, <1>4, <1>5 DEF Bucket, from
        <5> QED  BY <4>2, <5>1
      <4> QED  BY <4>1, <4>2
    <3> QED  BY <3>1, <3>2, <3>3, <1>13
  <2>3. w2 = [c \in Classes |-> w2[c]]  BY <2>1 DEF w2
  <2> QED  BY <2>2, <2>3 DEF HeadsAt
<1>19. Holds(g, cap, D, at, cont, prv, nxt, head)
  BY <1>2, <1>17, <1>18
<1> QED  BY <1>2, <1>19 DEF g, at, from

------------------------------------------------------------------------------
\* Probes.

Occupied(D, loc) == {loc[q] : q \in D}

\* The buckets a probe for page p looks at before it comes to b, and b.
Path(cap, p, b) == {y \in 0..(cap - 1) : Dist(cap, Home(cap, p), y) <= Dist(cap, Home(cap, p), b)}

\* No probe for a page of the table meets an empty bucket.
Findable(cap, D, loc) == \A p \in D : Path(cap, p, loc[p]) \subseteq Occupied(D, loc)

\* What a table says of its buckets.
LEMMA TableFacts ==
  ASSUME NEW pages, NEW cap, NEW D, NEW loc, NEW cont, NEW prv, NEW nxt,
         IsTable(pages, cap, D, loc, cont, prv, nxt)
  PROVE  /\ cap \in Nat /\ D \subseteq Pages /\ DOMAIN pages = 0..(cap - 1) /\ IsFiniteSet(D)
         /\ \A p \in D : /\ loc[p] \in 0..(cap - 1) /\ pages[loc[p]].page = p
                         /\ pages[loc[p]] = DescOf(p, cont[p], Bucket(loc, prv[p]), Bucket(loc, nxt[p]))
                         /\ pages[loc[p]].bits = cont[p].bits /\ pages[loc[p]].used = cont[p].used
                         /\ pages[loc[p]].cls = cont[p].cls
                         /\ pages[loc[p]].prev = Bucket(loc, prv[p])
                         /\ pages[loc[p]].next = Bucket(loc, nxt[p])
         /\ \A b \in 0..(cap - 1) :
               /\ pages[b].page # None => pages[b].page \in D /\ loc[pages[b].page] = b
               /\ pages[b].page = None <=> b \notin Occupied(D, loc)
               /\ pages[b].page = None => pages[b] = EmptyBucket
         /\ Cardinality(DOMAIN pages) = cap
<1> USE DEF IsTable
<1>1. D \subseteq Pages /\ None \notin D /\ IsFiniteSet(D)
  BY NoneIsNoPage, HeapAssumption, FS_Subset
<1>2. \A p \in D : /\ loc[p] \in 0..(cap - 1) /\ pages[loc[p]].page = p
                   /\ pages[loc[p]] = DescOf(p, cont[p], Bucket(loc, prv[p]), Bucket(loc, nxt[p]))
                   /\ pages[loc[p]].bits = cont[p].bits /\ pages[loc[p]].used = cont[p].used
                   /\ pages[loc[p]].cls = cont[p].cls
                   /\ pages[loc[p]].prev = Bucket(loc, prv[p])
                   /\ pages[loc[p]].next = Bucket(loc, nxt[p])
  BY DEF DescOf
<1>3. ASSUME NEW b \in 0..(cap - 1)
      PROVE  /\ pages[b].page # None => pages[b].page \in D /\ loc[pages[b].page] = b
             /\ pages[b].page = None <=> b \notin Occupied(D, loc)
             /\ pages[b].page = None => pages[b] = EmptyBucket
  <2>1. CASE \E p \in D : loc[p] = b
    <3>1. PICK p \in D : loc[p] = b  BY <2>1
    <3>2. pages[b].page = p /\ p # None  BY <3>1, <1>1, <1>2
    <3> QED  BY <3>1, <3>2 DEF Occupied
  <2>2. CASE \A p \in D : loc[p] # b
    <3>1. pages[b] = EmptyBucket  BY <2>2
    <3>2. pages[b].page = None  BY <3>1 DEF EmptyBucket
    <3> QED  BY <2>2, <3>1, <3>2 DEF Occupied
  <2> QED  BY <2>1, <2>2
<1>4. Cardinality(DOMAIN pages) = cap
  <2>1. cap \in Nat /\ DOMAIN pages = 0..(cap - 1)  OBVIOUS
  <2>2. cap - 1 \in Int /\ (IF 0 > cap - 1 THEN 0 ELSE cap - 1 - 0 + 1) = cap  BY <2>1
  <2>3. Cardinality(0..(cap - 1)) = IF 0 > cap - 1 THEN 0 ELSE cap - 1 - 0 + 1  BY <2>2, FS_Interval
  <2> QED  BY <2>1, <2>2, <2>3
<1> QED  BY <1>1, <1>2, <1>3, <1>4

\* A lookup finds a page of the table in its bucket, and no other page.
LEMMA LookupIs ==
  ASSUME NEW h, NEW cap, NEW D, NEW loc, NEW cont, NEW prv, NEW nxt, NEW p,
         IsTable(h.pages, cap, D, loc, cont, prv, nxt), Findable(cap, D, loc)
  PROVE  heap_hash_lookup(h, p) = IF p \in D THEN loc[p] ELSE None
<1> DEFINE Held(k) == h.pages[Probe(cap, p, k)].page # None
           Hits == {k \in 0..cap - 1 : /\ h.pages[Probe(cap, p, k)].page = p
                                       /\ \A j \in 0..k : Held(j)}
<1>1. /\ cap \in Nat /\ D \subseteq Pages
      /\ \A q \in D : loc[q] \in 0..(cap - 1) /\ h.pages[loc[q]].page = q
      /\ \A b \in 0..(cap - 1) :
            /\ h.pages[b].page # None => h.pages[b].page \in D /\ loc[h.pages[b].page] = b
            /\ h.pages[b].page = None <=> b \notin Occupied(D, loc)
      /\ Cap(h) = cap
  BY TableFacts DEF Cap
<1>2. heap_hash_lookup(h, p) = IF p \notin Pages \/ Hits = {} THEN None ELSE Probe(cap, p, Least(Hits))
  BY <1>1 DEF heap_hash_lookup
<1>3. CASE p \notin Pages
  BY <1>1, <1>2, <1>3
<1>4. CASE p \in Pages /\ p \notin D
  <2>1. \A k \in 0..cap - 1 : Probe(cap, p, k) \in 0..(cap - 1)
    <3> SUFFICES ASSUME NEW k \in 0..cap - 1 PROVE Probe(cap, p, k) \in 0..(cap - 1)  OBVIOUS
    <3> DEFINE hm == Home(cap, p)
    <3>1. cap \in Nat \ {0}  BY <1>1
    <3>2. hm \in 0..(cap - 1) /\ Probe(cap, p, k) = Ahead(cap, hm, k)  BY <3>1, <1>4, ProbeIs
    <3> HIDE DEF hm
    <3>3. Ahead(cap, hm, k) \in 0..(cap - 1)  BY <3>1, <3>2, AheadIs
    <3> QED  BY <3>2, <3>3
  <2>2. p # None  BY <1>4, NoneIsNoPage
  <2>3. Hits = {}  BY <1>1, <1>4, <2>1, <2>2
  <2> QED  BY <1>2, <1>4, <2>3
<1>5. CASE p \in D
  <2> DEFINE hm == Home(cap, p)
             k0 == Dist(cap, hm, loc[p])
  <2>1. cap \in Nat \ {0} /\ p \in Pages /\ p # None  BY <1>1, <1>5, NoneIsNoPage
  <2>2. hm \in 0..(cap - 1) /\ \A k \in 0..(cap - 1) : Probe(cap, p, k) = Ahead(cap, hm, k)
    <3>1. 0 \in 0..(cap - 1)  BY <2>1
    <3> QED  BY <2>1, <3>1, ProbeIs
  <2> HIDE DEF hm
  <2>3. k0 \in 0..(cap - 1) /\ Ahead(cap, hm, k0) = loc[p]
    <3> DEFINE t == loc[p]
    <3>1. t \in 0..(cap - 1)  BY <1>1, <1>5
    <3> HIDE DEF t
    <3>2. Dist(cap, hm, t) \in 0..(cap - 1) /\ Ahead(cap, hm, Dist(cap, hm, t)) = t
      BY <3>1, <2>1, <2>2, DistType
    <3> QED  BY <3>2 DEF t
  <2>4. \A k \in 0..(cap - 1) : Ahead(cap, hm, k) \in 0..(cap - 1) /\ Dist(cap, hm, Ahead(cap, hm, k)) = k
    BY <2>1, <2>2, AheadIs
  <2> HIDE DEF k0
  <2>5. \A j \in 0..k0 : Held(j)
    <3> SUFFICES ASSUME NEW j \in 0..k0 PROVE Held(j)  OBVIOUS
    <3>1. j \in 0..(cap - 1) /\ j <= k0  BY <2>1, <2>3
    <3>2. Ahead(cap, hm, j) \in Path(cap, p, loc[p])  BY <3>1, <2>4 DEF Path, hm, k0
    <3>3. Ahead(cap, hm, j) \in Occupied(D, loc)  BY <3>2, <1>5 DEF Findable
    <3> QED  BY <3>1, <3>3, <2>2, <2>4, <1>1
  <2>6. k0 \in Hits
    <3>1. h.pages[Probe(cap, p, k0)].page = p  BY <1>1, <1>5, <2>2, <2>3
    <3> QED  BY <3>1, <2>3, <2>5
  <2>7. \A k \in Hits : k = k0
    <3> SUFFICES ASSUME NEW k \in Hits PROVE k = k0  OBVIOUS
    <3>1. k \in 0..(cap - 1) /\ h.pages[Ahead(cap, hm, k)].page = p  BY <2>2
    <3>2. Ahead(cap, hm, k) = loc[p]  BY <3>1, <2>1, <2>4, <1>1
    <3> QED  BY <3>1, <3>2, <2>4 DEF k0
  <2>8. Hits \in SUBSET Nat /\ Hits # {}  BY <2>6
  <2> HIDE DEF Hits
  <2>9. Least(Hits) = k0  BY <2>7, <2>8, LeastProps
  <2> QED  BY <1>2, <1>5, <2>1, <2>2, <2>3, <2>8, <2>9
<1> QED  BY <1>3, <1>4, <1>5, <1>1

\* A table with more buckets than pages has an empty one.
LEMMA RoomLeft ==
  ASSUME NEW cap \in Nat, NEW D, NEW loc \in [D -> 0..(cap - 1)], IsFiniteSet(D),
         \A p, q \in D : loc[p] = loc[q] => p = q, Cardinality(D) < cap
  PROVE  \E b \in 0..(cap - 1) : b \notin Occupied(D, loc)
<1> SUFFICES ASSUME \A b \in 0..(cap - 1) : b \in Occupied(D, loc)
             PROVE  FALSE
  OBVIOUS
<1>1. loc \in Surjection(D, 0..(cap - 1))  BY DEF Surjection, Occupied
<1>2. Cardinality(0..(cap - 1)) <= Cardinality(D)  BY <1>1, FS_Surjection
<1>3. cap - 1 \in Int /\ (IF 0 > cap - 1 THEN 0 ELSE cap - 1 - 0 + 1) = cap  OBVIOUS
<1>4. Cardinality(0..(cap - 1)) = IF 0 > cap - 1 THEN 0 ELSE cap - 1 - 0 + 1  BY <1>3, FS_Interval
<1>5. Cardinality(D) \in Nat  BY FS_CardinalityType
<1> QED  BY <1>2, <1>3, <1>4, <1>5

\* A new page goes to the first empty bucket of its probe.
LEMMA InsertIs ==
  ASSUME NEW pages, NEW cap, NEW D, NEW loc, NEW cont, NEW prv, NEW nxt, NEW p \in Pages,
         IsTable(pages, cap, D, loc, cont, prv, nxt), Cardinality(D) < cap,
         NEW b, b = InsertBucket(pages, cap, p)
  PROVE  /\ b \in 0..(cap - 1) /\ b \notin Occupied(D, loc)
         /\ \A y \in Path(cap, p, b) : y \in Occupied(D, loc) \/ y = b
<1> DEFINE hm == Home(cap, p)
           S == {k \in 0..cap - 1 : pages[Probe(cap, p, k)].page = None}
           m == Least(S)
<1>1. /\ cap \in Nat /\ D \subseteq Pages /\ IsFiniteSet(D)
      /\ \A y \in 0..(cap - 1) : pages[y].page = None <=> y \notin Occupied(D, loc)
  BY TableFacts
<1>2. cap \in Nat \ {0}
  <2>1. Cardinality(D) \in Nat  BY <1>1, FS_CardinalityType
  <2> QED  BY <1>1, <2>1
<1>3. PICK e \in 0..(cap - 1) : e \notin Occupied(D, loc)
  <2>1. loc \in [D -> 0..(cap - 1)] /\ \A q, r \in D : loc[q] = loc[r] => q = r  BY DEF IsTable
  <2> QED  BY <1>1, <2>1, RoomLeft
<1>4. hm \in 0..(cap - 1) /\ \A k \in 0..(cap - 1) : Probe(cap, p, k) = Ahead(cap, hm, k)
  <2>1. 0 \in 0..(cap - 1)  BY <1>2
  <2> QED  BY <1>2, <2>1, ProbeIs
<1> HIDE DEF hm
<1>5. \A k \in 0..(cap - 1) : Ahead(cap, hm, k) \in 0..(cap - 1) /\ Dist(cap, hm, Ahead(cap, hm, k)) = k
  BY <1>2, <1>4, AheadIs
<1>6. \A y \in 0..(cap - 1) : Dist(cap, hm, y) \in 0..(cap - 1) /\ Ahead(cap, hm, Dist(cap, hm, y)) = y
  BY <1>2, <1>4, DistType
<1>7. S \in SUBSET Nat /\ S # {}
  <2>1. Dist(cap, hm, e) \in S  BY <1>1, <1>3, <1>4, <1>6
  <2> QED  BY <2>1
<1>8. m \in S /\ \A k \in S : m <= k
  <2> HIDE DEF S
  <2> QED  BY <1>7, LeastProps
<1>9. b = Probe(cap, p, m)  BY DEF InsertBucket
<1> HIDE DEF m
<1>10. m \in 0..(cap - 1) /\ b = Ahead(cap, hm, m) /\ pages[b].page = None  BY <1>4, <1>8, <1>9
<1>11. b \in 0..(cap - 1) /\ b \notin Occupied(D, loc) /\ Dist(cap, hm, b) = m  BY <1>1, <1>5, <1>10
<1>12. ASSUME NEW y \in Path(cap, p, b), y # b
       PROVE  y \in Occupied(D, loc)
  <2> DEFINE k == Dist(cap, hm, y)
  <2>1. y \in 0..(cap - 1) /\ k <= m  BY <1>11 DEF Path, hm
  <2>2. k \in 0..(cap - 1) /\ Ahead(cap, hm, k) = y  BY <2>1, <1>6
  <2>3. k # m  BY <1>10, <1>12, <2>2
  <2>4. k \notin S
    <3> HIDE DEF k, S
    <3> QED  BY <2>1, <2>2, <2>3, <1>8, <1>10
  <2> QED  BY <2>1, <2>2, <2>4, <1>1, <1>4
<1> QED  BY <1>11, <1>12

------------------------------------------------------------------------------
\* Links of the warm lists.

\* What it says of the pages that the heap h holds them.
LEMMA HoldsFacts ==
  ASSUME NEW h, NEW cap, NEW D, NEW loc, NEW cont, NEW prv, NEW nxt, NEW head,
         Holds(h, cap, D, loc, cont, prv, nxt, head)
  PROVE  /\ IsHeap(h) /\ cap \in Nat /\ D \subseteq Pages /\ None \notin D /\ None \in Int
         /\ h.pages \in [0..(cap - 1) -> Descriptor]
         /\ loc \in [D -> 0..(cap - 1)] /\ \A q, r \in D : loc[q] = loc[r] => q = r
         /\ \A q \in D : loc[q] # None /\ loc[q] \in Int
         /\ cont \in [D -> Content]
         /\ prv \in [D -> D \cup {None}] /\ nxt \in [D -> D \cup {None}]
         /\ \A q \in D : h.pages[loc[q]] = DescOf(q, cont[q], Bucket(loc, prv[q]), Bucket(loc, nxt[q]))
         /\ \A b \in 0..(cap - 1) : (\A q \in D : loc[q] # b) => h.pages[b] = EmptyBucket
         /\ \A q \in D \cup {None} : Bucket(loc, q) \in Int /\ (Bucket(loc, q) = None <=> q = None)
         /\ \A q, r \in D \cup {None} : Bucket(loc, q) = Bucket(loc, r) => q = r
         /\ head \in [Classes -> D \cup {None}]
         /\ \A q \in D : nxt[q] # None => prv[nxt[q]] = q /\ nxt[q] # q
         /\ \A q \in D : prv[q] # None => nxt[prv[q]] = q /\ prv[q] # q
         /\ \A c \in Classes : head[c] # None => cont[head[c]].cls = c /\ prv[head[c]] = None
         /\ h.warm = [c \in Classes |-> Bucket(loc, head[c])]
<1> USE DEF Holds
<1>1. /\ IsHeap(h) /\ cap \in Nat /\ D \subseteq Pages /\ None \notin D /\ None \in Int
      /\ h.pages \in [0..(cap - 1) -> Descriptor]
      /\ loc \in [D -> 0..(cap - 1)] /\ \A q, r \in D : loc[q] = loc[r] => q = r
      /\ cont \in [D -> Content]
      /\ prv \in [D -> D \cup {None}] /\ nxt \in [D -> D \cup {None}]
      /\ \A q \in D : h.pages[loc[q]] = DescOf(q, cont[q], Bucket(loc, prv[q]), Bucket(loc, nxt[q]))
      /\ \A b \in 0..(cap - 1) : (\A q \in D : loc[q] # b) => h.pages[b] = EmptyBucket
  BY NoneIsNoPage DEF IsTable
<1>2. \A q \in D : loc[q] # None /\ loc[q] \in Int  BY <1>1 DEF None
<1>3. /\ \A q \in D \cup {None} : Bucket(loc, q) \in Int /\ (Bucket(loc, q) = None <=> q = None)
      /\ \A q, r \in D \cup {None} : Bucket(loc, q) = Bucket(loc, r) => q = r
  BY <1>1, <1>2 DEF Bucket
<1>4. /\ head \in [Classes -> D \cup {None}]
      /\ \A q \in D : nxt[q] # None => prv[nxt[q]] = q /\ nxt[q] # q
      /\ \A q \in D : prv[q] # None => nxt[prv[q]] = q /\ prv[q] # q
      /\ \A c \in Classes : head[c] # None => cont[head[c]].cls = c /\ prv[head[c]] = None
  BY DEF Linked
<1>5. h.warm = [c \in Classes |-> Bucket(loc, head[c])]  BY DEF HeadsAt
<1> QED  BY <1>1, <1>2, <1>3, <1>4, <1>5

\* The links once page p, in no list, is at the head of the list of class c.
PrvPushed(prv, head, c, p) == [q \in DOMAIN prv |-> IF q = head[c] THEN p ELSE prv[q]]
NxtPushed(nxt, head, c, p) == [nxt EXCEPT ![p] = head[c]]

\* A push makes the page the head of its list.
LEMMA PushKeeps ==
  ASSUME NEW h, NEW cap, NEW D, NEW loc, NEW cont, NEW prv, NEW nxt, NEW head,
         Holds(h, cap, D, loc, cont, prv, nxt, head),
         NEW p \in D, prv[p] = None, nxt[p] = None, head[cont[p].cls] # p
  PROVE  LET g == heap_warm_push(h, loc[p])
             c == cont[p].cls
         IN  /\ Holds(g, cap, D, loc, cont, PrvPushed(prv, head, c, p), NxtPushed(nxt, head, c, p),
                      [head EXCEPT ![c] = p])
             /\ SameRest(g, h) /\ g.count = h.count
<1>0. /\ IsHeap(h) /\ cap \in Nat /\ D \subseteq Pages /\ None \notin D /\ None \in Int
      /\ h.pages \in [0..(cap - 1) -> Descriptor]
      /\ loc \in [D -> 0..(cap - 1)] /\ \A q, r \in D : loc[q] = loc[r] => q = r
      /\ \A q \in D : loc[q] # None /\ loc[q] \in Int
      /\ cont \in [D -> Content]
      /\ prv \in [D -> D \cup {None}] /\ nxt \in [D -> D \cup {None}]
      /\ \A q \in D : h.pages[loc[q]] = DescOf(q, cont[q], Bucket(loc, prv[q]), Bucket(loc, nxt[q]))
      /\ \A b \in 0..(cap - 1) : (\A q \in D : loc[q] # b) => h.pages[b] = EmptyBucket
      /\ \A q \in D \cup {None} : Bucket(loc, q) \in Int /\ (Bucket(loc, q) = None <=> q = None)
      /\ \A q, r \in D \cup {None} : Bucket(loc, q) = Bucket(loc, r) => q = r
      /\ head \in [Classes -> D \cup {None}]
      /\ \A q \in D : nxt[q] # None => prv[nxt[q]] = q /\ nxt[q] # q
      /\ \A q \in D : prv[q] # None => nxt[prv[q]] = q /\ prv[q] # q
      /\ \A c \in Classes : head[c] # None => cont[head[c]].cls = c /\ prv[head[c]] = None
      /\ h.warm = [c \in Classes |-> Bucket(loc, head[c])]
  BY HoldsFacts
<1>a. /\ IsHeap(h) /\ cap \in Nat /\ None \notin D /\ None \in Int /\ D \subseteq Pages
      /\ h.pages \in [0..(cap - 1) -> Descriptor]
  BY <1>0
<1>b. /\ loc \in [D -> 0..(cap - 1)] /\ \A q, r \in D : loc[q] = loc[r] => q = r
      /\ \A q \in D : loc[q] # None /\ loc[q] \in Int
  BY <1>0
<1>c. /\ cont \in [D -> Content] /\ head \in [Classes -> D \cup {None}]
      /\ prv \in [D -> D \cup {None}] /\ nxt \in [D -> D \cup {None}]
  BY <1>0
<1>d. \A q \in D : h.pages[loc[q]] = DescOf(q, cont[q], Bucket(loc, prv[q]), Bucket(loc, nxt[q]))
  BY <1>0
<1>e. \A b \in 0..(cap - 1) : (\A q \in D : loc[q] # b) => h.pages[b] = EmptyBucket
  BY <1>0
<1>f. /\ \A q \in D \cup {None} : Bucket(loc, q) \in Int /\ (Bucket(loc, q) = None <=> q = None)
      /\ \A q, r \in D \cup {None} : Bucket(loc, q) = Bucket(loc, r) => q = r
  BY <1>0
<1>g. /\ \A q \in D : nxt[q] # None => prv[nxt[q]] = q /\ nxt[q] # q
      /\ \A q \in D : prv[q] # None => nxt[prv[q]] = q /\ prv[q] # q
      /\ \A c \in Classes : head[c] # None => cont[head[c]].cls = c /\ prv[head[c]] = None
  BY <1>0
<1>w. h.warm = [c \in Classes |-> Bucket(loc, head[c])]
  BY <1>0
<1> DEFINE i == loc[p]
           d == h.pages[i]
           c == cont[p].cls
           hd == h.warm[c]
           p1 == [h.pages EXCEPT ![i].prev = None, ![i].next = hd]
           p2 == IF hd = None THEN p1 ELSE [p1 EXCEPT ![hd].prev = i]
           w2 == [h.warm EXCEPT ![c] = i]
           pr == PrvPushed(prv, head, c, p)
           nx == NxtPushed(nxt, head, c, p)
           h2 == [head EXCEPT ![c] = p]
           g == heap_warm_push(h, i)
<1>1. d = DescOf(p, cont[p], None, None) /\ i \in 0..(cap - 1)  BY <1>b, <1>d DEF Bucket
<1>2. d.cls = c /\ c \in Classes /\ i \in 0..(cap - 1) /\ hd = Bucket(loc, head[c]) /\ hd \in Int
  <2>1. d.cls = c  BY <1>1 DEF DescOf
  <2>2. c \in Classes  BY <1>c DEF Content
  <2>3. hd = Bucket(loc, head[c]) /\ head[c] \in D \cup {None}  BY <2>2, <1>c, <1>w
  <2> QED  BY <2>1, <2>2, <2>3, <1>1, <1>f
<1>3. g = [h EXCEPT !.pages = p2, !.warm = w2]
  BY <1>2, <1>a DEF heap_warm_push, IsHeap
<1>4. IsHeap(g) /\ g.pages = p2 /\ g.warm = w2 /\ SameRest(g, h) /\ g.count = h.count
  BY <1>3, <1>a, <1>b, <1>c, <1>d, <1>e, <1>f, <1>g, <1>w, ZenonT(60) DEF IsHeap, SameRest
<1>5. /\ pr \in [D -> D \cup {None}] /\ nx \in [D -> D \cup {None}] /\ h2 \in [Classes -> D \cup {None}]
      /\ \A q \in D : pr[q] = IF q = head[c] THEN p ELSE prv[q]
      /\ \A q \in D : nx[q] = IF q = p THEN head[c] ELSE nxt[q]
      /\ \A e \in Classes : h2[e] = IF e = c THEN p ELSE head[e]
  BY <1>a, <1>b, <1>c, <1>d, <1>e, <1>f, <1>g, <1>w, <1>2 DEF PrvPushed, NxtPushed
<1> HIDE DEF pr, nx, h2, g
<1>6. Linked(D, cont, pr, nx, h2)
  <2>1. \A q \in D : nxt[q] # p  BY <1>a, <1>b, <1>c, <1>d, <1>e, <1>f, <1>g, <1>w
  <2>2. \A q \in D : prv[q] # p  BY <1>a, <1>b, <1>c, <1>d, <1>e, <1>f, <1>g, <1>w
  <2>3. \A q \in D : nxt[q] # None => nxt[q] # head[c]
    BY <1>a, <1>b, <1>c, <1>d, <1>e, <1>f, <1>g, <1>w, <1>2
  <2>4. ASSUME NEW q \in D, nx[q] # None PROVE pr[nx[q]] = q /\ nx[q] # q
    <3>1. CASE q = p  BY <3>1, <2>4, <1>a, <1>b, <1>c, <1>d, <1>e, <1>f, <1>g, <1>w, <1>2, <1>5
    <3>2. CASE q # p  BY <3>2, <2>3, <2>4, <1>a, <1>b, <1>c, <1>d, <1>e, <1>f, <1>g, <1>w, <1>5
    <3> QED  BY <3>1, <3>2
  <2>5. ASSUME NEW q \in D, pr[q] # None PROVE nx[pr[q]] = q /\ pr[q] # q
    <3>1. CASE q = head[c]  BY <3>1, <1>a, <1>b, <1>c, <1>d, <1>e, <1>f, <1>g, <1>w, <1>5
    <3>2. CASE q # head[c]  BY <3>2, <2>2, <2>5, <1>a, <1>b, <1>c, <1>d, <1>e, <1>f, <1>g, <1>w, <1>5
    <3> QED  BY <3>1, <3>2
  <2>6. ASSUME NEW e \in Classes, h2[e] # None PROVE cont[h2[e]].cls = e /\ pr[h2[e]] = None
    <3>1. CASE e = c  BY <3>1, <1>a, <1>b, <1>c, <1>d, <1>e, <1>f, <1>g, <1>w, <1>5
    <3>2. CASE e # c
      <4>1. h2[e] = head[e] /\ head[e] \in D  BY <3>2, <2>6, <1>c, <1>5
      <4>2. cont[head[e]].cls = e /\ prv[head[e]] = None  BY <4>1, <1>a, <1>g
      <4>3. head[e] # head[c]
        <5> SUFFICES ASSUME head[e] = head[c] PROVE FALSE  OBVIOUS
        <5>1. cont[head[c]].cls = c  BY <4>1, <1>a, <1>2, <1>g
        <5> QED  BY <5>1, <4>2, <3>2
      <4> QED  BY <4>1, <4>2, <4>3, <1>5
    <3> QED  BY <3>1, <3>2
  <2> QED  BY <1>5, <2>4, <2>5, <2>6 DEF Linked
<1>7. p1 \in [0..(cap - 1) -> Descriptor]
      /\ \A b \in 0..(cap - 1) : p1[b] = IF b = i THEN [d EXCEPT !.prev = None, !.next = hd] ELSE h.pages[b]
  BY <1>a, <1>2, ZenonT(60) DEF Descriptor
<1> HIDE DEF d, hd
<1>8. p2 \in [0..(cap - 1) -> Descriptor]
      /\ \A b \in 0..(cap - 1) : p2[b] = IF hd # None /\ b = hd THEN [p1[b] EXCEPT !.prev = i] ELSE p1[b]
  <2> HIDE DEF p1
  <2>1. i \in Int  BY <1>a, <1>b, <1>c, <1>d, <1>e, <1>f, <1>g, <1>w
  <2> HIDE DEF i
  <2> QED  BY <1>7, <2>1, ZenonT(60) DEF Descriptor
<1> HIDE DEF p1, p2
<1>9. ASSUME NEW q \in D
      PROVE  p2[loc[q]] = DescOf(q, cont[q], Bucket(loc, pr[q]), Bucket(loc, nx[q]))
  <2> DEFINE b == loc[q]
  <2>1. b \in 0..(cap - 1)  BY <1>a, <1>b, <1>c, <1>d, <1>e, <1>f, <1>g, <1>w
  <2>2. p1[b] = DescOf(q, cont[q], Bucket(loc, prv[q]), Bucket(loc, nx[q]))
    <3>1. CASE q = p
      <4>1. Bucket(loc, prv[q]) = None  BY <3>1 DEF Bucket
      <4>2. p1[b] = [d EXCEPT !.prev = None, !.next = hd]  BY <3>1, <2>1, <1>7
      <4>3. p1[b] = DescOf(p, cont[p], None, hd)
        <5>1. d = DescOf(p, cont[p], None, None)  BY <1>1
        <5> QED  BY <4>2, <5>1 DEF DescOf
      <4> QED  BY <3>1, <4>1, <4>3, <1>2, <1>5
    <3>2. CASE q # p
      <4>1. b # i /\ nx[q] = nxt[q]  BY <3>2, <1>a, <1>b, <1>c, <1>d, <1>e, <1>f, <1>g, <1>w, <1>5
      <4> QED  BY <4>1, <2>1, <1>a, <1>b, <1>c, <1>d, <1>e, <1>f, <1>g, <1>w, <1>7
    <3> QED  BY <3>1, <3>2
  <2>3. hd # None /\ b = hd <=> q = head[c]
    <3>1. hd = Bucket(loc, head[c]) /\ b = Bucket(loc, q) /\ b # None
      BY <1>a, <1>b, <1>c, <1>d, <1>e, <1>f, <1>g, <1>w, <1>2 DEF Bucket
    <3>2. head[c] \in D \cup {None}  BY <1>a, <1>b, <1>c, <1>d, <1>e, <1>f, <1>g, <1>w, <1>2
    <3> HIDE DEF b
    <3> QED  BY <3>1, <3>2, <1>a, <1>b, <1>c, <1>d, <1>e, <1>f, <1>g, <1>w
  <2>4. Bucket(loc, pr[q]) = IF q = head[c] THEN i ELSE Bucket(loc, prv[q])
    BY <1>a, <1>b, <1>c, <1>d, <1>e, <1>f, <1>g, <1>w, <1>5 DEF Bucket
  <2> HIDE DEF b, i
  <2>5. p2[b] = IF q = head[c] THEN [p1[b] EXCEPT !.prev = i] ELSE p1[b]  BY <2>1, <2>3, <1>8
  <2>6. p2[b] = DescOf(q, cont[q], IF q = head[c] THEN i ELSE Bucket(loc, prv[q]), Bucket(loc, nx[q]))
    BY <2>2, <2>5 DEF DescOf
  <2> QED  BY <2>4, <2>6 DEF b
<1>10. ASSUME NEW b \in 0..(cap - 1), \A q \in D : loc[q] # b
       PROVE  p2[b] = EmptyBucket
  <2>1. b # i /\ p1[b] = h.pages[b]  BY <1>10, <1>7
  <2>2. ~(hd # None /\ b = hd)
    <3>1. head[c] \in D \cup {None}  BY <1>a, <1>b, <1>c, <1>d, <1>e, <1>f, <1>g, <1>w, <1>2
    <3> QED  BY <3>1, <1>2, <1>10 DEF Bucket
  <2> QED  BY <2>1, <2>2, <1>a, <1>b, <1>c, <1>d, <1>e, <1>f, <1>g, <1>w, <1>8, <1>10
<1>11. IsTable(p2, cap, D, loc, cont, pr, nx)
  BY <1>a, <1>b, <1>c, <1>d, <1>e, <1>f, <1>g, <1>w, <1>5, <1>8, <1>9, <1>10 DEF IsTable
<1>12. HeadsAt(w2, loc, h2)
  <2>1. h2[c] = p /\ Bucket(loc, p) = i
    BY <1>a, <1>b, <1>c, <1>d, <1>e, <1>f, <1>g, <1>w, <1>2, <1>5 DEF Bucket
  <2> HIDE DEF i
  <2>2. \A e \in Classes : w2[e] = Bucket(loc, h2[e])
    BY <1>a, <1>b, <1>c, <1>d, <1>e, <1>f, <1>g, <1>w, <1>2, <1>5, <2>1
  <2>3. w2 = [e \in Classes |-> w2[e]]  BY <1>a, <1>b, <1>c, <1>d, <1>e, <1>f, <1>g, <1>w
  <2> QED  BY <2>2, <2>3 DEF HeadsAt
<1>13. Holds(g, cap, D, loc, cont, pr, nx, h2)
  BY <1>4, <1>6, <1>11, <1>12 DEF Holds
<1> QED  BY <1>4, <1>13 DEF g, pr, nx, h2

\* The links once page p of class c is in no list.
PrvUnlinked(prv, nxt, p) == [q \in DOMAIN prv |-> IF q = p THEN None ELSE IF q = nxt[p] THEN prv[p] ELSE prv[q]]
HeadUnlinked(head, prv, nxt, c, p) == [head EXCEPT ![c] = IF prv[p] = None THEN nxt[p] ELSE @]

\* An unlink takes the page out of its list: a page without a predecessor heads
\* its list.
LEMMA UnlinkKeeps ==
  ASSUME NEW h, NEW cap, NEW D, NEW loc, NEW cont, NEW prv, NEW nxt, NEW head,
         Holds(h, cap, D, loc, cont, prv, nxt, head),
         NEW p \in D, prv[p] = None => head[cont[p].cls] = p,
         nxt[p] # None => cont[nxt[p]].cls = cont[p].cls /\ nxt[p] # prv[p]
  PROVE  LET g == heap_warm_unlink(h, loc[p])
         IN  /\ Holds(g, cap, D, loc, cont, PrvUnlinked(prv, nxt, p), PrvUnlinked(nxt, prv, p),
                      HeadUnlinked(head, prv, nxt, cont[p].cls, p))
             /\ SameRest(g, h) /\ g.count = h.count
<1>0. /\ IsHeap(h) /\ cap \in Nat /\ D \subseteq Pages /\ None \notin D /\ None \in Int
      /\ h.pages \in [0..(cap - 1) -> Descriptor]
      /\ loc \in [D -> 0..(cap - 1)] /\ \A q, r \in D : loc[q] = loc[r] => q = r
      /\ \A q \in D : loc[q] # None /\ loc[q] \in Int
      /\ cont \in [D -> Content]
      /\ prv \in [D -> D \cup {None}] /\ nxt \in [D -> D \cup {None}]
      /\ \A q \in D : h.pages[loc[q]] = DescOf(q, cont[q], Bucket(loc, prv[q]), Bucket(loc, nxt[q]))
      /\ \A b \in 0..(cap - 1) : (\A q \in D : loc[q] # b) => h.pages[b] = EmptyBucket
      /\ \A q \in D \cup {None} : Bucket(loc, q) \in Int /\ (Bucket(loc, q) = None <=> q = None)
      /\ \A q, r \in D \cup {None} : Bucket(loc, q) = Bucket(loc, r) => q = r
      /\ head \in [Classes -> D \cup {None}]
      /\ \A q \in D : nxt[q] # None => prv[nxt[q]] = q /\ nxt[q] # q
      /\ \A q \in D : prv[q] # None => nxt[prv[q]] = q /\ prv[q] # q
      /\ \A c \in Classes : head[c] # None => cont[head[c]].cls = c /\ prv[head[c]] = None
      /\ h.warm = [c \in Classes |-> Bucket(loc, head[c])]
  BY HoldsFacts
<1>a. /\ IsHeap(h) /\ cap \in Nat /\ None \notin D /\ None \in Int /\ D \subseteq Pages
      /\ h.pages \in [0..(cap - 1) -> Descriptor]
  BY <1>0
<1>b. /\ loc \in [D -> 0..(cap - 1)] /\ \A q, r \in D : loc[q] = loc[r] => q = r
      /\ \A q \in D : loc[q] # None /\ loc[q] \in Int
  BY <1>0
<1>c. /\ cont \in [D -> Content] /\ head \in [Classes -> D \cup {None}]
      /\ prv \in [D -> D \cup {None}] /\ nxt \in [D -> D \cup {None}]
  BY <1>0
<1>d. \A q \in D : h.pages[loc[q]] = DescOf(q, cont[q], Bucket(loc, prv[q]), Bucket(loc, nxt[q]))
  BY <1>0
<1>e. \A b \in 0..(cap - 1) : (\A q \in D : loc[q] # b) => h.pages[b] = EmptyBucket
  BY <1>0
<1>f. /\ \A q \in D \cup {None} : Bucket(loc, q) \in Int /\ (Bucket(loc, q) = None <=> q = None)
      /\ \A q, r \in D \cup {None} : Bucket(loc, q) = Bucket(loc, r) => q = r
  BY <1>0
<1>g. /\ \A q \in D : nxt[q] # None => prv[nxt[q]] = q /\ nxt[q] # q
      /\ \A q \in D : prv[q] # None => nxt[prv[q]] = q /\ prv[q] # q
      /\ \A c \in Classes : head[c] # None => cont[head[c]].cls = c /\ prv[head[c]] = None
  BY <1>0
<1>w. h.warm = [c \in Classes |-> Bucket(loc, head[c])]
  BY <1>0
<1> DEFINE i == loc[p]
           d == h.pages[i]
           c == cont[p].cls
           p1 == IF d.prev = None THEN h.pages ELSE [h.pages EXCEPT ![d.prev].next = d.next]
           p2 == IF d.next = None THEN p1 ELSE [p1 EXCEPT ![d.next].prev = d.prev]
           p3 == [p2 EXCEPT ![i].prev = None, ![i].next = None]
           w2 == [h.warm EXCEPT ![d.cls] = IF d.prev = None THEN d.next ELSE @]
           pr == PrvUnlinked(prv, nxt, p)
           nx == PrvUnlinked(nxt, prv, p)
           h2 == HeadUnlinked(head, prv, nxt, c, p)
           g == heap_warm_unlink(h, i)
<1>2. /\ d.cls = c /\ c \in Classes /\ i \in 0..(cap - 1)
      /\ d.prev = Bucket(loc, prv[p]) /\ d.next = Bucket(loc, nxt[p])
      /\ prv[p] \in D \cup {None} /\ nxt[p] \in D \cup {None}
  <2>1. d = DescOf(p, cont[p], Bucket(loc, prv[p]), Bucket(loc, nxt[p])) /\ i \in 0..(cap - 1)
    BY <1>b, <1>d
  <2>2. c \in Classes /\ prv[p] \in D \cup {None} /\ nxt[p] \in D \cup {None}  BY <1>c DEF Content
  <2> QED  BY <2>1, <2>2 DEF DescOf
<1>3. g = [h EXCEPT !.pages = p3, !.warm = w2]
  BY <1>2, <1>a DEF heap_warm_unlink, IsHeap
<1>4. IsHeap(g) /\ g.pages = p3 /\ g.warm = w2 /\ SameRest(g, h) /\ g.count = h.count
  BY <1>3, <1>a, <1>b, <1>c, <1>d, <1>e, <1>f, <1>g, <1>w, ZenonT(60) DEF IsHeap, SameRest
<1>5. /\ pr \in [D -> D \cup {None}] /\ nx \in [D -> D \cup {None}] /\ h2 \in [Classes -> D \cup {None}]
      /\ \A q \in D : pr[q] = IF q = p THEN None ELSE IF q = nxt[p] THEN prv[p] ELSE prv[q]
      /\ \A q \in D : nx[q] = IF q = p THEN None ELSE IF q = prv[p] THEN nxt[p] ELSE nxt[q]
      /\ \A e \in Classes : h2[e] = IF e = c /\ prv[p] = None THEN nxt[p] ELSE head[e]
  BY <1>a, <1>b, <1>c, <1>d, <1>e, <1>f, <1>g, <1>w, <1>2 DEF PrvUnlinked, HeadUnlinked
<1> HIDE DEF pr, nx, h2, g
<1>6. Linked(D, cont, pr, nx, h2)
  <2>1. \A q \in D : nxt[q] = p => prv[p] = q  BY <1>a, <1>b, <1>c, <1>d, <1>e, <1>f, <1>g, <1>w
  <2>2. \A q \in D : prv[q] = p => nxt[p] = q  BY <1>a, <1>b, <1>c, <1>d, <1>e, <1>f, <1>g, <1>w
  <2>3. \A q, r \in D : nxt[q] # None /\ nxt[q] = nxt[r] => q = r
    BY <1>a, <1>b, <1>c, <1>d, <1>e, <1>f, <1>g, <1>w
  <2>4. \A q, r \in D : prv[q] # None /\ prv[q] = prv[r] => q = r
    BY <1>a, <1>b, <1>c, <1>d, <1>e, <1>f, <1>g, <1>w
  <2>5. prv[p] # None /\ nxt[p] # None => prv[p] # nxt[p] \/ nxt[nxt[p]] = p
    BY <1>a, <1>b, <1>c, <1>d, <1>e, <1>f, <1>g, <1>w, <1>2
  <2>6. ASSUME NEW q \in D, nx[q] # None PROVE pr[nx[q]] = q /\ nx[q] # q
    <3>1. q # p  BY <2>6, <1>5
    <3>2. CASE q = prv[p]
      <4>1. nx[q] = nxt[p] /\ nxt[p] # None /\ nxt[p] \in D /\ nxt[p] # p
        BY <2>6, <3>1, <3>2, <1>a, <1>b, <1>c, <1>d, <1>e, <1>f, <1>g, <1>w, <1>2, <1>5
      <4>2. pr[nxt[p]] = prv[p]  BY <4>1, <1>5
      <4>4. nxt[p] # q  BY <3>2, <4>1, <1>2
      <4> QED  BY <4>1, <4>2, <4>4, <3>2
    <3>3. CASE q # prv[p]
      <4>1. nx[q] = nxt[q] /\ nxt[q] \in D /\ nxt[q] # p
        BY <2>1, <2>6, <3>1, <3>3, <1>a, <1>b, <1>c, <1>d, <1>e, <1>f, <1>g, <1>w, <1>5
      <4>2. nxt[q] # nxt[p]  BY <2>3, <3>1, <4>1, <1>a, <1>b, <1>c, <1>d, <1>e, <1>f, <1>g, <1>w
      <4> QED  BY <4>1, <4>2, <1>a, <1>b, <1>c, <1>d, <1>e, <1>f, <1>g, <1>w, <1>5
    <3> QED  BY <3>2, <3>3
  <2>7. ASSUME NEW q \in D, pr[q] # None PROVE nx[pr[q]] = q /\ pr[q] # q
    <3>1. q # p  BY <2>7, <1>5
    <3>2. CASE q = nxt[p]
      <4>1. pr[q] = prv[p] /\ prv[p] # None /\ prv[p] \in D /\ prv[p] # p
        BY <2>7, <3>1, <3>2, <1>a, <1>b, <1>c, <1>d, <1>e, <1>f, <1>g, <1>w, <1>2, <1>5
      <4>2. nx[prv[p]] = nxt[p]  BY <4>1, <1>5
      <4>4. prv[p] # q  BY <3>2, <4>1, <1>2
      <4> QED  BY <4>1, <4>2, <4>4, <3>2
    <3>3. CASE q # nxt[p]
      <4>1. pr[q] = prv[q] /\ prv[q] \in D /\ prv[q] # p
        BY <2>2, <2>7, <3>1, <3>3, <1>a, <1>b, <1>c, <1>d, <1>e, <1>f, <1>g, <1>w, <1>5
      <4>2. prv[q] # prv[p]  BY <2>4, <3>1, <4>1, <1>a, <1>b, <1>c, <1>d, <1>e, <1>f, <1>g, <1>w
      <4> QED  BY <4>1, <4>2, <1>a, <1>b, <1>c, <1>d, <1>e, <1>f, <1>g, <1>w, <1>5
    <3> QED  BY <3>2, <3>3
  <2>8. ASSUME NEW e \in Classes, h2[e] # None PROVE cont[h2[e]].cls = e /\ pr[h2[e]] = None
    <3>1. CASE e = c /\ prv[p] = None
      <4>1. h2[e] = nxt[p] /\ nxt[p] \in D /\ nxt[p] # p
        BY <3>1, <2>8, <1>a, <1>b, <1>c, <1>d, <1>e, <1>f, <1>g, <1>w, <1>2, <1>5
      <4>2. pr[nxt[p]] = prv[p] /\ cont[nxt[p]].cls = c
        BY <4>1, <1>a, <1>b, <1>c, <1>d, <1>e, <1>f, <1>g, <1>w, <1>5
      <4> QED  BY <3>1, <4>1, <4>2
    <3>2. CASE ~(e = c /\ prv[p] = None)
      <4>1. h2[e] = head[e] /\ head[e] \in D /\ cont[head[e]].cls = e /\ prv[head[e]] = None
        BY <3>2, <2>8, <1>a, <1>b, <1>c, <1>d, <1>e, <1>f, <1>g, <1>w, <1>5
      <4>2. head[e] # nxt[p]
        <5> SUFFICES ASSUME head[e] = nxt[p] PROVE FALSE  OBVIOUS
        <5>1. prv[nxt[p]] = p /\ prv[nxt[p]] = None
          BY <4>1, <1>a, <1>b, <1>c, <1>d, <1>e, <1>f, <1>g, <1>w
        <5> QED  BY <5>1, <1>a, <1>b, <1>c, <1>d, <1>e, <1>f, <1>g, <1>w
      <4> QED  BY <4>1, <4>2, <1>5
    <3> QED  BY <3>1, <3>2
  <2> QED  BY <1>5, <2>6, <2>7, <2>8 DEF Linked
<1>7. d.prev \in Int /\ d.next \in Int /\ d \in Descriptor
  BY <1>a, <1>b, <1>c, <1>d, <1>e, <1>f, <1>g, <1>w, <1>2
<1> HIDE DEF d
<1>8. p1 \in [0..(cap - 1) -> Descriptor]
      /\ \A b \in 0..(cap - 1) : p1[b] = IF d.prev # None /\ b = d.prev THEN [h.pages[b] EXCEPT !.next = d.next] ELSE h.pages[b]
  BY <1>a, <1>7 DEF Descriptor
<1> HIDE DEF p1
<1>9. p2 \in [0..(cap - 1) -> Descriptor]
      /\ \A b \in 0..(cap - 1) : p2[b] = IF d.next # None /\ b = d.next THEN [p1[b] EXCEPT !.prev = d.prev] ELSE p1[b]
  BY <1>7, <1>8 DEF Descriptor
<1> HIDE DEF p2
<1>10. p3 \in [0..(cap - 1) -> Descriptor]
       /\ \A b \in 0..(cap - 1) : p3[b] = IF b = i THEN [p2[b] EXCEPT !.prev = None, !.next = None] ELSE p2[b]
  <2>1. p2 \in [0..(cap - 1) -> Descriptor]  BY <1>9
  <2>2. i \in 0..(cap - 1) /\ None \in Int  BY <1>2, <1>a
  <2> HIDE DEF i
  <2> QED  BY <2>1, <2>2 DEF Descriptor
<1> HIDE DEF p3
<1>11. ASSUME NEW q \in D
       PROVE  p3[loc[q]] = DescOf(q, cont[q], Bucket(loc, pr[q]), Bucket(loc, nx[q]))
  <2> DEFINE b == loc[q]
  <2>1. b \in 0..(cap - 1) /\ b = Bucket(loc, q) /\ b # None /\ (b = i <=> q = p)
    BY <1>a, <1>b, <1>c, <1>d, <1>e, <1>f, <1>g, <1>w DEF Bucket
  <2>2. h.pages[b] = DescOf(q, cont[q], Bucket(loc, prv[q]), Bucket(loc, nxt[q]))
    BY <1>a, <1>b, <1>c, <1>d, <1>e, <1>f, <1>g, <1>w
  <2> HIDE DEF b
  <2>3. d.prev # None /\ b = d.prev <=> q = prv[p]
    BY <2>1, <1>a, <1>b, <1>c, <1>d, <1>e, <1>f, <1>g, <1>w, <1>2
  <2>4. d.next # None /\ b = d.next <=> q = nxt[p]
    BY <2>1, <1>a, <1>b, <1>c, <1>d, <1>e, <1>f, <1>g, <1>w, <1>2
  <2>5. p1[b] = DescOf(q, cont[q], Bucket(loc, prv[q]), IF q = prv[p] THEN d.next ELSE Bucket(loc, nxt[q]))
    <3>1. p1[b] = IF q = prv[p] THEN [h.pages[b] EXCEPT !.next = d.next] ELSE h.pages[b]
      BY <2>1, <2>3, <1>8
    <3> QED  BY <2>2, <3>1 DEF DescOf
  <2>6. p2[b] = DescOf(q, cont[q], IF q = nxt[p] THEN d.prev ELSE Bucket(loc, prv[q]),
                       IF q = prv[p] THEN d.next ELSE Bucket(loc, nxt[q]))
    <3>1. p2[b] = IF q = nxt[p] THEN [p1[b] EXCEPT !.prev = d.prev] ELSE p1[b]  BY <2>1, <2>4, <1>9
    <3> QED  BY <2>5, <3>1 DEF DescOf
  <2>7. p3[b] = DescOf(q, cont[q],
                       IF q = p THEN None ELSE IF q = nxt[p] THEN d.prev ELSE Bucket(loc, prv[q]),
                       IF q = p THEN None ELSE IF q = prv[p] THEN d.next ELSE Bucket(loc, nxt[q]))
    <3>1. p3[b] = IF q = p THEN [p2[b] EXCEPT !.prev = None, !.next = None] ELSE p2[b]  BY <2>1, <1>10
    <3>2. CASE q = p
      <4> DEFINE u == IF q = nxt[p] THEN d.prev ELSE Bucket(loc, prv[q])
                 v == IF q = prv[p] THEN d.next ELSE Bucket(loc, nxt[q])
      <4>1. p2[b] = DescOf(q, cont[q], u, v)  BY <2>6
      <4> HIDE DEF u, v
      <4>2. p3[b] = [p2[b] EXCEPT !.prev = None, !.next = None]  BY <3>1, <3>2
      <4>3. p3[b] = DescOf(q, cont[q], None, None)  
        <5> DEFINE a == [p2[b] EXCEPT !.prev = None]
        <5>1. a = DescOf(q, cont[q], None, v)  BY <4>1 DEF DescOf
        <5>2. p3[b] = [a EXCEPT !.next = None]  BY <4>2
        <5> HIDE DEF a
        <5> QED  BY <5>1, <5>2 DEF DescOf
      <4> QED  BY <3>2, <4>3
    <3>3. CASE q # p  BY <2>6, <3>1, <3>3
    <3> QED  BY <3>2, <3>3
  <2>8. /\ Bucket(loc, pr[q]) = IF q = p THEN None ELSE IF q = nxt[p] THEN d.prev ELSE Bucket(loc, prv[q])
        /\ Bucket(loc, nx[q]) = IF q = p THEN None ELSE IF q = prv[p] THEN d.next ELSE Bucket(loc, nxt[q])
    <3>1. Bucket(loc, None) = None  BY DEF Bucket
    <3> QED  BY <3>1, <1>2, <1>5
  <2> QED  BY <2>7, <2>8 DEF b
<1>12. ASSUME NEW b \in 0..(cap - 1), \A q \in D : loc[q] # b
       PROVE  p3[b] = EmptyBucket
  <2>1. b # i  BY <1>12
  <2>2. ~(d.prev # None /\ b = d.prev)  BY <1>2, <1>12 DEF Bucket
  <2>3. ~(d.next # None /\ b = d.next)  BY <1>2, <1>12 DEF Bucket
  <2> HIDE DEF i
  <2> QED  BY <2>1, <2>2, <2>3, <1>e, <1>8, <1>9, <1>10, <1>12, ZenonT(60)
<1>13. IsTable(p3, cap, D, loc, cont, pr, nx)
  BY <1>a, <1>b, <1>c, <1>d, <1>e, <1>f, <1>g, <1>w, <1>5, <1>10, <1>11, <1>12 DEF IsTable
<1>14. HeadsAt(w2, loc, h2)
  <2>1. d.prev = None <=> prv[p] = None  BY <1>a, <1>b, <1>c, <1>d, <1>e, <1>f, <1>g, <1>w, <1>2
  <2>2. \A e \in Classes : w2[e] = Bucket(loc, h2[e])
    BY <1>a, <1>b, <1>c, <1>d, <1>e, <1>f, <1>g, <1>w, <1>2, <1>5, <2>1
  <2>3. w2 = [e \in Classes |-> w2[e]]  BY <1>a, <1>b, <1>c, <1>d, <1>e, <1>f, <1>g, <1>w
  <2> QED  BY <2>2, <2>3 DEF HeadsAt
<1>15. Holds(g, cap, D, loc, cont, pr, nx, h2)
  BY <1>4, <1>6, <1>13, <1>14 DEF Holds
<1> QED  BY <1>4, <1>15 DEF g, pr, nx, h2

------------------------------------------------------------------------------
\* Pages come and go.

Minus(f, p) == [q \in DOMAIN f \ {p} |-> f[q]]
Plus(f, p, v) == [q \in DOMAIN f \cup {p} |-> IF q = p THEN v ELSE f[q]]

\* A page in no list leaves the table with its bucket emptied.
LEMMA ClearKeeps ==
  ASSUME NEW h, NEW g, NEW cap, NEW D, NEW loc, NEW cont, NEW prv, NEW nxt, NEW head,
         Holds(h, cap, D, loc, cont, prv, nxt, head),
         NEW p \in D, prv[p] = None, nxt[p] = None, \A c \in Classes : head[c] # p,
         IsHeap(g), g.warm = h.warm, g.pages = [h.pages EXCEPT ![loc[p]] = EmptyBucket]
  PROVE  Holds(g, cap, D \ {p}, Minus(loc, p), Minus(cont, p), Minus(prv, p), Minus(nxt, p), head)
<1>1. /\ IsHeap(h) /\ cap \in Nat /\ None \notin D /\ None \in Int /\ D \subseteq Pages
      /\ h.pages \in [0..(cap - 1) -> Descriptor]
      /\ loc \in [D -> 0..(cap - 1)] /\ \A q, r \in D : loc[q] = loc[r] => q = r
  BY NoneIsNoPage DEF Holds, IsTable
<1>2. /\ cont \in [D -> Content] /\ prv \in [D -> D \cup {None}] /\ nxt \in [D -> D \cup {None}]
      /\ head \in [Classes -> D \cup {None}]
  BY DEF Holds, IsTable, Linked
<1>3. /\ \A q \in D : h.pages[loc[q]] = DescOf(q, cont[q], Bucket(loc, prv[q]), Bucket(loc, nxt[q]))
      /\ \A b \in 0..(cap - 1) : (\A q \in D : loc[q] # b) => h.pages[b] = EmptyBucket
  BY DEF Holds, IsTable
<1>4. /\ \A q \in D : nxt[q] # None => prv[nxt[q]] = q /\ nxt[q] # q
      /\ \A q \in D : prv[q] # None => nxt[prv[q]] = q /\ prv[q] # q
      /\ \A c \in Classes : head[c] # None => cont[head[c]].cls = c /\ prv[head[c]] = None
  BY DEF Holds, Linked
<1>5. h.warm = [c \in Classes |-> Bucket(loc, head[c])]  BY DEF Holds, HeadsAt
<1> DEFINE i == loc[p]
           p2 == g.pages
           E == D \ {p}
           l2 == Minus(loc, p)
           c2 == Minus(cont, p)
           pr == Minus(prv, p)
           nx == Minus(nxt, p)
<1>6. p2 = [h.pages EXCEPT ![i] = EmptyBucket]  OBVIOUS
<1>7. /\ \A q \in D : nxt[q] # p /\ prv[q] # p
      /\ l2 \in [E -> 0..(cap - 1)] /\ c2 \in [E -> Content]
      /\ pr \in [E -> E \cup {None}] /\ nx \in [E -> E \cup {None}] /\ head \in [Classes -> E \cup {None}]
      /\ \A q \in E : l2[q] = loc[q] /\ c2[q] = cont[q] /\ pr[q] = prv[q] /\ nx[q] = nxt[q]
  <2>1. \A q \in D : nxt[q] # p /\ prv[q] # p  BY <1>1, <1>4
  <2>2. l2 \in [E -> 0..(cap - 1)] /\ \A q \in E : l2[q] = loc[q]  BY <1>1 DEF Minus
  <2>3. c2 \in [E -> Content] /\ \A q \in E : c2[q] = cont[q]  BY <1>2 DEF Minus
  <2>4. pr \in [E -> E \cup {None}] /\ \A q \in E : pr[q] = prv[q]  BY <1>2, <2>1 DEF Minus
  <2>5. nx \in [E -> E \cup {None}] /\ \A q \in E : nx[q] = nxt[q]  BY <1>2, <2>1 DEF Minus
  <2> HIDE DEF l2, c2, pr, nx
  <2>6. head \in [Classes -> E \cup {None}]  BY <1>2
  <2> QED  BY <2>1, <2>2, <2>3, <2>4, <2>5, <2>6
<1> HIDE DEF l2, c2, pr, nx, p2
<1>8. \A q \in E \cup {None} : Bucket(l2, q) = Bucket(loc, q)  BY <1>7 DEF Bucket
<1>9. IsTable(p2, cap, E, l2, c2, pr, nx)
  <2>1. EmptyBucket \in Descriptor
    BY NoneIsNoPage, HeapAssumption DEF EmptyBucket, Descriptor, Classes
  <2>2. p2 \in [0..(cap - 1) -> Descriptor]
        /\ \A b \in 0..(cap - 1) : p2[b] = IF b = i THEN EmptyBucket ELSE h.pages[b]
    BY <1>1, <1>6, <2>1
  <2>3. ASSUME NEW q \in E
        PROVE  p2[l2[q]] = DescOf(q, c2[q], Bucket(l2, pr[q]), Bucket(l2, nx[q]))
    <3>1. loc[q] # i /\ loc[q] \in 0..(cap - 1)  BY <1>1
    <3>2. p2[loc[q]] = h.pages[loc[q]]  BY <2>2, <3>1
    <3>3. h.pages[loc[q]] = DescOf(q, cont[q], Bucket(loc, prv[q]), Bucket(loc, nxt[q]))  BY <1>3
    <3>4. pr[q] \in E \cup {None} /\ nx[q] \in E \cup {None}  BY <1>7
    <3> QED  BY <3>2, <3>3, <3>4, <1>7, <1>8
  <2>4. ASSUME NEW b \in 0..(cap - 1), \A q \in E : l2[q] # b
        PROVE  p2[b] = EmptyBucket
    <3>1. CASE b = i  BY <3>1, <2>2
    <3>2. CASE b # i
      <4>1. \A q \in D : loc[q] # b  BY <3>2, <2>4, <1>7
      <4> QED  BY <4>1, <3>2, <2>2, <1>3
    <3> QED  BY <3>1, <3>2
  <2>5. \A q, r \in E : l2[q] = l2[r] => q = r  BY <1>1, <1>7
  <2> QED  BY <1>1, <1>7, <2>2, <2>3, <2>4, <2>5 DEF IsTable
<1>10. Linked(E, c2, pr, nx, head)
  <2>1. ASSUME NEW q \in E, nx[q] # None PROVE pr[nx[q]] = q /\ nx[q] # q
    <3>1. nx[q] = nxt[q] /\ nxt[q] \in E  BY <2>1, <1>7
    <3>2. prv[nxt[q]] = q /\ nxt[q] # q  BY <2>1, <3>1, <1>4
    <3> QED  BY <3>1, <3>2, <1>7
  <2>2. ASSUME NEW q \in E, pr[q] # None PROVE nx[pr[q]] = q /\ pr[q] # q
    <3>1. pr[q] = prv[q] /\ prv[q] \in E  BY <2>2, <1>7
    <3>2. nxt[prv[q]] = q /\ prv[q] # q  BY <2>2, <3>1, <1>4
    <3> QED  BY <3>1, <3>2, <1>7
  <2>3. ASSUME NEW c \in Classes, head[c] # None PROVE c2[head[c]].cls = c /\ pr[head[c]] = None
    <3>1. head[c] \in E  BY <2>3, <1>7
    <3> QED  BY <2>3, <3>1, <1>4, <1>7
  <2> QED  BY <1>7, <2>1, <2>2, <2>3 DEF Linked
<1>11. HeadsAt(h.warm, l2, head)
  <2>1. \A c \in Classes : Bucket(loc, head[c]) = Bucket(l2, head[c])  BY <1>7, <1>8
  <2> QED  BY <2>1, <1>5 DEF HeadsAt
<1>12. Holds(g, cap, E, l2, c2, pr, nx, head)  BY <1>9, <1>10, <1>11 DEF Holds, p2
<1> QED  BY <1>12 DEF l2, c2, pr, nx

\* A page enters the table in an empty bucket, in no list.
LEMMA PlaceKeeps ==
  ASSUME NEW h, NEW g, NEW cap, NEW D, NEW loc, NEW cont, NEW prv, NEW nxt, NEW head,
         Holds(h, cap, D, loc, cont, prv, nxt, head),
         NEW p \in Pages \ D, NEW y \in Content, NEW b \in 0..(cap - 1), b \notin Occupied(D, loc),
         IsHeap(g), g.warm = h.warm, g.pages = [h.pages EXCEPT ![b] = DescOf(p, y, None, None)]
  PROVE  Holds(g, cap, D \cup {p}, Plus(loc, p, b), Plus(cont, p, y), Plus(prv, p, None),
               Plus(nxt, p, None), head)
<1>1. /\ cap \in Nat /\ None \notin D /\ None \in Int /\ D \subseteq Pages /\ None # p
      /\ h.pages \in [0..(cap - 1) -> Descriptor]
      /\ loc \in [D -> 0..(cap - 1)] /\ \A q, r \in D : loc[q] = loc[r] => q = r
  BY NoneIsNoPage DEF Holds, IsTable
<1>2. /\ cont \in [D -> Content] /\ prv \in [D -> D \cup {None}] /\ nxt \in [D -> D \cup {None}]
      /\ head \in [Classes -> D \cup {None}]
  BY DEF Holds, IsTable, Linked
<1>3. /\ \A q \in D : h.pages[loc[q]] = DescOf(q, cont[q], Bucket(loc, prv[q]), Bucket(loc, nxt[q]))
      /\ \A z \in 0..(cap - 1) : (\A q \in D : loc[q] # z) => h.pages[z] = EmptyBucket
  BY DEF Holds, IsTable
<1>4. /\ \A q \in D : nxt[q] # None => prv[nxt[q]] = q /\ nxt[q] # q
      /\ \A q \in D : prv[q] # None => nxt[prv[q]] = q /\ prv[q] # q
      /\ \A c \in Classes : head[c] # None => cont[head[c]].cls = c /\ prv[head[c]] = None
  BY DEF Holds, Linked
<1>5. h.warm = [c \in Classes |-> Bucket(loc, head[c])]  BY DEF Holds, HeadsAt
<1> DEFINE E == D \cup {p}
           l2 == Plus(loc, p, b)
           c2 == Plus(cont, p, y)
           pr == Plus(prv, p, None)
           nx == Plus(nxt, p, None)
           new == DescOf(p, y, None, None)
<1>7. /\ l2 \in [E -> 0..(cap - 1)] /\ c2 \in [E -> Content]
      /\ pr \in [E -> E \cup {None}] /\ nx \in [E -> E \cup {None}] /\ head \in [Classes -> E \cup {None}]
      /\ \A q \in D : l2[q] = loc[q] /\ c2[q] = cont[q] /\ pr[q] = prv[q] /\ nx[q] = nxt[q]
      /\ l2[p] = b /\ c2[p] = y /\ pr[p] = None /\ nx[p] = None
  <2>2. l2 \in [E -> 0..(cap - 1)] /\ l2[p] = b /\ \A q \in D : l2[q] = loc[q]  BY <1>1 DEF Plus
  <2>3. c2 \in [E -> Content] /\ c2[p] = y /\ \A q \in D : c2[q] = cont[q]  BY <1>2 DEF Plus
  <2>4. pr \in [E -> E \cup {None}] /\ pr[p] = None /\ \A q \in D : pr[q] = prv[q]  BY <1>2 DEF Plus
  <2>5. nx \in [E -> E \cup {None}] /\ nx[p] = None /\ \A q \in D : nx[q] = nxt[q]  BY <1>2 DEF Plus
  <2> HIDE DEF l2, c2, pr, nx
  <2>6. head \in [Classes -> E \cup {None}]  BY <1>2
  <2> QED  BY <2>2, <2>3, <2>4, <2>5, <2>6
<1> HIDE DEF l2, c2, pr, nx
<1>8. /\ \A q \in D \cup {None} : Bucket(l2, q) = Bucket(loc, q)
      /\ \A q \in D : l2[q] # b
  BY <1>7 DEF Bucket, Occupied
<1>9. IsTable(g.pages, cap, E, l2, c2, pr, nx)
  <2>1. new \in Descriptor
    <3>1. y.bits \in SUBSET Nat /\ y.used \in Nat /\ y.cls \in Classes  BY DEF Content
    <3> QED  BY <3>1, <1>1 DEF Descriptor, DescOf
  <2> DEFINE p2 == g.pages
  <2>2. p2 \in [0..(cap - 1) -> Descriptor]
        /\ \A z \in 0..(cap - 1) : p2[z] = IF z = b THEN new ELSE h.pages[z]
    <3> HIDE DEF new
    <3>1. p2 = [h.pages EXCEPT ![b] = new]  BY DEF new
    <3> HIDE DEF p2
    <3> QED  BY <1>1, <2>1, <3>1
  <2> HIDE DEF p2
  <2>3. ASSUME NEW q \in E
        PROVE  p2[l2[q]] = DescOf(q, c2[q], Bucket(l2, pr[q]), Bucket(l2, nx[q]))
    <3>1. CASE q = p
      <4>1. Bucket(l2, None) = None  BY DEF Bucket
      <4> QED  BY <3>1, <4>1, <2>2, <1>7
    <3>2. CASE q # p
      <4>1. q \in D /\ l2[q] = loc[q] /\ loc[q] # b /\ loc[q] \in 0..(cap - 1)
        BY <3>2, <1>1, <1>7, <1>8
      <4>2. p2[loc[q]] = h.pages[loc[q]]  BY <2>2, <4>1
      <4>3. h.pages[loc[q]] = DescOf(q, cont[q], Bucket(loc, prv[q]), Bucket(loc, nxt[q]))
        BY <4>1, <1>3
      <4>4. prv[q] \in D \cup {None} /\ nxt[q] \in D \cup {None}  BY <4>1, <1>2
      <4> QED  BY <4>1, <4>2, <4>3, <4>4, <1>7, <1>8
    <3> QED  BY <3>1, <3>2
  <2>4. ASSUME NEW z \in 0..(cap - 1), \A q \in E : l2[q] # z
        PROVE  p2[z] = EmptyBucket
    <3>1. z # b  BY <2>4, <1>7
    <3>2. \A q \in D : loc[q] # z  BY <2>4, <1>7
    <3> QED  BY <3>1, <3>2, <2>2, <1>3
  <2>5. \A q, r \in E : l2[q] = l2[r] => q = r  BY <1>1, <1>7, <1>8
  <2>6. IsTable(p2, cap, E, l2, c2, pr, nx)  BY <1>1, <1>7, <2>2, <2>3, <2>4, <2>5 DEF IsTable
  <2> QED  BY <2>6 DEF p2
<1>10. Linked(E, c2, pr, nx, head)
  <2>1. ASSUME NEW q \in E, nx[q] # None PROVE pr[nx[q]] = q /\ nx[q] # q
    <3>1. q \in D /\ nx[q] = nxt[q] /\ nxt[q] \in D  BY <2>1, <1>2, <1>7
    <3>2. prv[nxt[q]] = q /\ nxt[q] # q  BY <2>1, <3>1, <1>4
    <3> QED  BY <3>1, <3>2, <1>7
  <2>2. ASSUME NEW q \in E, pr[q] # None PROVE nx[pr[q]] = q /\ pr[q] # q
    <3>1. q \in D /\ pr[q] = prv[q] /\ prv[q] \in D  BY <2>2, <1>2, <1>7
    <3>2. nxt[prv[q]] = q /\ prv[q] # q  BY <2>2, <3>1, <1>4
    <3> QED  BY <3>1, <3>2, <1>7
  <2>3. ASSUME NEW c \in Classes, head[c] # None PROVE c2[head[c]].cls = c /\ pr[head[c]] = None
    <3>1. head[c] \in D  BY <2>3, <1>2
    <3> QED  BY <2>3, <3>1, <1>4, <1>7
  <2> QED  BY <1>7, <2>1, <2>2, <2>3 DEF Linked
<1>11. HeadsAt(g.warm, l2, head)
  <2>1. \A c \in Classes : Bucket(loc, head[c]) = Bucket(l2, head[c])  BY <1>2, <1>8
  <2> QED  BY <2>1, <1>5 DEF HeadsAt
<1>12. Holds(g, cap, E, l2, c2, pr, nx, head)  BY <1>9, <1>10, <1>11 DEF Holds
<1> QED  BY <1>12 DEF l2, c2, pr, nx

\* The slots of a page change.
LEMMA RefillKeeps ==
  ASSUME NEW h, NEW g, NEW cap, NEW D, NEW loc, NEW cont, NEW prv, NEW nxt, NEW head,
         Holds(h, cap, D, loc, cont, prv, nxt, head),
         NEW p \in D, NEW y \in Content, y.cls = cont[p].cls,
         IsHeap(g), g.warm = h.warm,
         g.pages = [h.pages EXCEPT ![loc[p]] = DescOf(p, y, @.prev, @.next)]
  PROVE  Holds(g, cap, D, loc, [cont EXCEPT ![p] = y], prv, nxt, head)
<1>1. /\ cap \in Nat /\ None \notin D /\ None \in Int /\ D \subseteq Pages /\ None # p
      /\ h.pages \in [0..(cap - 1) -> Descriptor]
      /\ loc \in [D -> 0..(cap - 1)] /\ \A q, r \in D : loc[q] = loc[r] => q = r
  BY NoneIsNoPage DEF Holds, IsTable
<1>2. /\ cont \in [D -> Content] /\ prv \in [D -> D \cup {None}] /\ nxt \in [D -> D \cup {None}]
      /\ head \in [Classes -> D \cup {None}]
  BY DEF Holds, IsTable, Linked
<1>3. /\ \A q \in D : h.pages[loc[q]] = DescOf(q, cont[q], Bucket(loc, prv[q]), Bucket(loc, nxt[q]))
      /\ \A z \in 0..(cap - 1) : (\A q \in D : loc[q] # z) => h.pages[z] = EmptyBucket
  BY DEF Holds, IsTable
<1>4. /\ \A q \in D : nxt[q] # None => prv[nxt[q]] = q /\ nxt[q] # q
      /\ \A q \in D : prv[q] # None => nxt[prv[q]] = q /\ prv[q] # q
      /\ \A c \in Classes : head[c] # None => cont[head[c]].cls = c /\ prv[head[c]] = None
  BY DEF Holds, Linked
<1> DEFINE i == loc[p]
           c2 == [cont EXCEPT ![p] = y]
           d == h.pages[i]
           new == DescOf(p, y, d.prev, d.next)
           p2 == g.pages
<1>5. c2 \in [D -> Content] /\ \A q \in D : c2[q] = IF q = p THEN y ELSE cont[q]
  BY <1>2
<1>6. d.prev = Bucket(loc, prv[p]) /\ d.next = Bucket(loc, nxt[p]) /\ i \in 0..(cap - 1) /\ d \in Descriptor
  <2>1. d = DescOf(p, cont[p], Bucket(loc, prv[p]), Bucket(loc, nxt[p])) /\ i \in 0..(cap - 1)
    BY <1>1, <1>3
  <2>2. d \in Descriptor  BY <1>1, <2>1
  <2> HIDE DEF d
  <2> QED  BY <2>1, <2>2 DEF DescOf
<1>7. new \in Descriptor
  <2>1. y.bits \in SUBSET Nat /\ y.used \in Nat /\ y.cls \in Classes  BY DEF Content
  <2>2. d.prev \in Int /\ d.next \in Int  BY <1>6 DEF Descriptor
  <2> HIDE DEF d
  <2> QED  BY <2>1, <2>2, <1>1 DEF Descriptor, DescOf
<1>8. p2 = [h.pages EXCEPT ![i] = new]  OBVIOUS
<1> HIDE DEF c2, new, p2
<1>9. p2 \in [0..(cap - 1) -> Descriptor]
      /\ \A z \in 0..(cap - 1) : p2[z] = IF z = i THEN new ELSE h.pages[z]
  BY <1>1, <1>7, <1>8
<1>10. IsTable(p2, cap, D, loc, c2, prv, nxt)
  <2>1. ASSUME NEW q \in D
        PROVE  p2[loc[q]] = DescOf(q, c2[q], Bucket(loc, prv[q]), Bucket(loc, nxt[q]))
    <3>1. CASE q = p  BY <3>1, <1>5, <1>6, <1>9 DEF new
    <3>2. CASE q # p
      <4>1. loc[q] # i /\ loc[q] \in 0..(cap - 1)  BY <3>2, <1>1
      <4> QED  BY <3>2, <4>1, <1>3, <1>5, <1>9
    <3> QED  BY <3>1, <3>2
  <2>2. ASSUME NEW z \in 0..(cap - 1), \A q \in D : loc[q] # z
        PROVE  p2[z] = EmptyBucket
    BY <2>2, <1>3, <1>9
  <2> QED  BY <1>1, <1>2, <1>5, <1>9, <2>1, <2>2 DEF IsTable
<1>11. Linked(D, c2, prv, nxt, head)
  <2>1. \A c \in Classes : head[c] # None => c2[head[c]].cls = cont[head[c]].cls  BY <1>2, <1>5
  <2> QED  BY <2>1, <1>2, <1>4 DEF Linked
<1>12. HeadsAt(g.warm, loc, head)  BY DEF Holds
<1>13. Holds(g, cap, D, loc, c2, prv, nxt, head)  BY <1>10, <1>11, <1>12 DEF Holds, p2
<1> QED  BY <1>13 DEF c2

------------------------------------------------------------------------------
\* Back-shift delete.

\* Distances and places, for all buckets of a table.
LEMMA RingType ==
  ASSUME NEW cap \in Nat \ {0}
  PROVE  \A a, b \in 0..(cap - 1) :
            /\ Dist(cap, a, b) \in 0..(cap - 1) /\ Ahead(cap, a, Dist(cap, a, b)) = b
            /\ Dist(cap, a, b) \in Int
<1> SUFFICES ASSUME NEW a \in 0..(cap - 1), NEW b \in 0..(cap - 1)
             PROVE  Dist(cap, a, b) \in 0..(cap - 1) /\ Ahead(cap, a, Dist(cap, a, b)) = b
                    /\ Dist(cap, a, b) \in Int
  OBVIOUS
<1>1. Dist(cap, a, b) \in 0..(cap - 1) /\ Ahead(cap, a, Dist(cap, a, b)) = b  BY DistType
<1> QED  BY <1>1

\* In ring order from i, b lies between a and c: an interval that ends at c and
\* has a in it has b in it.
LEMMA Between ==
  ASSUME NEW cap \in Nat \ {0}, NEW i \in 0..(cap - 1), NEW a \in 0..(cap - 1),
         NEW b \in 0..(cap - 1), NEW c \in 0..(cap - 1), NEW n \in 0..(cap - 1),
         Dist(cap, i, a) <= Dist(cap, i, b), Dist(cap, i, b) <= Dist(cap, i, c),
         Dist(cap, n, a) <= Dist(cap, n, c)
  PROVE  Dist(cap, n, b) <= Dist(cap, n, c)
  BY DEF Dist

\* The same where the interval goes round past i.
LEMMA Around ==
  ASSUME NEW cap \in Nat \ {0}, NEW i \in 0..(cap - 1), NEW a \in 0..(cap - 1),
         NEW b \in 0..(cap - 1), NEW c \in 0..(cap - 1), NEW n \in 0..(cap - 1),
         Dist(cap, i, c) < Dist(cap, i, a), Dist(cap, i, a) <= Dist(cap, i, b),
         Dist(cap, n, a) <= Dist(cap, n, c)
  PROVE  Dist(cap, n, b) <= Dist(cap, n, c)
  BY DEF Dist

\* The test of the scan: the entry's probe meets the hole before the entry.
LEMMA CanMoveIs ==
  ASSUME NEW cap \in Nat \ {0}, NEW hole \in 0..(cap - 1), NEW cursor \in 0..(cap - 1),
         NEW natural \in 0..(cap - 1), hole # cursor
  PROVE  CanMove(hole, cursor, natural) <=> Dist(cap, natural, hole) <= Dist(cap, natural, cursor)
  BY DEF CanMove, Dist

\* After k buckets of the scan that started at i; e is an empty bucket.
Scanning(cap, i, D, cont, prv, nxt, head, h0, e, w, k, loc) ==
    /\ Holds(w.h, cap, D, loc, cont, prv, nxt, head)
    /\ SameRest(w.h, h0) /\ w.h.count = h0.count
    /\ w = [h |-> w.h, hole |-> w.hole, ended |-> w.ended]
    /\ w.ended \in BOOLEAN /\ e \in 0..(cap - 1)
    /\ w.ended => Findable(cap, D, loc)
    /\ ~w.ended =>
          /\ w.hole \in 0..(cap - 1) /\ w.hole \notin Occupied(D, loc)
          /\ e # w.hole /\ e \notin Occupied(D, loc)
          /\ Dist(cap, i, w.hole) <= k
          /\ \A j \in 0..k : Ahead(cap, i, j) \in Occupied(D, loc) \cup {w.hole}
          /\ \A p \in D : Path(cap, p, loc[p]) \subseteq Occupied(D, loc) \cup {w.hole}
          /\ \A p \in D : Dist(cap, i, loc[p]) <= k => w.hole \notin Path(cap, p, loc[p])

\* The scan takes its next step.
LEMMA ScanStep ==
  ASSUME NEW cap \in Nat \ {0}, NEW i \in 0..(cap - 1), NEW D, NEW cont, NEW prv, NEW nxt, NEW head,
         NEW h0, NEW e, NEW w, NEW k \in 1..(cap - 1), NEW loc,
         Scanning(cap, i, D, cont, prv, nxt, head, h0, e, w, k - 1, loc)
  PROVE  \E at : Scanning(cap, i, D, cont, prv, nxt, head, h0, e,
                          BackShift(w, cap, (i + k) % cap), k, at)
<1> DEFINE cursor == Ahead(cap, i, k)
           page == w.h.pages[cursor].page
           z == BackShift(w, cap, (i + k) % cap)
<1>1. (i + k) % cap = cursor /\ cursor \in 0..(cap - 1) /\ Dist(cap, i, cursor) = k
  <2>1. k \in 0..(cap - 1)  OBVIOUS
  <2> QED  BY <2>1, AheadIs
<1> HIDE DEF cursor
<1>2. /\ Holds(w.h, cap, D, loc, cont, prv, nxt, head)
      /\ SameRest(w.h, h0) /\ w.h.count = h0.count
      /\ w = [h |-> w.h, hole |-> w.hole, ended |-> w.ended]
      /\ w.ended \in BOOLEAN /\ e \in 0..(cap - 1)
      /\ w.ended => Findable(cap, D, loc)
  BY DEF Scanning
<1>3. CASE w.ended
  <2>1. z = [w EXCEPT !.ended = TRUE]  BY <1>3, <1>1 DEF BackShift
  <2>2. z = w  BY <2>1, <1>2, <1>3
  <2>3. Scanning(cap, i, D, cont, prv, nxt, head, h0, e, z, k, loc)  BY <2>2, <1>2, <1>3 DEF Scanning
  <2> QED  BY <2>3
<1>4. CASE ~w.ended
  <2> DEFINE hole == w.hole
  <2>1. /\ hole \in 0..(cap - 1) /\ hole \notin Occupied(D, loc)
        /\ e # hole /\ e \notin Occupied(D, loc)
        /\ Dist(cap, i, hole) <= k - 1
        /\ \A j \in 0..(k - 1) : Ahead(cap, i, j) \in Occupied(D, loc) \cup {hole}
        /\ \A p \in D : Path(cap, p, loc[p]) \subseteq Occupied(D, loc) \cup {hole}
        /\ \A p \in D : Dist(cap, i, loc[p]) <= k - 1 => hole \notin Path(cap, p, loc[p])
    BY <1>4 DEF Scanning
  <2> HIDE DEF hole
  <2>2. IsTable(w.h.pages, cap, D, loc, cont, prv, nxt)  BY <1>2 DEF Holds
  <2>3. /\ D \subseteq Pages /\ None \notin D
        /\ \A p \in D : loc[p] \in 0..(cap - 1)
        /\ \A b \in 0..(cap - 1) :
              /\ w.h.pages[b].page # None => w.h.pages[b].page \in D /\ loc[w.h.pages[b].page] = b
              /\ w.h.pages[b].page = None <=> b \notin Occupied(D, loc)
    BY <2>2, TableFacts, NoneIsNoPage
  <2>4. loc \in [D -> 0..(cap - 1)] /\ \A p, q \in D : loc[p] = loc[q] => p = q  BY <2>2 DEF IsTable
  <2>5. \A p \in D : Home(cap, p) \in 0..(cap - 1)
    <3> SUFFICES ASSUME NEW p \in D PROVE Home(cap, p) \in 0..(cap - 1)  OBVIOUS
    <3>1. p \in Pages /\ 0 \in 0..(cap - 1)  BY <2>3
    <3> QED  BY <3>1, ProbeIs
  <2>6. hole # cursor  BY <2>1, <1>1
  <2>7. \A b \in 0..(cap - 1) : Dist(cap, i, b) \in 0..(cap - 1) /\ Ahead(cap, i, Dist(cap, i, b)) = b
    BY RingType
  <2>8. CASE page = None
    <3>1. z = [w EXCEPT !.ended = TRUE]  BY <2>8, <1>1 DEF BackShift
    <3>2. z.h = w.h /\ z.ended = TRUE /\ z.hole = w.hole /\ z = [h |-> z.h, hole |-> z.hole, ended |-> z.ended]
      BY <3>1, <1>2
    <3>3. cursor \notin Occupied(D, loc)  BY <2>3, <2>8, <1>1
    <3>4. ASSUME NEW p \in D PROVE hole \notin Path(cap, p, loc[p])
      <4> DEFINE n == Home(cap, p)
                 c == loc[p]
      <4>1. CASE Dist(cap, i, c) <= k - 1  BY <4>1, <2>1
      <4>2. CASE ~(Dist(cap, i, c) <= k - 1)
        <5> SUFFICES ASSUME hole \in Path(cap, p, c) PROVE FALSE  OBVIOUS
        <5>1. Dist(cap, n, hole) <= Dist(cap, n, c)  BY DEF Path
        <5>2. c \in 0..(cap - 1) /\ n \in 0..(cap - 1)  BY <2>3, <2>5
        <5>3. Path(cap, p, c) \subseteq Occupied(D, loc) \cup {hole}  BY <2>1
        <5> HIDE DEF n, c
        <5>4. Dist(cap, i, hole) <= k /\ k <= Dist(cap, i, c)  BY <4>2, <5>2, <2>1, <2>7
        <5>5. Dist(cap, n, cursor) <= Dist(cap, n, c)
          BY <5>1, <5>2, <5>4, <1>1, <2>1, Between
        <5>6. cursor \in Path(cap, p, c)  BY <5>5, <1>1 DEF Path, n
        <5> QED  BY <5>3, <5>6, <2>6, <3>3
      <4> QED  BY <4>1, <4>2
    <3>5. Findable(cap, D, loc)  BY <3>4, <2>1 DEF Findable
    <3>6. Scanning(cap, i, D, cont, prv, nxt, head, h0, e, z, k, loc)
      BY <3>2, <3>5, <1>2 DEF Scanning
    <3> QED  BY <3>6
  <2>9. CASE page # None
    <3>1. page \in D /\ loc[page] = cursor /\ page \in Pages  BY <2>3, <2>9, <1>1
    <3> DEFINE q == page
               n == Home(cap, q)
               u == Probe(cap, q, 0)
    <3>2. n \in 0..(cap - 1) /\ u = n
      <4>1. 0 \in 0..(cap - 1)  OBVIOUS
      <4> QED  BY <3>1, <4>1, ProbeIs
    <3>3. cursor \in Occupied(D, loc)  BY <3>1 DEF Occupied
    <3>4. /\ CanMove(hole, cursor, u) => z = [h |-> MoveBucket(w.h, cursor, hole), hole |-> cursor, ended |-> FALSE]
          /\ ~CanMove(hole, cursor, u) => z = w
      BY <1>1, <1>4, <2>9 DEF BackShift, hole
    <3> HIDE DEF q, u, n
    <3>5. CanMove(hole, cursor, u) <=> Dist(cap, n, hole) <= Dist(cap, n, cursor)
      BY <3>2, <1>1, <2>1, <2>6, CanMoveIs
    <3>6. CASE CanMove(hole, cursor, u)
      <4> DEFINE at == [loc EXCEPT ![q] = hole]
                 g == MoveBucket(w.h, cursor, hole)
      <4>1. q \in D /\ loc[q] = cursor  BY <3>1 DEF q
      <4>2. \A r \in D : loc[r] # hole  BY <2>1 DEF Occupied
      <4>3. Holds(g, cap, D, at, cont, prv, nxt, head) /\ SameRest(g, w.h) /\ g.count = w.h.count
        BY <4>1, <4>2, <1>2, <2>1, MoveKeeps
      <4>4. z.h = g /\ z.hole = cursor /\ z.ended = FALSE /\ z = [h |-> z.h, hole |-> z.hole, ended |-> z.ended]
        BY <3>4, <3>6
      <4> HIDE DEF g
      <4>5. \A r \in D : at[r] = IF r = q THEN hole ELSE loc[r]  BY <2>4
      <4> HIDE DEF at
      <4>6. Occupied(D, at) \cup {cursor} = Occupied(D, loc) \cup {hole}
        <5>1. \A r \in D : at[r] \in Occupied(D, loc) \cup {hole}  BY <4>5 DEF Occupied
        <5>2. \A r \in D : loc[r] \in Occupied(D, at) \cup {cursor}  BY <4>1, <4>5 DEF Occupied
        <5>3. hole \in Occupied(D, at)  BY <4>1, <4>5 DEF Occupied
        <5> QED  BY <5>1, <5>2, <5>3, <3>3 DEF Occupied
      <4>7. cursor \notin Occupied(D, at)
        <5>1. \A r \in D : at[r] # cursor  BY <4>1, <4>5, <2>4, <2>6
        <5> QED  BY <5>1 DEF Occupied
      <4>8. e # cursor /\ e \notin Occupied(D, at)  BY <4>6, <2>1, <3>3
      <4>9. Dist(cap, i, cursor) <= k  BY <1>1
      <4>10. ASSUME NEW j \in 0..k PROVE Ahead(cap, i, j) \in Occupied(D, at) \cup {cursor}
        <5>1. CASE j = k  BY <5>1 DEF cursor
        <5>2. CASE j # k
          <6>1. j \in 0..(k - 1)  BY <5>2
          <6> QED  BY <6>1, <2>1, <4>6
        <5> QED  BY <5>1, <5>2
      <4>11. Dist(cap, n, hole) <= Dist(cap, n, cursor)  BY <3>5, <3>6
      <4>12. ASSUME NEW r \in D PROVE Path(cap, r, at[r]) \subseteq Path(cap, r, loc[r])
        <5>1. CASE r = q
          <6>1. \A b \in 0..(cap - 1) : Dist(cap, n, b) \in 0..(cap - 1)  BY <3>2, RingType
          <6>2. Path(cap, q, hole) \subseteq Path(cap, q, cursor)
            BY <6>1, <4>11, <1>1, <2>1 DEF Path, n
          <6> QED  BY <5>1, <6>2, <4>1, <4>5
        <5>2. CASE r # q  BY <5>2, <4>5
        <5> QED  BY <5>1, <5>2
      <4>13. \A r \in D : Path(cap, r, at[r]) \subseteq Occupied(D, at) \cup {cursor}
        BY <4>6, <4>12, <2>1
      <4>14. ASSUME NEW r \in D, Dist(cap, i, at[r]) <= k PROVE cursor \notin Path(cap, r, at[r])
        <5>1. CASE r = q
          <6>1. Dist(cap, n, hole) # Dist(cap, n, cursor)
            <7>1. Ahead(cap, n, Dist(cap, n, hole)) = hole /\ Ahead(cap, n, Dist(cap, n, cursor)) = cursor
              BY <3>2, <1>1, <2>1, RingType, ZenonT(60)
            <7> QED  BY <7>1, <2>6
          <6>2. Dist(cap, n, hole) \in Int /\ Dist(cap, n, cursor) \in Int
            BY <3>2, <1>1, <2>1, RingType
          <6>3. ~(Dist(cap, n, cursor) <= Dist(cap, n, hole))  BY <6>1, <6>2, <4>11
          <6> QED  BY <5>1, <6>3, <4>5 DEF Path, n
        <5>2. CASE r # q
          <6> DEFINE m == Home(cap, r)
                     c == loc[r]
          <6>1. c \in 0..(cap - 1) /\ m \in 0..(cap - 1) /\ at[r] = c  BY <5>2, <2>3, <2>5, <4>5
          <6>2. c # cursor  BY <5>2, <4>1, <2>4
          <6>3. Path(cap, r, c) \subseteq Occupied(D, loc) \cup {hole}  BY <2>1
          <6> HIDE DEF m, c
          <6>4. Dist(cap, i, c) <= k  BY <4>14, <6>1
          <6>5. Dist(cap, i, c) # k  BY <6>1, <6>2, <2>7 DEF cursor
          <6>6. Dist(cap, i, e) >= k
            <7> SUFFICES ASSUME ~(Dist(cap, i, e) >= k) PROVE FALSE  OBVIOUS
            <7>1. Dist(cap, i, e) \in 0..(k - 1) /\ Ahead(cap, i, Dist(cap, i, e)) = e  BY <1>2, <2>7
            <7> HIDE DEF Scanning
            <7>2. e \in Occupied(D, loc) \cup {hole}  BY <7>1, <2>1
            <7> QED  BY <7>2, <2>1
          <6>7. SUFFICES ASSUME cursor \in Path(cap, r, c) PROVE FALSE  BY <6>1
          <6>8. Dist(cap, m, cursor) <= Dist(cap, m, c)  BY <6>7 DEF Path, m
          <6>9. Dist(cap, i, c) < Dist(cap, i, cursor) /\ Dist(cap, i, cursor) <= Dist(cap, i, e)
            BY <6>1, <6>4, <6>5, <6>6, <1>1, <2>7
          <6>10. Dist(cap, m, e) <= Dist(cap, m, c)  BY <6>1, <6>8, <6>9, <1>1, <1>2, Around
          <6>11. e \in Path(cap, r, c)  BY <6>10, <1>2 DEF Path, m
          <6> QED  BY <6>3, <6>11, <2>1
        <5> QED  BY <5>1, <5>2
      <4>15. SameRest(g, h0) /\ g.count = h0.count  BY <4>3, <1>2 DEF SameRest
      <4>16. Scanning(cap, i, D, cont, prv, nxt, head, h0, e, z, k, at)
        BY <4>3, <4>4, <4>7, <4>8, <4>9, <4>10, <4>13, <4>14, <4>15, <1>1, <1>2 DEF Scanning
      <4> QED  BY <4>16
    <3>7. CASE ~CanMove(hole, cursor, u)
      <4>1. z = w  BY <3>4, <3>7
      <4>2. ASSUME NEW j \in 0..k PROVE Ahead(cap, i, j) \in Occupied(D, loc) \cup {hole}
        <5>1. CASE j = k  BY <5>1, <3>3 DEF cursor
        <5>2. CASE j # k
          <6>1. j \in 0..(k - 1)  BY <5>2
          <6> QED  BY <6>1, <2>1
        <5> QED  BY <5>1, <5>2
      <4>3. ASSUME NEW r \in D, Dist(cap, i, loc[r]) <= k PROVE hole \notin Path(cap, r, loc[r])
        <5>1. CASE Dist(cap, i, loc[r]) = k
          <6>1. loc[r] = cursor  BY <5>1, <2>3, <2>7 DEF cursor
          <6>2. r = q  BY <6>1, <3>1, <2>4 DEF q
          <6>3. ~(Dist(cap, n, hole) <= Dist(cap, n, cursor))  BY <3>5, <3>7
          <6> QED  BY <6>1, <6>2, <6>3 DEF Path, n
        <5>2. CASE Dist(cap, i, loc[r]) # k
          <6> DEFINE c == loc[r]
          <6>1. Dist(cap, i, c) \in Int  BY <2>3, <2>7
          <6>2. Dist(cap, i, c) <= k - 1  BY <5>2, <6>1, <4>3
          <6> QED  BY <6>2, <2>1
        <5> QED  BY <5>1, <5>2
      <4>4. Dist(cap, i, hole) <= k  BY <2>1, <2>7
      <4>5. Scanning(cap, i, D, cont, prv, nxt, head, h0, e, w, k, loc)
        BY <4>2, <4>3, <4>4, <1>2, <2>1 DEF Scanning, hole
      <4> QED  BY <4>1, <4>5
    <3> QED  BY <3>6, <3>7
  <2> QED  BY <2>8, <2>9
<1> QED  BY <1>3, <1>4

\* Back-shift delete takes a page in no list out of the table and leaves the
\* others findable.
LEMMA RemoveKeeps ==
  ASSUME NEW h, NEW cap, NEW D, NEW loc, NEW cont, NEW prv, NEW nxt, NEW head,
         Holds(h, cap, D, loc, cont, prv, nxt, head), Findable(cap, D, loc), Cardinality(D) < cap,
         NEW p \in D, prv[p] = None, nxt[p] = None, \A c \in Classes : head[c] # p
  PROVE  LET g == heap_hash_remove(h, loc[p])
         IN  \E at : /\ Holds(g, cap, D \ {p}, at, Minus(cont, p), Minus(prv, p), Minus(nxt, p), head)
                     /\ Findable(cap, D \ {p}, at)
                     /\ SameRest(g, h) /\ g.count = h.count - 1
<1> DEFINE i == loc[p]
           h0 == [h EXCEPT !.pages[i] = EmptyBucket, !.count = @ - 1]
           start == [h |-> h0, hole |-> i, ended |-> FALSE]
           E == D \ {p}
           l0 == Minus(loc, p)
           c0 == Minus(cont, p)
           pr == Minus(prv, p)
           nx == Minus(nxt, p)
           Runs(m, f) == f = [k \in 0..m |-> IF k = 0 THEN start ELSE BackShift(f[k - 1], cap, (i + k) % cap)]
           g == heap_hash_remove(h, i)
<1>1. IsTable(h.pages, cap, D, loc, cont, prv, nxt)  BY DEF Holds
<1>2. cap \in Nat /\ D \subseteq Pages /\ IsFiniteSet(D) /\ Cap(h) = cap  BY <1>1, TableFacts DEF Cap
<1>3. loc \in [D -> 0..(cap - 1)] /\ \A q, r \in D : loc[q] = loc[r] => q = r  BY <1>1 DEF IsTable
<1>4. i \in 0..(cap - 1) /\ cap \in Nat \ {0}  BY <1>2, <1>3
<1>5. PICK e \in 0..(cap - 1) : e \notin Occupied(D, loc)  BY <1>2, <1>3, RoomLeft
<1>6. /\ Holds(h0, cap, E, l0, c0, pr, nx, head)
      /\ SameRest(h0, h) /\ h0.count = h.count - 1
  <2> DEFINE p2 == [h.pages EXCEPT ![i] = EmptyBucket]
             n == h.count - 1
  <2>1. IsHeap(h)  BY DEF Holds
  <2>2. h0 = [h EXCEPT !.pages = p2, !.count = n]  BY <2>1 DEF IsHeap
  <2> HIDE DEF h0, p2, n
  <2>3. IsHeap(h0) /\ h0.pages = p2 /\ h0.warm = h.warm /\ SameRest(h0, h) /\ h0.count = n
    BY <2>1, <2>2 DEF IsHeap, SameRest
  <2>4. h0.pages = [h.pages EXCEPT ![loc[p]] = EmptyBucket]  BY <2>3 DEF p2
  <2> HIDE DEF l0, c0, pr, nx, E
  <2>5. Holds(h0, cap, D \ {p}, Minus(loc, p), Minus(cont, p), Minus(prv, p), Minus(nxt, p), head)
    BY <2>3, <2>4, ClearKeeps
  <2> QED  BY <2>3, <2>5 DEF l0, c0, pr, nx, E, n
<1>7. \A q \in E : l0[q] = loc[q] /\ l0[q] # i  BY <1>3 DEF Minus
<1> HIDE DEF h0, l0, c0, pr, nx, i
<1>8. Occupied(E, l0) \cup {i} = Occupied(D, loc) /\ i \notin Occupied(E, l0)
  BY <1>7 DEF Occupied, i
<1> HIDE DEF start
<1>9. Scanning(cap, i, E, c0, pr, nx, head, h0, e, start, 0, l0)
  <2>1. start.h = h0 /\ start.hole = i /\ start.ended = FALSE
        /\ start = [h |-> start.h, hole |-> start.hole, ended |-> start.ended]
    BY DEF start
  <2>2. e # i /\ e \notin Occupied(E, l0)  BY <1>5, <1>8
  <2>3. Dist(cap, i, i) = 0 /\ Ahead(cap, i, 0) = i  BY <1>4 DEF Dist, Ahead
  <2>4. \A j \in 0..0 : j = 0  OBVIOUS
  <2>5. \A q \in E : Path(cap, q, l0[q]) \subseteq Occupied(E, l0) \cup {i}
    BY <1>7, <1>8 DEF Findable
  <2>6. ASSUME NEW q \in E, Dist(cap, i, l0[q]) <= 0 PROVE i \notin Path(cap, q, l0[q])
    <3>1. l0[q] \in 0..(cap - 1) /\ l0[q] # i  BY <1>3, <1>7
    <3>2. Dist(cap, i, l0[q]) \in 0..(cap - 1) /\ Ahead(cap, i, Dist(cap, i, l0[q])) = l0[q]
      BY <1>4, <3>1, RingType
    <3>3. Dist(cap, i, l0[q]) = 0  BY <2>6, <3>2
    <3> QED  BY <3>1, <3>2, <3>3, <2>3
  <2>7. SameRest(h0, h0)  BY DEF SameRest
  <2> HIDE DEF E
  <2> DEFINE w == start
  <2> HIDE DEF w
  <2>8. w.h = h0 /\ w.hole = i /\ w.ended = FALSE /\ w = [h |-> w.h, hole |-> w.hole, ended |-> w.ended]
    BY <2>1 DEF w
  <2>9. Holds(w.h, cap, E, l0, c0, pr, nx, head) /\ SameRest(w.h, h0) /\ w.h.count = h0.count
    BY <2>7, <2>8, <1>6
  <2>10. /\ w.hole \in 0..(cap - 1) /\ w.hole \notin Occupied(E, l0)
         /\ e # w.hole /\ e \notin Occupied(E, l0) /\ Dist(cap, i, w.hole) <= 0
    BY <2>2, <2>3, <2>8, <1>4, <1>8
  <2>11. \A j \in 0..0 : Ahead(cap, i, j) \in Occupied(E, l0) \cup {w.hole}
    BY <2>3, <2>4, <2>8
  <2>12. /\ \A q \in E : Path(cap, q, l0[q]) \subseteq Occupied(E, l0) \cup {w.hole}
         /\ \A q \in E : Dist(cap, i, l0[q]) <= 0 => w.hole \notin Path(cap, q, l0[q])
    BY <2>5, <2>6, <2>8
  <2>13. Scanning(cap, i, E, c0, pr, nx, head, h0, e, w, 0, l0)
    BY <2>8, <2>9, <2>10, <2>11, <2>12, <1>5 DEF Scanning
  <2> QED  BY <2>13 DEF w
<1> DEFINE Good(k, w) == \E at : Scanning(cap, i, E, c0, pr, nx, head, h0, e, w, k, at)
           T == {m \in Nat : m <= cap - 1 => \E f : Runs(m, f) /\ Good(m, f[m])}
<1> HIDE DEF E, g
<1>10. 0 \in T
  <2> DEFINE f == [k \in 0..0 |-> start]
  <2>1. f = [k \in 0..0 |-> IF k = 0 THEN start ELSE BackShift(f[k - 1], cap, (i + k) % cap)]
    <3>1. \A k \in 0..0 : k = 0  OBVIOUS
    <3> QED  BY <3>1
  <2>2. f[0] = start  OBVIOUS
  <2> HIDE DEF f
  <2>3. Runs(0, f) /\ Good(0, f[0])  BY <2>1, <2>2, <1>9
  <2> QED  BY <2>3
<1>11. ASSUME NEW m \in Nat, m \in T PROVE m + 1 \in T
  <2> SUFFICES ASSUME m + 1 <= cap - 1 PROVE \E f : Runs(m + 1, f) /\ Good(m + 1, f[m + 1])
    OBVIOUS
  <2>1. PICK f : Runs(m, f) /\ Good(m, f[m])
    <3>1. m <= cap - 1  BY <1>2
    <3> QED  BY <3>1, <1>11
  <2> DEFINE n == m + 1
             next == BackShift(f[m], cap, (i + n) % cap)
             f2 == [k \in 0..n |-> IF k = n THEN next ELSE f[k]]
  <2>2. n \in 1..(cap - 1) /\ n - 1 = m  BY <1>2
  <2>3. PICK at : Scanning(cap, i, E, c0, pr, nx, head, h0, e, f[m], m, at)  BY <2>1
  <2>4. Good(n, next)
    <3> DEFINE w == f[m]
    <3>1. Scanning(cap, i, E, c0, pr, nx, head, h0, e, w, n - 1, at)  BY <2>2, <2>3
    <3> HIDE DEF n, w
    <3>2. \E a : Scanning(cap, i, E, c0, pr, nx, head, h0, e, BackShift(w, cap, (i + n) % cap), n, a)
      BY <2>2, <1>4, <3>1, ScanStep
    <3> QED  BY <3>2 DEF w
  <2>5. f2[n] = next  BY <2>2
  <2>6. Runs(n, f2)
    <3>1. \A k \in 0..m : f[k] = IF k = 0 THEN start ELSE BackShift(f[k - 1], cap, (i + k) % cap)
      BY <2>1
    <3>2. \A k \in 0..m : f2[k] = f[k]  BY <2>2
    <3> HIDE DEF next
    <3>3. ASSUME NEW k \in 0..n
          PROVE  f2[k] = IF k = 0 THEN start ELSE BackShift(f2[k - 1], cap, (i + k) % cap)
      <4>1. CASE k = n
        <5>1. k # 0 /\ k - 1 = m /\ m \in 0..m  BY <4>1, <2>2
        <5>2. f2[k - 1] = f[m]  BY <5>1, <3>2
        <5> QED  BY <5>1, <5>2, <4>1, <2>5 DEF next
      <4>2. CASE k # n
        <5>1. k \in 0..m /\ (k # 0 => k - 1 \in 0..m)  BY <4>2, <2>2
        <5> QED  BY <5>1, <3>1, <3>2
      <4> QED  BY <4>1, <4>2
    <3>4. f2 = [k \in 0..n |-> f2[k]]  OBVIOUS
    <3> HIDE DEF f2
    <3> QED  BY <3>3, <3>4
  <2> HIDE DEF f2, next
  <2> QED  BY <2>4, <2>5, <2>6
<1>12. cap - 1 \in T
  <2>1. Nat \subseteq T
    <3> HIDE DEF T
    <3> QED  BY <1>10, <1>11, SetInduction
  <2>2. cap - 1 \in Nat  BY <1>4
  <2> QED  BY <2>1, <2>2
<1> DEFINE last == cap - 1
           walk == CHOOSE f : Runs(last, f)
<1>13. last \in Nat /\ last <= cap - 1  BY <1>4
<1>14. PICK f : Runs(last, f) /\ Good(last, f[last])  BY <1>12, <1>13
<1>15. \A f1, f3 : Runs(last, f1) /\ Runs(last, f3) => f1 = f3
  <2> SUFFICES ASSUME NEW f1, NEW f3, Runs(last, f1), Runs(last, f3) PROVE f1 = f3  OBVIOUS
  <2> DEFINE U == {k \in Nat : k <= last => f1[k] = f3[k]}
  <2>1. \A k \in 0..last : /\ f1[k] = IF k = 0 THEN start ELSE BackShift(f1[k - 1], cap, (i + k) % cap)
                           /\ f3[k] = IF k = 0 THEN start ELSE BackShift(f3[k - 1], cap, (i + k) % cap)
    BY Zenon
  <2>2. 0 \in U  BY <2>1, <1>13
  <2>3. ASSUME NEW k \in Nat, k \in U PROVE k + 1 \in U
    <3> SUFFICES ASSUME k + 1 <= last PROVE f1[k + 1] = f3[k + 1]  OBVIOUS
    <3>1. k + 1 \in 0..last /\ k + 1 # 0 /\ (k + 1) - 1 = k /\ k <= last  BY <1>13
    <3> QED  BY <3>1, <2>1, <2>3
  <2>4. Nat \subseteq U
    <3> HIDE DEF U
    <3> QED  BY <2>2, <2>3, SetInduction
  <2>5. \A k \in 0..last : f1[k] = f3[k]  BY <2>4, <1>13
  <2>6. f1 = [k \in 0..last |-> f1[k]] /\ f3 = [k \in 0..last |-> f3[k]]  OBVIOUS
  <2> QED  BY <2>5, <2>6
<1>16. Runs(last, walk)  BY <1>14
<1>17. walk = f  BY <1>14, <1>15, <1>16
<1>18. g = walk[last].h
  BY <1>2 DEF heap_hash_remove, g, h0, start
<1>19. PICK at : Scanning(cap, i, E, c0, pr, nx, head, h0, e, f[last], last, at)  BY <1>14
<1>20. f[last].ended
  <2> SUFFICES ASSUME ~f[last].ended PROVE FALSE  OBVIOUS
  <2> DEFINE w == f[last]
             j == Dist(cap, i, e)
  <2>1. /\ e # w.hole /\ e \notin Occupied(E, at)
        /\ \A k \in 0..last : Ahead(cap, i, k) \in Occupied(E, at) \cup {w.hole}
    BY <1>19 DEF Scanning
  <2>2. j \in 0..last /\ Ahead(cap, i, j) = e  BY <1>4, <1>5, RingType
  <2> HIDE DEF w, j
  <2> QED  BY <2>1, <2>2
<1>21. /\ Holds(g, cap, E, at, c0, pr, nx, head) /\ Findable(cap, E, at)
       /\ SameRest(g, h0) /\ g.count = h0.count
  BY <1>17, <1>18, <1>19, <1>20 DEF Scanning
<1>22. SameRest(g, h) /\ g.count = h.count - 1  BY <1>6, <1>21 DEF SameRest
<1> QED  BY <1>21, <1>22 DEF E, c0, pr, nx, g, i

------------------------------------------------------------------------------
\* The warm lists as sequences of pages.

\* s is the list of class c.
IsList(D, cont, prv, nxt, hd, c, s) ==
    /\ s \in Seq(D)
    /\ \A j, k \in 1..Len(s) : s[j] = s[k] => j = k
    /\ \A k \in 1..Len(s) : /\ cont[s[k]].cls = c
                            /\ nxt[s[k]] = IF k = Len(s) THEN None ELSE s[k + 1]
                            /\ prv[s[k]] = IF k = 1 THEN None ELSE s[k - 1]
    /\ hd = IF Len(s) = 0 THEN None ELSE s[1]

Unlisted(cont, w, p) == p \notin Listed(w[cont[p].cls])

\* w[c] is the list of class c, and pages in no list have no links.
Lists(D, cont, prv, nxt, head, w) ==
    /\ cont \in [D -> Content] /\ DOMAIN w = Classes /\ None \notin D
    /\ prv \in [D -> D \cup {None}] /\ nxt \in [D -> D \cup {None}]
    /\ head \in [Classes -> D \cup {None}]
    /\ \A c \in Classes : IsList(D, cont, prv, nxt, head[c], c, w[c])
    /\ \A p \in D : Unlisted(cont, w, p) => prv[p] = None /\ nxt[p] = None

\* What the lists say of one page.
LEMMA ListedFacts ==
  ASSUME NEW D, NEW cont, NEW prv, NEW nxt, NEW head, NEW w, NEW p \in D,
         Lists(D, cont, prv, nxt, head, w)
  PROVE  /\ cont[p].cls \in Classes
         /\ Unlisted(cont, w, p) => prv[p] = None /\ nxt[p] = None /\ \A e \in Classes : head[e] # p
         /\ ~Unlisted(cont, w, p) =>
               /\ prv[p] = None => head[cont[p].cls] = p
               /\ nxt[p] # None => cont[nxt[p]].cls = cont[p].cls /\ nxt[p] # prv[p]
         /\ \A e \in Classes : p \in Listed(w[e]) => e = cont[p].cls
<1> DEFINE c == cont[p].cls
<1> USE DEF Lists, IsList
<1>1. c \in Classes  BY DEF Content
<1>2. ASSUME NEW e \in Classes, p \in Listed(w[e]) PROVE e = c
  <2>1. PICK k \in 1..Len(w[e]) : w[e][k] = p  BY <1>2 DEF Listed
  <2> QED  BY <2>1
<1>3. \A e \in Classes : Len(w[e]) \in Nat  OBVIOUS
<1>4. ASSUME Unlisted(cont, w, p), NEW e \in Classes, head[e] = p PROVE FALSE
  <2>1. Len(w[e]) # 0  BY <1>4
  <2>2. 1 \in 1..Len(w[e]) /\ w[e][1] = p  BY <2>1, <1>3, <1>4
  <2>3. p \in Listed(w[e])  BY <2>2 DEF Listed
  <2> QED  BY <2>3, <1>2, <1>4 DEF Unlisted
<1>5. ASSUME ~Unlisted(cont, w, p)
      PROVE  /\ prv[p] = None => head[c] = p
             /\ nxt[p] # None => cont[nxt[p]].cls = c /\ nxt[p] # prv[p]
  <2> DEFINE s == w[c]
  <2>1. PICK k \in 1..Len(s) : s[k] = p  BY <1>5 DEF Unlisted, Listed
  <2>2. /\ s \in Seq(D) /\ Len(s) \in Nat
        /\ \A j, m \in 1..Len(s) : s[j] = s[m] => j = m
        /\ \A m \in 1..Len(s) : /\ cont[s[m]].cls = c
                                /\ nxt[s[m]] = IF m = Len(s) THEN None ELSE s[m + 1]
                                /\ prv[s[m]] = IF m = 1 THEN None ELSE s[m - 1]
        /\ head[c] = IF Len(s) = 0 THEN None ELSE s[1]
    BY <1>1
  <2> HIDE DEF s, Lists, IsList
  <2>3. ASSUME prv[p] = None PROVE head[c] = p
    <3>1. k = 1
      <4> SUFFICES ASSUME k # 1 PROVE FALSE  OBVIOUS
      <4>1. k - 1 \in 1..Len(s) /\ prv[p] = s[k - 1]  BY <2>1, <2>2
      <4>2. s[k - 1] \in D  BY <4>1, <2>2, ElementOfSeq
      <4> QED  BY <4>1, <4>2, <2>3 DEF Lists
    <3> QED  BY <3>1, <2>1, <2>2
  <2>4. ASSUME nxt[p] # None PROVE cont[nxt[p]].cls = c /\ nxt[p] # prv[p]
    <3>1. k + 1 \in 1..Len(s) /\ nxt[p] = s[k + 1]  BY <2>1, <2>2, <2>4
    <3>2. nxt[p] # prv[p]
      <4>1. CASE k = 1  BY <4>1, <2>1, <2>2, <2>4
      <4>2. CASE k # 1
        <5>1. k - 1 \in 1..Len(s) /\ prv[p] = s[k - 1] /\ k - 1 # k + 1  BY <4>2, <2>1, <2>2
        <5> QED  BY <5>1, <3>1, <2>2
      <4> QED  BY <4>1, <4>2
    <3> QED  BY <3>1, <3>2, <2>2
  <2> QED  BY <2>3, <2>4
<1> QED  BY <1>1, <1>2, <1>4, <1>5

\* A list that pushes and unlinks elsewhere do not touch.
LEMMA OtherList ==
  ASSUME NEW D, NEW cont, NEW prv, NEW nxt, NEW pr, NEW nx, NEW hd, NEW c, NEW s,
         IsList(D, cont, prv, nxt, hd, c, s),
         \A q \in Listed(s) : pr[q] = prv[q] /\ nx[q] = nxt[q]
  PROVE  IsList(D, cont, pr, nx, hd, c, s)
<1>1. \A k \in 1..Len(s) : s[k] \in Listed(s)  BY DEF Listed
<1> QED  BY <1>1 DEF IsList

\* A push puts the page before the others of its class.
LEMMA PushLists ==
  ASSUME NEW D, NEW cont, NEW prv, NEW nxt, NEW head, NEW w, NEW p \in D,
         Lists(D, cont, prv, nxt, head, w), Unlisted(cont, w, p)
  PROVE  LET c == cont[p].cls
         IN  Lists(D, cont, PrvPushed(prv, head, c, p), NxtPushed(nxt, head, c, p),
                   [head EXCEPT ![c] = p], [w EXCEPT ![c] = Onto(p, @)])
<1> DEFINE c == cont[p].cls
           s == w[c]
           t == Onto(p, s)
           pr == PrvPushed(prv, head, c, p)
           nx == NxtPushed(nxt, head, c, p)
           h2 == [head EXCEPT ![c] = p]
           w2 == [w EXCEPT ![c] = Onto(p, @)]
<1>1. /\ cont \in [D -> Content] /\ DOMAIN w = Classes /\ None \notin D
      /\ prv \in [D -> D \cup {None}] /\ nxt \in [D -> D \cup {None}]
      /\ head \in [Classes -> D \cup {None}]
      /\ \A e \in Classes : IsList(D, cont, prv, nxt, head[e], e, w[e])
      /\ \A q \in D : Unlisted(cont, w, q) => prv[q] = None /\ nxt[q] = None
  BY DEF Lists
<1>2. /\ c \in Classes /\ prv[p] = None /\ nxt[p] = None /\ head[c] # p
      /\ \A e \in Classes : p \notin Listed(w[e])
  <2> HIDE DEF c, s, t, pr, nx, h2, w2
  <2>1. /\ cont[p].cls \in Classes
        /\ Unlisted(cont, w, p) => prv[p] = None /\ nxt[p] = None /\ \A e \in Classes : head[e] # p
        /\ \A e \in Classes : p \in Listed(w[e]) => e = cont[p].cls
    BY ListedFacts
  <2> QED  BY <2>1 DEF Unlisted, c
<1>3. /\ s \in Seq(D) /\ Len(s) \in Nat
      /\ \A j, k \in 1..Len(s) : s[j] = s[k] => j = k
      /\ \A k \in 1..Len(s) : /\ cont[s[k]].cls = c
                              /\ nxt[s[k]] = IF k = Len(s) THEN None ELSE s[k + 1]
                              /\ prv[s[k]] = IF k = 1 THEN None ELSE s[k - 1]
      /\ head[c] = IF Len(s) = 0 THEN None ELSE s[1]
  BY <1>1, <1>2 DEF IsList
<1>4. \A k \in 1..Len(s) : s[k] \in D /\ s[k] # p
  <2>1. \A k \in 1..Len(s) : s[k] \in Listed(s)  BY DEF Listed
  <2> QED  BY <2>1, <1>2, <1>3, ElementOfSeq
<1>5. /\ \A q \in D : pr[q] = IF q = head[c] THEN p ELSE prv[q]
      /\ \A q \in D : nx[q] = IF q = p THEN head[c] ELSE nxt[q]
      /\ pr \in [D -> D \cup {None}] /\ nx \in [D -> D \cup {None}] /\ h2 \in [Classes -> D \cup {None}]
      /\ \A e \in Classes : h2[e] = IF e = c THEN p ELSE head[e]
  <2>1. head[c] \in D \cup {None}  BY <1>1, <1>2
  <2> QED  BY <1>1, <1>2, <2>1 DEF PrvPushed, NxtPushed
<1> HIDE DEF pr, nx, h2
<1>6. /\ t \in Seq(D) /\ Len(t) = Len(s) + 1 /\ t[1] = p
      /\ \A k \in 2..(Len(s) + 1) : t[k] = s[k - 1]
      /\ Listed(t) = Listed(s) \cup {p}
  <2> HIDE DEF c, s, t, w2
  <2>1. s \in Seq(D) /\ p \in D  BY <1>3
  <2>2. Onto(p, s) \in Seq(D) /\ Len(Onto(p, s)) = Len(s) + 1 /\ Onto(p, s)[1] = p
    BY <2>1, OntoProps
  <2>3. \A k \in 2..(Len(s) + 1) : Onto(p, s)[k] = s[k - 1]
    BY <2>1, OntoProps
  <2>4. Listed(Onto(p, s)) = Listed(s) \cup {p}
    BY <2>1, OntoProps
  <2> QED  BY <2>2, <2>3, <2>4 DEF t
<1>7. DOMAIN w2 = Classes /\ w2[c] = t /\ \A e \in Classes : e # c => w2[e] = w[e]
  BY <1>1, <1>2
<1> HIDE DEF t, w2
<1>8. IsList(D, cont, pr, nx, h2[c], c, t)
  <2> HIDE DEF s, c
  <2>1. ASSUME NEW j \in 1..Len(t), NEW k \in 1..Len(t), t[j] = t[k] PROVE j = k
    <3>1. j \in Nat /\ k \in Nat /\ (j # 1 => j \in 2..(Len(s) + 1) /\ j - 1 \in 1..Len(s))
          /\ (k # 1 => k \in 2..(Len(s) + 1) /\ k - 1 \in 1..Len(s))
      BY <1>3, <1>6
    <3>2. CASE j = 1 /\ k = 1  BY <3>2
    <3>3. CASE j = 1 /\ k # 1  BY <3>1, <3>3, <2>1, <1>4, <1>6
    <3>4. CASE j # 1 /\ k = 1  BY <3>1, <3>4, <2>1, <1>4, <1>6
    <3>5. CASE j # 1 /\ k # 1
      <4>1. j - 1 = k - 1  BY <3>1, <3>5, <2>1, <1>3, <1>6
      <4> QED  BY <4>1, <3>1
    <3> QED  BY <3>2, <3>3, <3>4, <3>5
  <2>2. ASSUME NEW k \in 1..Len(t)
        PROVE  /\ cont[t[k]].cls = c
               /\ nx[t[k]] = IF k = Len(t) THEN None ELSE t[k + 1]
               /\ pr[t[k]] = IF k = 1 THEN None ELSE t[k - 1]
    <3>1. CASE k = 1
      <4>1. t[k] = p  BY <3>1, <1>6
      <4>2. nx[p] = head[c] /\ pr[p] = None  BY <1>2, <1>5
      <4>3. head[c] = IF k = Len(t) THEN None ELSE t[k + 1]
        <5>1. CASE Len(s) = 0  BY <5>1, <3>1, <1>3, <1>6
        <5>2. CASE Len(s) # 0
          <6>1. 2 \in 2..(Len(s) + 1)  BY <5>2, <1>3
          <6>2. t[2] = s[1]  BY <6>1, <1>6
          <6> QED  BY <6>2, <5>2, <3>1, <1>3, <1>6
        <5> QED  BY <5>1, <5>2
      <4> QED  BY <4>1, <4>2, <4>3, <3>1 DEF c
    <3>2. CASE k # 1
      <4> DEFINE m == k - 1
                 q == s[m]
      <4>1. m \in 1..Len(s) /\ k \in 2..(Len(s) + 1) /\ k = m + 1  BY <3>2, <1>3, <1>6
      <4>2. t[k] = q /\ q \in D /\ q # p  BY <4>1, <1>4, <1>6
      <4>3. /\ cont[q].cls = c
            /\ nxt[q] = IF m = Len(s) THEN None ELSE s[m + 1]
            /\ prv[q] = IF m = 1 THEN None ELSE s[m - 1]
        BY <4>1, <1>3
      <4>4. q = head[c] <=> m = 1
        <5>1. 1 \in 1..Len(s) /\ head[c] = s[1]  BY <4>1, <1>3
        <5> QED  BY <5>1, <4>1, <1>3
      <4>5. nx[q] = IF k = Len(t) THEN None ELSE t[k + 1]
        <5>1. nx[q] = nxt[q]  BY <4>2, <1>5
        <5>2. k # Len(t) => k + 1 \in 2..(Len(s) + 1) /\ (k + 1) - 1 = k  BY <4>1, <1>3, <1>6
        <5>3. k # Len(t) => t[k + 1] = s[k]  BY <5>2, <1>6
        <5>4. m = Len(s) <=> k = Len(t)  BY <4>1, <1>3, <1>6
        <5> HIDE DEF m, q
        <5> QED  BY <5>1, <5>3, <5>4, <4>1, <4>3
      <4>6. pr[q] = IF k = 1 THEN None ELSE t[k - 1]
        <5>1. CASE m = 1
          <6>1. k - 1 = 1 /\ k # 1  BY <4>1, <5>1
          <6>2. pr[q] = p  BY <4>2, <4>4, <5>1, <1>5
          <6> QED  BY <6>1, <6>2, <1>6
        <5>2. CASE m # 1
          <6>1. pr[q] = s[m - 1]  BY <4>2, <4>3, <4>4, <5>2, <1>5
          <6>2. m \in 2..(Len(s) + 1) /\ k # 1  BY <4>1, <5>2, <1>3
          <6>3. t[m] = s[m - 1]  BY <6>2, <1>6
          <6> QED  BY <6>1, <6>2, <6>3
        <5> QED  BY <5>1, <5>2
      <4> QED  BY <4>2, <4>3, <4>5, <4>6
    <3> QED  BY <3>1, <3>2
  <2>3. h2[c] = IF Len(t) = 0 THEN None ELSE t[1]  BY <1>2, <1>3, <1>5, <1>6
  <2> QED  BY <2>1, <2>2, <2>3, <1>6 DEF IsList
<1>9. ASSUME NEW e \in Classes, e # c PROVE IsList(D, cont, pr, nx, h2[e], e, w[e])
  <2>1. IsList(D, cont, prv, nxt, head[e], e, w[e]) /\ h2[e] = head[e]  BY <1>1, <1>5, <1>9
  <2>2. ASSUME NEW q \in Listed(w[e]) PROVE pr[q] = prv[q] /\ nx[q] = nxt[q]
    <3>1. PICK k \in 1..Len(w[e]) : w[e][k] = q  BY DEF Listed
    <3>2. q \in D /\ cont[q].cls = e  BY <3>1, <2>1, ElementOfSeq DEF IsList
    <3>3. q # p /\ q # head[c]
      <4>1. Len(s) # 0 => 1 \in 1..Len(s)  BY <1>3
      <4>2. head[c] # None => cont[head[c]].cls = c  BY <4>1, <1>3
      <4> QED  BY <3>2, <4>2, <1>1, <1>9
    <3> QED  BY <3>2, <3>3, <1>5
  <2> QED  BY <2>1, <2>2, OtherList
<1>10. ASSUME NEW q \in D, Unlisted(cont, w2, q) PROVE pr[q] = None /\ nx[q] = None
  <2> DEFINE e == cont[q].cls
  <2>1. e \in Classes  BY <1>1 DEF Content
  <2>2. q # p  BY <1>2, <1>6, <1>7, <1>10 DEF Unlisted
  <2>3. Unlisted(cont, w, q)
    <3>1. CASE e = c  BY <3>1, <1>6, <1>7, <1>10 DEF Unlisted
    <3>2. CASE e # c  BY <3>2, <2>1, <1>7, <1>10 DEF Unlisted
    <3> QED  BY <3>1, <3>2
  <2>4. q # head[c]  BY <2>3, <1>2, ListedFacts
  <2> QED  BY <2>2, <2>3, <2>4, <1>1, <1>5
<1>11. \A e \in Classes : IsList(D, cont, pr, nx, h2[e], e, w2[e])
  <2> SUFFICES ASSUME NEW e \in Classes PROVE IsList(D, cont, pr, nx, h2[e], e, w2[e])  OBVIOUS
  <2> HIDE DEF c
  <2>1. CASE e = c  BY <2>1, <1>7, <1>8
  <2>2. CASE e # c  BY <2>2, <1>7, <1>9
  <2> QED  BY <2>1, <2>2
<1>12. Lists(D, cont, pr, nx, h2, w2)
  <2> HIDE DEF c, s
  <2> QED  BY <1>1, <1>5, <1>7, <1>10, <1>11 DEF Lists
<1> QED  BY <1>12 DEF pr, nx, h2, w2

\* An unlink takes the i-th page out of the list of its class.
LEMMA UnlinkLists ==
  ASSUME NEW D, NEW cont, NEW prv, NEW nxt, NEW head, NEW w, NEW c \in Classes,
         NEW i \in 1..Len(w[c]), Lists(D, cont, prv, nxt, head, w), NEW p, p = w[c][i]
  PROVE  Lists(D, cont, PrvUnlinked(prv, nxt, p), PrvUnlinked(nxt, prv, p),
               HeadUnlinked(head, prv, nxt, c, p), [w EXCEPT ![c] = Cut(@, i)])
<1> DEFINE s == w[c]
           t == Cut(s, i)
           pr == PrvUnlinked(prv, nxt, p)
           nx == PrvUnlinked(nxt, prv, p)
           h2 == HeadUnlinked(head, prv, nxt, c, p)
           w2 == [w EXCEPT ![c] = Cut(@, i)]
<1>1. /\ cont \in [D -> Content] /\ DOMAIN w = Classes /\ None \notin D
      /\ prv \in [D -> D \cup {None}] /\ nxt \in [D -> D \cup {None}]
      /\ head \in [Classes -> D \cup {None}]
      /\ \A e \in Classes : IsList(D, cont, prv, nxt, head[e], e, w[e])
      /\ \A q \in D : Unlisted(cont, w, q) => prv[q] = None /\ nxt[q] = None
  BY DEF Lists
<1>2. /\ s \in Seq(D) /\ Len(s) \in Nat
      /\ \A j, k \in 1..Len(s) : s[j] = s[k] => j = k
      /\ \A k \in 1..Len(s) : /\ cont[s[k]].cls = c
                              /\ nxt[s[k]] = IF k = Len(s) THEN None ELSE s[k + 1]
                              /\ prv[s[k]] = IF k = 1 THEN None ELSE s[k - 1]
      /\ head[c] = IF Len(s) = 0 THEN None ELSE s[1]
  BY <1>1 DEF IsList
<1>3. i \in 1..Len(s) /\ p = s[i]  OBVIOUS
<1>4. \A k \in 1..Len(s) : s[k] \in D  BY <1>2, ElementOfSeq
<1>5. /\ p \in D /\ prv[p] \in D \cup {None} /\ nxt[p] \in D \cup {None} /\ cont[p].cls = c
      /\ nxt[p] = IF i = Len(s) THEN None ELSE s[i + 1]
      /\ prv[p] = IF i = 1 THEN None ELSE s[i - 1]
  BY <1>1, <1>2, <1>3, <1>4
<1>6. /\ \A q \in D : pr[q] = IF q = p THEN None ELSE IF q = nxt[p] THEN prv[p] ELSE prv[q]
      /\ \A q \in D : nx[q] = IF q = p THEN None ELSE IF q = prv[p] THEN nxt[p] ELSE nxt[q]
      /\ pr \in [D -> D \cup {None}] /\ nx \in [D -> D \cup {None}] /\ h2 \in [Classes -> D \cup {None}]
      /\ h2[c] = IF prv[p] = None THEN nxt[p] ELSE head[c]
      /\ \A e \in Classes : e # c => h2[e] = head[e]
  BY <1>1, <1>5 DEF PrvUnlinked, HeadUnlinked
<1> HIDE DEF pr, nx, h2
<1>7. /\ t \in Seq(D) /\ Len(t) = Len(s) - 1
      /\ \A k \in 1..(Len(s) - 1) : t[k] = IF k < i THEN s[k] ELSE s[k + 1]
      /\ Listed(t) = Listed(s) \ {p}
  <2> HIDE DEF s, t
  <2>1. s \in Seq(D) /\ i \in 1..Len(s) /\ \A j, k \in 1..Len(s) : s[j] = s[k] => j = k
    BY <1>2, <1>3
  <2>2. /\ Cut(s, i) \in Seq(D) /\ Len(Cut(s, i)) = Len(s) - 1
        /\ \A k \in 1..(Len(s) - 1) : Cut(s, i)[k] = IF k < i THEN s[k] ELSE s[k + 1]
        /\ Listed(Cut(s, i)) = Listed(s) \ {s[i]}
    BY <2>1, CutProps, ZenonT(60)
  <2> QED  BY <2>2, <1>3 DEF t
<1>8. DOMAIN w2 = Classes /\ w2[c] = t /\ \A e \in Classes : e # c => w2[e] = w[e]
  BY <1>1
<1> HIDE DEF s, t, w2
<1>9. i \in Nat /\ i >= 1 /\ i <= Len(s)  BY <1>2, <1>3
<1>10. /\ \A k \in 1..Len(s) : s[k] = p <=> k = i
       /\ \A k \in 1..Len(s) : s[k] = nxt[p] <=> k = i + 1
       /\ \A k \in 1..Len(s) : s[k] = prv[p] <=> k = i - 1
  <2>1. i # Len(s) => i + 1 \in 1..Len(s)  BY <1>2, <1>9
  <2>2. i # 1 => i - 1 \in 1..Len(s)  BY <1>2, <1>9
  <2>3. \A k \in 1..Len(s) : s[k] = p <=> k = i  BY <1>2, <1>3
  <2>4. ASSUME NEW k \in 1..Len(s) PROVE s[k] = nxt[p] <=> k = i + 1
    <3>1. CASE i = Len(s)  BY <3>1, <1>1, <1>2, <1>4, <1>5
    <3>2. CASE i # Len(s)  BY <3>2, <2>1, <1>2, <1>5
    <3> QED  BY <3>1, <3>2
  <2>5. ASSUME NEW k \in 1..Len(s) PROVE s[k] = prv[p] <=> k = i - 1
    <3>1. CASE i = 1  BY <3>1, <1>1, <1>2, <1>4, <1>5
    <3>2. CASE i # 1  BY <3>2, <2>2, <1>2, <1>5
    <3> QED  BY <3>1, <3>2
  <2> QED  BY <2>3, <2>4, <2>5
<1>11. IsList(D, cont, pr, nx, h2[c], c, t)
  <2>1. ASSUME NEW j \in 1..Len(t), NEW k \in 1..Len(t), t[j] = t[k] PROVE j = k
    <3> DEFINE a == IF j < i THEN j ELSE j + 1
               b == IF k < i THEN k ELSE k + 1
    <3>1. a \in 1..Len(s) /\ b \in 1..Len(s) /\ t[j] = s[a] /\ t[k] = s[b]  BY <1>2, <1>7, <1>9
    <3>2. a = b
      <4> HIDE DEF a, b
      <4>1. \A m, n \in 1..Len(s) : s[m] = s[n] => m = n  BY <1>2
      <4>2. s[a] = s[b]  BY <3>1, <2>1
      <4> QED  BY <3>1, <4>1, <4>2
    <3> QED  BY <3>2, <1>9
  <2>2. ASSUME NEW k \in 1..Len(t)
        PROVE  /\ cont[t[k]].cls = c
               /\ nx[t[k]] = IF k = Len(t) THEN None ELSE t[k + 1]
               /\ pr[t[k]] = IF k = 1 THEN None ELSE t[k - 1]
    <3> DEFINE a == IF k < i THEN k ELSE k + 1
               q == s[a]
    <3>1. a \in 1..Len(s) /\ a # i /\ k \in 1..(Len(s) - 1)  BY <1>2, <1>7, <1>9
    <3>2. t[k] = q  BY <3>1, <1>7
    <3>3. k # Len(t) => t[k + 1] = IF k + 1 < i THEN s[k + 1] ELSE s[k + 2]
      <4>1. k # Len(t) => k + 1 \in 1..(Len(s) - 1) /\ (k + 1) + 1 = k + 2  BY <3>1, <1>2, <1>7
      <4> QED  BY <4>1, <1>7
    <3>4. k # 1 => t[k - 1] = IF k - 1 < i THEN s[k - 1] ELSE s[k]
      <4>1. k # 1 => k - 1 \in 1..(Len(s) - 1) /\ (k - 1) + 1 = k  BY <3>1, <1>2, <1>7
      <4> QED  BY <4>1, <1>7
    <3> HIDE DEF q
    <3>5. /\ q \in D /\ q # p /\ cont[q].cls = c
          /\ nxt[q] = IF a = Len(s) THEN None ELSE s[a + 1]
          /\ prv[q] = IF a = 1 THEN None ELSE s[a - 1]
          /\ q = nxt[p] <=> a = i + 1
          /\ q = prv[p] <=> a = i - 1
      <4> HIDE DEF a
      <4> QED  BY <3>1, <1>2, <1>4, <1>10 DEF q
    <3>6. nx[q] = IF k = Len(t) THEN None ELSE t[k + 1]
      <4>1. CASE a = i - 1
        <5>1. k = i - 1 /\ k + 1 = i /\ k + 2 = i + 1  BY <4>1, <3>1, <1>9
        <5>2. nx[q] = IF i = Len(s) THEN None ELSE s[i + 1]  BY <4>1, <3>5, <1>5, <1>6
        <5>3. k = Len(t) <=> i = Len(s)  BY <5>1, <1>2, <1>7, <1>9
        <5> QED  BY <5>1, <5>2, <5>3, <3>3, <1>9
      <4>2. CASE a # i - 1
        <5>1. nx[q] = IF a = Len(s) THEN None ELSE s[a + 1]  BY <4>2, <3>5, <1>6
        <5>2. CASE k < i
          <6>1. a = k /\ k + 1 < i /\ a # Len(s) /\ k # Len(t)  BY <4>2, <5>2, <3>1, <1>2, <1>7, <1>9
          <6> QED  BY <6>1, <5>1, <3>3
        <5>3. CASE ~(k < i)
          <6>1. a = k + 1 /\ ~(k + 1 < i) /\ a + 1 = k + 2 /\ (a = Len(s) <=> k = Len(t))
            BY <5>3, <3>1, <1>2, <1>7, <1>9
          <6> QED  BY <6>1, <5>1, <3>3
        <5> QED  BY <5>2, <5>3
      <4> QED  BY <4>1, <4>2
    <3>7. pr[q] = IF k = 1 THEN None ELSE t[k - 1]
      <4>1. CASE a = i + 1
        <5>1. k = i /\ k - 1 = i - 1 /\ k - 1 < i  BY <4>1, <3>1, <1>9
        <5>2. pr[q] = IF i = 1 THEN None ELSE s[i - 1]  BY <4>1, <3>5, <1>5, <1>6
        <5> QED  BY <5>1, <5>2, <3>4
      <4>2. CASE a # i + 1
        <5>1. pr[q] = IF a = 1 THEN None ELSE s[a - 1]  BY <4>2, <3>5, <1>6
        <5>2. CASE k < i
          <6>1. a = k /\ k - 1 < i  BY <5>2, <3>1, <1>9
          <6> QED  BY <6>1, <5>1, <3>4
        <5>3. CASE ~(k < i)
          <6>1. a = k + 1 /\ ~(k - 1 < i) /\ a - 1 = k /\ a # 1 /\ k # 1
            BY <4>2, <5>3, <3>1, <1>9
          <6> QED  BY <6>1, <5>1, <3>4
        <5> QED  BY <5>2, <5>3
      <4> QED  BY <4>1, <4>2
    <3> QED  BY <3>2, <3>5, <3>6, <3>7
  <2>3. h2[c] = IF Len(t) = 0 THEN None ELSE t[1]
    <3>1. prv[p] = None <=> i = 1
      <4>1. i # 1 => i - 1 \in 1..Len(s)  BY <1>2, <1>9
      <4> QED  BY <4>1, <1>1, <1>4, <1>5
    <3>2. Len(t) # 0 => 1 \in 1..(Len(s) - 1)  BY <1>2, <1>7, <1>9
    <3>3. CASE i = 1
      <4>1. h2[c] = IF 1 = Len(s) THEN None ELSE s[2]  BY <3>1, <3>3, <1>5, <1>6
      <4>2. Len(t) # 0 => t[1] = s[2]  BY <3>2, <3>3, <1>7
      <4>3. Len(t) = 0 <=> 1 = Len(s)  BY <1>2, <1>7
      <4> QED  BY <4>1, <4>2, <4>3
    <3>4. CASE i # 1
      <4>1. h2[c] = s[1]  BY <3>1, <3>4, <1>2, <1>6, <1>9
      <4>2. Len(t) # 0 /\ 1 < i  BY <3>4, <1>2, <1>7, <1>9
      <4> QED  BY <4>1, <4>2, <3>2, <1>7
    <3> QED  BY <3>3, <3>4
  <2> QED  BY <2>1, <2>2, <2>3, <1>7 DEF IsList
<1>12. /\ nxt[p] # None => nxt[p] \in Listed(s) /\ cont[nxt[p]].cls = c
       /\ prv[p] # None => prv[p] \in Listed(s) /\ cont[prv[p]].cls = c
  <2>1. i # Len(s) => i + 1 \in 1..Len(s)  BY <1>2, <1>9
  <2>2. i # 1 => i - 1 \in 1..Len(s)  BY <1>2, <1>9
  <2> QED  BY <2>1, <2>2, <1>2, <1>5 DEF Listed
<1>13. ASSUME NEW e \in Classes, e # c PROVE IsList(D, cont, pr, nx, h2[e], e, w[e])
  <2>1. IsList(D, cont, prv, nxt, head[e], e, w[e]) /\ h2[e] = head[e]  BY <1>1, <1>6, <1>13
  <2>2. ASSUME NEW q \in Listed(w[e]) PROVE pr[q] = prv[q] /\ nx[q] = nxt[q]
    <3>1. PICK k \in 1..Len(w[e]) : w[e][k] = q  BY DEF Listed
    <3>2. q \in D /\ cont[q].cls = e  BY <3>1, <2>1, ElementOfSeq DEF IsList
    <3>3. q # p /\ q # nxt[p] /\ q # prv[p]  BY <3>2, <1>1, <1>5, <1>12, <1>13
    <3> QED  BY <3>2, <3>3, <1>6
  <2> QED  BY <2>1, <2>2, OtherList
<1>14. ASSUME NEW q \in D, Unlisted(cont, w2, q) PROVE pr[q] = None /\ nx[q] = None
  <2> DEFINE e == cont[q].cls
  <2>1. e \in Classes  BY <1>1 DEF Content
  <2>2. CASE q = p  BY <2>2, <1>6
  <2>3. CASE q # p
    <3>1. Unlisted(cont, w, q)
      <4>1. CASE e = c  BY <4>1, <2>3, <1>7, <1>8, <1>14 DEF Unlisted, s
      <4>2. CASE e # c  BY <4>2, <2>1, <1>8, <1>14 DEF Unlisted
      <4> QED  BY <4>1, <4>2
    <3>2. q # nxt[p] /\ q # prv[p]
      <4>1. q \in Listed(s) => e = c  BY <1>2 DEF Listed
      <4>2. q \notin Listed(s)
        <5> SUFFICES ASSUME q \in Listed(s) PROVE FALSE  OBVIOUS
        <5>1. PICK k \in 1..Len(s) : s[k] = q  BY DEF Listed
        <5>2. e = c  BY <5>1, <1>2
        <5> QED  BY <5>2, <3>1 DEF Unlisted, s
      <4> QED  BY <4>2, <1>1, <1>12
    <3> QED  BY <2>3, <3>1, <3>2, <1>1, <1>6
  <2> QED  BY <2>2, <2>3
<1>15. \A e \in Classes : IsList(D, cont, pr, nx, h2[e], e, w2[e])
  <2> SUFFICES ASSUME NEW e \in Classes PROVE IsList(D, cont, pr, nx, h2[e], e, w2[e])  OBVIOUS
  <2>1. CASE e = c  BY <2>1, <1>8, <1>11
  <2>2. CASE e # c  BY <2>2, <1>8, <1>13
  <2> QED  BY <2>1, <2>2
<1>16. Lists(D, cont, pr, nx, h2, w2)
  BY <1>1, <1>6, <1>8, <1>14, <1>15 DEF Lists
<1> QED  BY <1>16 DEF pr, nx, h2, w2

\* A page in no list can leave.
LEMMA ClearLists ==
  ASSUME NEW D, NEW cont, NEW prv, NEW nxt, NEW head, NEW w, NEW p \in D,
         Lists(D, cont, prv, nxt, head, w), Unlisted(cont, w, p)
  PROVE  Lists(D \ {p}, Minus(cont, p), Minus(prv, p), Minus(nxt, p), head, w)
<1> DEFINE E == D \ {p}
           c2 == Minus(cont, p)
           pr == Minus(prv, p)
           nx == Minus(nxt, p)
<1>1. /\ cont \in [D -> Content] /\ DOMAIN w = Classes /\ None \notin D
      /\ prv \in [D -> D \cup {None}] /\ nxt \in [D -> D \cup {None}]
      /\ head \in [Classes -> D \cup {None}]
      /\ \A e \in Classes : IsList(D, cont, prv, nxt, head[e], e, w[e])
      /\ \A q \in D : Unlisted(cont, w, q) => prv[q] = None /\ nxt[q] = None
  BY DEF Lists
<1>2. /\ prv[p] = None /\ nxt[p] = None /\ \A e \in Classes : head[e] # p
      /\ \A e \in Classes : p \notin Listed(w[e])
  <2>1. /\ Unlisted(cont, w, p) => prv[p] = None /\ nxt[p] = None /\ \A e \in Classes : head[e] # p
        /\ \A e \in Classes : p \in Listed(w[e]) => e = cont[p].cls
    BY ListedFacts
  <2> QED  BY <2>1 DEF Unlisted
<1>3. /\ c2 \in [E -> Content] /\ \A q \in E : c2[q] = cont[q] /\ pr[q] = prv[q] /\ nx[q] = nxt[q]
      /\ DOMAIN pr = E /\ DOMAIN nx = E /\ pr = [q \in E |-> pr[q]] /\ nx = [q \in E |-> nx[q]]
  BY <1>1 DEF Minus
<1> HIDE DEF c2, pr, nx
<1>4. ASSUME NEW e \in Classes
      PROVE  /\ IsList(E, c2, pr, nx, head[e], e, w[e])
             /\ \A q \in Listed(w[e]) : q \in E /\ prv[q] \in E \cup {None} /\ nxt[q] \in E \cup {None}
  <2> DEFINE s == w[e]
  <2>1. /\ s \in Seq(D) /\ Len(s) \in Nat
        /\ \A j, k \in 1..Len(s) : s[j] = s[k] => j = k
        /\ \A k \in 1..Len(s) : /\ cont[s[k]].cls = e
                                /\ nxt[s[k]] = IF k = Len(s) THEN None ELSE s[k + 1]
                                /\ prv[s[k]] = IF k = 1 THEN None ELSE s[k - 1]
        /\ head[e] = IF Len(s) = 0 THEN None ELSE s[1]
    BY <1>1 DEF IsList
  <2>2. p \notin Listed(s)  BY <1>2
  <2> HIDE DEF s
  <2>3. \A k \in 1..Len(s) : s[k] \in E /\ s[k] \in Listed(s)
    BY <2>1, <2>2, ElementOfSeq DEF Listed
  <2>4. s \in Seq(E)
    <3>1. s = [k \in 1..Len(s) |-> s[k]]  BY <2>1
    <3>2. s \in [1..Len(s) -> E]  BY <2>3, <3>1
    <3>3. \E n \in Nat : s \in [1..n -> E]  BY <2>1, <3>2
    <3> QED  BY <3>3, SeqDef
  <2>5. ASSUME NEW k \in 1..Len(s)
        PROVE  /\ c2[s[k]].cls = e
               /\ nx[s[k]] = IF k = Len(s) THEN None ELSE s[k + 1]
               /\ pr[s[k]] = IF k = 1 THEN None ELSE s[k - 1]
               /\ prv[s[k]] \in E \cup {None} /\ nxt[s[k]] \in E \cup {None}
    <3>1. c2[s[k]] = cont[s[k]] /\ pr[s[k]] = prv[s[k]] /\ nx[s[k]] = nxt[s[k]]  BY <1>3, <2>3
    <3>2. k # Len(s) => k + 1 \in 1..Len(s)  BY <2>1
    <3>3. k # 1 => k - 1 \in 1..Len(s)  BY <2>1
    <3> QED  BY <2>1, <2>3, <3>1, <3>2, <3>3
  <2>6. IsList(E, c2, pr, nx, head[e], e, s)  BY <2>1, <2>4, <2>5 DEF IsList
  <2>7. ASSUME NEW q \in Listed(s)
        PROVE  q \in E /\ prv[q] \in E \cup {None} /\ nxt[q] \in E \cup {None}
    <3>1. PICK k \in 1..Len(s) : q = s[k]  BY DEF Listed
    <3> QED  BY <3>1, <2>3, <2>5
  <2> QED  BY <2>6, <2>7 DEF s
<1>5. ASSUME NEW q \in E PROVE /\ Unlisted(c2, w, q) => pr[q] = None /\ nx[q] = None
                               /\ pr[q] \in E \cup {None} /\ nx[q] \in E \cup {None}
  <2>1. cont[q].cls \in Classes  BY <1>1 DEF Content
  <2>2. CASE Unlisted(cont, w, q)  BY <2>2, <1>1, <1>3
  <2>3. CASE ~Unlisted(cont, w, q)
    <3>1. q \in Listed(w[cont[q].cls])  BY <2>3 DEF Unlisted
    <3>2. prv[q] \in E \cup {None} /\ nxt[q] \in E \cup {None}  BY <3>1, <2>1, <1>4
    <3>3. ~Unlisted(c2, w, q)  BY <3>1, <1>3 DEF Unlisted
    <3> QED  BY <3>2, <3>3, <1>3
  <2> QED  BY <2>2, <2>3
<1>6. pr \in [E -> E \cup {None}] /\ nx \in [E -> E \cup {None}]
  <2> HIDE DEF E
  <2> QED  BY <1>3, <1>5
<1>7. head \in [Classes -> E \cup {None}]  BY <1>1, <1>2
<1>8. None \notin E  BY <1>1
<1>9. Lists(E, c2, pr, nx, head, w)
  <2> HIDE DEF E
  <2> QED  BY <1>1, <1>3, <1>4, <1>5, <1>6, <1>7, <1>8 DEF Lists
<1> QED  BY <1>9 DEF c2, pr, nx

\* A page that comes is in no list.
LEMMA PlaceLists ==
  ASSUME NEW D, NEW cont, NEW prv, NEW nxt, NEW head, NEW w, NEW p, p \notin D, p # None, NEW y \in Content,
         Lists(D, cont, prv, nxt, head, w)
  PROVE  /\ Lists(D \cup {p}, Plus(cont, p, y), Plus(prv, p, None), Plus(nxt, p, None), head, w)
         /\ Unlisted(Plus(cont, p, y), w, p)
<1> DEFINE E == D \cup {p}
           c2 == Plus(cont, p, y)
           pr == Plus(prv, p, None)
           nx == Plus(nxt, p, None)
<1>1. /\ cont \in [D -> Content] /\ DOMAIN w = Classes /\ None \notin D
      /\ prv \in [D -> D \cup {None}] /\ nxt \in [D -> D \cup {None}]
      /\ head \in [Classes -> D \cup {None}]
      /\ \A e \in Classes : IsList(D, cont, prv, nxt, head[e], e, w[e])
      /\ \A q \in D : Unlisted(cont, w, q) => prv[q] = None /\ nxt[q] = None
  BY DEF Lists
<1>2. /\ c2 \in [E -> Content] /\ pr \in [E -> E \cup {None}] /\ nx \in [E -> E \cup {None}]
  BY <1>1 DEF Plus
<1>3. /\ \A q \in D : c2[q] = cont[q] /\ pr[q] = prv[q] /\ nx[q] = nxt[q]
      /\ c2[p] = y /\ pr[p] = None /\ nx[p] = None
  BY <1>1 DEF Plus
<1> HIDE DEF c2, pr, nx
<1>4. ASSUME NEW e \in Classes
      PROVE  IsList(E, c2, pr, nx, head[e], e, w[e]) /\ Listed(w[e]) \subseteq D
  <2> DEFINE s == w[e]
  <2>1. /\ s \in Seq(D) /\ Len(s) \in Nat
        /\ \A j, k \in 1..Len(s) : s[j] = s[k] => j = k
        /\ \A k \in 1..Len(s) : /\ cont[s[k]].cls = e
                                /\ nxt[s[k]] = IF k = Len(s) THEN None ELSE s[k + 1]
                                /\ prv[s[k]] = IF k = 1 THEN None ELSE s[k - 1]
        /\ head[e] = IF Len(s) = 0 THEN None ELSE s[1]
    BY <1>1 DEF IsList
  <2> HIDE DEF s
  <2>2. \A k \in 1..Len(s) : s[k] \in D  BY <2>1, ElementOfSeq
  <2>3. s \in Seq(E)
    <3>1. s = [k \in 1..Len(s) |-> s[k]]  BY <2>1
    <3>2. s \in [1..Len(s) -> E]  BY <2>2, <3>1
    <3>3. \E n \in Nat : s \in [1..n -> E]  BY <2>1, <3>2
    <3> QED  BY <3>3, SeqDef
  <2>4. IsList(E, c2, pr, nx, head[e], e, s)  BY <2>1, <2>2, <2>3, <1>3 DEF IsList
  <2> QED  BY <2>2, <2>4 DEF s, Listed
<1>5. ASSUME NEW q \in E, Unlisted(c2, w, q) PROVE pr[q] = None /\ nx[q] = None
  <2>1. CASE q = p  BY <2>1, <1>3
  <2>2. CASE q # p
    <3>1. q \in D /\ Unlisted(cont, w, q)  BY <2>2, <1>3, <1>5 DEF Unlisted
    <3> QED  BY <3>1, <1>1, <1>3
  <2> QED  BY <2>1, <2>2
<1>6. head \in [Classes -> E \cup {None}] /\ None \notin E  BY <1>1
<1>7. Lists(E, c2, pr, nx, head, w)
  <2> HIDE DEF E
  <2> QED  BY <1>1, <1>2, <1>4, <1>5, <1>6 DEF Lists
<1>8. Unlisted(c2, w, p)
  <2>1. y.cls \in Classes  BY DEF Content
  <2> QED  BY <2>1, <1>3, <1>4 DEF Unlisted
<1> QED  BY <1>7, <1>8 DEF c2, pr, nx

\* The slots of a page are not the lists' business.
LEMMA RefillLists ==
  ASSUME NEW D, NEW cont, NEW prv, NEW nxt, NEW head, NEW w, NEW p \in D, NEW y \in Content,
         y.cls = cont[p].cls, Lists(D, cont, prv, nxt, head, w)
  PROVE  Lists(D, [cont EXCEPT ![p] = y], prv, nxt, head, w)
<1> DEFINE c2 == [cont EXCEPT ![p] = y]
<1>1. /\ cont \in [D -> Content] /\ DOMAIN w = Classes /\ None \notin D
      /\ prv \in [D -> D \cup {None}] /\ nxt \in [D -> D \cup {None}]
      /\ head \in [Classes -> D \cup {None}]
      /\ \A e \in Classes : IsList(D, cont, prv, nxt, head[e], e, w[e])
      /\ \A q \in D : Unlisted(cont, w, q) => prv[q] = None /\ nxt[q] = None
  BY DEF Lists
<1>2. c2 \in [D -> Content] /\ \A q \in D : c2[q].cls = cont[q].cls  BY <1>1
<1> HIDE DEF c2
<1>3. ASSUME NEW e \in Classes PROVE IsList(D, c2, prv, nxt, head[e], e, w[e])
  <2>1. IsList(D, cont, prv, nxt, head[e], e, w[e])  BY <1>1
  <2>2. \A k \in 1..Len(w[e]) : w[e][k] \in D  BY <2>1, ElementOfSeq DEF IsList
  <2> QED  BY <2>1, <2>2, <1>2 DEF IsList
<1>4. \A q \in D : Unlisted(c2, w, q) => prv[q] = None /\ nxt[q] = None  BY <1>1, <1>2 DEF Unlisted
<1> QED  BY <1>1, <1>2, <1>3, <1>4 DEF Lists, c2

------------------------------------------------------------------------------
\* A table with its lists, as the allocator uses it.

\* The heap h has a table of cap buckets with the page p of D, and its slots
\* cont[p], in the bucket loc[p]; the warm list of class c is w[c].
TableIs(h, cap, D, loc, cont, w) ==
    /\ Findable(cap, D, loc)
    /\ \E prv, nxt, head : /\ Holds(h, cap, D, loc, cont, prv, nxt, head)
                           /\ Lists(D, cont, prv, nxt, head, w)

\* What can be read in a table.
LEMMA TableReads ==
  ASSUME NEW h, NEW cap, NEW D, NEW loc, NEW cont, NEW w, TableIs(h, cap, D, loc, cont, w)
  PROVE  /\ IsHeap(h) /\ cap \in Nat /\ Cap(h) = cap /\ DOMAIN h.pages = 0..(cap - 1)
         /\ D \subseteq Pages /\ IsFiniteSet(D) /\ None \notin D
         /\ loc \in [D -> 0..(cap - 1)] /\ \A p, q \in D : loc[p] = loc[q] => p = q
         /\ cont \in [D -> Content]
         /\ \A p \in D : /\ h.pages[loc[p]].page = p
                         /\ h.pages[loc[p]].bits = cont[p].bits /\ h.pages[loc[p]].used = cont[p].used
                         /\ h.pages[loc[p]].cls = cont[p].cls
                         /\ h.pages[loc[p]] = DescOf(p, cont[p], h.pages[loc[p]].prev, h.pages[loc[p]].next)
         /\ \A b \in 0..(cap - 1) :
               /\ h.pages[b].page # None => h.pages[b].page \in D /\ loc[h.pages[b].page] = b
               /\ h.pages[b].page = None => h.pages[b] = EmptyBucket
<1>1. PICK prv, nxt, head : /\ Holds(h, cap, D, loc, cont, prv, nxt, head)
                            /\ Lists(D, cont, prv, nxt, head, w)
  BY DEF TableIs
<1>2. IsHeap(h) /\ IsTable(h.pages, cap, D, loc, cont, prv, nxt)  BY <1>1 DEF Holds
<1>3. cap \in Nat /\ DOMAIN h.pages = 0..(cap - 1) /\ D \subseteq Pages /\ IsFiniteSet(D) /\ Cap(h) = cap
  BY <1>2, TableFacts DEF Cap
<1>4. /\ \A p \in D : /\ h.pages[loc[p]].page = p
                      /\ h.pages[loc[p]].bits = cont[p].bits /\ h.pages[loc[p]].used = cont[p].used
                      /\ h.pages[loc[p]].cls = cont[p].cls
                      /\ h.pages[loc[p]] = DescOf(p, cont[p], h.pages[loc[p]].prev, h.pages[loc[p]].next)
      /\ \A b \in 0..(cap - 1) :
            /\ h.pages[b].page # None => h.pages[b].page \in D /\ loc[h.pages[b].page] = b
            /\ h.pages[b].page = None => h.pages[b] = EmptyBucket
  BY <1>2, TableFacts
<1>5. loc \in [D -> 0..(cap - 1)] /\ (\A p, q \in D : loc[p] = loc[q] => p = q) /\ cont \in [D -> Content]
  BY <1>2 DEF IsTable
<1>6. None \notin D  BY <1>3, NoneIsNoPage
<1> QED  BY <1>2, <1>3, <1>4, <1>5, <1>6

\* A lookup in it.
LEMMA TableLookup ==
  ASSUME NEW h, NEW cap, NEW D, NEW loc, NEW cont, NEW w, TableIs(h, cap, D, loc, cont, w), NEW p
  PROVE  heap_hash_lookup(h, p) = IF p \in D THEN loc[p] ELSE None
<1>1. PICK prv, nxt, head : /\ Holds(h, cap, D, loc, cont, prv, nxt, head)
                            /\ Lists(D, cont, prv, nxt, head, w)
  BY DEF TableIs
<1>2. IsTable(h.pages, cap, D, loc, cont, prv, nxt) /\ Findable(cap, D, loc)  BY <1>1 DEF Holds, TableIs
<1> QED  BY <1>2, LookupIs

\* The lists in it.
LEMMA TableLists ==
  ASSUME NEW h, NEW cap, NEW D, NEW loc, NEW cont, NEW w, TableIs(h, cap, D, loc, cont, w)
  PROVE  /\ DOMAIN w = Classes
         /\ \A c \in Classes :
               /\ w[c] \in Seq(D) /\ Len(w[c]) \in Nat
               /\ \A j, k \in 1..Len(w[c]) : w[c][j] = w[c][k] => j = k
               /\ h.warm[c] = IF Len(w[c]) = 0 THEN None ELSE loc[w[c][1]]
               /\ \A k \in 1..Len(w[c]) :
                     /\ w[c][k] \in D /\ cont[w[c][k]].cls = c
                     /\ h.pages[loc[w[c][k]]].next = IF k = Len(w[c]) THEN None ELSE loc[w[c][k + 1]]
                     /\ h.pages[loc[w[c][k]]].prev = IF k = 1 THEN None ELSE loc[w[c][k - 1]]
         /\ \A p \in D : Unlisted(cont, w, p) => h.pages[loc[p]].prev = None /\ h.pages[loc[p]].next = None
<1>1. PICK prv, nxt, head : /\ Holds(h, cap, D, loc, cont, prv, nxt, head)
                            /\ Lists(D, cont, prv, nxt, head, w)
  BY DEF TableIs
<1>2. IsTable(h.pages, cap, D, loc, cont, prv, nxt) /\ HeadsAt(h.warm, loc, head)  BY <1>1 DEF Holds
<1>3. \A p \in D : h.pages[loc[p]].prev = Bucket(loc, prv[p]) /\ h.pages[loc[p]].next = Bucket(loc, nxt[p])
  BY <1>2, TableFacts
<1>4. /\ DOMAIN w = Classes /\ None \notin D
      /\ \A e \in Classes : IsList(D, cont, prv, nxt, head[e], e, w[e])
      /\ \A q \in D : Unlisted(cont, w, q) => prv[q] = None /\ nxt[q] = None
  BY <1>1 DEF Lists
<1>5. Bucket(loc, None) = None /\ \A q \in D : Bucket(loc, q) = loc[q]  BY <1>4 DEF Bucket
<1>6. ASSUME NEW c \in Classes
      PROVE  /\ w[c] \in Seq(D) /\ Len(w[c]) \in Nat
             /\ \A j, k \in 1..Len(w[c]) : w[c][j] = w[c][k] => j = k
             /\ h.warm[c] = IF Len(w[c]) = 0 THEN None ELSE loc[w[c][1]]
             /\ \A k \in 1..Len(w[c]) :
                   /\ w[c][k] \in D /\ cont[w[c][k]].cls = c
                   /\ h.pages[loc[w[c][k]]].next = IF k = Len(w[c]) THEN None ELSE loc[w[c][k + 1]]
                   /\ h.pages[loc[w[c][k]]].prev = IF k = 1 THEN None ELSE loc[w[c][k - 1]]
  <2> DEFINE s == w[c]
  <2>1. /\ s \in Seq(D) /\ Len(s) \in Nat
        /\ \A j, k \in 1..Len(s) : s[j] = s[k] => j = k
        /\ \A k \in 1..Len(s) : /\ cont[s[k]].cls = c
                                /\ nxt[s[k]] = IF k = Len(s) THEN None ELSE s[k + 1]
                                /\ prv[s[k]] = IF k = 1 THEN None ELSE s[k - 1]
        /\ head[c] = IF Len(s) = 0 THEN None ELSE s[1]
    BY <1>4 DEF IsList
  <2>2. h.warm[c] = Bucket(loc, head[c])  BY <1>2 DEF HeadsAt
  <2> HIDE DEF s
  <2>3. \A k \in 1..Len(s) : s[k] \in D  BY <2>1, ElementOfSeq
  <2>4. h.warm[c] = IF Len(s) = 0 THEN None ELSE loc[s[1]]
    <3>1. Len(s) # 0 => 1 \in 1..Len(s)  BY <2>1
    <3> QED  BY <3>1, <2>1, <2>2, <2>3, <1>5
  <2>5. ASSUME NEW k \in 1..Len(s)
        PROVE  /\ h.pages[loc[s[k]]].next = IF k = Len(s) THEN None ELSE loc[s[k + 1]]
               /\ h.pages[loc[s[k]]].prev = IF k = 1 THEN None ELSE loc[s[k - 1]]
    <3>1. s[k] \in D  BY <2>3
    <3>2. k # Len(s) => k + 1 \in 1..Len(s)  BY <2>1
    <3>3. k # 1 => k - 1 \in 1..Len(s)  BY <2>1
    <3>4. /\ nxt[s[k]] = IF k = Len(s) THEN None ELSE s[k + 1]
          /\ prv[s[k]] = IF k = 1 THEN None ELSE s[k - 1]
      BY <2>1
    <3>5. /\ h.pages[loc[s[k]]].prev = Bucket(loc, prv[s[k]])
          /\ h.pages[loc[s[k]]].next = Bucket(loc, nxt[s[k]])
      BY <3>1, <1>3
    <3> QED  BY <3>2, <3>3, <3>4, <3>5, <2>3, <1>5
  <2> QED  BY <2>1, <2>3, <2>4, <2>5 DEF s
<1>7. \A p \in D : Unlisted(cont, w, p) => h.pages[loc[p]].prev = None /\ h.pages[loc[p]].next = None
  BY <1>3, <1>4, <1>5
<1> QED  BY <1>4, <1>6, <1>7

\* A push.
LEMMA TablePush ==
  ASSUME NEW h, NEW cap, NEW D, NEW loc, NEW cont, NEW w, TableIs(h, cap, D, loc, cont, w),
         NEW p \in D, Unlisted(cont, w, p), NEW g, g = heap_warm_push(h, loc[p])
  PROVE  /\ TableIs(g, cap, D, loc, cont, [w EXCEPT ![cont[p].cls] = Onto(p, @)])
         /\ SameRest(g, h) /\ g.count = h.count
<1>1. PICK prv, nxt, head : /\ Holds(h, cap, D, loc, cont, prv, nxt, head)
                            /\ Lists(D, cont, prv, nxt, head, w)
  BY DEF TableIs
<1> DEFINE c == cont[p].cls
           pr == PrvPushed(prv, head, c, p)
           nx == NxtPushed(nxt, head, c, p)
           h2 == [head EXCEPT ![c] = p]
           w2 == [w EXCEPT ![c] = Onto(p, @)]
<1>2. prv[p] = None /\ nxt[p] = None /\ head[cont[p].cls] # p
  <2> HIDE DEF c, pr, nx, h2, w2
  <2>1. /\ cont[p].cls \in Classes
        /\ Unlisted(cont, w, p) => prv[p] = None /\ nxt[p] = None /\ \A e \in Classes : head[e] # p
    BY <1>1, ListedFacts
  <2> QED  BY <2>1
<1>3. Lists(D, cont, pr, nx, h2, w2)  BY <1>1, PushLists
<1>4. Holds(g, cap, D, loc, cont, pr, nx, h2) /\ SameRest(g, h) /\ g.count = h.count
  BY <1>1, <1>2, PushKeeps
<1> HIDE DEF pr, nx, h2, w2
<1>5. TableIs(g, cap, D, loc, cont, w2)  BY <1>3, <1>4 DEF TableIs
<1> QED  BY <1>4, <1>5 DEF w2

Shorter(w, c, i) == [w EXCEPT ![c] = Cut(@, i)]
Unlinking(h, cap, D, loc, cont, w, c, i, g) ==
    /\ TableIs(h, cap, D, loc, cont, w)
    /\ c \in Classes /\ i \in 1..Len(w[c]) /\ g = heap_warm_unlink(h, loc[w[c][i]])

\* An unlink.
LEMMA TableUnlink ==
  ASSUME NEW h, NEW cap, NEW D, NEW loc, NEW cont, NEW w, NEW c, NEW i, NEW g,
         Unlinking(h, cap, D, loc, cont, w, c, i, g)
  PROVE  TableIs(g, cap, D, loc, cont, Shorter(w, c, i)) /\ SameRest(g, h) /\ g.count = h.count
<1> USE DEF Unlinking, Shorter
<1>1. PICK prv, nxt, head : /\ Holds(h, cap, D, loc, cont, prv, nxt, head)
                            /\ Lists(D, cont, prv, nxt, head, w)
  BY DEF TableIs
<1> DEFINE p == w[c][i]
           pr == PrvUnlinked(prv, nxt, p)
           nx == PrvUnlinked(nxt, prv, p)
           h2 == HeadUnlinked(head, prv, nxt, c, p)
           w2 == [w EXCEPT ![c] = Cut(@, i)]
<1>2. p \in D /\ cont[p].cls = c /\ ~Unlisted(cont, w, p)
  <2>1. w[c] \in Seq(D) /\ \A k \in 1..Len(w[c]) : cont[w[c][k]].cls = c  BY <1>1 DEF Lists, IsList
  <2> QED  BY <2>1, ElementOfSeq DEF Unlisted, Listed
<1>3. /\ prv[p] = None => head[cont[p].cls] = p
      /\ nxt[p] # None => cont[nxt[p]].cls = cont[p].cls /\ nxt[p] # prv[p]
  <2> HIDE DEF p, pr, nx, h2, w2
  <2> QED  BY <1>1, <1>2, ListedFacts
<1>4. Lists(D, cont, pr, nx, h2, w2)  BY <1>1, UnlinkLists
<1> HIDE DEF p, w2
<1>5. Holds(g, cap, D, loc, cont, pr, nx, h2) /\ SameRest(g, h) /\ g.count = h.count
  <2> DEFINE f == heap_warm_unlink(h, loc[p])
  <2>1. /\ Holds(f, cap, D, loc, cont, PrvUnlinked(prv, nxt, p), PrvUnlinked(nxt, prv, p),
                 HeadUnlinked(head, prv, nxt, cont[p].cls, p))
        /\ SameRest(f, h) /\ f.count = h.count
    BY <1>1, <1>2, <1>3, UnlinkKeeps
  <2> QED  BY <2>1, <1>2 DEF p
<1> HIDE DEF pr, nx, h2
<1>6. TableIs(g, cap, D, loc, cont, w2)  BY <1>4, <1>5 DEF TableIs
<1> QED  BY <1>5, <1>6 DEF w2

\* Other slots of a page in use.
LEMMA TableRefill ==
  ASSUME NEW h, NEW g, NEW cap, NEW D, NEW loc, NEW cont, NEW w, TableIs(h, cap, D, loc, cont, w),
         NEW p \in D, NEW y \in Content, y.cls = cont[p].cls,
         IsHeap(g), g.warm = h.warm,
         g.pages = [h.pages EXCEPT ![loc[p]] = DescOf(p, y, @.prev, @.next)]
  PROVE  TableIs(g, cap, D, loc, [cont EXCEPT ![p] = y], w)
<1>1. PICK prv, nxt, head : /\ Holds(h, cap, D, loc, cont, prv, nxt, head)
                            /\ Lists(D, cont, prv, nxt, head, w)
  BY DEF TableIs
<1> DEFINE c2 == [cont EXCEPT ![p] = y]
<1>2. Holds(g, cap, D, loc, c2, prv, nxt, head)  BY <1>1, RefillKeeps
<1>3. Lists(D, c2, prv, nxt, head, w)  BY <1>1, RefillLists
<1> HIDE DEF c2
<1>4. TableIs(g, cap, D, loc, c2, w)  BY <1>2, <1>3 DEF TableIs
<1> QED  BY <1>4 DEF c2

Removing(h, cap, D, loc, cont, w, p, g) ==
    /\ TableIs(h, cap, D, loc, cont, w) /\ p \in D /\ Unlisted(cont, w, p)
    /\ Cardinality(D) < cap /\ g = heap_hash_remove(h, loc[p])

\* A page leaves.
LEMMA TableRemove ==
  ASSUME NEW h, NEW cap, NEW D, NEW loc, NEW cont, NEW w, NEW p, NEW g,
         Removing(h, cap, D, loc, cont, w, p, g)
  PROVE  /\ \E at : TableIs(g, cap, D \ {p}, at, Minus(cont, p), w)
         /\ SameRest(g, h) /\ g.count = h.count - 1
<1> USE DEF Removing
<1>1. PICK prv, nxt, head : /\ Holds(h, cap, D, loc, cont, prv, nxt, head)
                            /\ Lists(D, cont, prv, nxt, head, w)
  BY DEF TableIs
<1>2. prv[p] = None /\ nxt[p] = None /\ \A e \in Classes : head[e] # p
  <2>1. Unlisted(cont, w, p) => prv[p] = None /\ nxt[p] = None /\ \A e \in Classes : head[e] # p
    BY <1>1, ListedFacts
  <2> QED  BY <2>1
<1>3. Findable(cap, D, loc)  BY DEF TableIs
<1> DEFINE f == heap_hash_remove(h, loc[p])
<1>4. \E at : /\ Holds(f, cap, D \ {p}, at, Minus(cont, p), Minus(prv, p), Minus(nxt, p), head)
              /\ Findable(cap, D \ {p}, at)
              /\ SameRest(f, h) /\ f.count = h.count - 1
  BY <1>1, <1>2, <1>3, RemoveKeeps
<1>5. Lists(D \ {p}, Minus(cont, p), Minus(prv, p), Minus(nxt, p), head, w)  BY <1>1, ClearLists
<1>6. g = f  OBVIOUS
<1> HIDE DEF f
<1>7. \E at : TableIs(f, cap, D \ {p}, at, Minus(cont, p), w)  BY <1>4, <1>5 DEF TableIs
<1> QED  BY <1>4, <1>6, <1>7

\* A page comes.
LEMMA TablePlace ==
  ASSUME NEW h, NEW g, NEW cap, NEW D, NEW loc, NEW cont, NEW w, TableIs(h, cap, D, loc, cont, w),
         NEW p \in Pages \ D, NEW y \in Content, Cardinality(D) < cap,
         NEW b, b = InsertBucket(h.pages, cap, p),
         IsHeap(g), g.warm = h.warm, g.pages = [h.pages EXCEPT ![b] = DescOf(p, y, None, None)]
  PROVE  /\ TableIs(g, cap, D \cup {p}, Plus(loc, p, b), Plus(cont, p, y), w)
         /\ Unlisted(Plus(cont, p, y), w, p) /\ b \in 0..(cap - 1)
<1>1. PICK prv, nxt, head : /\ Holds(h, cap, D, loc, cont, prv, nxt, head)
                            /\ Lists(D, cont, prv, nxt, head, w)
  BY DEF TableIs
<1>2. IsTable(h.pages, cap, D, loc, cont, prv, nxt)  BY <1>1 DEF Holds
<1>3. /\ b \in 0..(cap - 1) /\ b \notin Occupied(D, loc)
      /\ \A x \in Path(cap, p, b) : x \in Occupied(D, loc) \/ x = b
  <2> HIDE DEF TableIs
  <2>1. p \in Pages /\ Cardinality(D) < cap /\ b = InsertBucket(h.pages, cap, p)  OBVIOUS
  <2> DEFINE pages == h.pages
  <2>2. IsTable(pages, cap, D, loc, cont, prv, nxt) /\ b = InsertBucket(pages, cap, p)  BY <1>2, <2>1
  <2> HIDE DEF pages
  <2> QED  BY <2>1, <2>2, InsertIs, ZenonT(60)
<1>4. p # None /\ p \notin D  BY NoneIsNoPage
<1> DEFINE E == D \cup {p}
           l2 == Plus(loc, p, b)
           c2 == Plus(cont, p, y)
           pr == Plus(prv, p, None)
           nx == Plus(nxt, p, None)
<1>5. Holds(g, cap, E, l2, c2, pr, nx, head)  BY <1>1, <1>3, PlaceKeeps
<1>6. Lists(E, c2, pr, nx, head, w) /\ Unlisted(c2, w, p)  BY <1>1, <1>4, PlaceLists
<1>7. Findable(cap, E, l2)
  <2>1. loc \in [D -> 0..(cap - 1)]  BY <1>2 DEF IsTable
  <2>2. l2[p] = b /\ \A q \in D : l2[q] = loc[q]  BY <2>1, <1>4 DEF Plus
  <2> HIDE DEF l2
  <2>3. Occupied(E, l2) = Occupied(D, loc) \cup {b}  BY <2>2 DEF Occupied
  <2>4. Findable(cap, D, loc)  BY DEF TableIs
  <2> QED  BY <2>2, <2>3, <2>4, <1>3 DEF Findable
<1> HIDE DEF E, l2, c2, pr, nx
<1>8. TableIs(g, cap, E, l2, c2, w)  BY <1>5, <1>6, <1>7 DEF TableIs
<1> QED  BY <1>3, <1>6, <1>8 DEF E, l2, c2

------------------------------------------------------------------------------
\* Which pages the lists have.

\* The pages with a free slot are in their lists, and no others.
WarmExact(D, cont, w) == \A p \in D : Unlisted(cont, w, p) <=> ~(cont[p].used < Slots(cont[p].cls))

\* A push adds one page to the listed ones.
LEMMA PushListed ==
  ASSUME NEW h, NEW cap, NEW D, NEW loc, NEW cont, NEW w, TableIs(h, cap, D, loc, cont, w),
         NEW p \in D, NEW q \in D, NEW v, v[cont[p].cls] = Onto(p, w[cont[p].cls]),
         \A e \in Classes : e # cont[p].cls => v[e] = w[e]
  PROVE  Unlisted(cont, v, q) <=> q # p /\ Unlisted(cont, w, q)
<1> DEFINE c == cont[p].cls
<1>1. /\ DOMAIN w = Classes /\ cont \in [D -> Content]
      /\ \A e \in Classes : w[e] \in Seq(D)
  BY TableLists, TableReads
<1>2. c \in Classes /\ cont[q].cls \in Classes  BY <1>1 DEF Content
<1>3. v[c] = Onto(p, w[c]) /\ \A e \in Classes : e # c => v[e] = w[e]  OBVIOUS
<1> HIDE DEF c
<1>4. Listed(v[c]) = Listed(w[c]) \cup {p}
  <2> DEFINE s == w[c]
  <2>1. v[c] = Onto(p, s) /\ s \in Seq(D)  BY <1>1, <1>2, <1>3
  <2> HIDE DEF s
  <2>2. Listed(Onto(p, s)) = Listed(s) \cup {p}  BY <2>1, OntoProps
  <2> QED  BY <2>1, <2>2 DEF s
<1>6. CASE cont[q].cls = c
  BY <1>4, <1>6 DEF Unlisted
<1>7. CASE cont[q].cls # c
  <2>1. q # p  BY <1>7 DEF c
  <2>2. v[cont[q].cls] = w[cont[q].cls]  BY <1>2, <1>3, <1>7
  <2> QED  BY <2>1, <2>2 DEF Unlisted
<1> QED  BY <1>6, <1>7

\* An unlink takes one page from the listed ones.
LEMMA UnlinkListed ==
  ASSUME NEW h, NEW cap, NEW D, NEW loc, NEW cont, NEW w, TableIs(h, cap, D, loc, cont, w),
         NEW c \in Classes, NEW i \in 1..Len(w[c]), NEW q \in D,
         NEW v, v[c] = Cut(w[c], i), \A e \in Classes : e # c => v[e] = w[e]
  PROVE  Unlisted(cont, v, q) <=> q = w[c][i] \/ Unlisted(cont, w, q)
<1> DEFINE s == w[c]
           p == s[i]
<1>1. /\ DOMAIN w = Classes /\ s \in Seq(D) /\ \A j, k \in 1..Len(s) : s[j] = s[k] => j = k
      /\ \A k \in 1..Len(s) : cont[s[k]].cls = c
  BY TableLists
<1>2. cont \in [D -> Content]  BY TableReads
<1>3. i \in 1..Len(s) /\ v[c] = Cut(s, i)  BY <1>1
<1>4. \A e \in Classes : e # c => v[e] = w[e]  BY <1>1
<1> SUFFICES Unlisted(cont, v, q) <=> q = p \/ Unlisted(cont, w, q)  OBVIOUS
<1> HIDE DEF s
<1>5. cont[q].cls \in Classes /\ cont[p].cls = c /\ p \in Listed(s)
  BY <1>1, <1>2, <1>3 DEF Content, Listed
<1>6. Listed(Cut(s, i)) = Listed(s) \ {p}  BY <1>1, <1>3, CutProps
<1> HIDE DEF p
<1>7. CASE cont[q].cls = c
  BY <1>3, <1>5, <1>6, <1>7 DEF Unlisted, s
<1>8. CASE cont[q].cls # c
  <2>1. q # p  BY <1>5, <1>8
  <2>2. v[cont[q].cls] = w[cont[q].cls]  BY <1>4, <1>5, <1>8
  <2> QED  BY <2>1, <2>2 DEF Unlisted
<1> QED  BY <1>7, <1>8

------------------------------------------------------------------------------
\* heap_hash_resize.

Before(D, loc, i) == {p \in D : loc[p] < i}
Only(f, E) == [p \in E |-> f[p]]

\* The heap g has a table of the pages E, with lists that are exact.
Fresh(g, cap, E, cont) == \E at, w : TableIs(g, cap, E, at, cont, w) /\ WarmExact(E, cont, w)

\* One page more finds its place in the fresh table.
LEMMA ReinsertStep ==
  ASSUME NEW g, NEW cap, NEW E, NEW cont, Fresh(g, cap, E, cont), Cardinality(E) < cap,
         NEW p \in Pages \ E, NEW y \in Content, NEW pr, NEW nx, NEW d, d = DescOf(p, y, pr, nx),
         NEW k, k = Reinsert(g, cap, d)
  PROVE  Fresh(k, cap, E \cup {p}, Plus(cont, p, y)) /\ SameRest(k, g) /\ k.count = g.count
<1>1. PICK at, w : TableIs(g, cap, E, at, cont, w) /\ WarmExact(E, cont, w)  BY DEF Fresh
<1> DEFINE b == InsertBucket(g.pages, cap, p)
           pgs == [g.pages EXCEPT ![b] = DescOf(p, y, None, None)]
           placed == [g EXCEPT !.pages = pgs]
           E2 == E \cup {p}
           a2 == Plus(at, p, b)
           c2 == Plus(cont, p, y)
<1>2. /\ d.page = p /\ d.used = y.used /\ d.cls = y.cls
      /\ [d EXCEPT !.prev = None, !.next = None] = DescOf(p, y, None, None)
  <2>1. d.page = p /\ d.used = y.used /\ d.cls = y.cls  BY DEF DescOf
  <2>2. [d EXCEPT !.prev = None] = DescOf(p, y, None, nx)  BY DEF DescOf
  <2> DEFINE d2 == [d EXCEPT !.prev = None]
  <2>3. d2 = [page |-> p, bits |-> y.bits, used |-> y.used, cls |-> y.cls, prev |-> None, next |-> nx]
    BY <2>2 DEF DescOf
  <2> HIDE DEF d2
  <2>4. [d2 EXCEPT !.next = None] = DescOf(p, y, None, None)  BY <2>3 DEF DescOf
  <2>5. [d EXCEPT !.prev = None, !.next = None] = [d2 EXCEPT !.next = None]  BY DEF d2
  <2> QED  BY <2>1, <2>4, <2>5
<1>3. IsHeap(g) /\ at \in [E -> 0..(cap - 1)] /\ cont \in [E -> Content] /\ cap \in Nat
  BY <1>1, TableReads
<1>4. k = IF y.used < Slots(y.cls) THEN heap_warm_push(placed, b) ELSE placed
  <2>1. p # None  BY NoneIsNoPage
  <2>2. [g EXCEPT !.pages[b] = [d EXCEPT !.prev = None, !.next = None]] = placed
    BY <1>2, <1>3 DEF IsHeap
  <2> HIDE DEF placed
  <2> QED  BY <1>2, <2>1, <2>2 DEF Reinsert
<1> HIDE DEF pgs
<1>5. IsHeap(placed) /\ placed.warm = g.warm /\ placed.pages = pgs /\ SameRest(placed, g) /\ placed.count = g.count
  BY <1>3 DEF IsHeap, SameRest
<1> HIDE DEF b, placed
<1>6. TableIs(placed, cap, E2, a2, c2, w) /\ Unlisted(c2, w, p) /\ b \in 0..(cap - 1)
  <2> HIDE DEF E2, a2, c2
  <2>1. /\ TableIs(placed, cap, E \cup {p}, Plus(at, p, b), Plus(cont, p, y), w)
        /\ Unlisted(Plus(cont, p, y), w, p) /\ b \in 0..(cap - 1)
    BY <1>1, <1>5, TablePlace DEF b, pgs
  <2> QED  BY <2>1 DEF E2, a2, c2
<1>7. /\ a2[p] = b /\ c2[p] = y /\ p \in E2
      /\ \A q \in E2 : q # p => c2[q] = cont[q] /\ q \in E
  BY <1>3 DEF Plus
<1> HIDE DEF E2, a2, c2
<1>8. ASSUME NEW q \in E2, q # p
      PROVE  Unlisted(c2, w, q) <=> ~(c2[q].used < Slots(c2[q].cls))
  <2>1. q \in E /\ c2[q] = cont[q]  BY <1>7, <1>8
  <2>2. Unlisted(cont, w, q) <=> ~(cont[q].used < Slots(cont[q].cls))  BY <2>1, <1>1 DEF WarmExact
  <2> QED  BY <2>1, <2>2 DEF Unlisted
<1>9. CASE ~(y.used < Slots(y.cls))
  <2>1. k = placed  BY <1>4, <1>9
  <2>2. WarmExact(E2, c2, w)
    <3> SUFFICES ASSUME NEW q \in E2 PROVE Unlisted(c2, w, q) <=> ~(c2[q].used < Slots(c2[q].cls))
      BY DEF WarmExact
    <3> QED  BY <1>6, <1>7, <1>8, <1>9
  <2>3. Fresh(k, cap, E2, c2)  BY <2>1, <2>2, <1>6 DEF Fresh
  <2> QED  BY <2>1, <2>3, <1>5 DEF E2, c2
<1>10. CASE y.used < Slots(y.cls)
  <2> DEFINE w2 == [w EXCEPT ![c2[p].cls] = Onto(p, @)]
  <2>1. k = heap_warm_push(placed, a2[p])  BY <1>4, <1>7, <1>10
  <2>2. TableIs(k, cap, E2, a2, c2, w2) /\ SameRest(k, placed) /\ k.count = placed.count
    BY <2>1, <1>6, <1>7, TablePush
  <2>3. ASSUME NEW q \in E2
        PROVE  Unlisted(c2, w2, q) <=> ~(c2[q].used < Slots(c2[q].cls))
    <3>1. Unlisted(c2, w2, q) <=> q # p /\ Unlisted(c2, w, q)
      <4>1. DOMAIN w = Classes  BY <1>6, TableLists
      <4>2. c2[p].cls \in Classes  BY <1>7 DEF Content
      <4>3. w2[c2[p].cls] = Onto(p, w[c2[p].cls]) /\ \A e \in Classes : e # c2[p].cls => w2[e] = w[e]
        BY <4>1, <4>2
      <4> HIDE DEF w2
      <4> QED  BY <4>3, <1>6, <1>7, PushListed
    <3> HIDE DEF w2
    <3>2. CASE q = p  BY <3>1, <3>2, <1>7, <1>10
    <3>3. CASE q # p  BY <3>1, <3>3, <1>8
    <3> QED  BY <3>2, <3>3
  <2> HIDE DEF w2
  <2>4. WarmExact(E2, c2, w2)  BY <2>3 DEF WarmExact
  <2>5. Fresh(k, cap, E2, c2)  BY <2>2, <2>4 DEF Fresh
  <2> QED  BY <2>2, <2>5, <1>5 DEF SameRest, E2, c2
<1> QED  BY <1>9, <1>10

\* A table with no page.
LEMMA FreshTable ==
  ASSUME NEW h, NEW g, IsHeap(g), NEW cap \in Nat, NEW cont, cont = Only(cont, {}),
         g.pages = [b \in 0..(cap - 1) |-> EmptyBucket], g.warm = [c \in Classes |-> None]
  PROVE  Fresh(g, cap, {}, cont)
<1> DEFINE w == [c \in Classes |-> << >>]
           head == [c \in Classes |-> None]
<1>1. EmptyBucket \in Descriptor
  BY NoneIsNoPage, HeapAssumption DEF EmptyBucket, Descriptor, Classes
<1>2. IsTable(g.pages, cap, {}, cont, cont, cont, cont)
  <2>1. cont \in [{} -> 0..(cap - 1)] /\ cont \in [{} -> Content] /\ cont \in [{} -> {} \cup {None}]
    BY DEF Only
  <2>2. g.pages \in [0..(cap - 1) -> Descriptor]  BY <1>1
  <2> QED  BY <2>1, <2>2 DEF IsTable
<1>3. Linked({}, cont, cont, cont, head)  BY DEF Linked
<1>4. HeadsAt(g.warm, cont, head)  BY DEF HeadsAt, Bucket
<1>5. Holds(g, cap, {}, cont, cont, cont, cont, head)  BY <1>2, <1>3, <1>4 DEF Holds
<1>6. Lists({}, cont, cont, cont, head, w)
  <2>1. cont \in [{} -> Content] /\ cont \in [{} -> {} \cup {None}]  BY DEF Only
  <2>2. \A c \in Classes : IsList({}, cont, cont, cont, None, c, << >>)  BY DEF IsList
  <2>3. \A c \in Classes : IsList({}, cont, cont, cont, head[c], c, w[c])  BY <2>2
  <2> QED  BY <2>1, <2>3 DEF Lists
<1> HIDE DEF w, head
<1>7. Findable(cap, {}, cont)  BY DEF Findable
<1>8. TableIs(g, cap, {}, cont, cont, w)  BY <1>5, <1>6, <1>7 DEF TableIs
<1>9. WarmExact({}, cont, w)  BY DEF WarmExact
<1> QED  BY <1>8, <1>9 DEF Fresh

\* Only the table, its lists and its size differ.
SameStores(g, h) ==
    /\ g.recycle = h.recycle /\ g.recycleCap = h.recycleCap
    /\ g.xlUse = h.xlUse /\ g.xlUseCap = h.xlUseCap
    /\ g.xlFreed = h.xlFreed /\ g.xlFreedCap = h.xlFreedCap
    /\ g.retention = h.retention /\ g.inUse = h.inUse /\ g.mapped = h.mapped

\* After the first i buckets have been re-inserted.
Rehashed(h, newCap, D, loc, cont, i, g) ==
    /\ Fresh(g, newCap, Before(D, loc, i), Only(cont, Before(D, loc, i)))
    /\ SameRest(g, h) /\ g.count = h.count

\* The next bucket.
LEMMA ResizeStep ==
  ASSUME NEW h, NEW cap, NEW D, NEW loc, NEW cont, NEW w, TableIs(h, cap, D, loc, cont, w),
         NEW newCap \in Nat, Cardinality(D) < newCap, NEW i \in 0..(cap - 1), NEW g,
         Rehashed(h, newCap, D, loc, cont, i, g),
         NEW k, k = Reinsert(g, newCap, h.pages[i])
  PROVE  Rehashed(h, newCap, D, loc, cont, i + 1, k)
<1> DEFINE E == Before(D, loc, i)
           E2 == Before(D, loc, i + 1)
           d == h.pages[i]
<1>1. /\ cap \in Nat /\ D \subseteq Pages /\ IsFiniteSet(D) /\ None \notin D
      /\ loc \in [D -> 0..(cap - 1)] /\ \A p, q \in D : loc[p] = loc[q] => p = q
      /\ cont \in [D -> Content]
      /\ \A p \in D : /\ h.pages[loc[p]].page = p
                      /\ h.pages[loc[p]] = DescOf(p, cont[p], h.pages[loc[p]].prev, h.pages[loc[p]].next)
      /\ (d.page # None => d.page \in D /\ loc[d.page] = i)
  BY TableReads
<1>2. Fresh(g, newCap, E, Only(cont, E)) /\ SameRest(g, h) /\ g.count = h.count  BY DEF Rehashed
<1>3. \A p \in D : loc[p] \in Int  BY <1>1
<1>4. CASE d.page = None
  <2>1. k = g  BY <1>4 DEF Reinsert
  <2>2. \A p \in D : loc[p] # i  BY <1>1, <1>4
  <2>3. E2 = E  BY <1>3, <2>2 DEF Before
  <2> QED  BY <2>1, <2>3, <1>2 DEF Rehashed
<1>5. CASE d.page # None
  <2> DEFINE p == d.page
             y == cont[p]
  <2>1. p \in D /\ loc[p] = i /\ p \in Pages /\ y \in Content  BY <1>1, <1>5
  <2>2. E2 = E \cup {p} /\ p \notin E /\ E \subseteq D  BY <1>1, <1>3, <2>1 DEF Before
  <2>3. Cardinality(E) < newCap
    <3>1. Cardinality(E) <= Cardinality(D) /\ IsFiniteSet(E)  BY <2>2, <1>1, FS_Subset
    <3> QED  BY <3>1, <1>1, FS_CardinalityType
  <2>4. d = DescOf(p, y, d.prev, d.next)  BY <1>1, <2>1
  <2> HIDE DEF E, E2, p, y
  <2>5. Only(cont, E2) = Plus(Only(cont, E), p, y)
    <3>1. \A q \in E2 : cont[q] = IF q = p THEN y ELSE Only(cont, E)[q]  BY <2>2 DEF Only, y
    <3>2. DOMAIN Only(cont, E) \cup {p} = E2  BY <2>2 DEF Only
    <3> QED  BY <3>1, <3>2 DEF Plus, Only
  <2> DEFINE c0 == Only(cont, E)
             pr == d.prev
             nx == d.next
  <2>6. p \in Pages \ E /\ d = DescOf(p, y, pr, nx) /\ k = Reinsert(g, newCap, d) /\ Fresh(g, newCap, E, c0)
    BY <2>1, <2>2, <2>4, <1>2
  <2> HIDE DEF c0, d, pr, nx
  <2>7. Fresh(k, newCap, E \cup {p}, Plus(c0, p, y)) /\ SameRest(k, g) /\ k.count = g.count
    BY <2>1, <2>3, <2>6, ReinsertStep
  <2>8. Fresh(k, newCap, E2, Only(cont, E2))  BY <2>2, <2>5, <2>7 DEF c0
  <2>9. SameRest(k, h) /\ k.count = h.count  BY <2>7, <1>2 DEF SameRest
  <2> QED  BY <2>8, <2>9 DEF Rehashed, E2
<1> QED  BY <1>4, <1>5

\* The table that has been resized has the same pages, and exact lists.
LEMMA ResizeKeeps ==
  ASSUME NEW h, NEW cap, NEW D, NEW loc, NEW cont, NEW w, TableIs(h, cap, D, loc, cont, w),
         NEW newCap \in Nat, Cardinality(D) < newCap, NEW g, g = heap_hash_resize(h, newCap)
  PROVE  /\ Fresh(g, newCap, D, cont) /\ SameStores(g, h) /\ g.count = h.count
         /\ g.footprint = h.footprint + TablePages(newCap) - TablePages(cap)
<1> DEFINE fresh == [h EXCEPT !.pages = [b \in 0..newCap - 1 |-> EmptyBucket],
                              !.warm = [c \in Classes |-> None]]
           Runs(m, f) == f = [i \in 0..m |-> IF i = 0 THEN fresh ELSE Reinsert(f[i - 1], newCap, h.pages[i - 1])]
           OK(i, k) == Rehashed(h, newCap, D, loc, cont, i, k)
           T == {m \in Nat : m <= cap => \E f : Runs(m, f) /\ OK(m, f[m])}
           upto == CHOOSE f : Runs(cap, f)
           size == h.footprint + TablePages(newCap) - TablePages(cap)
<1>1. /\ IsHeap(h) /\ cap \in Nat /\ Cap(h) = cap /\ cont \in [D -> Content]
      /\ loc \in [D -> 0..(cap - 1)]
  BY TableReads
<1>2. OK(0, fresh)
  <2>1. Before(D, loc, 0) = {}  BY <1>1 DEF Before
  <2> DEFINE ps == [b \in 0..newCap - 1 |-> EmptyBucket]
             ws == [c \in Classes |-> None]
  <2>2. fresh = [h EXCEPT !.pages = ps, !.warm = ws]  OBVIOUS
  <2> HIDE DEF fresh, ps, ws
  <2>3. /\ IsHeap(fresh) /\ SameRest(fresh, h) /\ fresh.count = h.count
        /\ fresh.pages = ps /\ fresh.warm = ws
    BY <2>2, <1>1 DEF IsHeap, SameRest
  <2> DEFINE c0 == Only(cont, {})
  <2>4. c0 = Only(c0, {})  BY DEF Only
  <2> HIDE DEF c0
  <2>5. Fresh(fresh, newCap, {}, c0)  BY <2>3, <2>4, FreshTable DEF ps, ws
  <2> QED  BY <2>1, <2>3, <2>5 DEF Rehashed, c0
<1> HIDE DEF fresh
<1>3. 0 \in T
  <2> DEFINE f == [i \in 0..0 |-> fresh]
  <2>1. f = [i \in 0..0 |-> IF i = 0 THEN fresh ELSE Reinsert(f[i - 1], newCap, h.pages[i - 1])]
    <3>1. \A i \in 0..0 : i = 0  OBVIOUS
    <3> QED  BY <3>1
  <2>2. f[0] = fresh  OBVIOUS
  <2> HIDE DEF f
  <2>3. Runs(0, f) /\ OK(0, f[0])  BY <2>1, <2>2, <1>2
  <2> QED  BY <2>3
<1>4. ASSUME NEW m \in Nat, m \in T PROVE m + 1 \in T
  <2> SUFFICES ASSUME m + 1 <= cap PROVE \E f : Runs(m + 1, f) /\ OK(m + 1, f[m + 1])
    OBVIOUS
  <2>1. PICK f : Runs(m, f) /\ OK(m, f[m])
    <3>1. m <= cap  BY <1>1
    <3> QED  BY <3>1, <1>4
  <2> DEFINE n == m + 1
             next == Reinsert(f[m], newCap, h.pages[m])
             f2 == [i \in 0..n |-> IF i = n THEN next ELSE f[i]]
  <2>2. m \in 0..(cap - 1) /\ n - 1 = m /\ n \in Nat  BY <1>1
  <2>3. OK(n, next)
    <3> DEFINE k == f[m]
               z == Reinsert(k, newCap, h.pages[m])
    <3>1. Rehashed(h, newCap, D, loc, cont, m, k)  BY <2>1
    <3> HIDE DEF k
    <3>2. z = Reinsert(k, newCap, h.pages[m])  OBVIOUS
    <3> HIDE DEF z
    <3>3. Rehashed(h, newCap, D, loc, cont, m + 1, z)  BY <2>2, <3>1, <3>2, ResizeStep
    <3> QED  BY <3>3 DEF z, k
  <2>4. f2[n] = next  BY <2>2
  <2>5. Runs(n, f2)
    <3>1. \A i \in 0..m : f[i] = IF i = 0 THEN fresh ELSE Reinsert(f[i - 1], newCap, h.pages[i - 1])
      BY <2>1
    <3>2. \A i \in 0..m : f2[i] = f[i]  BY <2>2
    <3> HIDE DEF next
    <3>3. ASSUME NEW i \in 0..n
          PROVE  f2[i] = IF i = 0 THEN fresh ELSE Reinsert(f2[i - 1], newCap, h.pages[i - 1])
      <4>1. CASE i = n
        <5>1. i # 0 /\ i - 1 = m /\ m \in 0..m  BY <4>1, <2>2
        <5>2. f2[i - 1] = f[m]  BY <5>1, <3>2
        <5> QED  BY <5>1, <5>2, <4>1, <2>4 DEF next
      <4>2. CASE i # n
        <5>1. i \in 0..m /\ (i # 0 => i - 1 \in 0..m)  BY <4>2, <2>2
        <5> QED  BY <5>1, <3>1, <3>2
      <4> QED  BY <4>1, <4>2
    <3>4. f2 = [i \in 0..n |-> f2[i]]  OBVIOUS
    <3> HIDE DEF f2
    <3> QED  BY <3>3, <3>4
  <2> HIDE DEF f2, next, OK
  <2> QED  BY <2>3, <2>4, <2>5
<1>5. cap \in T
  <2>1. Nat \subseteq T
    <3> HIDE DEF T
    <3> QED  BY <1>3, <1>4, SetInduction
  <2> QED  BY <2>1, <1>1
<1>6. PICK f : Runs(cap, f) /\ OK(cap, f[cap])  BY <1>5, <1>1
<1>7. \A f1, f3 : Runs(cap, f1) /\ Runs(cap, f3) => f1 = f3
  <2> SUFFICES ASSUME NEW f1, NEW f3, Runs(cap, f1), Runs(cap, f3) PROVE f1 = f3  OBVIOUS
  <2> DEFINE U == {i \in Nat : i <= cap => f1[i] = f3[i]}
  <2>1. \A i \in 0..cap : /\ f1[i] = IF i = 0 THEN fresh ELSE Reinsert(f1[i - 1], newCap, h.pages[i - 1])
                          /\ f3[i] = IF i = 0 THEN fresh ELSE Reinsert(f3[i - 1], newCap, h.pages[i - 1])
    BY Zenon
  <2>2. 0 \in U  BY <2>1, <1>1
  <2>3. ASSUME NEW i \in Nat, i \in U PROVE i + 1 \in U
    <3> SUFFICES ASSUME i + 1 <= cap PROVE f1[i + 1] = f3[i + 1]  OBVIOUS
    <3>1. i + 1 \in 0..cap /\ i + 1 # 0 /\ (i + 1) - 1 = i /\ i <= cap  BY <1>1
    <3> QED  BY <3>1, <2>1, <2>3
  <2>4. Nat \subseteq U
    <3> HIDE DEF U
    <3> QED  BY <2>2, <2>3, SetInduction
  <2>5. \A i \in 0..cap : f1[i] = f3[i]  BY <2>4, <1>1
  <2>6. f1 = [i \in 0..cap |-> f1[i]] /\ f3 = [i \in 0..cap |-> f3[i]]  OBVIOUS
  <2> QED  BY <2>5, <2>6
<1>8. Runs(cap, upto)  BY <1>6
<1>9. upto = f  BY <1>6, <1>7, <1>8
<1> DEFINE z == f[cap]
<1>10. g = [z EXCEPT !.footprint = @ + TablePages(newCap) - TablePages(cap)]
  BY <1>1, <1>9 DEF heap_hash_resize, fresh
<1>11. Fresh(z, newCap, D, cont) /\ SameRest(z, h) /\ z.count = h.count
  <2>1. Before(D, loc, cap) = D  BY <1>1 DEF Before
  <2>2. Only(cont, D) = cont  BY <1>1 DEF Only
  <2> QED  BY <1>6, <2>1, <2>2 DEF Rehashed
<1> HIDE DEF z
<1>12. g = [z EXCEPT !.footprint = size]  BY <1>10, <1>11 DEF SameRest
<1> HIDE DEF size
<1>13. PICK at, v : TableIs(z, newCap, D, at, cont, v) /\ WarmExact(D, cont, v)  BY <1>11 DEF Fresh
<1>14. IsHeap(z)  BY <1>13, TableReads
<1>15. /\ IsHeap(g) /\ g.pages = z.pages /\ g.warm = z.warm /\ g.footprint = size
       /\ SameStores(g, z) /\ g.count = z.count
  BY <1>12, <1>14 DEF IsHeap, SameStores
<1>16. Fresh(g, newCap, D, cont)
  <2>1. TableIs(g, newCap, D, at, cont, v)  BY <1>13, <1>15 DEF TableIs, Holds
  <2> QED  BY <2>1, <1>13 DEF Fresh
<1>17. SameStores(g, h)  BY <1>11, <1>15 DEF SameStores, SameRest
<1> QED  BY <1>11, <1>15, <1>16, <1>17 DEF size

------------------------------------------------------------------------------
\* The slots of a page.

\* A class divides the page, and its bitmap has a bit for every slot.
LEMMA SlotFacts ==
  ASSUME NEW c \in Classes
  PROVE  /\ SlotSize[c] \in Nat \ {0} /\ PageSize \in Nat \ {0}
         /\ Slots(c) \in Nat /\ Slots(c) > 1 /\ Slots(c) * SlotSize[c] = PageSize
         /\ BitmapBits(c) \in Nat /\ Slots(c) <= BitmapBits(c)
         /\ TailBits(c) \subseteq FullBitmap(c) /\ FullBitmap(c) \subseteq Nat /\ IsFiniteSet(FullBitmap(c))
         /\ FullBitmap(c) \ TailBits(c) = 0..(Slots(c) - 1)
<1> DEFINE z == SlotSize[c]
           n == Slots(c)
<1>1. z \in Nat \ {0} /\ PageSize \in Nat /\ PageSize % z = 0 /\ 2 * z <= PageSize
  BY HeapAssumption DEF Classes
<1>2. PageSize \in Nat \ {0}  BY <1>1
<1>3. n = PageSize \div z  BY DEF Slots
<1> HIDE DEF z, n
<1>4. n \in Nat /\ PageSize = z * n + (PageSize % z)  BY <1>1, <1>3, DivProps
<1>5. z * n \in Nat /\ n * z = z * n  BY <1>1, <1>4
<1>6. n * z = PageSize  BY <1>1, <1>4, <1>5
<1>7. n > 1
  <2> SUFFICES ASSUME n = 0 \/ n = 1 PROVE FALSE  BY <1>4
  <2>1. n * z = 0 \/ n * z = z  BY <1>1
  <2> QED  BY <2>1, <1>1, <1>2, <1>6
<1> DEFINE k == CeilDiv(n, WordBits)
           m == BitmapBits(c)
<1>8. WordBits \in Nat \ {0}  BY HeapAssumption
<1>9. k \in Nat /\ n <= k * WordBits  BY <1>4, <1>8, CeilDivProps
<1> HIDE DEF k
<1>10. m = WordBits * k  BY DEF BitmapBits, k, n
<1>11. WordBits * k \in Nat /\ WordBits * k = k * WordBits  BY <1>8, <1>9
<1>12. m \in Nat /\ n <= m  BY <1>9, <1>10, <1>11
<1> HIDE DEF m
<1>13. FullBitmap(c) = 0..(m - 1) /\ TailBits(c) = n..(m - 1)  BY DEF FullBitmap, TailBits, m, n
<1>14. IsFiniteSet(0..(m - 1))
  <2>1. m - 1 \in Int  BY <1>12
  <2> QED  BY <2>1, FS_Interval
<1>15. TailBits(c) \subseteq FullBitmap(c) /\ FullBitmap(c) \subseteq Nat /\ FullBitmap(c) \ TailBits(c) = 0..(n - 1)
  BY <1>4, <1>12, <1>13
<1> QED  BY <1>1, <1>2, <1>4, <1>6, <1>7, <1>12, <1>13, <1>14, <1>15 DEF z, n, m

\* The bits past the last slot are set, and used_count counts the others.
GoodPage(y) ==
    /\ y \in Content
    /\ TailBits(y.cls) \subseteq y.bits /\ y.bits \subseteq FullBitmap(y.cls)
    /\ y.used = Cardinality(y.bits \ TailBits(y.cls))

\* A page has no more live slots than slots.
LEMMA PageFacts ==
  ASSUME NEW y, GoodPage(y)
  PROVE  /\ y.cls \in Classes /\ y.used \in Nat /\ y.bits \in SUBSET Nat
         /\ IsFiniteSet(y.bits \ TailBits(y.cls)) /\ y.bits \ TailBits(y.cls) \subseteq 0..(Slots(y.cls) - 1)
         /\ y.used <= Slots(y.cls)
         /\ y.used = 0 <=> y.bits \ TailBits(y.cls) = {}
         /\ y = [bits |-> y.bits, used |-> y.used, cls |-> y.cls]
<1> DEFINE c == y.cls
           n == Slots(c)
           S == y.bits \ TailBits(c)
<1>1. y.cls \in Classes /\ y.used \in Nat /\ y.bits \in SUBSET Nat
      /\ y = [bits |-> y.bits, used |-> y.used, cls |-> y.cls]
  BY DEF GoodPage, Content
<1>2. S \subseteq 0..(n - 1) /\ n \in Nat  BY <1>1, SlotFacts DEF GoodPage
<1> HIDE DEF n
<1>3. IsFiniteSet(0..(n - 1)) /\ Cardinality(0..(n - 1)) = n
  <2>1. n - 1 \in Int /\ (IF 0 > n - 1 THEN 0 ELSE n - 1 - 0 + 1) = n  BY <1>2
  <2> QED  BY <2>1, FS_Interval
<1>4. IsFiniteSet(S) /\ Cardinality(S) <= n  BY <1>2, <1>3, FS_Subset
<1>5. y.used = Cardinality(S)  BY DEF GoodPage
<1>6. Cardinality(S) = 0 <=> S = {}  BY <1>4, FS_EmptySet
<1> QED  BY <1>1, <1>2, <1>4, <1>5, <1>6 DEF n

\* A page of no live slots.
LEMMA NewPageGood ==
  ASSUME NEW c \in Classes, NEW y, y = [bits |-> TailBits(c), used |-> 0, cls |-> c]
  PROVE  GoodPage(y)
<1>1. TailBits(c) \in SUBSET Nat /\ TailBits(c) \subseteq FullBitmap(c)  BY SlotFacts
<1>2. y \in Content  BY <1>1 DEF Content
<1>3. y.bits \ TailBits(y.cls) = {} /\ y.used = 0  OBVIOUS
<1>4. Cardinality({}) = 0  BY FS_EmptySet
<1> QED  BY <1>1, <1>2, <1>3, <1>4 DEF GoodPage

\* A page with room has a free slot, and taking it adds one to the count.
LEMMA TakenGood ==
  ASSUME NEW y, GoodPage(y), y.used < Slots(y.cls), NEW s, s = Least(FullBitmap(y.cls) \ y.bits),
         NEW z, z = [bits |-> y.bits \cup {s}, used |-> y.used + 1, cls |-> y.cls]
  PROVE  s \in 0..(Slots(y.cls) - 1) /\ s \notin y.bits /\ GoodPage(z)
<1> DEFINE c == y.cls
           n == Slots(c)
           S == y.bits \ TailBits(c)
           A == FullBitmap(c) \ y.bits
<1>1. c \in Classes /\ y.used \in Nat /\ y.bits \in SUBSET Nat /\ IsFiniteSet(S) /\ S \subseteq 0..(n - 1)
  BY PageFacts
<1>2. n \in Nat /\ FullBitmap(c) \subseteq Nat /\ FullBitmap(c) \ TailBits(c) = 0..(n - 1)
  BY <1>1, SlotFacts
<1>3. TailBits(c) \subseteq y.bits /\ y.bits \subseteq FullBitmap(c) /\ y.used = Cardinality(S)
  BY DEF GoodPage
<1>4. A # {}
  <2> SUFFICES ASSUME A = {} PROVE FALSE  OBVIOUS
  <2>1. S = 0..(n - 1)  BY <1>2, <1>3
  <2> HIDE DEF S, n
  <2>2. n - 1 \in Int /\ (IF 0 > n - 1 THEN 0 ELSE n - 1 - 0 + 1) = n  BY <1>2
  <2>3. Cardinality(0..(n - 1)) = n  BY <2>2, FS_Interval
  <2>4. y.used < n  BY DEF n
  <2> QED  BY <2>1, <2>3, <2>4, <1>1, <1>3
<1>5. s \in A
  <2>1. A \in SUBSET Nat  BY <1>2
  <2> HIDE DEF A
  <2>2. Least(A) \in A  BY <2>1, <1>4, LeastProps
  <2> QED  BY <2>2 DEF A
<1>6. s \notin TailBits(c) /\ s \in 0..(n - 1) /\ s \in Nat /\ s \notin y.bits  BY <1>2, <1>3, <1>5
<1>7. z.bits \ TailBits(z.cls) = S \cup {s} /\ s \notin S /\ z.used = y.used + 1 /\ z.cls = c
      /\ z.bits = y.bits \cup {s}
  BY <1>6
<1> HIDE DEF S, n, c
<1>8. Cardinality(S \cup {s}) = Cardinality(S) + 1  BY <1>1, <1>7, FS_AddElement
<1>9. z \in Content  BY <1>1, <1>6 DEF Content, c
<1>10. GoodPage(z)  BY <1>3, <1>5, <1>7, <1>8, <1>9 DEF GoodPage
<1> QED  BY <1>6, <1>10 DEF n, c

\* Clearing a live slot takes one from the count.
LEMMA ClearedGood ==
  ASSUME NEW y, GoodPage(y), NEW s, s \in y.bits, s \notin TailBits(y.cls),
         NEW z, z = [bits |-> y.bits \ {s}, used |-> y.used - 1, cls |-> y.cls]
  PROVE  GoodPage(z) /\ y.used > 0
<1> DEFINE c == y.cls
           S == y.bits \ TailBits(c)
<1>1. c \in Classes /\ y.used \in Nat /\ y.bits \in SUBSET Nat /\ IsFiniteSet(S)  BY PageFacts
<1>2. TailBits(c) \subseteq y.bits /\ y.bits \subseteq FullBitmap(c) /\ y.used = Cardinality(S)
  BY DEF GoodPage
<1>3. z.bits \ TailBits(z.cls) = S \ {s} /\ s \in S /\ z.used = y.used - 1 /\ z.cls = c
      /\ z.bits = y.bits \ {s}
  OBVIOUS
<1> HIDE DEF S, c
<1>4. Cardinality(S \ {s}) = Cardinality(S) - 1 /\ Cardinality(S) \in Nat /\ Cardinality(S) # 0
  BY <1>1, <1>3, FS_RemoveElement, FS_CardinalityType, FS_EmptySet
<1>5. y.used > 0 /\ y.used - 1 \in Nat  BY <1>2, <1>4
<1>6. z \in Content  BY <1>1, <1>5 DEF Content, c
<1>7. GoodPage(z)
  <2>1. s \notin TailBits(c)  BY DEF c
  <2> QED  BY <2>1, <1>2, <1>3, <1>4, <1>6 DEF GoodPage
<1> QED  BY <1>5, <1>7

------------------------------------------------------------------------------
\* Pages of a class.

FreeSlot(y) == Least(FullBitmap(y.cls) \ y.bits)
NewPage(c) == [bits |-> TailBits(c), used |-> 0, cls |-> c]
Taken(y) == [bits |-> y.bits \cup {FreeSlot(y)}, used |-> y.used + 1, cls |-> y.cls]
Cleared(y, s) == [bits |-> y.bits \ {s}, used |-> y.used - 1, cls |-> y.cls]

\* What can be read in a table with exact lists.
LEMMA FreshReads ==
  ASSUME NEW h, NEW cap, NEW D, NEW cont, Fresh(h, cap, D, cont)
  PROVE  /\ IsHeap(h) /\ cap \in Nat /\ Cap(h) = cap /\ D \subseteq Pages /\ IsFiniteSet(D)
         /\ cont \in [D -> Content] /\ DOMAIN h.pages = 0..(cap - 1)
         /\ \A p : p \in D <=> heap_hash_lookup(h, p) # None
         /\ \A p \in D : /\ heap_hash_lookup(h, p) \in 0..(cap - 1)
                         /\ h.pages[heap_hash_lookup(h, p)].page = p
                         /\ h.pages[heap_hash_lookup(h, p)].bits = cont[p].bits
                         /\ h.pages[heap_hash_lookup(h, p)].used = cont[p].used
                         /\ h.pages[heap_hash_lookup(h, p)].cls = cont[p].cls
         /\ \A b \in 0..(cap - 1) : h.pages[b].page # None =>
               h.pages[b].page \in D /\ heap_hash_lookup(h, h.pages[b].page) = b
<1>1. PICK at, w : TableIs(h, cap, D, at, cont, w) /\ WarmExact(D, cont, w)  BY DEF Fresh
<1>2. /\ IsHeap(h) /\ cap \in Nat /\ Cap(h) = cap /\ DOMAIN h.pages = 0..(cap - 1)
      /\ D \subseteq Pages /\ IsFiniteSet(D) /\ cont \in [D -> Content]
      /\ at \in [D -> 0..(cap - 1)]
      /\ \A p \in D : /\ h.pages[at[p]].page = p
                      /\ h.pages[at[p]].bits = cont[p].bits /\ h.pages[at[p]].used = cont[p].used
                      /\ h.pages[at[p]].cls = cont[p].cls
      /\ \A b \in 0..(cap - 1) : h.pages[b].page # None => h.pages[b].page \in D /\ at[h.pages[b].page] = b
  BY <1>1, TableReads
<1>3. \A p : heap_hash_lookup(h, p) = IF p \in D THEN at[p] ELSE None  BY <1>1, TableLookup
<1>4. \A p \in D : at[p] \in 0..(cap - 1) /\ at[p] # None  BY <1>2 DEF None
<1>5. ASSUME NEW p \in D
      PROVE  /\ heap_hash_lookup(h, p) \in 0..(cap - 1)
             /\ h.pages[heap_hash_lookup(h, p)].page = p
             /\ h.pages[heap_hash_lookup(h, p)].bits = cont[p].bits
             /\ h.pages[heap_hash_lookup(h, p)].used = cont[p].used
             /\ h.pages[heap_hash_lookup(h, p)].cls = cont[p].cls
  <2>1. heap_hash_lookup(h, p) = at[p]  BY <1>3
  <2> QED  BY <2>1, <1>2, <1>4
<1>6. \A p : p \in D <=> heap_hash_lookup(h, p) # None  BY <1>3, <1>4
<1>7. \A b \in 0..(cap - 1) : h.pages[b].page # None =>
               h.pages[b].page \in D /\ heap_hash_lookup(h, h.pages[b].page) = b
  BY <1>2, <1>3
<1> QED  BY <1>2, <1>5, <1>6, <1>7

\* The head of a warm list is a page with room, and there is one if any page has.
LEMMA WarmHead ==
  ASSUME NEW h, NEW cap, NEW D, NEW cont, Fresh(h, cap, D, cont), NEW c \in Classes
  PROVE  h.warm[c] = None <=> \A p \in D : cont[p].cls = c => ~(cont[p].used < Slots(c))
<1>1. PICK at, w : TableIs(h, cap, D, at, cont, w) /\ WarmExact(D, cont, w)  BY DEF Fresh
<1> DEFINE s == w[c]
<1>2. /\ Len(s) \in Nat /\ h.warm[c] = IF Len(s) = 0 THEN None ELSE at[s[1]]
      /\ \A k \in 1..Len(s) : s[k] \in D /\ cont[s[k]].cls = c
  BY <1>1, TableLists
<1>3. at \in [D -> 0..(cap - 1)]  BY <1>1, TableReads
<1>4. \A p \in D : cont[p].cls = c => (p \in Listed(s) <=> cont[p].used < Slots(c))
  BY <1>1 DEF WarmExact, Unlisted
<1> HIDE DEF s
<1>5. CASE Len(s) = 0
  <2>1. h.warm[c] = None /\ Listed(s) = {}  BY <1>2, <1>5 DEF Listed
  <2> QED  BY <2>1, <1>4
<1>6. CASE Len(s) # 0
  <2>1. 1 \in 1..Len(s)  BY <1>2, <1>6
  <2>2. s[1] \in D /\ cont[s[1]].cls = c /\ s[1] \in Listed(s)  BY <2>1, <1>2 DEF Listed
  <2>3. at[s[1]] # None  BY <2>2, <1>3 DEF None
  <2> QED  BY <2>2, <2>3, <1>2, <1>4, <1>6
<1> QED  BY <1>5, <1>6

\* A slot of the page p has been taken.
TakenAt(h, cap, D, cont, p, g) ==
    Taken(cont[p]) \in Content =>
        /\ Fresh(g, cap, D, [cont EXCEPT ![p] = Taken(@)])
        /\ SameRest(g, h) /\ g.count = h.count

\* TakeSlot.
LEMMA TakeKeeps ==
  ASSUME NEW h, NEW cap, NEW D, NEW cont, Fresh(h, cap, D, cont), NEW c \in Classes, h.warm[c] # None,
         NEW r, r = TakeSlot(h, h.warm[c])
  PROVE  \E p \in D : /\ cont[p].cls = c /\ cont[p].used < Slots(c)
                      /\ r.ptr = p * PageSize + FreeSlot(cont[p]) * SlotSize[c]
                      /\ TakenAt(h, cap, D, cont, p, r.h)
                      /\ r = [h |-> r.h, ptr |-> r.ptr]
<1>1. PICK at, w : TableIs(h, cap, D, at, cont, w) /\ WarmExact(D, cont, w)  BY DEF Fresh
<1> DEFINE s == w[c]
<1>2. /\ Len(s) \in Nat /\ h.warm[c] = IF Len(s) = 0 THEN None ELSE at[s[1]]
      /\ \A k \in 1..Len(s) : s[k] \in D /\ cont[s[k]].cls = c
  BY <1>1, TableLists
<1>3. 1 \in 1..Len(s) /\ h.warm[c] = at[s[1]]  BY <1>2
<1> DEFINE p == s[1]
           i == at[p]
           d == h.pages[i]
           y == cont[p]
           z == Taken(y)
           c2 == [cont EXCEPT ![p] = z]
           pgs == [h.pages EXCEPT ![i] = DescOf(p, z, @.prev, @.next)]
           taken == [h EXCEPT !.pages = pgs]
<1>4. p \in D /\ y.cls = c /\ p \in Listed(s)  BY <1>2, <1>3 DEF Listed
<1>5. /\ IsHeap(h) /\ cap \in Nat /\ DOMAIN h.pages = 0..(cap - 1) /\ i \in 0..(cap - 1)
      /\ cont \in [D -> Content] /\ d = DescOf(p, y, d.prev, d.next)
      /\ d.page = p /\ d.bits = y.bits /\ d.used = y.used /\ d.cls = y.cls
  BY <1>1, <1>4, TableReads
<1>6. y.used < Slots(c) /\ y.used \in Nat /\ Slots(c) \in Nat
  <2>1. y.used < Slots(c)  BY <1>1, <1>4 DEF WarmExact, Unlisted
  <2>2. y \in Content  BY <1>4, <1>5
  <2> QED  BY <2>1, <2>2, SlotFacts DEF Content
<1>7. FirstFree(d) = FreeSlot(y)  BY <1>5 DEF FirstFree, FreeSlot
<1>8. [h EXCEPT !.pages[i] = [d EXCEPT !.bits = @ \cup {FirstFree(d)}, !.used = @ + 1]] = taken
  <2> DEFINE f == FreeSlot(y)
             pr == d.prev
             nx == d.next
             b2 == y.bits \cup {f}
             u2 == y.used + 1
             d1 == [d EXCEPT !.bits = @ \cup {f}]
             d2 == [d1 EXCEPT !.used = @ + 1]
  <2>1. z = [bits |-> b2, used |-> u2, cls |-> y.cls]  BY DEF Taken
  <2>2. d = [page |-> p, bits |-> y.bits, used |-> y.used, cls |-> y.cls, prev |-> pr, next |-> nx]
    BY <1>5 DEF DescOf
  <2>3. pgs = [h.pages EXCEPT ![i] = DescOf(p, z, pr, nx)]  OBVIOUS
  <2>4. [h EXCEPT !.pages[i] = [d EXCEPT !.bits = @ \cup {FirstFree(d)}, !.used = @ + 1]]
          = [h EXCEPT !.pages[i] = d2]
    BY <1>7
  <2>5. [h EXCEPT !.pages[i] = d2] = [h EXCEPT !.pages = [h.pages EXCEPT ![i] = d2]]  BY <1>5 DEF IsHeap
  <2> HIDE DEF z, y, f, p, i, d, b2, u2, pr, nx, pgs
  <2>6. d1 = [page |-> p, bits |-> b2, used |-> y.used, cls |-> y.cls, prev |-> pr, next |-> nx]
    BY <2>2 DEF b2
  <2> HIDE DEF d1
  <2>7. d2 = [page |-> p, bits |-> b2, used |-> u2, cls |-> y.cls, prev |-> pr, next |-> nx]
    BY <2>6 DEF u2
  <2>8. d2 = DescOf(p, z, pr, nx)  BY <2>1, <2>7 DEF DescOf
  <2> HIDE DEF d2
  <2> QED  BY <2>3, <2>4, <2>5, <2>8
<1>9. r = [h |-> IF y.used + 1 = Slots(c) THEN heap_warm_unlink(taken, i) ELSE taken,
           ptr |-> p * PageSize + FreeSlot(y) * SlotSize[c]]
  <2> HIDE DEF taken, p, y, d
  <2>1. r = TakeSlot(h, i)  BY <1>3 DEF p
  <2>2. r = [h |-> IF d.used + 1 = Slots(d.cls)
                   THEN heap_warm_unlink([h EXCEPT !.pages[i] = [d EXCEPT !.bits = @ \cup {FirstFree(d)}, !.used = @ + 1]], i)
                   ELSE [h EXCEPT !.pages[i] = [d EXCEPT !.bits = @ \cup {FirstFree(d)}, !.used = @ + 1]],
             ptr |-> d.page * PageSize + FirstFree(d) * SlotSize[d.cls]]
    BY <2>1 DEF TakeSlot, d
  <2> QED  BY <2>2, <1>4, <1>5, <1>7, <1>8
<1> HIDE DEF pgs
<1>10. IsHeap(taken) /\ taken.warm = h.warm /\ taken.pages = pgs /\ SameRest(taken, h) /\ taken.count = h.count
  BY <1>5 DEF IsHeap, SameRest
<1> HIDE DEF taken
<1>11. ASSUME z \in Content
       PROVE  Fresh(r.h, cap, D, c2) /\ SameRest(r.h, h) /\ r.h.count = h.count
  <2>1. z.cls = c /\ z.used = y.used + 1  BY <1>4 DEF Taken
  <2>2. TableIs(taken, cap, D, at, c2, w)
    <3> HIDE DEF s, z, c2
    <3>1. taken.pages = [h.pages EXCEPT ![at[p]] = DescOf(p, z, @.prev, @.next)]  BY <1>10 DEF pgs
    <3>2. z.cls = cont[p].cls  BY <2>1, <1>4
    <3> HIDE DEF p, y, i, d
    <3>3. TableIs(taken, cap, D, at, [cont EXCEPT ![p] = z], w)
      BY <3>1, <3>2, <1>1, <1>4, <1>10, <1>11, TableRefill
    <3> QED  BY <3>3 DEF c2
  <2>3. c2[p] = z /\ \A q \in D : q # p => c2[q] = cont[q]  BY <1>4, <1>5
  <2>4. \A q \in D : Unlisted(c2, w, q) <=> Unlisted(cont, w, q)
    BY <2>1, <2>3, <1>4 DEF Unlisted
  <2>5. \A q \in D : Unlisted(cont, w, q) <=> ~(cont[q].used < Slots(cont[q].cls))
    BY <1>1 DEF WarmExact
  <2> HIDE DEF c2, z
  <2>6. CASE y.used + 1 = Slots(c)
    <3> DEFINE w2 == [w EXCEPT ![c] = Cut(@, 1)]
    <3>1. r.h = heap_warm_unlink(taken, at[w[c][1]])  BY <1>9, <2>6
    <3>2. 1 \in 1..Len(w[c])  BY <1>3
    <3> DEFINE k == 1
               g == r.h
    <3>3. g = heap_warm_unlink(taken, at[w[c][k]]) /\ k \in 1..Len(w[c])  BY <3>1, <3>2
    <3> HIDE DEF g, k
    <3>4. /\ TableIs(g, cap, D, at, c2, Shorter(w, c, k))
          /\ SameRest(g, taken) /\ g.count = taken.count
      <4>1. Unlinking(taken, cap, D, at, c2, w, c, k, g)  BY <3>3, <2>2 DEF Unlinking
      <4> QED  BY <4>1, TableUnlink
    <3> DEFINE v == Shorter(w, c, k)
    <3> HIDE DEF v
    <3>5. ASSUME NEW q \in D
          PROVE  Unlisted(c2, v, q) <=> ~(c2[q].used < Slots(c2[q].cls))
      <4>1. v[c] = Cut(w[c], k) /\ \A e \in Classes : e # c => v[e] = w[e]
        <5>1. DOMAIN w = Classes  BY <1>1, TableLists
        <5> QED  BY <5>1 DEF v, Shorter
      <4>2. Unlisted(c2, v, q) <=> q = w[c][k] \/ Unlisted(c2, w, q)
        BY <3>3, <2>2, <4>1, UnlinkListed
      <4>3. w[c][k] = p  BY DEF k
      <4>4. CASE q = p
        BY <4>2, <4>3, <4>4, <2>1, <2>3, <2>6, <1>6
      <4>5. CASE q # p
        BY <4>2, <4>3, <4>5, <2>3, <2>4, <2>5
      <4> QED  BY <4>4, <4>5
    <3>6. Fresh(g, cap, D, c2)
      <4>1. WarmExact(D, c2, v)  BY <3>5 DEF WarmExact
      <4>2. TableIs(g, cap, D, at, c2, v)  BY <3>4 DEF v
      <4> QED  BY <4>1, <4>2 DEF Fresh
    <3>7. SameRest(g, h) /\ g.count = h.count  BY <3>4, <1>10 DEF SameRest
    <3> QED  BY <3>6, <3>7 DEF g
  <2>7. CASE y.used + 1 # Slots(c)
    <3>1. r.h = taken  BY <1>9, <2>7
    <3>2. WarmExact(D, c2, w)
      <4> SUFFICES ASSUME NEW q \in D PROVE Unlisted(c2, w, q) <=> ~(c2[q].used < Slots(c2[q].cls))
        BY DEF WarmExact
      <4>1. CASE q = p
        <5>1. ~Unlisted(c2, w, p)  BY <2>4, <1>4 DEF Unlisted
        <5>2. z.used < Slots(c)  BY <2>1, <2>7, <1>6
        <5> QED  BY <5>1, <5>2, <4>1, <2>1, <2>3
      <4>2. CASE q # p
        BY <4>2, <2>3, <2>4, <2>5
      <4> QED  BY <4>1, <4>2
    <3>3. Fresh(taken, cap, D, c2)  BY <3>2, <2>2 DEF Fresh
    <3> QED  BY <3>1, <3>3, <1>10
  <2> QED  BY <2>6, <2>7
<1>12. c2 = [cont EXCEPT ![p] = Taken(@)]  BY <1>4, <1>5
<1> HIDE DEF p, c2
<1>13. r.ptr = p * PageSize + FreeSlot(y) * SlotSize[c] /\ r = [h |-> r.h, ptr |-> r.ptr]  BY <1>9
<1>14. /\ cont[p].cls = c /\ cont[p].used < Slots(c)
       /\ r.ptr = p * PageSize + FreeSlot(cont[p]) * SlotSize[c]
       /\ TakenAt(h, cap, D, cont, p, r.h)
       /\ r = [h |-> r.h, ptr |-> r.ptr]
  <2>1. TakenAt(h, cap, D, cont, p, r.h)  BY <1>11, <1>12 DEF TakenAt
  <2> QED  BY <1>4, <1>6, <1>13, <2>1
<1> HIDE DEF y, s, i, d, z
<1> QED  BY <1>4, <1>14

Warming(h, cap, D, loc, cont, w, p, g) ==
    /\ TableIs(h, cap, D, loc, cont, w) /\ p \in D
    /\ Unlisted(cont, w, p) /\ cont[p].used < Slots(cont[p].cls)
    /\ \A q \in D : q # p => (Unlisted(cont, w, q) <=> ~(cont[q].used < Slots(cont[q].cls)))
    /\ g = heap_warm_push(h, loc[p])

\* A push makes the pages with room the listed ones again.
LEMMA WarmPush ==
  ASSUME NEW h, NEW cap, NEW D, NEW loc, NEW cont, NEW w, NEW p, NEW g,
         Warming(h, cap, D, loc, cont, w, p, g)
  PROVE  /\ \E v : TableIs(g, cap, D, loc, cont, v) /\ WarmExact(D, cont, v)
         /\ SameRest(g, h) /\ g.count = h.count
<1> USE DEF Warming
<1> DEFINE v == [w EXCEPT ![cont[p].cls] = Onto(p, @)]
<1>1. TableIs(g, cap, D, loc, cont, v) /\ SameRest(g, h) /\ g.count = h.count  BY TablePush
<1>2. DOMAIN w = Classes /\ cont[p].cls \in Classes  BY TableLists, TableReads DEF Content
<1>3. v[cont[p].cls] = Onto(p, w[cont[p].cls]) /\ \A e \in Classes : e # cont[p].cls => v[e] = w[e]
  BY <1>2
<1> HIDE DEF v
<1>4. \A q \in D : Unlisted(cont, v, q) <=> q # p /\ Unlisted(cont, w, q)
  BY <1>3, PushListed
<1>5. WarmExact(D, cont, v)  BY <1>4 DEF WarmExact
<1> QED  BY <1>1, <1>5

Placing(h, cap, D, cont, p, c, b, g) ==
    /\ Fresh(h, cap, D, cont) /\ Cardinality(D) < cap
    /\ p \in Pages \ D /\ c \in Classes /\ b = InsertBucket(h.pages, cap, p)
    /\ g = heap_warm_push([h EXCEPT !.pages[b] = NewDesc(p, c), !.count = @ + 1], b)

\* A page comes to its class.
LEMMA InstallKeeps ==
  ASSUME NEW h, NEW cap, NEW D, NEW cont, NEW p, NEW c, NEW b, NEW g,
         Placing(h, cap, D, cont, p, c, b, g)
  PROVE  /\ \A E, new : E = D \cup {p} /\ new = Plus(cont, p, NewPage(c)) => Fresh(g, cap, E, new)
         /\ SameRest(g, h) /\ g.count = h.count + 1
<1> USE DEF Placing
<1>1. PICK at, w : TableIs(h, cap, D, at, cont, w) /\ WarmExact(D, cont, w)  BY DEF Fresh
<1> DEFINE y == NewPage(c)
           pgs == [h.pages EXCEPT ![b] = DescOf(p, y, None, None)]
           n == h.count + 1
           placed == [h EXCEPT !.pages = pgs, !.count = n]
           E == D \cup {p}
           a2 == Plus(at, p, b)
           c2 == Plus(cont, p, y)
<1>2. IsHeap(h) /\ at \in [D -> 0..(cap - 1)] /\ cont \in [D -> Content] /\ cap \in Nat
  BY <1>1, TableReads
<1>3. y.cls = c /\ y.used = 0  BY DEF NewPage
<1>4. g = heap_warm_push(placed, b)
  <2>1. NewDesc(p, c) = DescOf(p, y, None, None)  BY DEF NewDesc, DescOf, NewPage
  <2>2. [h EXCEPT !.pages[b] = NewDesc(p, c), !.count = @ + 1] = placed
    <3> HIDE DEF y
    <3> QED  BY <2>1, <1>2 DEF IsHeap
  <2> HIDE DEF placed
  <2> QED  BY <2>2
<1>5. GoodPage(y)  BY NewPageGood DEF NewPage
<1>6. y \in Content  BY <1>5 DEF GoodPage
<1> HIDE DEF pgs, n
<1>16. placed = [h EXCEPT !.pages = pgs, !.count = n]  OBVIOUS
<1> HIDE DEF placed, y
<1>7. IsHeap(placed) /\ placed.warm = h.warm /\ placed.pages = pgs /\ SameRest(placed, h) /\ placed.count = n
  BY <1>2, <1>16 DEF IsHeap, SameRest
<1>8. TableIs(placed, cap, E, a2, c2, w) /\ Unlisted(c2, w, p)
  <2> HIDE DEF E, a2, c2
  <2>1. /\ TableIs(placed, cap, D \cup {p}, Plus(at, p, b), Plus(cont, p, y), w)
        /\ Unlisted(Plus(cont, p, y), w, p) /\ b \in 0..(cap - 1)
    BY <1>1, <1>6, <1>7, TablePlace DEF pgs
  <2> QED  BY <2>1 DEF E, a2, c2
<1>9. /\ a2[p] = b /\ c2[p] = y /\ p \in E
      /\ \A q \in E : q # p => c2[q] = cont[q] /\ q \in D
  BY <1>2 DEF Plus
<1> HIDE DEF E, a2, c2
<1>10. ASSUME NEW q \in E, q # p
       PROVE  Unlisted(c2, w, q) <=> ~(c2[q].used < Slots(c2[q].cls))
  <2>1. q \in D /\ c2[q] = cont[q]  BY <1>9, <1>10
  <2>2. Unlisted(cont, w, q) <=> ~(cont[q].used < Slots(cont[q].cls))  BY <2>1, <1>1 DEF WarmExact
  <2> QED  BY <2>1, <2>2 DEF Unlisted
<1>11. c2[p].used < Slots(c2[p].cls) /\ g = heap_warm_push(placed, a2[p])
  <2>1. 0 < Slots(c)
    <3>1. Slots(c) \in Nat /\ Slots(c) > 1  BY SlotFacts
    <3> QED  BY <3>1
  <2> QED  BY <2>1, <1>3, <1>4, <1>9
<1>12. /\ \E v : TableIs(g, cap, E, a2, c2, v) /\ WarmExact(E, c2, v)
       /\ SameRest(g, placed) /\ g.count = placed.count
  <2>1. Warming(placed, cap, E, a2, c2, w, p, g)  BY <1>8, <1>9, <1>10, <1>11 DEF Warming
  <2> QED  BY <2>1, WarmPush
<1>14. SameRest(g, h) /\ g.count = h.count + 1  BY <1>7, <1>12 DEF SameRest, n
<1>15. Fresh(g, cap, E, c2)  BY <1>12 DEF Fresh
<1> QED  BY <1>14, <1>15 DEF E, c2, y

WithCleared(cont, p, s) == [cont EXCEPT ![p] = Cleared(@, s)]

Clearing(h, cap, D, cont, p, s, i, k, g) ==
    /\ Fresh(h, cap, D, cont) /\ p \in D
    /\ GoodPage(cont[p]) /\ s \in cont[p].bits /\ s \notin TailBits(cont[p].cls)
    /\ i = heap_hash_lookup(h, p)
    /\ k = [h EXCEPT !.pages[i] = [h.pages[i] EXCEPT !.bits = @ \ {s}, !.used = @ - 1]]
    /\ g = IF h.pages[i].used = Slots(h.pages[i].cls) THEN heap_warm_push(k, i) ELSE k

\* A slot of a page is free again; a page that was full is warm again.
LEMMA ClearSlotKeeps ==
  ASSUME NEW h, NEW cap, NEW D, NEW cont, NEW p, NEW s, NEW i, NEW k, NEW g,
         Clearing(h, cap, D, cont, p, s, i, k, g)
  PROVE  /\ Fresh(g, cap, D, WithCleared(cont, p, s))
         /\ SameRest(g, h) /\ g.count = h.count /\ heap_hash_lookup(g, p) = i
<1> DEFINE d == h.pages[i]
<1>a. /\ Fresh(h, cap, D, cont) /\ p \in D
      /\ GoodPage(cont[p]) /\ s \in cont[p].bits /\ s \notin TailBits(cont[p].cls)
      /\ i = heap_hash_lookup(h, p)
  BY DEF Clearing
<1>b. /\ k = [h EXCEPT !.pages[i] = [d EXCEPT !.bits = @ \ {s}, !.used = @ - 1]]
      /\ g = IF d.used = Slots(d.cls) THEN heap_warm_push(k, i) ELSE k
  BY DEF Clearing
<1>1. PICK at, w : TableIs(h, cap, D, at, cont, w) /\ WarmExact(D, cont, w)  BY <1>a DEF Fresh
<1> DEFINE y == cont[p]
           z == Cleared(y, s)
           c2 == [cont EXCEPT ![p] = z]
           pgs == [h.pages EXCEPT ![i] = DescOf(p, z, @.prev, @.next)]
<1>2. i = at[p]
  <2>1. heap_hash_lookup(h, p) = at[p]  BY <1>1, <1>a, TableLookup
  <2> QED  BY <2>1, <1>a
<1>3. /\ IsHeap(h) /\ cap \in Nat /\ DOMAIN h.pages = 0..(cap - 1) /\ at[p] \in 0..(cap - 1)
      /\ cont \in [D -> Content] /\ h.pages[at[p]] = DescOf(p, y, h.pages[at[p]].prev, h.pages[at[p]].next)
      /\ h.pages[at[p]].page = p /\ h.pages[at[p]].bits = y.bits
      /\ h.pages[at[p]].used = y.used /\ h.pages[at[p]].cls = y.cls
  BY <1>1, <1>a, TableReads
<1>4. /\ d = DescOf(p, y, d.prev, d.next) /\ i \in 0..(cap - 1)
      /\ d.page = p /\ d.bits = y.bits /\ d.used = y.used /\ d.cls = y.cls
  BY <1>2, <1>3
<1>5. k = [h EXCEPT !.pages = pgs]
  <2> DEFINE pr == d.prev
             nx == d.next
             b2 == y.bits \ {s}
             u2 == y.used - 1
             d1 == [d EXCEPT !.bits = @ \ {s}]
             d2 == [d1 EXCEPT !.used = @ - 1]
  <2>1. z = [bits |-> b2, used |-> u2, cls |-> y.cls]  BY DEF Cleared
  <2>2. d = [page |-> p, bits |-> y.bits, used |-> y.used, cls |-> y.cls, prev |-> pr, next |-> nx]
    BY <1>4 DEF DescOf
  <2>3. pgs = [h.pages EXCEPT ![i] = DescOf(p, z, pr, nx)]  OBVIOUS
  <2>4. [d EXCEPT !.bits = @ \ {s}, !.used = @ - 1] = d2  OBVIOUS
  <2>5. k = [h EXCEPT !.pages = [h.pages EXCEPT ![i] = d2]]
    <3> HIDE DEF d2, d
    <3> QED  BY <2>4, <1>3, <1>b DEF IsHeap
  <2> HIDE DEF z, y, b2, u2, pr, nx, pgs
  <2>6. d1 = [page |-> p, bits |-> b2, used |-> y.used, cls |-> y.cls, prev |-> pr, next |-> nx]
    BY <2>2 DEF b2
  <2> HIDE DEF d1
  <2>7. d2 = [page |-> p, bits |-> b2, used |-> u2, cls |-> y.cls, prev |-> pr, next |-> nx]
    BY <2>6 DEF u2
  <2>8. d2 = DescOf(p, z, pr, nx)  BY <2>1, <2>7 DEF DescOf
  <2> HIDE DEF d2
  <2> QED  BY <2>3, <2>5, <2>8
<1>6. z \in Content /\ y.used > 0 /\ z.cls = y.cls /\ z.used = y.used - 1
      /\ y.used \in Nat /\ y.used <= Slots(y.cls) /\ Slots(y.cls) \in Nat
  <2>1. z = [bits |-> y.bits \ {s}, used |-> y.used - 1, cls |-> y.cls]  BY DEF Cleared
  <2>2. GoodPage(y) /\ s \in y.bits /\ s \notin TailBits(y.cls)  BY <1>a
  <2> HIDE DEF y, z
  <2>3. GoodPage(z) /\ y.used > 0  BY <2>1, <2>2, ClearedGood
  <2>4. y.used \in Nat /\ y.used <= Slots(y.cls) /\ y.cls \in Classes  BY <2>2, PageFacts
  <2>5. Slots(y.cls) \in Nat  BY <2>4, SlotFacts
  <2> QED  BY <2>1, <2>3, <2>4, <2>5 DEF GoodPage
<1> HIDE DEF pgs
<1>7. IsHeap(k) /\ k.warm = h.warm /\ k.pages = pgs /\ SameRest(k, h) /\ k.count = h.count
  BY <1>3, <1>5 DEF IsHeap, SameRest
<1>8. TableIs(k, cap, D, at, c2, w)
  <2>1. k.pages = [h.pages EXCEPT ![at[p]] = DescOf(p, z, @.prev, @.next)]  BY <1>2, <1>7 DEF pgs
  <2>2. z.cls = cont[p].cls  BY <1>6
  <2> HIDE DEF z, y, c2
  <2>3. TableIs(k, cap, D, at, [cont EXCEPT ![p] = z], w)
    BY <2>1, <2>2, <1>1, <1>6, <1>7, <1>a, TableRefill
  <2> QED  BY <2>3 DEF c2
<1>9. c2[p] = z /\ \A q \in D : q # p => c2[q] = cont[q]  BY <1>3, <1>a
<1> HIDE DEF c2, z, d
<1>10. \A q \in D : Unlisted(c2, w, q) <=> Unlisted(cont, w, q)
  BY <1>6, <1>9, <1>a DEF Unlisted
<1>11. \A q \in D : Unlisted(cont, w, q) <=> ~(cont[q].used < Slots(cont[q].cls))
  BY <1>1 DEF WarmExact
<1>12. \A q \in D : q # p => (Unlisted(c2, w, q) <=> ~(c2[q].used < Slots(c2[q].cls)))
  BY <1>9, <1>10, <1>11
<1>13. c2[p].used < Slots(c2[p].cls)  BY <1>6, <1>9
<1>14. CASE d.used = Slots(d.cls)
  <2>1. Unlisted(c2, w, p)
    <3>1. ~(y.used < Slots(y.cls))  BY <1>4, <1>6, <1>14
    <3> QED  BY <3>1, <1>10, <1>11, <1>a
  <2>2. g = heap_warm_push(k, at[p])  BY <1>2, <1>14, <1>b
  <2> HIDE DEF y
  <2>4. /\ \E v : TableIs(g, cap, D, at, c2, v) /\ WarmExact(D, c2, v)
        /\ SameRest(g, k) /\ g.count = k.count
    <3>1. Warming(k, cap, D, at, c2, w, p, g)  BY <1>8, <1>12, <1>13, <1>a, <2>1, <2>2 DEF Warming
    <3> QED  BY <3>1, WarmPush
  <2>3. PICK v : TableIs(g, cap, D, at, c2, v) /\ WarmExact(D, c2, v)  BY <2>4
  <2>5. SameRest(g, h) /\ g.count = h.count  BY <2>4, <1>7 DEF SameRest
  <2>6. heap_hash_lookup(g, p) = at[p]  BY <2>3, <1>a, TableLookup
  <2>7. Fresh(g, cap, D, c2)  BY <2>3 DEF Fresh
  <2> QED  BY <2>5, <2>6, <2>7, <1>2 DEF c2, z, y, WithCleared
<1>15. CASE d.used # Slots(d.cls)
  <2>1. g = k  BY <1>15, <1>b
  <2>2. ~Unlisted(c2, w, p)
    <3>1. y.used < Slots(y.cls)  BY <1>4, <1>6, <1>15
    <3> QED  BY <3>1, <1>10, <1>11, <1>a
  <2>3. WarmExact(D, c2, w)  BY <2>2, <1>12, <1>13 DEF WarmExact
  <2>4. Fresh(g, cap, D, c2)  BY <2>1, <2>3, <1>8 DEF Fresh
  <2>5. heap_hash_lookup(g, p) = at[p]  BY <2>1, <1>8, <1>a, TableLookup
  <2> QED  BY <2>1, <2>4, <2>5, <1>2, <1>7 DEF c2, z, y, WithCleared
<1> QED  BY <1>14, <1>15

\* A page that has room leaves the table.
LEMMA ReclaimRemoves ==
  ASSUME NEW h, NEW cap, NEW D, NEW cont, Fresh(h, cap, D, cont), Cardinality(D) < cap,
         NEW p \in D, cont[p].used < Slots(cont[p].cls), NEW i, i = heap_hash_lookup(h, p),
         NEW g, g = heap_hash_remove(heap_warm_unlink(h, i), i)
  PROVE  /\ \A E, new : E = D \ {p} /\ new = Minus(cont, p) => Fresh(g, cap, E, new)
         /\ SameRest(g, h) /\ g.count = h.count - 1
<1>1. PICK at, w : TableIs(h, cap, D, at, cont, w) /\ WarmExact(D, cont, w)  BY DEF Fresh
<1> DEFINE c == cont[p].cls
           s == w[c]
<1>2. i = at[p]
  <2>1. heap_hash_lookup(h, p) = at[p]  BY <1>1, TableLookup
  <2> QED  BY <2>1
<1>3. c \in Classes /\ cont \in [D -> Content] /\ DOMAIN w = Classes
  BY <1>1, TableReads, TableLists DEF Content
<1>4. PICK j \in 1..Len(s) : s[j] = p
  <2>1. p \in Listed(s)  BY <1>1 DEF WarmExact, Unlisted
  <2> QED  BY <2>1 DEF Listed
<1> DEFINE k == heap_warm_unlink(h, i)
           v == Shorter(w, c, j)
<1>5. TableIs(k, cap, D, at, cont, v) /\ SameRest(k, h) /\ k.count = h.count
  <2>1. k = heap_warm_unlink(h, at[w[c][j]])  BY <1>2, <1>4
  <2> HIDE DEF k, c
  <2>2. j \in 1..Len(w[c])  BY <1>4
  <2>3. /\ TableIs(k, cap, D, at, cont, Shorter(w, c, j))
        /\ SameRest(k, h) /\ k.count = h.count
    <3>1. Unlinking(h, cap, D, at, cont, w, c, j, k)  BY <2>1, <2>2, <1>1, <1>3 DEF Unlinking
    <3> QED  BY <3>1, TableUnlink
  <2> QED  BY <2>3
<1>6. v[c] = Cut(w[c], j) /\ \A e \in Classes : e # c => v[e] = w[e]  BY <1>3 DEF Shorter
<1>7. \A q \in D : Unlisted(cont, v, q) <=> q = p \/ Unlisted(cont, w, q)
  <2> SUFFICES ASSUME NEW q \in D PROVE Unlisted(cont, v, q) <=> q = p \/ Unlisted(cont, w, q)  OBVIOUS
  <2> HIDE DEF v, c
  <2>1. j \in 1..Len(w[c])  BY <1>4
  <2>2. Unlisted(cont, v, q) <=> q = w[c][j] \/ Unlisted(cont, w, q)
    BY <2>1, <1>1, <1>3, <1>6, UnlinkListed
  <2> QED  BY <2>2, <1>4
<1> HIDE DEF k, v, c, s
<1>8. Unlisted(cont, v, p) /\ g = heap_hash_remove(k, at[p])  BY <1>2, <1>7 DEF k
<1>9. /\ \E a : TableIs(g, cap, D \ {p}, a, Minus(cont, p), v)
      /\ SameRest(g, k) /\ g.count = k.count - 1
  <2>1. Removing(k, cap, D, at, cont, v, p, g)  BY <1>5, <1>8 DEF Removing
  <2> QED  BY <2>1, TableRemove
<1>10. WarmExact(D \ {p}, Minus(cont, p), v)
  <2> SUFFICES ASSUME NEW q \in D, q # p
               PROVE  Unlisted(Minus(cont, p), v, q)
                        <=> ~(Minus(cont, p)[q].used < Slots(Minus(cont, p)[q].cls))
    BY DEF WarmExact
  <2>1. Minus(cont, p)[q] = cont[q]  BY <1>3 DEF Minus
  <2>2. Unlisted(cont, w, q) <=> ~(cont[q].used < Slots(cont[q].cls))  BY <1>1 DEF WarmExact
  <2>3. Unlisted(Minus(cont, p), v, q) <=> Unlisted(cont, v, q)  BY <2>1 DEF Unlisted
  <2> QED  BY <2>1, <2>2, <2>3, <1>7
<1>11. Fresh(g, cap, D \ {p}, Minus(cont, p))  BY <1>9, <1>10 DEF Fresh
<1>12. SameRest(g, h) /\ g.count = h.count - 1  BY <1>5, <1>9 DEF SameRest
<1> QED  BY <1>11, <1>12

\* A page that heads its list and has no next is the only one with room.
LEMMA LastWarm ==
  ASSUME NEW h, NEW cap, NEW D, NEW cont, Fresh(h, cap, D, cont),
         NEW p \in D, NEW i, i = heap_hash_lookup(h, p),
         h.warm[cont[p].cls] = i, h.pages[i].next = None,
         NEW q \in D, cont[q].cls = cont[p].cls, cont[q].used < Slots(cont[q].cls)
  PROVE  q = p
<1>1. PICK at, w : TableIs(h, cap, D, at, cont, w) /\ WarmExact(D, cont, w)  BY DEF Fresh
<1> DEFINE c == cont[p].cls
           s == w[c]
<1>2. i = at[p]
  <2>1. heap_hash_lookup(h, p) = at[p]  BY <1>1, TableLookup
  <2> QED  BY <2>1
<1>3. at \in [D -> 0..(cap - 1)] /\ (\A a, b \in D : at[a] = at[b] => a = b) /\ c \in Classes
  BY <1>1, TableReads DEF Content
<1>4. /\ Len(s) \in Nat /\ h.warm[c] = IF Len(s) = 0 THEN None ELSE at[s[1]]
      /\ \A k \in 1..Len(s) : /\ s[k] \in D
                              /\ h.pages[at[s[k]]].next = IF k = Len(s) THEN None ELSE at[s[k + 1]]
  <2> HIDE DEF c
  <2> QED  BY <1>1, <1>3, TableLists
<1>5. PICK j \in 1..Len(s) : s[j] = q
  <2>1. q \in Listed(s)  BY <1>1 DEF WarmExact, Unlisted
  <2> QED  BY <2>1 DEF Listed
<1> HIDE DEF c, s
<1>6. 1 \in 1..Len(s) /\ s[1] = p
  <2>1. 1 \in 1..Len(s)  BY <1>4, <1>5
  <2>2. at[s[1]] = at[p]  BY <2>1, <1>2, <1>4 DEF c
  <2> QED  BY <2>1, <2>2, <1>3, <1>4
<1>7. Len(s) = 1
  <2> SUFFICES ASSUME Len(s) # 1 PROVE FALSE  OBVIOUS
  <2> DEFINE k == 1
  <2>3. k \in 1..Len(s) /\ k # Len(s) /\ k + 1 \in 1..Len(s) /\ s[k] = p
    <3> DEFINE n == Len(s)
    <3>1. n \in Nat /\ 1 \in 1..n /\ n # 1 /\ s[1] = p  BY <1>4, <1>6
    <3> HIDE DEF n
    <3>2. 1 \in 1..n /\ 1 # n /\ 1 + 1 \in 1..n  BY <3>1
    <3> QED  BY <3>1, <3>2 DEF n
  <2> HIDE DEF k
  <2>4. h.pages[at[p]].next = at[s[k + 1]] /\ k + 1 \in 1..Len(s)  BY <1>4, <2>3
  <2>1. h.pages[at[p]].next = at[s[1 + 1]] /\ 1 + 1 \in 1..Len(s)  BY <2>4 DEF k
  <2>2. s[1 + 1] \in D  BY <2>1, <1>4
  <2> QED  BY <2>1, <2>2, <1>2, <1>3 DEF None
<1> QED  BY <1>5, <1>6, <1>7

------------------------------------------------------------------------------
\* Sequences of pages and of regions.

\* Without its last member.
LEMMA DropLastSans ==
  ASSUME NEW S, NEW s \in Seq(S), s # << >>
  PROVE  Len(s) \in 1..Len(s) /\ Sans(s, Len(s), DropLast(s)) /\ Last(s) = s[Len(s)]
<1> DEFINE n == Len(s) - 1
           f == [k \in 1..n |-> k]
<1>1. Len(s) \in Nat /\ Len(s) # 0  BY EmptySeq
<1>2. n \in Nat /\ n + 1 = Len(s)  BY <1>1
<1>3. DropLast(s) = [k \in 1..n |-> s[k]]
  <2> DEFINE t == SubSeq(s, 1, n)
  <2>1. DropLast(s) = t  BY DEF DropLast
  <2>2. \A k \in 1..n : s[k] \in S
    <3> SUFFICES ASSUME NEW k \in 1..n PROVE s[k] \in S  OBVIOUS
    <3>1. k \in 1..Len(s)  BY <1>2
    <3> QED  BY <3>1, ElementOfSeq
  <2> HIDE DEF n
  <2>3. /\ SubSeq(s, 1, n) \in Seq(S)
        /\ Len(SubSeq(s, 1, n)) = IF 1 <= n THEN n - 1 + 1 ELSE 0
        /\ \A k \in 1..(n - 1 + 1) : SubSeq(s, 1, n)[k] = s[1 + k - 1]
    BY <2>2, <1>2, SubSeqProperties
  <2>4. (IF 1 <= n THEN n - 1 + 1 ELSE 0) = n /\ n - 1 + 1 = n /\ \A k \in 1..n : 1 + k - 1 = k  BY <1>2
  <2>5. t \in Seq(S) /\ Len(t) = n /\ \A k \in 1..n : t[k] = s[k]  BY <2>3, <2>4
  <2> HIDE DEF t
  <2>6. t = [k \in 1..Len(t) |-> t[k]]  BY <2>5
  <2> QED  BY <2>1, <2>5, <2>6
<1>4. f \in [1..n -> 1..Len(s)]  BY <1>2
<1>5. /\ \A j, k \in 1..n : f[j] = f[k] => j = k
      /\ \A k \in 1..n : f[k] # Len(s)
      /\ \A j \in 1..Len(s) : j # Len(s) => \E k \in 1..n : f[k] = j
  <2>1. \A k \in 1..n : f[k] = k  OBVIOUS
  <2>2. \A j \in 1..Len(s) : j # Len(s) => j \in 1..n
    <3> HIDE DEF n
    <3> QED  BY <1>1, <1>2
  <2>3. \A k \in 1..n : k # Len(s)
    <3> HIDE DEF n
    <3> QED  BY <1>1, <1>2
  <2> HIDE DEF f, n
  <2> QED  BY <2>1, <2>2, <2>3
<1>6. DropLast(s) = [k \in 1..n |-> s[f[k]]]  BY <1>3
<1> HIDE DEF f
<1>7. Sans(s, Len(s), DropLast(s))  BY <1>4, <1>5, <1>6 DEF Sans
<1>8. Len(s) \in 1..Len(s) /\ Last(s) = s[Len(s)]  BY <1>1 DEF Last
<1> QED  BY <1>7, <1>8

\* With the last member in the place of the i-th.
LEMMA SwapRemoveSans ==
  ASSUME NEW S, NEW s \in Seq(S), NEW i \in 1..Len(s)
  PROVE  Sans(s, i, SwapRemove(s, i))
<1> DEFINE n == Len(s) - 1
           m == Len(s)
           f == [k \in 1..n |-> IF k = i THEN m ELSE k]
<1>1. m \in Nat /\ n \in Nat /\ n + 1 = m /\ i \in 1..m
  <2>1. Len(s) \in Nat  OBVIOUS
  <2> QED  BY <2>1
<1>2. SwapRemove(s, i) = [k \in 1..n |-> s[f[k]]]  BY DEF SwapRemove, Last
<1>3. \A k \in 1..n : f[k] = IF k = i THEN m ELSE k  OBVIOUS
<1> HIDE DEF n, m
<1>4. f \in [1..n -> 1..m]  BY <1>1
<1> HIDE DEF f
<1>5. \A j, k \in 1..n : f[j] = f[k] => j = k  BY <1>1, <1>3
<1>6. \A k \in 1..n : f[k] # i  BY <1>1, <1>3
<1>7. ASSUME NEW j \in 1..m, j # i
      PROVE  \E k \in 1..n : f[k] = j
  <2>1. CASE j = m
    <3>1. i \in 1..n /\ f[i] = m  BY <2>1, <1>1, <1>3, <1>7
    <3> QED  BY <2>1, <3>1
  <2>2. CASE j # m
    <3>1. j \in 1..n /\ f[j] = j  BY <2>2, <1>1, <1>3, <1>7
    <3> QED  BY <3>1
  <2> QED  BY <2>1, <2>2
<1> QED  BY <1>2, <1>4, <1>5, <1>6, <1>7 DEF Sans, n, m

\* A sequence of pages, each once.
Stack(s) == s \in Seq(Pages) /\ \A j, k \in 1..Len(s) : s[j] = s[k] => j = k

\* Its last page comes off.
LEMMA StackPop ==
  ASSUME NEW s, Stack(s), s # << >>
  PROVE  /\ Stack(DropLast(s)) /\ Len(DropLast(s)) = Len(s) - 1 /\ Len(s) \in Nat /\ Len(s) > 0
         /\ Last(s) \in Listed(s) /\ Listed(DropLast(s)) = Listed(s) \ {Last(s)}
<1> DEFINE t == DropLast(s)
           i == Len(s)
<1>1. s \in Seq(Pages) /\ \A j, k \in 1..Len(s) : s[j] = s[k] => j = k  BY DEF Stack
<1>2. i \in 1..Len(s) /\ Sans(s, i, t) /\ Last(s) = s[i]  BY <1>1, DropLastSans
<1>8. IsSans(Pages, s, i, t)  BY <1>1, <1>2 DEF IsSans
<1> HIDE DEF t, i
<1>3. t \in Seq(Pages) /\ Len(t) = Len(s) - 1 /\ Len(s) \in Nat /\ Len(s) > 0  BY <1>8, SansSeq
<1>4. PICK f : /\ f \in [1..Len(t) -> 1..Len(s)]
               /\ \A j, k \in 1..Len(t) : f[j] = f[k] => j = k
               /\ \A k \in 1..Len(t) : f[k] # i /\ t[k] = s[f[k]]
               /\ \A j \in 1..Len(s) : j # i => \E k \in 1..Len(t) : f[k] = j
  BY <1>8, SansMembers
<1>5. Stack(t)
  <2>1. ASSUME NEW j \in 1..Len(t), NEW k \in 1..Len(t), t[j] = t[k] PROVE j = k
    <3>1. f[j] \in 1..Len(s) /\ f[k] \in 1..Len(s) /\ s[f[j]] = s[f[k]]  BY <1>4, <2>1
    <3>2. f[j] = f[k]  BY <3>1, <1>1
    <3> QED  BY <3>2, <1>4
  <2> QED  BY <2>1, <1>3 DEF Stack
<1>6. Listed(t) = Listed(s) \ {s[i]}
  <2>1. \A k \in 1..Len(t) : t[k] \in Listed(s) \ {s[i]}  BY <1>1, <1>2, <1>4 DEF Listed
  <2>2. \A j \in 1..Len(s) : s[j] # s[i] => s[j] \in Listed(t)
    <3> SUFFICES ASSUME NEW j \in 1..Len(s), s[j] # s[i] PROVE s[j] \in Listed(t)  OBVIOUS
    <3>1. PICK k \in 1..Len(t) : f[k] = j  BY <1>4
    <3> QED  BY <3>1, <1>4 DEF Listed
  <2> QED  BY <2>1, <2>2 DEF Listed
<1>7. s[i] \in Listed(s)  BY <1>2 DEF Listed
<1> QED  BY <1>2, <1>3, <1>5, <1>6, <1>7 DEF t

\* A page more goes on.
LEMMA StackPush ==
  ASSUME NEW s, Stack(s), NEW p \in Pages, p \notin Listed(s)
  PROVE  /\ Stack(Append(s, p)) /\ Len(Append(s, p)) = Len(s) + 1 /\ Len(s) \in Nat
         /\ Listed(Append(s, p)) = Listed(s) \cup {p}
<1> DEFINE t == Append(s, p)
           n == Len(s)
<1>1. s \in Seq(Pages) /\ \A j, k \in 1..n : s[j] = s[k] => j = k  BY DEF Stack
<1>2. n \in Nat  BY <1>1
<1>3. t \in Seq(Pages) /\ Len(t) = n + 1 /\ t[n + 1] = p /\ \A k \in 1..n : t[k] = s[k]
  BY <1>1, AppendProperties
<1>4. \A k \in 1..n : s[k] # p  BY DEF Listed
<1> HIDE DEF t, n
<1>5. \A k \in 1..(n + 1) : k \in 1..n \/ k = n + 1  BY <1>2
<1>6. Stack(t)
  <2>1. \A j, k \in 1..Len(t) : t[j] = t[k] => j = k  BY <1>1, <1>3, <1>4, <1>5
  <2> QED  BY <2>1, <1>3 DEF Stack
<1>7. Listed(t) = Listed(s) \cup {p}
  <2>1. \A k \in 1..n : k \in 1..(n + 1)  BY <1>2
  <2>2. n + 1 \in 1..(n + 1)  BY <1>2
  <2> QED  BY <2>1, <2>2, <1>3, <1>5 DEF Listed, n
<1> QED  BY <1>2, <1>3, <1>6, <1>7 DEF t, n

------------------------------------------------------------------------------
\* Sequences whose members are all different, and the regions of the XL lists.

\* A stack of pages is such a sequence.
LEMMA StackIsOnce == \A s : Stack(s) <=> Once(Pages, s)
  BY DEF Stack, Once

XLRegion == [page : Nat, n : Nat \ {0}]
PagesOf(x) == Region(x.page, x.n)
Covered(R) == UNION {PagesOf(x) : x \in R}
AllApart(R) == \A x, y \in R : x # y => PagesOf(x) \cap PagesOf(y) = {}

\* A list of regions that do not overlap.
Parcels(s) == Once(XLRegion, s) /\ AllApart(Listed(s))

\* A region has pages, as many as it says.
LEMMA RegionFacts ==
  ASSUME NEW x \in XLRegion
  PROVE  /\ x.page \in Nat /\ x.n \in Nat /\ x.n > 0 /\ x = [page |-> x.page, n |-> x.n]
         /\ x.page \in PagesOf(x) /\ PagesOf(x) \subseteq Nat
         /\ IsFiniteSet(PagesOf(x)) /\ Cardinality(PagesOf(x)) = x.n
<1>1. x.page \in Nat /\ x.n \in Nat /\ x.n > 0 /\ x = [page |-> x.page, n |-> x.n]  BY DEF XLRegion
<1>2. x.page \in PagesOf(x) /\ PagesOf(x) \subseteq Nat  BY <1>1 DEF PagesOf, Region
<1>3. IsFiniteSet(PagesOf(x)) /\ Cardinality(PagesOf(x)) = x.n  BY <1>1, RegionCard DEF PagesOf
<1> QED  BY <1>1, <1>2, <1>3

\* What the model says of the sequences.
LEMMA ParcelsFacts ==
  ASSUME NEW s, Parcels(s)
  PROVE  /\ Once(XLRegion, s) /\ s \in Seq(XLRegion) /\ DOMAIN s = 1..Len(s) /\ Len(s) \in Nat
         /\ Listed(s) \subseteq XLRegion /\ AllApart(Listed(s))
         /\ XLPages(s) = Covered(Listed(s)) /\ Apart(s)
         /\ \A i \in 1..Len(s) : s[i] \in XLRegion /\ s[i] \in Listed(s)
<1>1. Once(XLRegion, s) /\ AllApart(Listed(s))  BY DEF Parcels
<1>2. s \in Seq(XLRegion) /\ \A j, k \in 1..Len(s) : s[j] = s[k] => j = k  BY <1>1 DEF Once
<1>3. DOMAIN s = 1..Len(s) /\ Len(s) \in Nat  BY <1>2
<1>4. \A i \in 1..Len(s) : s[i] \in XLRegion /\ s[i] \in Listed(s)  BY <1>2, ElementOfSeq DEF Listed
<1>5. Listed(s) \subseteq XLRegion  BY <1>4 DEF Listed
<1>6. XLPages(s) = Covered(Listed(s))  BY <1>3 DEF XLPages, Covered, Listed, PagesOf
<1>7. Apart(s)
  <2> SUFFICES ASSUME NEW i \in 1..Len(s), NEW j \in 1..Len(s), i # j
               PROVE  PagesOf(s[i]) \cap PagesOf(s[j]) = {}
    BY <1>3 DEF Apart, PagesOf
  <2> QED  BY <1>1, <1>2, <1>4 DEF AllApart
<1> QED  BY <1>1, <1>2, <1>3, <1>4, <1>5, <1>6, <1>7

\* One region less, and one more.
LEMMA CoveredSans ==
  ASSUME NEW R, AllApart(R), NEW x \in R
  PROVE  /\ AllApart(R \ {x}) /\ Covered(R \ {x}) = Covered(R) \ PagesOf(x)
         /\ PagesOf(x) \subseteq Covered(R)
<1>1. AllApart(R \ {x})  BY DEF AllApart
<1>2. PagesOf(x) \subseteq Covered(R)  BY DEF Covered
<1>3. \A y \in R \ {x} : PagesOf(y) \cap PagesOf(x) = {}  BY DEF AllApart
<1>4. Covered(R \ {x}) = Covered(R) \ PagesOf(x)  BY <1>3 DEF Covered
<1> QED  BY <1>1, <1>2, <1>4

\* One region more covers its own pages besides.
LEMMA CoveredPlus ==
  ASSUME NEW R, AllApart(R), NEW x, PagesOf(x) \cap Covered(R) = {}
  PROVE  AllApart(R \cup {x}) /\ Covered(R \cup {x}) = Covered(R) \cup PagesOf(x)
<1>1. \A y \in R : PagesOf(y) \cap PagesOf(x) = {}  BY DEF Covered
<1>2. AllApart(R \cup {x})  BY <1>1 DEF AllApart
<1>3. Covered(R \cup {x}) = Covered(R) \cup PagesOf(x)  BY DEF Covered
<1> QED  BY <1>2, <1>3

\* A region taken out of a list.
LEMMA ParcelsSans ==
  ASSUME NEW s, NEW i, NEW t, IsSans(XLRegion, s, i, t), Parcels(s)
  PROVE  /\ Parcels(t) /\ Len(t) = Len(s) - 1 /\ Len(s) \in Nat /\ Len(s) > 0
         /\ s[i] \in Listed(s) /\ s[i] \in XLRegion /\ Listed(t) = Listed(s) \ {s[i]}
         /\ XLPages(t) = XLPages(s) \ PagesOf(s[i]) /\ PagesOf(s[i]) \subseteq XLPages(s)
<1>1. Once(XLRegion, s) /\ AllApart(Listed(s)) /\ Listed(s) \subseteq XLRegion /\ XLPages(s) = Covered(Listed(s))
  BY ParcelsFacts
<1>2. /\ Once(XLRegion, t) /\ Len(t) = Len(s) - 1 /\ Len(s) \in Nat /\ Len(s) > 0
      /\ s[i] \in Listed(s) /\ Listed(t) = Listed(s) \ {s[i]}
  BY <1>1, OnceSans
<1> DEFINE R == Listed(s)
           x == s[i]
<1> HIDE DEF R, x
<1>3. AllApart(R \ {x}) /\ Covered(R \ {x}) = Covered(R) \ PagesOf(x) /\ PagesOf(x) \subseteq Covered(R)
  BY <1>1, <1>2, CoveredSans DEF R, x
<1>4. Parcels(t)  BY <1>2, <1>3 DEF Parcels, R, x
<1>5. XLPages(t) = Covered(Listed(t))  BY <1>4, ParcelsFacts
<1> QED  BY <1>1, <1>2, <1>3, <1>4, <1>5 DEF R, x

\* A region added to a list.
LEMMA ParcelsPush ==
  ASSUME NEW s, Parcels(s), NEW x \in XLRegion, PagesOf(x) \cap XLPages(s) = {}
  PROVE  /\ Parcels(Append(s, x)) /\ Len(Append(s, x)) = Len(s) + 1 /\ Len(s) \in Nat
         /\ x \notin Listed(s) /\ Listed(Append(s, x)) = Listed(s) \cup {x}
         /\ XLPages(Append(s, x)) = XLPages(s) \cup PagesOf(x)
<1> DEFINE t == Append(s, x)
<1>1. Once(XLRegion, s) /\ AllApart(Listed(s)) /\ Listed(s) \subseteq XLRegion /\ XLPages(s) = Covered(Listed(s))
  BY ParcelsFacts
<1>2. x \notin Listed(s)
  <2>1. x.page \in PagesOf(x)  BY RegionFacts
  <2> QED  BY <2>1, <1>1 DEF Covered
<1>3. Once(XLRegion, t) /\ Len(t) = Len(s) + 1 /\ Len(s) \in Nat /\ Listed(t) = Listed(s) \cup {x}
  BY <1>1, <1>2, OncePush
<1> HIDE DEF t
<1>4. AllApart(Listed(s) \cup {x}) /\ Covered(Listed(s) \cup {x}) = Covered(Listed(s)) \cup PagesOf(x)
  BY <1>1, CoveredPlus
<1>5. Parcels(t)  BY <1>3, <1>4 DEF Parcels
<1>6. XLPages(t) = Covered(Listed(t))  BY <1>5, ParcelsFacts
<1>7. XLPages(t) = XLPages(s) \cup PagesOf(x)  BY <1>1, <1>3, <1>4, <1>6
<1> QED  BY <1>2, <1>3, <1>5, <1>7 DEF t

\* A region of a list replaced.
LEMMA ParcelsSwap ==
  ASSUME NEW s, Parcels(s), NEW i \in 1..Len(s), NEW x \in XLRegion,
         PagesOf(x) \cap (XLPages(s) \ PagesOf(s[i])) = {}, NEW t, t = Swapped(s, i, x)
  PROVE  /\ Parcels(t) /\ Len(t) = Len(s) /\ Len(s) \in Nat
         /\ s[i] \in Listed(s) /\ Listed(t) = (Listed(s) \ {s[i]}) \cup {x}
         /\ x \notin Listed(s) \ {s[i]}
         /\ XLPages(t) = (XLPages(s) \ PagesOf(s[i])) \cup PagesOf(x)
         /\ PagesOf(s[i]) \subseteq XLPages(s)
<1> DEFINE R == Listed(s)
           y == s[i]
<1>1. Once(XLRegion, s) /\ AllApart(Listed(s)) /\ Listed(s) \subseteq XLRegion /\ XLPages(s) = Covered(Listed(s)) /\ y \in R
  BY ParcelsFacts
<1> HIDE DEF R, y
<1>2. AllApart(R \ {y}) /\ Covered(R \ {y}) = Covered(R) \ PagesOf(y) /\ PagesOf(y) \subseteq Covered(R)
  BY <1>1, CoveredSans DEF R
<1>3. x \notin R \ {y}
  <2>1. x.page \in PagesOf(x)  BY RegionFacts
  <2> QED  BY <2>1, <1>1, <1>2 DEF Covered, R, y
<1>4. Once(XLRegion, t) /\ Len(t) = Len(s) /\ Len(s) \in Nat /\ Listed(t) = (R \ {y}) \cup {x}
  BY <1>1, <1>3, OnceSwap DEF R, y
<1> DEFINE Q == R \ {y}
<1>5. PagesOf(x) \cap Covered(Q) = {}  BY <1>1, <1>2 DEF R, y
<1>6. AllApart(Q)  BY <1>2
<1> HIDE DEF Q
<1>7. AllApart(Q \cup {x}) /\ Covered(Q \cup {x}) = Covered(Q) \cup PagesOf(x)
  BY <1>5, <1>6, CoveredPlus
<1>8. Parcels(t)  BY <1>4, <1>7 DEF Parcels, Q
<1>9. XLPages(t) = Covered(Listed(t))  BY <1>8, ParcelsFacts
<1>10. XLPages(t) = (XLPages(s) \ PagesOf(y)) \cup PagesOf(x)  BY <1>1, <1>2, <1>4, <1>7, <1>9 DEF Q, R
<1> QED  BY <1>1, <1>2, <1>3, <1>4, <1>8, <1>10 DEF R, y

------------------------------------------------------------------------------
\* The stores: where every mapped page is, and what is counted.

\* The pages of the classes are D; every mapped page is in one place.
Owned(h, D) ==
    /\ Stack(h.recycle) /\ Parcels(h.xlUse) /\ Parcels(h.xlFreed)
    /\ D \subseteq Pages /\ h.mapped \subseteq Pages
    /\ h.mapped = D \cup Listed(h.recycle) \cup XLPages(h.xlUse) \cup XLPages(h.xlFreed)
    /\ D \cap Listed(h.recycle) = {}
    /\ (D \cup Listed(h.recycle)) \cap (XLPages(h.xlUse) \cup XLPages(h.xlFreed)) = {}
    /\ XLPages(h.xlUse) \cap XLPages(h.xlFreed) = {}

Roomy(h) ==
    /\ h.recycleCap \in Nat /\ Len(h.recycle) <= h.recycleCap
    /\ h.xlUseCap \in Nat /\ Len(h.xlUse) <= h.xlUseCap
    /\ h.xlFreedCap \in Nat /\ Len(h.xlFreed) <= h.xlFreedCap

ArrayPages(h) ==
    CeilDiv(h.recycleCap, PtrsPerPage) + CeilDiv(h.xlUseCap, XLPerPage) + CeilDiv(h.xlFreedCap, XLPerPage)

Retained(h) == Listed(h.recycle) \cup XLPages(h.xlFreed)

Tallied(h) ==
    /\ h.retention = Cardinality(Retained(h))
    /\ h.footprint = Cardinality(h.mapped) + TablePages(Cap(h)) + ArrayPages(h)

Stores(h, D) == IsHeap(h) /\ Owned(h, D) /\ Roomy(h) /\ Tallied(h) /\ Cap(h) \in Nat

\* Only the stores differ.
SameTable(g, h) == IsHeap(g) /\ g.pages = h.pages /\ g.warm = h.warm /\ g.count = h.count

\* The table of a heap whose stores have changed.
LEMMA FreshMoves ==
  ASSUME NEW g, NEW h, NEW cap, NEW D, NEW cont, Fresh(h, cap, D, cont), SameTable(g, h)
  PROVE  Fresh(g, cap, D, cont) /\ Cap(g) = Cap(h)
<1>1. PICK at, w : TableIs(h, cap, D, at, cont, w) /\ WarmExact(D, cont, w)  BY DEF Fresh
<1>2. TableIs(g, cap, D, at, cont, w)  BY <1>1 DEF TableIs, Holds, SameTable
<1> QED  BY <1>1, <1>2 DEF Fresh, SameTable, Cap

\* Sizes are numbers, and the sets are finite.
LEMMA StoreFacts ==
  ASSUME NEW h, NEW D, Stores(h, D)
  PROVE  /\ IsFiniteSet(h.mapped) /\ Cardinality(h.mapped) \in Nat
         /\ IsFiniteSet(Retained(h)) /\ Cardinality(Retained(h)) \in Nat /\ Retained(h) \subseteq h.mapped
         /\ h.retention \in Nat /\ h.footprint \in Nat
         /\ CeilDiv(h.recycleCap, PtrsPerPage) \in Nat /\ CeilDiv(h.xlUseCap, XLPerPage) \in Nat
         /\ CeilDiv(h.xlFreedCap, XLPerPage) \in Nat /\ ArrayPages(h) \in Nat /\ TablePages(Cap(h)) \in Nat
         /\ PtrsPerPage \in Nat \ {0} /\ XLPerPage \in Nat \ {0} /\ DescsPerPage \in Nat \ {0}
<1>1. IsFiniteSet(Pages) /\ Pages \subseteq Nat /\ {PtrsPerPage, XLPerPage, DescsPerPage} \subseteq Nat \ {0}
  BY HeapAssumption
<1>2. h.mapped \subseteq Pages /\ Retained(h) \subseteq h.mapped  BY DEF Stores, Owned, Retained
<1>3. IsFiniteSet(h.mapped) /\ Cardinality(h.mapped) \in Nat
  BY <1>1, <1>2, FS_Subset, FS_CardinalityType
<1>4. IsFiniteSet(Retained(h)) /\ Cardinality(Retained(h)) \in Nat
  BY <1>2, <1>3, FS_Subset, FS_CardinalityType
<1>5. h.recycleCap \in Nat /\ h.xlUseCap \in Nat /\ h.xlFreedCap \in Nat /\ Cap(h) \in Nat
  BY DEF Stores, Roomy
<1>6. PtrsPerPage \in Nat \ {0} /\ XLPerPage \in Nat \ {0} /\ DescsPerPage \in Nat \ {0}  BY <1>1
<1>7. /\ CeilDiv(h.recycleCap, PtrsPerPage) \in Nat /\ CeilDiv(h.xlUseCap, XLPerPage) \in Nat
      /\ CeilDiv(h.xlFreedCap, XLPerPage) \in Nat /\ TablePages(Cap(h)) \in Nat
  BY <1>5, <1>6, CeilDivProps DEF TablePages
<1>8. ArrayPages(h) \in Nat  BY <1>7 DEF ArrayPages
<1>9. h.retention \in Nat /\ h.footprint \in Nat  BY <1>3, <1>4, <1>7, <1>8 DEF Stores, Tallied
<1> QED  BY <1>2, <1>3, <1>4, <1>6, <1>7, <1>8, <1>9

\* A change of the table or of its lists leaves the stores as they are.
LEMMA StoresSame ==
  ASSUME NEW g, NEW h, NEW D, Stores(h, D), SameRest(g, h), IsHeap(g), Cap(g) = Cap(h)
  PROVE  Stores(g, D)
<1>1. Owned(g, D)  BY DEF Stores, Owned, SameRest
<1>2. Roomy(g)  BY DEF Stores, Roomy, SameRest
<1>3. Retained(g) = Retained(h) /\ ArrayPages(g) = ArrayPages(h)  BY DEF SameRest, Retained, ArrayPages
<1>4. Tallied(g)  BY <1>3 DEF Stores, Tallied, SameRest
<1> QED  BY <1>1, <1>2, <1>4 DEF Stores

\* A table that has been resized is accounted for.
LEMMA StoresResized ==
  ASSUME NEW g, NEW h, NEW D, Stores(h, D), SameStores(g, h), IsHeap(g), Cap(g) \in Nat,
         g.footprint = h.footprint + TablePages(Cap(g)) - TablePages(Cap(h))
  PROVE  Stores(g, D)
<1>1. Owned(g, D)  BY DEF Stores, Owned, SameStores
<1>2. Roomy(g)  BY DEF Stores, Roomy, SameStores
<1>3. Retained(g) = Retained(h) /\ ArrayPages(g) = ArrayPages(h)
  BY DEF SameStores, Retained, ArrayPages
<1> DEFINE n == TablePages(Cap(g))
           m == TablePages(Cap(h))
           k == Cardinality(h.mapped)
           z == ArrayPages(h)
<1>4. n \in Nat /\ m \in Nat /\ k \in Nat /\ z \in Nat
  <2>1. DescsPerPage \in Nat \ {0}  BY StoreFacts
  <2>2. n \in Nat  BY <2>1, CeilDivProps DEF TablePages
  <2> QED  BY <2>2, StoreFacts
<1>5. h.footprint = k + m + z /\ g.footprint = h.footprint + n - m  BY DEF Stores, Tallied
<1>6. Cardinality(g.mapped) = k /\ ArrayPages(g) = z  BY <1>3 DEF SameStores
<1> HIDE DEF n, m, k, z
<1>7. g.footprint = k + n + z  BY <1>4, <1>5
<1>8. Tallied(g)  BY <1>3, <1>6, <1>7 DEF Tallied, SameStores, Stores, n
<1> QED  BY <1>1, <1>2, <1>8 DEF Stores

\* An array that has room for one more.
LEMMA Reserved ==
  ASSUME NEW len \in Nat, NEW cap \in Nat, len <= cap, NEW per \in Nat \ {0},
         NEW new, new = ReserveCap(len, cap, per)
  PROVE  /\ new \in Nat /\ len + 1 <= new
         /\ CeilDiv(new, per) \in Nat /\ CeilDiv(cap, per) \in Nat
         /\ GrownPages(cap, new, per) = CeilDiv(new, per) - CeilDiv(cap, per)
<1>1. CASE len < cap
  <2>1. new = cap  BY <1>1 DEF ReserveCap
  <2> QED  BY <2>1, <1>1, CeilDivProps DEF GrownPages
<1>2. CASE ~(len < cap)
  <2> DEFINE n == IF cap = 0 THEN 1 ELSE 2 * cap
             q == CeilDiv(n, per)
  <2>1. n \in Nat /\ len + 1 <= n  BY <1>2
  <2>2. new = per * q  BY <1>2 DEF ReserveCap
  <2> HIDE DEF n
  <2>3. q \in Nat /\ n <= q * per  BY <2>1, CeilDivProps
  <2> HIDE DEF q
  <2>4. per * q \in Nat /\ per * q = q * per  BY <2>3
  <2>5. new \in Nat /\ len + 1 <= new  BY <2>1, <2>2, <2>3, <2>4
  <2> QED  BY <2>5, CeilDivProps DEF GrownPages
<1> QED  BY <1>1, <1>2

\* A recycled page comes off its stack.
Popping(h, D, p, g) ==
    /\ Stores(h, D) /\ h.recycle # << >> /\ p = Last(h.recycle)
    /\ g = [h EXCEPT !.recycle = DropLast(@), !.retention = @ - 1]

\* The page is then in no store.
LEMMA PopKeeps ==
  ASSUME NEW h, NEW D, NEW p, NEW g, Popping(h, D, p, g)
  PROVE  /\ (\A E : E = D \cup {p} => Stores(g, E)) /\ SameTable(g, h) /\ p \in Pages \ D
         /\ g.xlUse = h.xlUse /\ g.inUse = h.inUse /\ g.xlFreed = h.xlFreed
         /\ Len(g.recycle) = Len(h.recycle) - 1 /\ Len(h.recycle) \in Nat
<1> USE DEF Popping
<1> DEFINE s == h.recycle
           t == DropLast(s)
           r == h.retention - 1
<1>1. IsHeap(h) /\ Owned(h, D) /\ Roomy(h) /\ Tallied(h)  BY DEF Stores
<1>2. g = [h EXCEPT !.recycle = t, !.retention = r]  BY <1>1 DEF IsHeap
<1>3. Stack(s) /\ s # << >>  BY <1>1 DEF Owned
<1> HIDE DEF s
<1>4. /\ Stack(DropLast(s)) /\ Len(DropLast(s)) = Len(s) - 1 /\ Len(s) \in Nat /\ Len(s) > 0
      /\ Last(s) \in Listed(s) /\ Listed(DropLast(s)) = Listed(s) \ {Last(s)}
  BY <1>3, StackPop
<1>5. p = Last(s)  BY DEF s
<1> HIDE DEF t, r
<1>6. /\ IsHeap(g) /\ SameTable(g, h) /\ g.recycle = t /\ g.retention = r /\ g.recycleCap = h.recycleCap
      /\ g.xlUse = h.xlUse /\ g.xlUseCap = h.xlUseCap /\ g.xlFreed = h.xlFreed /\ g.xlFreedCap = h.xlFreedCap
      /\ g.footprint = h.footprint /\ g.inUse = h.inUse /\ g.mapped = h.mapped
  BY <1>1, <1>2 DEF IsHeap, SameTable
<1>7. Stack(t) /\ Len(t) = Len(s) - 1 /\ p \in Listed(s) /\ Listed(t) = Listed(s) \ {p}
  BY <1>4, <1>5 DEF t
<1>8. p \in Pages \ D  BY <1>1, <1>7 DEF Owned, s
<1>9. Owned(g, D \cup {p})
  <2> DEFINE A == Listed(s)
             U == XLPages(h.xlUse)
             F == XLPages(h.xlFreed)
  <2>1. /\ h.mapped = D \cup A \cup U \cup F /\ D \cap A = {} /\ (D \cup A) \cap (U \cup F) = {} /\ U \cap F = {}
        /\ D \subseteq Pages /\ h.mapped \subseteq Pages /\ Parcels(h.xlUse) /\ Parcels(h.xlFreed)
    BY <1>1 DEF Owned, s
  <2>2. p \in A /\ Listed(t) = A \ {p}  BY <1>7
  <2> HIDE DEF A, U, F
  <2>3. /\ h.mapped = (D \cup {p}) \cup (A \ {p}) \cup U \cup F /\ (D \cup {p}) \cap (A \ {p}) = {}
        /\ ((D \cup {p}) \cup (A \ {p})) \cap (U \cup F) = {} /\ D \cup {p} \subseteq Pages
    BY <2>1, <2>2
  <2>4. XLPages(g.xlUse) = U /\ XLPages(g.xlFreed) = F /\ Listed(g.recycle) = A \ {p}
    BY <1>6, <2>2 DEF U, F
  <2> QED  BY <2>1, <2>3, <2>4, <1>6, <1>7 DEF Owned
<1>10. Roomy(g)
  <2>1. h.recycleCap \in Nat /\ Len(s) <= h.recycleCap  BY <1>1 DEF Roomy, s
  <2>2. Len(t) <= h.recycleCap  BY <2>1, <1>4, <1>7
  <2> QED  BY <2>2, <1>1, <1>6 DEF Roomy
<1>11. Retained(g) = Retained(h) \ {p} /\ p \in Retained(h)
  <2>1. p \notin XLPages(h.xlFreed)  BY <1>1, <1>7 DEF Owned, s
  <2> QED  BY <2>1, <1>6, <1>7 DEF Retained, s
<1>12. Cardinality(Retained(g)) = r
  <2>1. IsFiniteSet(Retained(h))  BY StoreFacts
  <2>2. Cardinality(Retained(h) \ {p}) = Cardinality(Retained(h)) - 1  BY <2>1, <1>11, FS_RemoveElement
  <2> QED  BY <2>2, <1>1, <1>11 DEF Tallied, r
<1>13. Tallied(g)
  <2>1. ArrayPages(g) = ArrayPages(h) /\ Cap(g) = Cap(h)  BY <1>6 DEF ArrayPages, Cap, SameTable
  <2> QED  BY <2>1, <1>1, <1>6, <1>12 DEF Tallied
<1>14. Cap(g) \in Nat  BY <1>6 DEF Cap, SameTable, Stores
<1> QED  BY <1>4, <1>6, <1>7, <1>8, <1>9, <1>10, <1>13, <1>14 DEF Stores, s

\* The counters after the mapped pages, the table or the arrays change by some pages.
LEMMA Retally ==
  ASSUME NEW h, NEW D, Stores(h, D), NEW g, NEW d \in Int, NEW e \in Int,
         Cap(g) = Cap(h), ArrayPages(g) = ArrayPages(h) + e,
         Cardinality(g.mapped) = Cardinality(h.mapped) + d,
         g.footprint = h.footprint + d + e
  PROVE  g.footprint = Cardinality(g.mapped) + TablePages(Cap(g)) + ArrayPages(g)
<1> DEFINE n == TablePages(Cap(h))
           k == Cardinality(h.mapped)
           z == ArrayPages(h)
<1>1. n \in Nat /\ k \in Nat /\ z \in Nat  BY StoreFacts
<1>2. h.footprint = k + n + z  BY DEF Stores, Tallied
<1> HIDE DEF n, k, z
<1>3. g.footprint = (k + d) + n + (z + e)  BY <1>1, <1>2
<1> QED  BY <1>3 DEF n, k, z

\* A mapping of x that the kernel grants.
Mapping(h, D, at, n, g, x) ==
    /\ Stores(h, D) /\ at \in Pages \cup {None} /\ n \in Nat \ {0} /\ CanMap(h, at, n)
    /\ g = os_page_map(h, at, n) /\ x = [page |-> at, n |-> n]

\* What such a mapping changes.
LEMMA MapFacts ==
  ASSUME NEW h, NEW D, NEW at, NEW n, NEW g, NEW x, Mapping(h, D, at, n, g, x)
  PROVE  /\ IsHeap(g)
         /\ SameTable(g, h) /\ g.recycle = h.recycle /\ g.recycleCap = h.recycleCap
         /\ g.xlUse = h.xlUse /\ g.xlUseCap = h.xlUseCap /\ g.xlFreed = h.xlFreed /\ g.xlFreedCap = h.xlFreedCap
         /\ g.retention = h.retention /\ g.inUse = h.inUse
         /\ g.mapped = h.mapped \cup PagesOf(x) /\ g.footprint = h.footprint + n
         /\ x \in XLRegion /\ at \in Pages /\ PagesOf(x) \subseteq Pages \ h.mapped
         /\ Cardinality(g.mapped) = Cardinality(h.mapped) + n
<1> USE DEF Mapping
<1> DEFINE m == h.mapped \cup Region(at, n)
           f == h.footprint + n
<1>1. IsHeap(h)  BY DEF Stores
<1>2. g = [h EXCEPT !.mapped = m, !.footprint = f]  BY <1>1 DEF IsHeap, os_page_map
<1>3. at \in Pages /\ at \in Nat /\ Region(at, n) \subseteq Pages \ h.mapped
  BY HeapAssumption DEF CanMap
<1>4. x \in XLRegion /\ PagesOf(x) = Region(at, n) /\ x.n = n  BY <1>3 DEF XLRegion, PagesOf
<1> HIDE DEF m, f
<1>5. /\ IsHeap(g) /\ SameTable(g, h) /\ g.recycle = h.recycle /\ g.recycleCap = h.recycleCap
      /\ g.xlUse = h.xlUse /\ g.xlUseCap = h.xlUseCap /\ g.xlFreed = h.xlFreed /\ g.xlFreedCap = h.xlFreedCap
      /\ g.retention = h.retention /\ g.inUse = h.inUse /\ g.mapped = m /\ g.footprint = f
  BY <1>1, <1>2 DEF IsHeap, SameTable
<1>6. IsFiniteSet(PagesOf(x)) /\ Cardinality(PagesOf(x)) = n  BY <1>4, RegionFacts
<1>7. IsFiniteSet(h.mapped)  BY StoreFacts
<1>8. h.mapped \cap PagesOf(x) = {}  BY <1>3, <1>4
<1>9. Cardinality(h.mapped \cup PagesOf(x)) = Cardinality(h.mapped) + n  BY <1>6, <1>7, <1>8, CardPlus
<1> QED  BY <1>2, <1>3, <1>4, <1>5, <1>9 DEF m, f

\* The pages the kernel hands out.
LEMMA MapKeeps ==
  ASSUME NEW h, NEW D, NEW at, NEW n, NEW g, NEW x, Mapping(h, D, at, n, g, x)
  PROVE  /\ (\A E : E = D \cup PagesOf(x) => Stores(g, E)) /\ SameTable(g, h) /\ x \in XLRegion
         /\ PagesOf(x) \subseteq Pages /\ PagesOf(x) \cap D = {} /\ PagesOf(x) \cap h.mapped = {}
         /\ g.xlUse = h.xlUse /\ g.xlUseCap = h.xlUseCap /\ g.inUse = h.inUse
<1>1. IsHeap(h) /\ Owned(h, D) /\ Roomy(h) /\ Tallied(h) /\ Stores(h, D) /\ n \in Nat
  BY DEF Stores, Mapping
<1>4. /\ IsHeap(g) /\ SameTable(g, h) /\ g.recycle = h.recycle /\ g.recycleCap = h.recycleCap
      /\ g.xlUse = h.xlUse /\ g.xlUseCap = h.xlUseCap /\ g.xlFreed = h.xlFreed /\ g.xlFreedCap = h.xlFreedCap
      /\ g.retention = h.retention /\ g.inUse = h.inUse
      /\ g.mapped = h.mapped \cup PagesOf(x) /\ g.footprint = h.footprint + n
      /\ x \in XLRegion /\ at \in Pages /\ PagesOf(x) \subseteq Pages \ h.mapped
      /\ Cardinality(g.mapped) = Cardinality(h.mapped) + n
  BY MapFacts
<1> DEFINE N == PagesOf(x)
<1>6. Owned(g, D \cup N)
  <2> DEFINE A == Listed(h.recycle)
             U == XLPages(h.xlUse)
             F == XLPages(h.xlFreed)
  <2>1. /\ h.mapped = D \cup A \cup U \cup F /\ D \cap A = {} /\ (D \cup A) \cap (U \cup F) = {} /\ U \cap F = {}
        /\ D \subseteq Pages /\ h.mapped \subseteq Pages /\ Parcels(h.xlUse) /\ Parcels(h.xlFreed) /\ Stack(h.recycle)
    BY <1>1 DEF Owned
  <2>2. XLPages(g.xlUse) = U /\ XLPages(g.xlFreed) = F /\ Listed(g.recycle) = A  BY <1>4
  <2>3. N \subseteq Pages \ h.mapped /\ g.mapped = h.mapped \cup N  BY <1>4
  <2> HIDE DEF A, U, F, N
  <2>4. /\ g.mapped = (D \cup N) \cup A \cup U \cup F /\ (D \cup N) \cap A = {}
        /\ ((D \cup N) \cup A) \cap (U \cup F) = {} /\ D \cup N \subseteq Pages /\ g.mapped \subseteq Pages
    BY <2>1, <2>3
  <2> QED  BY <2>1, <2>2, <2>4, <1>4 DEF Owned
<1>7. Roomy(g)  BY <1>1, <1>4 DEF Roomy
<1>8. Retained(g) = Retained(h) /\ ArrayPages(g) = ArrayPages(h) /\ Cap(g) = Cap(h)
  BY <1>4 DEF Retained, ArrayPages, Cap, SameTable
<1>9. Tallied(g)
  <2>1. ArrayPages(g) = ArrayPages(h) + 0 /\ g.footprint = h.footprint + n + 0 /\ n \in Int /\ 0 \in Int
    BY <1>1, <1>4, <1>8, StoreFacts
  <2>2. g.footprint = Cardinality(g.mapped) + TablePages(Cap(g)) + ArrayPages(g)
    BY <2>1, <1>1, <1>4, <1>8, Retally
  <2> QED  BY <2>2, <1>1, <1>4, <1>8 DEF Tallied
<1>10. N \cap D = {}  BY <1>1, <1>4 DEF Owned
<1> HIDE DEF N
<1>11. Stores(g, D \cup N)  BY <1>1, <1>4, <1>6, <1>7, <1>8, <1>9 DEF Stores
<1> QED  BY <1>4, <1>10, <1>11 DEF N

\* A single page.
LEMMA OnePage ==
  ASSUME NEW p \in Pages, NEW x, x = [page |-> p, n |-> 1]
  PROVE  PagesOf(x) = {p} /\ x \in XLRegion /\ x.page = p /\ x.n = 1 /\ p \in Nat
<1>1. p \in Nat  BY HeapAssumption
<1>2. x.page = p /\ x.n = 1 /\ x \in XLRegion  BY <1>1 DEF XLRegion
<1>3. p + 1 - 1 = p  BY <1>1
<1>4. PagesOf(x) = p..p  BY <1>2, <1>3 DEF PagesOf, Region
<1> QED  BY <1>1, <1>2, <1>4

\* Pages go back to the kernel.
LEMMA UnmapFacts ==
  ASSUME NEW h, IsHeap(h), NEW p, NEW n, NEW g, g = os_page_unmap(h, p, n)
  PROVE  /\ IsHeap(g)
         /\ SameTable(g, h) /\ g.recycle = h.recycle /\ g.recycleCap = h.recycleCap
         /\ g.xlUse = h.xlUse /\ g.xlUseCap = h.xlUseCap /\ g.xlFreed = h.xlFreed /\ g.xlFreedCap = h.xlFreedCap
         /\ g.retention = h.retention /\ g.inUse = h.inUse
         /\ g.mapped = h.mapped \ Region(p, n) /\ g.footprint = h.footprint - n
<1> DEFINE m == h.mapped \ Region(p, n)
           f == h.footprint - n
<1>1. g = [h EXCEPT !.mapped = m, !.footprint = f]  BY DEF IsHeap, os_page_unmap
<1> HIDE DEF m, f
<1>2. /\ IsHeap(g) /\ SameTable(g, h) /\ g.recycle = h.recycle /\ g.recycleCap = h.recycleCap
      /\ g.xlUse = h.xlUse /\ g.xlUseCap = h.xlUseCap /\ g.xlFreed = h.xlFreed /\ g.xlFreedCap = h.xlFreedCap
      /\ g.retention = h.retention /\ g.inUse = h.inUse /\ g.mapped = m /\ g.footprint = f
  BY <1>1 DEF IsHeap, SameTable
<1> QED  BY <1>2 DEF m, f

\* Pages in no list go back to the kernel.
Unmapping(h, D, x, g) ==
    /\ Stores(h, D) /\ x \in XLRegion /\ PagesOf(x) \subseteq D /\ g = os_page_unmap(h, x.page, x.n)

\* The stores are exact without them.
LEMMA UnmapKeeps ==
  ASSUME NEW h, NEW D, NEW x, NEW g, Unmapping(h, D, x, g)
  PROVE  /\ (\A E : E = D \ PagesOf(x) => Stores(g, E)) /\ SameTable(g, h) /\ g.xlUse = h.xlUse /\ g.inUse = h.inUse
         /\ g.recycle = h.recycle /\ g.xlFreed = h.xlFreed
<1> USE DEF Unmapping
<1> DEFINE A == Listed(h.recycle)
           U == XLPages(h.xlUse)
           F == XLPages(h.xlFreed)
           N == PagesOf(x)
           n == x.n
           m == 0 - n
<1>1. IsHeap(h) /\ Owned(h, D) /\ Roomy(h) /\ Tallied(h)  BY DEF Stores
<1>2. /\ h.mapped = D \cup A \cup U \cup F /\ D \cap A = {} /\ (D \cup A) \cap (U \cup F) = {} /\ U \cap F = {}
      /\ D \subseteq Pages /\ h.mapped \subseteq Pages /\ Parcels(h.xlUse) /\ Parcels(h.xlFreed) /\ Stack(h.recycle)
  BY <1>1 DEF Owned
<1>3. n \in Nat /\ Cardinality(N) = n /\ N \subseteq h.mapped  BY <1>2, RegionFacts
<1>4. /\ IsHeap(g) /\ SameTable(g, h) /\ g.recycle = h.recycle /\ g.recycleCap = h.recycleCap
      /\ g.xlUse = h.xlUse /\ g.xlUseCap = h.xlUseCap /\ g.xlFreed = h.xlFreed /\ g.xlFreedCap = h.xlFreedCap
      /\ g.retention = h.retention /\ g.inUse = h.inUse
      /\ g.mapped = h.mapped \ N /\ g.footprint = h.footprint - n
  BY <1>1, UnmapFacts DEF PagesOf
<1> HIDE DEF N, n
<1>5. Owned(g, D \ N)
  <2>1. XLPages(g.xlUse) = U /\ XLPages(g.xlFreed) = F /\ Listed(g.recycle) = A  BY <1>4
  <2>2. N \subseteq D  BY DEF N
  <2> HIDE DEF A, U, F
  <2>3. /\ g.mapped = (D \ N) \cup A \cup U \cup F /\ (D \ N) \cap A = {}
        /\ ((D \ N) \cup A) \cap (U \cup F) = {} /\ D \ N \subseteq Pages /\ g.mapped \subseteq Pages
    BY <1>2, <1>4, <2>2
  <2> QED  BY <2>1, <2>3, <1>2, <1>4 DEF Owned
<1>6. Roomy(g)  BY <1>1, <1>4 DEF Roomy
<1>7. Retained(g) = Retained(h) /\ ArrayPages(g) = ArrayPages(h) /\ Cap(g) = Cap(h)
  BY <1>4 DEF Retained, ArrayPages, Cap, SameTable
<1>8. Cardinality(g.mapped) = Cardinality(h.mapped) - n /\ Cardinality(h.mapped) \in Nat /\ h.footprint \in Nat
      /\ ArrayPages(h) \in Nat
  <2>1. IsFiniteSet(h.mapped) /\ h.footprint \in Nat /\ ArrayPages(h) \in Nat  BY StoreFacts
  <2> QED  BY <2>1, <1>3, <1>4, CardMinus
<1>9. g.footprint = Cardinality(g.mapped) + TablePages(Cap(g)) + ArrayPages(g)
  <2>1. /\ m \in Int /\ 0 \in Int /\ Cardinality(g.mapped) = Cardinality(h.mapped) + m
        /\ g.footprint = h.footprint + m + 0 /\ ArrayPages(g) = ArrayPages(h) + 0
    BY <1>3, <1>4, <1>7, <1>8
  <2> HIDE DEF m
  <2> QED  BY <2>1, <1>7, Retally
<1>10. Tallied(g)  BY <1>9, <1>7, <1>4, <1>1 DEF Tallied
<1>11. Stores(g, D \ N)  BY <1>4, <1>5, <1>6, <1>7, <1>10 DEF Stores
<1> QED  BY <1>4, <1>11 DEF N

\* A page of a class is parked, or goes back to the kernel.
LEMMA ParkKeeps ==
  ASSUME NEW h, NEW D, Stores(h, D), NEW p \in D, NEW fail, NEW g, g = heap_recycle_push(h, p, fail)
  PROVE  (\A E : E = D \ {p} => Stores(g, E)) /\ SameTable(g, h) /\ g.xlUse = h.xlUse /\ g.inUse = h.inUse
<1> DEFINE A == Listed(h.recycle)
           U == XLPages(h.xlUse)
           F == XLPages(h.xlFreed)
           cap == ReserveCap(Len(h.recycle), h.recycleCap, PtrsPerPage)
           grown == GrownPages(h.recycleCap, cap, PtrsPerPage)
<1>1. IsHeap(h) /\ Owned(h, D) /\ Roomy(h) /\ Tallied(h)  BY DEF Stores
<1>2. /\ h.mapped = D \cup A \cup U \cup F /\ D \cap A = {} /\ (D \cup A) \cap (U \cup F) = {} /\ U \cap F = {}
      /\ D \subseteq Pages /\ h.mapped \subseteq Pages /\ Parcels(h.xlUse) /\ Parcels(h.xlFreed) /\ Stack(h.recycle)
  BY <1>1 DEF Owned
<1>3. p \in Pages /\ p \in Nat /\ p \in h.mapped /\ p \notin A /\ p \notin Retained(h)
  BY <1>2, HeapAssumption DEF Retained
<1>4. IsFiniteSet(h.mapped) /\ IsFiniteSet(Retained(h)) /\ PtrsPerPage \in Nat \ {0}
      /\ Cardinality(h.mapped) \in Nat /\ ArrayPages(h) \in Nat /\ h.footprint \in Nat
      /\ CeilDiv(h.xlUseCap, XLPerPage) \in Nat /\ CeilDiv(h.xlFreedCap, XLPerPage) \in Nat
  BY StoreFacts
<1>5. CASE cap # h.recycleCap /\ "free" \in fail
  <2> DEFINE x == [page |-> p, n |-> 1]
  <2>1. PagesOf(x) = {p} /\ x \in XLRegion /\ x.page = p /\ x.n = 1  BY <1>3, OnePage
  <2>2. g = os_page_unmap(h, p, 1)  BY <1>5 DEF heap_recycle_push
  <2> HIDE DEF x
  <2>3. g = os_page_unmap(h, x.page, x.n) /\ PagesOf(x) \subseteq D  BY <2>1, <2>2
  <2>4. Unmapping(h, D, x, g)  BY <2>1, <2>3 DEF Unmapping
  <2>5. /\ \A E : E = D \ PagesOf(x) => Stores(g, E)
        /\ SameTable(g, h) /\ g.xlUse = h.xlUse /\ g.inUse = h.inUse
    BY <2>4, UnmapKeeps
  <2> QED  BY <2>1, <2>5
<1>6. CASE ~(cap # h.recycleCap /\ "free" \in fail)
  <2> DEFINE s == Append(h.recycle, p)
             f == h.footprint + grown
             r == h.retention + 1
  <2>1. g = [h EXCEPT !.recycle = s, !.recycleCap = cap, !.footprint = f, !.retention = r]
    BY <1>1, <1>6 DEF heap_recycle_push, IsHeap
  <2>2. Stack(s) /\ Len(s) = Len(h.recycle) + 1 /\ Len(h.recycle) \in Nat /\ Listed(s) = A \cup {p}
    BY <1>2, <1>3, StackPush
  <2>3. /\ cap \in Nat /\ Len(h.recycle) + 1 <= cap /\ CeilDiv(cap, PtrsPerPage) \in Nat
        /\ CeilDiv(h.recycleCap, PtrsPerPage) \in Nat
        /\ grown = CeilDiv(cap, PtrsPerPage) - CeilDiv(h.recycleCap, PtrsPerPage)
    <3> DEFINE len == Len(h.recycle)
               old == h.recycleCap
    <3>1. old \in Nat /\ len \in Nat /\ len <= old  BY <1>1, <2>2 DEF Roomy
    <3>2. cap = ReserveCap(len, old, PtrsPerPage) /\ grown = GrownPages(old, cap, PtrsPerPage)  OBVIOUS
    <3> HIDE DEF cap, grown, len, old
    <3>3. /\ cap \in Nat /\ len + 1 <= cap /\ CeilDiv(cap, PtrsPerPage) \in Nat
          /\ CeilDiv(old, PtrsPerPage) \in Nat
          /\ grown = CeilDiv(cap, PtrsPerPage) - CeilDiv(old, PtrsPerPage)
      BY <3>1, <3>2, <1>4, Reserved
    <3> QED  BY <3>3 DEF len, old
  <2> HIDE DEF s, f, r, cap, grown
  <2>4. /\ IsHeap(g) /\ SameTable(g, h) /\ g.recycle = s /\ g.recycleCap = cap
        /\ g.xlUse = h.xlUse /\ g.xlUseCap = h.xlUseCap /\ g.xlFreed = h.xlFreed /\ g.xlFreedCap = h.xlFreedCap
        /\ g.retention = r /\ g.inUse = h.inUse /\ g.mapped = h.mapped /\ g.footprint = f
    BY <2>1, <1>1 DEF IsHeap, SameTable
  <2>5. Owned(g, D \ {p})
    <3>1. XLPages(g.xlUse) = U /\ XLPages(g.xlFreed) = F /\ Listed(g.recycle) = A \cup {p}
      BY <2>2, <2>4
    <3> HIDE DEF A, U, F
    <3>2. /\ h.mapped = (D \ {p}) \cup (A \cup {p}) \cup U \cup F /\ (D \ {p}) \cap (A \cup {p}) = {}
          /\ ((D \ {p}) \cup (A \cup {p})) \cap (U \cup F) = {} /\ D \ {p} \subseteq Pages
      BY <1>2
    <3> QED  BY <3>1, <3>2, <1>2, <2>2, <2>4 DEF Owned
  <2>6. Roomy(g)
    <3>1. g.recycleCap \in Nat /\ Len(g.recycle) <= g.recycleCap  BY <2>2, <2>3, <2>4
    <3> QED  BY <3>1, <1>1, <2>4 DEF Roomy
  <2>7. Retained(g) = Retained(h) \cup {p} /\ Cap(g) = Cap(h)
    BY <2>2, <2>4 DEF Retained, Cap, SameTable
  <2>8. Cardinality(Retained(g)) = r
    <3>1. Cardinality(Retained(h) \cup {p}) = Cardinality(Retained(h)) + 1  BY <1>3, <1>4, FS_AddElement
    <3> QED  BY <3>1, <2>7, <1>1 DEF Tallied, r
  <2>9. g.footprint = Cardinality(g.mapped) + TablePages(Cap(g)) + ArrayPages(g)
    <3>1. ArrayPages(g) = ArrayPages(h) + grown
      <4> DEFINE a == CeilDiv(cap, PtrsPerPage)
                 b == CeilDiv(h.recycleCap, PtrsPerPage)
                 u == CeilDiv(h.xlUseCap, XLPerPage)
                 v == CeilDiv(h.xlFreedCap, XLPerPage)
      <4>1. ArrayPages(g) = a + u + v /\ ArrayPages(h) = b + u + v /\ grown = a - b
        BY <2>3, <2>4 DEF ArrayPages
      <4>2. a \in Nat /\ b \in Nat /\ u \in Nat /\ v \in Nat  BY <2>3, <1>4
      <4> HIDE DEF a, b, u, v
      <4> QED  BY <4>1, <4>2
    <3>2. grown \in Int  BY <2>3
    <3>3. 0 \in Int /\ f = h.footprint + 0 + grown /\ Cardinality(g.mapped) = Cardinality(h.mapped) + 0
      BY <3>2, <2>4, <1>4 DEF f
    <3> DEFINE z == 0
    <3>4. z \in Int /\ g.footprint = h.footprint + z + grown /\ Cardinality(g.mapped) = Cardinality(h.mapped) + z
      BY <3>3, <2>4
    <3> HIDE DEF z
    <3> QED  BY <3>1, <3>2, <3>4, <2>7, Retally
  <2>10. Tallied(g)  BY <2>8, <2>9, <2>4 DEF Tallied
  <2>11. Cap(g) \in Nat  BY <2>7 DEF Stores
  <2> QED  BY <2>4, <2>5, <2>6, <2>10, <2>11 DEF Stores
<1> QED  BY <1>5, <1>6

------------------------------------------------------------------------------
\* The XL lists.  Pages on their way from one list to another are counted with D.

\* What no XL step touches.
SameRecycle(g, h) == SameTable(g, h) /\ g.recycle = h.recycle /\ g.recycleCap = h.recycleCap

\* A retained region leaves its list.
Unfreeing(h, D, s, i, t, g) ==
    /\ Stores(h, D) /\ s = h.xlFreed /\ IsSans(XLRegion, s, i, t)
    /\ g = [h EXCEPT !.xlFreed = t, !.retention = h.retention - s[i].n]

\* Its pages are then counted with D.
LEMMA UnfreeKeeps ==
  ASSUME NEW h, NEW D, NEW s, NEW i, NEW t, NEW g, Unfreeing(h, D, s, i, t, g)
  PROVE  /\ (\A E : E = D \cup PagesOf(s[i]) => Stores(g, E)) /\ SameRecycle(g, h) /\ g.xlFreed = t
         /\ s[i] \in XLRegion /\ PagesOf(s[i]) \cap D = {} /\ PagesOf(s[i]) \cap XLPages(h.xlUse) = {}
         /\ g.xlUse = h.xlUse /\ g.xlUseCap = h.xlUseCap /\ g.inUse = h.inUse
<1> DEFINE x == s[i]
           n == x.n
           N == PagesOf(x)
           r == h.retention - n
           A == Listed(h.recycle)
           U == XLPages(h.xlUse)
           F == XLPages(s)
<1>s. s = h.xlFreed  BY DEF Unfreeing
<1>1. IsHeap(h) /\ Owned(h, D) /\ Roomy(h) /\ Tallied(h) /\ Stores(h, D)  BY DEF Stores, Unfreeing
<1>2. g = [h EXCEPT !.xlFreed = t, !.retention = r] /\ IsSans(XLRegion, s, i, t)  BY DEF Unfreeing
<1>3. /\ h.mapped = D \cup A \cup U \cup F /\ D \cap A = {} /\ (D \cup A) \cap (U \cup F) = {} /\ U \cap F = {}
      /\ D \subseteq Pages /\ h.mapped \subseteq Pages /\ Parcels(h.xlUse) /\ Parcels(s) /\ Stack(h.recycle)
  BY <1>1, <1>s DEF Owned
<1> HIDE DEF r
<1>4. /\ Parcels(t) /\ Len(t) = Len(s) - 1 /\ Len(s) \in Nat /\ Len(s) > 0
      /\ x \in XLRegion /\ XLPages(t) = XLPages(s) \ PagesOf(s[i]) /\ PagesOf(s[i]) \subseteq XLPages(s)
  BY <1>2, <1>3, ParcelsSans
<1>5. /\ IsHeap(g) /\ SameRecycle(g, h) /\ g.xlFreed = t /\ g.xlFreedCap = h.xlFreedCap
      /\ g.xlUse = h.xlUse /\ g.xlUseCap = h.xlUseCap
      /\ g.retention = r /\ g.inUse = h.inUse /\ g.mapped = h.mapped /\ g.footprint = h.footprint
  BY <1>1, <1>2 DEF IsHeap, SameTable, SameRecycle
<1>6. N \subseteq F /\ XLPages(t) = F \ N  BY <1>4
<1>7. IsFiniteSet(N) /\ Cardinality(N) = n /\ n \in Nat  BY <1>4, RegionFacts
<1> HIDE DEF x, n, N
<1>8. Owned(g, D \cup N) /\ N \cap D = {} /\ N \cap U = {}
  <2>1. XLPages(g.xlUse) = U /\ XLPages(g.xlFreed) = F \ N /\ Listed(g.recycle) = A
    BY <1>5, <1>6 DEF SameRecycle
  <2> HIDE DEF A, U, F
  <2>2. /\ g.mapped = (D \cup N) \cup A \cup U \cup (F \ N) /\ (D \cup N) \cap A = {}
        /\ ((D \cup N) \cup A) \cap (U \cup (F \ N)) = {} /\ U \cap (F \ N) = {}
        /\ D \cup N \subseteq Pages /\ g.mapped \subseteq Pages
        /\ N \cap D = {} /\ N \cap U = {}
    BY <1>3, <1>5, <1>6
  <2>3. Parcels(g.xlUse) /\ Parcels(g.xlFreed) /\ Stack(g.recycle)  BY <1>3, <1>4, <1>5 DEF SameRecycle
  <2> QED  BY <2>1, <2>2, <2>3 DEF Owned
<1>9. Roomy(g)
  <2>1. h.xlFreedCap \in Nat /\ Len(s) <= h.xlFreedCap  BY <1>1, <1>s DEF Roomy
  <2>2. Len(t) <= h.xlFreedCap  BY <2>1, <1>4
  <2> QED  BY <2>1, <2>2, <1>1, <1>5 DEF Roomy, SameRecycle
<1>10. Retained(h) = A \cup F /\ Retained(g) = Retained(h) \ N /\ N \subseteq Retained(h)
  <2>1. Retained(h) = A \cup F  BY <1>s DEF Retained
  <2>2. Retained(g) = A \cup (F \ N)  BY <1>5, <1>6 DEF Retained, SameRecycle
  <2> HIDE DEF A, U, F
  <2> QED  BY <2>1, <2>2, <1>3, <1>6
<1>11. Cardinality(Retained(g)) = r
  <2>1. IsFiniteSet(Retained(h)) /\ h.retention = Cardinality(Retained(h))
    BY <1>1, StoreFacts DEF Tallied
  <2>2. Cardinality(Retained(h) \ N) = Cardinality(Retained(h)) - Cardinality(N)
    BY <2>1, <1>10, CardMinus
  <2> QED  BY <2>1, <2>2, <1>7, <1>10 DEF r
<1>12. ArrayPages(g) = ArrayPages(h) /\ Cap(g) = Cap(h)
  BY <1>5 DEF ArrayPages, Cap, SameRecycle, SameTable
<1>13. Tallied(g)  BY <1>1, <1>5, <1>11, <1>12 DEF Tallied
<1>14. Stores(g, D \cup N)  BY <1>1, <1>5, <1>8, <1>9, <1>12, <1>13 DEF Stores
<1> QED  BY <1>4, <1>5, <1>8, <1>14 DEF x, N

\* Pages in no list become a retained region.
Freeing(h, D, x, cap, g) ==
    /\ Stores(h, D) /\ x \in XLRegion /\ PagesOf(x) \subseteq D
    /\ cap = ReserveCap(Len(h.xlFreed), h.xlFreedCap, XLPerPage)
    /\ g = [h EXCEPT !.xlFreed = Append(h.xlFreed, x), !.xlFreedCap = cap,
                     !.footprint = h.footprint + GrownPages(h.xlFreedCap, cap, XLPerPage),
                     !.retention = h.retention + x.n]

\* The pages are then no longer counted with D.
LEMMA FreeKeeps ==
  ASSUME NEW h, NEW D, NEW x, NEW cap, NEW g, Freeing(h, D, x, cap, g)
  PROVE  /\ (\A E : E = D \ PagesOf(x) => Stores(g, E)) /\ SameRecycle(g, h)
         /\ g.xlUse = h.xlUse /\ g.xlUseCap = h.xlUseCap /\ g.inUse = h.inUse
<1> DEFINE s == h.xlFreed
           t == Append(s, x)
           n == x.n
           N == PagesOf(x)
           r == h.retention + n
           old == h.xlFreedCap
           grown == GrownPages(old, cap, XLPerPage)
           f == h.footprint + grown
           A == Listed(h.recycle)
           U == XLPages(h.xlUse)
           F == XLPages(s)
<1>1. IsHeap(h) /\ Owned(h, D) /\ Roomy(h) /\ Tallied(h) /\ Stores(h, D)  BY DEF Stores, Freeing
<1>2. /\ g = [h EXCEPT !.xlFreed = t, !.xlFreedCap = cap, !.footprint = f, !.retention = r]
      /\ x \in XLRegion /\ N \subseteq D /\ cap = ReserveCap(Len(s), old, XLPerPage)
  BY DEF Freeing
<1>3. /\ h.mapped = D \cup A \cup U \cup F /\ D \cap A = {} /\ (D \cup A) \cap (U \cup F) = {} /\ U \cap F = {}
      /\ D \subseteq Pages /\ h.mapped \subseteq Pages /\ Parcels(h.xlUse) /\ Parcels(s) /\ Stack(h.recycle)
  BY <1>1 DEF Owned
<1> HIDE DEF s
<1>4. /\ Parcels(t) /\ Len(t) = Len(s) + 1 /\ Len(s) \in Nat
      /\ XLPages(t) = XLPages(s) \cup PagesOf(x)
  <2>1. PagesOf(x) \cap XLPages(s) = {}  BY <1>2, <1>3
  <2> QED  BY <2>1, <1>2, <1>3, ParcelsPush
<1>a. XLPages(t) = F \cup N  BY <1>4
<1> HIDE DEF t, r, f
<1>5. /\ IsHeap(g) /\ SameRecycle(g, h) /\ g.xlFreed = t /\ g.xlFreedCap = cap
      /\ g.xlUse = h.xlUse /\ g.xlUseCap = h.xlUseCap
      /\ g.retention = r /\ g.inUse = h.inUse /\ g.mapped = h.mapped /\ g.footprint = f
  BY <1>1, <1>2 DEF IsHeap, SameTable, SameRecycle
<1>7. IsFiniteSet(N) /\ Cardinality(N) = n /\ n \in Nat  BY <1>2, RegionFacts
<1> HIDE DEF n, N
<1>8. Owned(g, D \ N)
  <2>1. XLPages(g.xlUse) = U /\ XLPages(g.xlFreed) = F \cup N /\ Listed(g.recycle) = A
    BY <1>5, <1>a DEF SameRecycle
  <2>3. Parcels(g.xlUse) /\ Parcels(g.xlFreed) /\ Stack(g.recycle)  BY <1>3, <1>4, <1>5 DEF SameRecycle
  <2> HIDE DEF A, U, F
  <2>2. /\ g.mapped = (D \ N) \cup A \cup U \cup (F \cup N) /\ (D \ N) \cap A = {}
        /\ ((D \ N) \cup A) \cap (U \cup (F \cup N)) = {} /\ U \cap (F \cup N) = {}
        /\ D \ N \subseteq Pages /\ g.mapped \subseteq Pages
    BY <1>2, <1>3, <1>5
  <2> QED  BY <2>1, <2>2, <2>3 DEF Owned
<1>r. /\ cap \in Nat /\ Len(s) + 1 <= cap /\ CeilDiv(cap, XLPerPage) \in Nat /\ CeilDiv(old, XLPerPage) \in Nat
      /\ grown = CeilDiv(cap, XLPerPage) - CeilDiv(old, XLPerPage)
  <2> DEFINE len == Len(s)
  <2>1. old \in Nat /\ len \in Nat /\ len <= old /\ XLPerPage \in Nat \ {0}
    BY <1>1, <1>4, StoreFacts DEF Roomy, s
  <2>2. cap = ReserveCap(len, old, XLPerPage) /\ grown = GrownPages(old, cap, XLPerPage)  BY <1>2
  <2> HIDE DEF len, old, grown
  <2>3. /\ cap \in Nat /\ len + 1 <= cap /\ CeilDiv(cap, XLPerPage) \in Nat /\ CeilDiv(old, XLPerPage) \in Nat
        /\ GrownPages(old, cap, XLPerPage) = CeilDiv(cap, XLPerPage) - CeilDiv(old, XLPerPage)
    BY <2>1, <2>2, Reserved
  <2> QED  BY <2>2, <2>3 DEF len
<1> HIDE DEF grown
<1>9. Roomy(g)
  <2>1. g.xlFreedCap \in Nat /\ Len(g.xlFreed) <= g.xlFreedCap  BY <1>4, <1>5, <1>r
  <2> QED  BY <2>1, <1>1, <1>5 DEF Roomy, SameRecycle
<1>10. Retained(g) = Retained(h) \cup N /\ Retained(h) \cap N = {}
  <2>1. Retained(h) = A \cup F  BY DEF Retained, s
  <2>2. Retained(g) = A \cup (F \cup N)  BY <1>5, <1>a DEF Retained, SameRecycle
  <2> HIDE DEF A, U, F
  <2> QED  BY <2>1, <2>2, <1>3, <1>2
<1>11. Cardinality(Retained(g)) = r
  <2>1. IsFiniteSet(Retained(h)) /\ h.retention = Cardinality(Retained(h))
    BY <1>1, StoreFacts DEF Tallied
  <2>2. Cardinality(Retained(h) \cup N) = Cardinality(Retained(h)) + Cardinality(N)
    BY <2>1, <1>7, <1>10, CardPlus
  <2> QED  BY <2>1, <2>2, <1>7, <1>10 DEF r
<1>12. ArrayPages(g) = ArrayPages(h) + grown /\ Cap(g) = Cap(h) /\ grown \in Int
  <2> DEFINE a == CeilDiv(cap, XLPerPage)
             b == CeilDiv(old, XLPerPage)
             u == CeilDiv(h.recycleCap, PtrsPerPage)
             v == CeilDiv(h.xlUseCap, XLPerPage)
  <2>1. ArrayPages(g) = u + v + a /\ ArrayPages(h) = u + v + b /\ grown = a - b
    BY <1>5, <1>r DEF ArrayPages, SameRecycle
  <2>2. a \in Nat /\ b \in Nat /\ u \in Nat /\ v \in Nat  BY <1>1, <1>r, StoreFacts
  <2>3. Cap(g) = Cap(h)  BY <1>5 DEF Cap, SameRecycle, SameTable
  <2> HIDE DEF a, b, u, v
  <2> QED  BY <2>1, <2>2, <2>3
<1>13. Tallied(g)
  <2> DEFINE z == 0
  <2>1. /\ z \in Int /\ g.footprint = h.footprint + z + grown
        /\ Cardinality(g.mapped) = Cardinality(h.mapped) + z
    BY <1>1, <1>5, <1>12, StoreFacts DEF f
  <2> HIDE DEF z
  <2>2. g.footprint = Cardinality(g.mapped) + TablePages(Cap(g)) + ArrayPages(g)
    BY <2>1, <1>1, <1>12, Retally
  <2> QED  BY <2>2, <1>5, <1>11 DEF Tallied
<1>14. Stores(g, D \ N)  BY <1>1, <1>5, <1>8, <1>9, <1>12, <1>13 DEF Stores
<1> QED  BY <1>5, <1>14 DEF N

\* The list of live regions has a place for one more.
HasRoom(h) == Len(h.xlUse) < h.xlUseCap

\* The list of live regions grows.
Growing(h, D, cap, g) ==
    /\ Stores(h, D) /\ cap = ReserveCap(Len(h.xlUse), h.xlUseCap, XLPerPage)
    /\ g = [h EXCEPT !.xlUseCap = cap, !.footprint = h.footprint + GrownPages(h.xlUseCap, cap, XLPerPage)]

\* The stores are exact with the bigger list.
LEMMA GrowKeeps ==
  ASSUME NEW h, NEW D, NEW cap, NEW g, Growing(h, D, cap, g)
  PROVE  /\ Stores(g, D) /\ SameRecycle(g, h) /\ HasRoom(g)
         /\ g.xlUse = h.xlUse /\ g.xlFreed = h.xlFreed /\ g.inUse = h.inUse /\ g.mapped = h.mapped
         /\ g.retention = h.retention
<1> DEFINE old == h.xlUseCap
           grown == GrownPages(old, cap, XLPerPage)
           f == h.footprint + grown
           len == Len(h.xlUse)
<1>1. IsHeap(h) /\ Owned(h, D) /\ Roomy(h) /\ Tallied(h) /\ Stores(h, D)  BY DEF Stores, Growing
<1>2. g = [h EXCEPT !.xlUseCap = cap, !.footprint = f] /\ cap = ReserveCap(len, old, XLPerPage)
  BY DEF Growing
<1>3. len \in Nat
  <2>1. Parcels(h.xlUse)  BY <1>1 DEF Owned
  <2> QED  BY <2>1, ParcelsFacts
<1>4. old \in Nat /\ len <= old /\ XLPerPage \in Nat \ {0}  BY <1>1, StoreFacts DEF Roomy
<1> HIDE DEF f
<1>5. /\ IsHeap(g) /\ SameRecycle(g, h) /\ g.xlFreed = h.xlFreed /\ g.xlFreedCap = h.xlFreedCap
      /\ g.xlUse = h.xlUse /\ g.xlUseCap = cap
      /\ g.retention = h.retention /\ g.inUse = h.inUse /\ g.mapped = h.mapped /\ g.footprint = f
  BY <1>1, <1>2 DEF IsHeap, SameTable, SameRecycle
<1>6. /\ cap \in Nat /\ len + 1 <= cap /\ CeilDiv(cap, XLPerPage) \in Nat /\ CeilDiv(old, XLPerPage) \in Nat
      /\ grown = CeilDiv(cap, XLPerPage) - CeilDiv(old, XLPerPage)
  <2> HIDE DEF len, old
  <2> QED  BY <1>2, <1>3, <1>4, Reserved
<1> HIDE DEF grown
<1>7. Owned(g, D)  BY <1>1, <1>5 DEF Owned, SameRecycle
<1>8. HasRoom(g)  BY <1>3, <1>5, <1>6 DEF HasRoom
<1>9. Roomy(g)
  <2>1. g.xlUseCap \in Nat /\ Len(g.xlUse) <= g.xlUseCap  BY <1>3, <1>5, <1>6
  <2> QED  BY <2>1, <1>1, <1>5 DEF Roomy, SameRecycle
<1>12. ArrayPages(g) = ArrayPages(h) + grown /\ Cap(g) = Cap(h) /\ grown \in Int
  <2> DEFINE a == CeilDiv(cap, XLPerPage)
             b == CeilDiv(old, XLPerPage)
             u == CeilDiv(h.recycleCap, PtrsPerPage)
             v == CeilDiv(h.xlFreedCap, XLPerPage)
  <2>1. ArrayPages(g) = u + a + v /\ ArrayPages(h) = u + b + v /\ grown = a - b
    BY <1>5, <1>6 DEF ArrayPages, SameRecycle
  <2>2. a \in Nat /\ b \in Nat /\ u \in Nat /\ v \in Nat  BY <1>1, <1>6, StoreFacts
  <2>3. Cap(g) = Cap(h)  BY <1>5 DEF Cap, SameRecycle, SameTable
  <2> HIDE DEF a, b, u, v
  <2> QED  BY <2>1, <2>2, <2>3
<1>13. Tallied(g)
  <2> DEFINE z == 0
  <2>1. /\ z \in Int /\ g.footprint = h.footprint + z + grown
        /\ Cardinality(g.mapped) = Cardinality(h.mapped) + z
    BY <1>1, <1>5, <1>12, StoreFacts DEF f
  <2> HIDE DEF z
  <2>2. g.footprint = Cardinality(g.mapped) + TablePages(Cap(g)) + ArrayPages(g)
    BY <2>1, <1>1, <1>12, Retally
  <2>3. Retained(g) = Retained(h)  BY <1>5 DEF Retained, SameRecycle
  <2> QED  BY <2>2, <2>3, <1>1, <1>5 DEF Tallied
<1> QED  BY <1>1, <1>5, <1>7, <1>8, <1>9, <1>12, <1>13 DEF Stores

\* Pages in no list become a live region.
Using(h, D, x, g) ==
    /\ Stores(h, D) /\ x \in XLRegion /\ PagesOf(x) \subseteq D /\ HasRoom(h)
    /\ g = [h EXCEPT !.xlUse = Append(h.xlUse, x)]

\* The pages are then no longer counted with D, and the region is listed.
LEMMA UseKeeps ==
  ASSUME NEW h, NEW D, NEW x, NEW g, Using(h, D, x, g)
  PROVE  /\ (\A E : E = D \ PagesOf(x) => Stores(g, E)) /\ SameTable(g, h) /\ g.inUse = h.inUse
         /\ Listed(g.xlUse) = Listed(h.xlUse) \cup {x} /\ x \notin Listed(h.xlUse)
<1> DEFINE s == h.xlUse
           t == Append(s, x)
           N == PagesOf(x)
           A == Listed(h.recycle)
           U == XLPages(s)
           F == XLPages(h.xlFreed)
<1>1. IsHeap(h) /\ Owned(h, D) /\ Roomy(h) /\ Tallied(h) /\ Stores(h, D)  BY DEF Stores, Using
<1>2. g = [h EXCEPT !.xlUse = t] /\ x \in XLRegion /\ N \subseteq D /\ Len(s) < h.xlUseCap
  BY DEF Using, HasRoom
<1>3. /\ h.mapped = D \cup A \cup U \cup F /\ D \cap A = {} /\ (D \cup A) \cap (U \cup F) = {} /\ U \cap F = {}
      /\ D \subseteq Pages /\ h.mapped \subseteq Pages /\ Parcels(s) /\ Parcels(h.xlFreed) /\ Stack(h.recycle)
  BY <1>1 DEF Owned
<1> HIDE DEF s
<1>4. /\ Parcels(t) /\ Len(t) = Len(s) + 1 /\ Len(s) \in Nat
      /\ x \notin Listed(s) /\ Listed(t) = Listed(s) \cup {x}
      /\ XLPages(t) = XLPages(s) \cup PagesOf(x)
  <2>1. PagesOf(x) \cap XLPages(s) = {}  BY <1>2, <1>3
  <2> QED  BY <2>1, <1>2, <1>3, ParcelsPush
<1>a. XLPages(t) = U \cup N  BY <1>4
<1> HIDE DEF t
<1>5. /\ IsHeap(g) /\ SameRecycle(g, h) /\ g.xlFreed = h.xlFreed /\ g.xlFreedCap = h.xlFreedCap
      /\ g.xlUse = t /\ g.xlUseCap = h.xlUseCap
      /\ g.retention = h.retention /\ g.inUse = h.inUse /\ g.mapped = h.mapped /\ g.footprint = h.footprint
  BY <1>1, <1>2 DEF IsHeap, SameTable, SameRecycle
<1> HIDE DEF N
<1>8. Owned(g, D \ N)
  <2>1. XLPages(g.xlUse) = U \cup N /\ XLPages(g.xlFreed) = F /\ Listed(g.recycle) = A
    BY <1>5, <1>a DEF SameRecycle
  <2>3. Parcels(g.xlUse) /\ Parcels(g.xlFreed) /\ Stack(g.recycle)  BY <1>3, <1>4, <1>5 DEF SameRecycle
  <2> HIDE DEF A, U, F
  <2>2. /\ g.mapped = (D \ N) \cup A \cup (U \cup N) \cup F /\ (D \ N) \cap A = {}
        /\ ((D \ N) \cup A) \cap ((U \cup N) \cup F) = {} /\ (U \cup N) \cap F = {}
        /\ D \ N \subseteq Pages /\ g.mapped \subseteq Pages
    BY <1>2, <1>3, <1>5
  <2> QED  BY <2>1, <2>2, <2>3 DEF Owned
<1>9. Roomy(g)
  <2>1. h.xlUseCap \in Nat  BY <1>1 DEF Roomy
  <2>2. Len(t) <= h.xlUseCap  BY <2>1, <1>2, <1>4
  <2> QED  BY <2>1, <2>2, <1>1, <1>5 DEF Roomy, SameRecycle
<1>10. Retained(g) = Retained(h) /\ ArrayPages(g) = ArrayPages(h) /\ Cap(g) = Cap(h)
  BY <1>5 DEF Retained, ArrayPages, Cap, SameRecycle, SameTable
<1>11. Tallied(g)  BY <1>1, <1>5, <1>10 DEF Tallied
<1>12. Stores(g, D \ N)  BY <1>1, <1>5, <1>8, <1>9, <1>10, <1>11 DEF Stores
<1> QED  BY <1>4, <1>5, <1>12 DEF N, s, SameRecycle

\* A live region leaves its list.
Releasing(h, D, s, i, t, g) ==
    /\ Stores(h, D) /\ s = h.xlUse /\ IsSans(XLRegion, s, i, t) /\ g = [h EXCEPT !.xlUse = t]

\* Its pages are then counted with D, and it is not listed.
LEMMA ReleaseKeeps ==
  ASSUME NEW h, NEW D, NEW s, NEW i, NEW t, NEW g, Releasing(h, D, s, i, t, g)
  PROVE  /\ (\A E : E = D \cup PagesOf(s[i]) => Stores(g, E)) /\ SameTable(g, h) /\ g.inUse = h.inUse
         /\ s[i] \in XLRegion /\ PagesOf(s[i]) \cap D = {}
         /\ g.xlFreed = h.xlFreed /\ g.xlFreedCap = h.xlFreedCap
         /\ g.footprint = h.footprint /\ g.retention = h.retention
         /\ Listed(g.xlUse) = Listed(s) \ {s[i]} /\ s[i] \in Listed(s)
<1> DEFINE x == s[i]
           N == PagesOf(x)
           A == Listed(h.recycle)
           U == XLPages(s)
           F == XLPages(h.xlFreed)
<1>s. s = h.xlUse  BY DEF Releasing
<1>1. IsHeap(h) /\ Owned(h, D) /\ Roomy(h) /\ Tallied(h) /\ Stores(h, D)  BY DEF Stores, Releasing
<1>2. g = [h EXCEPT !.xlUse = t] /\ IsSans(XLRegion, s, i, t)  BY DEF Releasing
<1>3. /\ h.mapped = D \cup A \cup U \cup F /\ D \cap A = {} /\ (D \cup A) \cap (U \cup F) = {} /\ U \cap F = {}
      /\ D \subseteq Pages /\ h.mapped \subseteq Pages /\ Parcels(s) /\ Parcels(h.xlFreed) /\ Stack(h.recycle)
  BY <1>1, <1>s DEF Owned
<1>4. /\ Parcels(t) /\ Len(t) = Len(s) - 1 /\ Len(s) \in Nat /\ Len(s) > 0
      /\ s[i] \in Listed(s) /\ s[i] \in XLRegion /\ Listed(t) = Listed(s) \ {s[i]}
      /\ XLPages(t) = XLPages(s) \ PagesOf(s[i]) /\ PagesOf(s[i]) \subseteq XLPages(s)
  BY <1>2, <1>3, ParcelsSans
<1>5. /\ IsHeap(g) /\ SameRecycle(g, h) /\ g.xlFreed = h.xlFreed /\ g.xlFreedCap = h.xlFreedCap
      /\ g.xlUse = t /\ g.xlUseCap = h.xlUseCap
      /\ g.retention = h.retention /\ g.inUse = h.inUse /\ g.mapped = h.mapped /\ g.footprint = h.footprint
  BY <1>1, <1>2 DEF IsHeap, SameTable, SameRecycle
<1>6. N \subseteq U /\ XLPages(t) = U \ N  BY <1>4
<1> HIDE DEF x, N
<1>8. Owned(g, D \cup N) /\ N \cap D = {}
  <2>1. XLPages(g.xlUse) = U \ N /\ XLPages(g.xlFreed) = F /\ Listed(g.recycle) = A
    BY <1>5, <1>6 DEF SameRecycle
  <2> HIDE DEF A, U, F
  <2>2. /\ g.mapped = (D \cup N) \cup A \cup (U \ N) \cup F /\ (D \cup N) \cap A = {}
        /\ ((D \cup N) \cup A) \cap ((U \ N) \cup F) = {} /\ (U \ N) \cap F = {}
        /\ D \cup N \subseteq Pages /\ g.mapped \subseteq Pages /\ N \cap D = {}
    BY <1>3, <1>5, <1>6
  <2>3. Parcels(g.xlUse) /\ Parcels(g.xlFreed) /\ Stack(g.recycle)  BY <1>3, <1>4, <1>5 DEF SameRecycle
  <2> QED  BY <2>1, <2>2, <2>3 DEF Owned
<1>9. Roomy(g)
  <2>1. h.xlUseCap \in Nat /\ Len(s) <= h.xlUseCap  BY <1>1, <1>s DEF Roomy
  <2>2. Len(t) <= h.xlUseCap  BY <2>1, <1>4
  <2> QED  BY <2>1, <2>2, <1>1, <1>5 DEF Roomy, SameRecycle
<1>10. Retained(g) = Retained(h) /\ ArrayPages(g) = ArrayPages(h) /\ Cap(g) = Cap(h)
  BY <1>5 DEF Retained, ArrayPages, Cap, SameRecycle, SameTable
<1>11. Tallied(g)  BY <1>1, <1>5, <1>10 DEF Tallied
<1>12. Stores(g, D \cup N)  BY <1>1, <1>5, <1>8, <1>9, <1>10, <1>11 DEF Stores
<1> QED  BY <1>4, <1>5, <1>8, <1>12 DEF N, x, SameRecycle

\* A live region is moved, or changes its size where it is.
Moving(h, D, s, i, y, g) ==
    /\ Stores(h, D) /\ s = h.xlUse /\ i \in 1..Len(s) /\ y \in XLRegion
    /\ PagesOf(y) \subseteq Pages /\ PagesOf(y) \cap (h.mapped \ PagesOf(s[i])) = {}
    /\ IsHeap(g) /\ SameTable(g, h)
    /\ g.recycle = h.recycle /\ g.recycleCap = h.recycleCap
    /\ g.xlFreed = h.xlFreed /\ g.xlFreedCap = h.xlFreedCap /\ g.retention = h.retention
    /\ g.xlUse = Swapped(s, i, y) /\ g.xlUseCap = h.xlUseCap
    /\ g.mapped = (h.mapped \ PagesOf(s[i])) \cup PagesOf(y)
    /\ g.footprint = h.footprint + y.n - s[i].n

\* The stores are exact with the region at its new place.
LEMMA MovedKeeps ==
  ASSUME NEW h, NEW D, NEW s, NEW i, NEW y, NEW g, Moving(h, D, s, i, y, g)
  PROVE  /\ Stores(g, D) /\ s[i] \in Listed(s)
         /\ Listed(g.xlUse) = (Listed(s) \ {s[i]}) \cup {y}
         /\ y \notin Listed(s) \ {s[i]}
<1> USE DEF Moving
<1> DEFINE t == g.xlUse
           x == s[i]
           N == PagesOf(x)
           M == PagesOf(y)
           n == x.n
           m == y.n
           A == Listed(h.recycle)
           U == XLPages(s)
           F == XLPages(h.xlFreed)
           d == m - n
<1>1. IsHeap(h) /\ Owned(h, D) /\ Roomy(h) /\ Tallied(h) /\ Stores(h, D)  BY DEF Stores
<1>3. /\ h.mapped = D \cup A \cup U \cup F /\ D \cap A = {} /\ (D \cup A) \cap (U \cup F) = {} /\ U \cap F = {}
      /\ D \subseteq Pages /\ h.mapped \subseteq Pages /\ Parcels(s) /\ Parcels(h.xlFreed) /\ Stack(h.recycle)
  BY <1>1 DEF Owned
<1>2. i \in 1..Len(s) /\ y \in XLRegion /\ t = Swapped(s, i, y) /\ M \cap (U \ N) = {} /\ M \subseteq Pages
      /\ M \cap (h.mapped \ N) = {} /\ g.mapped = (h.mapped \ N) \cup M
  BY <1>3
<1> HIDE DEF t
<1>4. /\ Parcels(t) /\ Len(t) = Len(s) /\ Len(s) \in Nat
      /\ s[i] \in Listed(s) /\ Listed(t) = (Listed(s) \ {s[i]}) \cup {y}
      /\ y \notin Listed(s) \ {s[i]}
      /\ XLPages(t) = (XLPages(s) \ PagesOf(s[i])) \cup PagesOf(y)
      /\ PagesOf(s[i]) \subseteq XLPages(s)
  BY <1>2, <1>3, ParcelsSwap
<1>5. x \in XLRegion  BY <1>2, <1>3, ParcelsFacts
<1>6. N \subseteq U /\ XLPages(t) = (U \ N) \cup M  BY <1>4
<1>7. n \in Nat /\ m \in Nat /\ IsFiniteSet(M) /\ Cardinality(N) = n /\ Cardinality(M) = m
  BY <1>2, <1>5, RegionFacts
<1>b. g.footprint = h.footprint + m - n  OBVIOUS
<1> HIDE DEF x, N, M, n, m
<1>8. Owned(g, D)
  <2>1. XLPages(g.xlUse) = (U \ N) \cup M /\ XLPages(g.xlFreed) = F /\ Listed(g.recycle) = A
    BY <1>6 DEF t
  <2> HIDE DEF A, U, F
  <2>2. /\ g.mapped = D \cup A \cup ((U \ N) \cup M) \cup F /\ D \cap A = {}
        /\ (D \cup A) \cap (((U \ N) \cup M) \cup F) = {} /\ ((U \ N) \cup M) \cap F = {}
        /\ D \subseteq Pages /\ g.mapped \subseteq Pages
    BY <1>2, <1>3, <1>6
  <2>3. Parcels(g.xlUse) /\ Parcels(g.xlFreed) /\ Stack(g.recycle)  BY <1>3, <1>4 DEF t
  <2> QED  BY <2>1, <2>2, <2>3 DEF Owned
<1>9. Roomy(g)  BY <1>1, <1>4 DEF Roomy, t
<1>10. Retained(g) = Retained(h) /\ ArrayPages(g) = ArrayPages(h) /\ Cap(g) = Cap(h)
  BY DEF Retained, ArrayPages, Cap, SameTable
<1>11. Cardinality(g.mapped) = Cardinality(h.mapped) + d
  <2>1. IsFiniteSet(h.mapped) /\ Cardinality(h.mapped) \in Nat  BY <1>1, StoreFacts
  <2>2. N \subseteq h.mapped  BY <1>3, <1>6
  <2>3. IsFiniteSet(h.mapped \ N) /\ Cardinality(h.mapped \ N) = Cardinality(h.mapped) - n
    BY <2>1, <2>2, <1>7, CardMinus
  <2>4. Cardinality((h.mapped \ N) \cup M) = Cardinality(h.mapped \ N) + m
    <3> DEFINE B == h.mapped \ N
    <3>1. IsFiniteSet(B) /\ B \cap M = {}  BY <2>3, <1>2
    <3> HIDE DEF B
    <3>2. Cardinality(B \cup M) = Cardinality(B) + Cardinality(M)  BY <3>1, <1>7, CardPlus
    <3> QED  BY <3>2, <1>7 DEF B
  <2>5. Cardinality(g.mapped) = Cardinality(h.mapped \ N) + m  BY <2>4, <1>2
  <2> DEFINE a == Cardinality(g.mapped)
             b == Cardinality(h.mapped)
             c == Cardinality(h.mapped \ N)
  <2>6. a = c + m /\ c = b - n /\ b \in Nat /\ n \in Nat /\ m \in Nat  BY <2>1, <2>3, <2>5, <1>7
  <2> HIDE DEF a, b, c
  <2>7. a = b + (m - n)  BY <2>6
  <2> QED  BY <2>7 DEF a, b
<1>12. Tallied(g)
  <2>0. h.footprint \in Nat /\ ArrayPages(h) \in Nat  BY <1>1, StoreFacts
  <2>1. /\ d \in Int /\ 0 \in Int /\ g.footprint = h.footprint + d + 0 /\ ArrayPages(g) = ArrayPages(h) + 0
    <3> DEFINE f == h.footprint
               z == ArrayPages(h)
    <3>1. f \in Nat /\ z \in Nat /\ g.footprint = f + m - n /\ ArrayPages(g) = z  BY <2>0, <1>b, <1>10
    <3> HIDE DEF f, z
    <3>2. d \in Int /\ g.footprint = f + d + 0 /\ ArrayPages(g) = z + 0  BY <3>1, <1>7
    <3> QED  BY <3>2 DEF f, z
  <2> HIDE DEF d
  <2>2. g.footprint = Cardinality(g.mapped) + TablePages(Cap(g)) + ArrayPages(g)
    BY <2>1, <1>1, <1>10, <1>11, Retally
  <2> QED  BY <2>2, <1>1, <1>10 DEF Tallied
<1>13. Stores(g, D)  BY <1>1, <1>8, <1>9, <1>10, <1>12 DEF Stores
<1> QED  BY <1>4, <1>13 DEF x, t

------------------------------------------------------------------------------
\* The policy that returns retained memory to the kernel.

Held(h) == Len(h.xlFreed) + Len(h.recycle)

\* Only what is retained differs.
Trimmed(h, D, g) == Stores(g, D) /\ SameTable(g, h) /\ g.xlUse = h.xlUse /\ g.inUse = h.inUse

\* How much is retained.
LEMMA HeldIs ==
  ASSUME NEW h, NEW s, NEW t, NEW a \in Nat, NEW b \in Nat,
         s = h.xlFreed, t = h.recycle, a = Len(s), b = Len(t)
  PROVE  Held(h) = a + b
  BY DEF Held

\* One region less is retained.
LEMMA DrainStep ==
  ASSUME NEW h, NEW D, Stores(h, D), Held(h) > 0, NEW g, g = DrainOne(h)
  PROVE  Trimmed(h, D, g) /\ Held(g) = Held(h) - 1 /\ Held(h) \in Nat
<1>1. IsHeap(h) /\ Stack(h.recycle) /\ Parcels(h.xlFreed)  BY DEF Stores, Owned
<1>2. Len(h.xlFreed) \in Nat /\ h.xlFreed \in Seq(XLRegion) /\ h.recycle \in Seq(Pages) /\ Len(h.recycle) \in Nat
  BY <1>1, ParcelsFacts DEF Stack
<1>3. CASE h.xlFreed # << >>
  <2> DEFINE s == h.xlFreed
             i == Len(s)
             t == DropLast(s)
             x == s[i]
             k == [h EXCEPT !.xlFreed = t, !.retention = h.retention - x.n]
  <2>1. s \in Seq(XLRegion) /\ s # << >>  BY <1>2, <1>3
  <2>2. i \in 1..Len(s) /\ Sans(s, i, t) /\ Last(s) = x
    <3> HIDE DEF s
    <3> QED  BY <2>1, DropLastSans
  <2>3. g = os_page_unmap(k, x.page, x.n)
    <3>1. k = [h EXCEPT !.xlFreed = DropLast(@), !.retention = @ - x.n]  BY <1>1 DEF IsHeap
    <3> HIDE DEF k
    <3> QED  BY <3>1, <2>2, <1>3 DEF DrainOne
  <2>4. Unfreeing(h, D, s, i, t, k)  BY <2>1, <2>2 DEF Unfreeing, IsSans
  <2> DEFINE N == PagesOf(x)
  <2>5. /\ Stores(k, D \cup N) /\ SameRecycle(k, h) /\ k.xlFreed = t
        /\ x \in XLRegion /\ N \cap D = {}
        /\ k.xlUse = h.xlUse /\ k.inUse = h.inUse
    <3> HIDE DEF k, t, i, s
    <3> QED  BY <2>4, UnfreeKeeps
  <2>l. Len(t) = Len(s) - 1 /\ Len(s) \in Nat /\ Len(s) > 0
    <3>1. IsSans(XLRegion, s, i, t)  BY <2>4 DEF Unfreeing
    <3> HIDE DEF s, i, t
    <3> QED  BY <3>1, SansSeq
  <2> HIDE DEF k, x, t
  <2> DEFINE E == D \cup N
  <2>6. PagesOf(x) \subseteq E /\ Stores(k, E)  BY <2>5
  <2>7. D = E \ PagesOf(x)  BY <2>5
  <2> HIDE DEF E, N
  <2>a. Unmapping(k, E, x, g)  BY <2>3, <2>5, <2>6 DEF Unmapping
  <2>8. /\ Stores(g, D) /\ SameTable(g, k) /\ g.xlUse = k.xlUse /\ g.inUse = k.inUse
        /\ g.recycle = k.recycle /\ g.xlFreed = k.xlFreed
    BY <2>7, <2>a, UnmapKeeps
  <2>9. Trimmed(h, D, g)
    BY <2>5, <2>7, <2>8 DEF Trimmed, SameTable, SameRecycle
  <2>10. g.xlFreed = t /\ g.recycle = h.recycle  BY <2>5, <2>8 DEF SameRecycle
  <2>11. Held(g) = Held(h) - 1 /\ Held(h) \in Nat
    <3> DEFINE r == h.recycle
               a == Len(s)
               b == Len(r)
               c == a - 1
    <3>1. a \in Nat /\ b \in Nat /\ a > 0  BY <1>2, <2>l
    <3>2. c = Len(t) /\ t = g.xlFreed /\ r = g.recycle /\ s = h.xlFreed  BY <2>l, <2>10
    <3> HIDE DEF a, b, r, s, t
    <3>3. c \in Nat  BY <3>1
    <3>4. Held(h) = a + b  BY <3>1, <3>2, HeldIs DEF a, b, r
    <3> HIDE DEF c
    <3>5. Held(g) = c + b  BY <3>1, <3>2, <3>3, HeldIs DEF b
    <3> QED  BY <3>1, <3>4, <3>5 DEF c
  <2> QED  BY <2>9, <2>11
<1>4. CASE h.xlFreed = << >>
  <2> DEFINE p == Last(h.recycle)
             k == [h EXCEPT !.recycle = DropLast(@), !.retention = @ - 1]
             x == [page |-> p, n |-> 1]
  <2>1. h.recycle # << >>
    <3>1. Len(h.xlFreed) = 0  BY <1>4
    <3>2. Len(h.recycle) > 0  BY <3>1, <1>2 DEF Held
    <3> QED  BY <3>2
  <2>2. g = os_page_unmap(k, p, 1)  BY <1>4 DEF DrainOne
  <2> HIDE DEF p
  <2>a. Popping(h, D, p, k)  BY <2>1 DEF Popping, p
  <2> HIDE DEF k
  <2> DEFINE E == D \cup {p}
  <2>e. E = D \cup {p}  OBVIOUS
  <2> HIDE DEF E
  <2>3. /\ Stores(k, E) /\ SameTable(k, h) /\ p \in Pages \ D
        /\ k.xlUse = h.xlUse /\ k.inUse = h.inUse /\ k.xlFreed = h.xlFreed
        /\ Len(k.recycle) = Len(h.recycle) - 1 /\ Len(h.recycle) \in Nat
    BY <2>a, <2>e, PopKeeps
  <2>4. PagesOf(x) = {p} /\ x \in XLRegion /\ x.page = p /\ x.n = 1  BY <2>3, OnePage
  <2> HIDE DEF x
  <2>5. D = E \ PagesOf(x) /\ PagesOf(x) \subseteq E /\ Stores(k, E)  BY <2>3, <2>4, <2>e
  <2>6. Unmapping(k, E, x, g)  BY <2>2, <2>4, <2>5 DEF Unmapping
  <2>7. /\ Stores(g, D) /\ SameTable(g, k) /\ g.xlUse = k.xlUse /\ g.inUse = k.inUse
        /\ g.recycle = k.recycle /\ g.xlFreed = k.xlFreed
    BY <2>5, <2>6, UnmapKeeps
  <2>8. Trimmed(h, D, g)  BY <2>3, <2>4, <2>5, <2>7 DEF Trimmed, SameTable
  <2>9. Held(g) = Held(h) - 1 /\ Held(h) \in Nat
    <3> DEFINE s == h.xlFreed
               r == h.recycle
               t == g.recycle
               a == Len(s)
               b == Len(r)
               c == b - 1
    <3>1. a \in Nat /\ b \in Nat /\ b > 0
      <4>1. b # 0  BY <2>1, <1>2, EmptySeq
      <4> QED  BY <4>1, <1>2
    <3>2. c = Len(t) /\ t = g.recycle /\ s = g.xlFreed  BY <2>3, <2>7
    <3> HIDE DEF a, b, r, s, t
    <3>3. c \in Nat  BY <3>1
    <3>4. Held(h) = a + b  BY <3>1, HeldIs DEF a, b, r, s
    <3> HIDE DEF c
    <3>5. Held(g) = a + c  BY <3>1, <3>2, <3>3, HeldIs DEF a
    <3> QED  BY <3>1, <3>4, <3>5 DEF c
  <2> QED  BY <2>8, <2>9
<1> QED  BY <1>3, <1>4

\* The whole loop.
LEMMA ShrinkKeeps ==
  ASSUME NEW h, NEW D, Stores(h, D), NEW g, g = heap_shrink_retention(h)
  PROVE  Trimmed(h, D, g)
<1> DEFINE target == h.footprint - h.footprint \div 4
           n == Len(h.xlFreed) + Len(h.recycle)
           Step(w) == IF w.footprint <= target THEN w ELSE DrainOne(w)
           Runs(m, f) == f = [k \in 0..m |-> IF k = 0 THEN h ELSE IF f[k - 1].footprint <= target THEN f[k - 1] ELSE DrainOne(f[k - 1])]
           OK(k, w) == Trimmed(h, D, w) /\ Held(w) >= n - k /\ Held(w) \in Nat
           T == {m \in Nat : m <= n => \E f : Runs(m, f) /\ OK(m, f[m])}
           drain == CHOOSE f : Runs(n, f)
<1>1. n \in Nat /\ IsHeap(h)
  <2>1. Stack(h.recycle) /\ Parcels(h.xlFreed) /\ IsHeap(h)  BY DEF Stores, Owned
  <2>2. Len(h.xlFreed) \in Nat /\ Len(h.recycle) \in Nat  BY <2>1, ParcelsFacts DEF Stack
  <2> DEFINE a == Len(h.xlFreed)
             b == Len(h.recycle)
  <2>3. a \in Nat /\ b \in Nat /\ n = a + b  BY <2>2
  <2> HIDE DEF a, b, n
  <2>4. n \in Nat  BY <2>3
  <2> QED  BY <2>1, <2>4
<1>2. OK(0, h)
  <2>1. Trimmed(h, D, h)  BY <1>1 DEF Trimmed, SameTable
  <2>2. Held(h) = n  BY DEF Held
  <2> HIDE DEF n
  <2>3. n >= n - 0  BY <1>1
  <2> QED  BY <2>1, <2>2, <2>3, <1>1
<1>s. g = drain[n]  BY DEF heap_shrink_retention
<1> HIDE DEF target, n
<1>3. ASSUME NEW m \in Nat, m + 1 <= n, NEW w, OK(m, w) PROVE OK(m + 1, Step(w))
  <2>1. CASE w.footprint <= target
    <3>1. Step(w) = w  BY <2>1
    <3>2. Held(w) >= n - (m + 1)  BY <1>1, <1>3
    <3> HIDE DEF Step
    <3> QED  BY <3>1, <3>2, <1>3
  <2>2. CASE ~(w.footprint <= target)
    <3> DEFINE z == DrainOne(w)
    <3>1. Step(w) = z  BY <2>2
    <3> HIDE DEF z, Step
    <3>2. Stores(w, D) /\ Held(w) > 0  BY <1>1, <1>3 DEF Trimmed
    <3>3. Trimmed(w, D, z) /\ Held(z) = Held(w) - 1 /\ Held(w) \in Nat  BY <3>2, DrainStep DEF z
    <3>4. Held(z) >= n - (m + 1) /\ Held(z) \in Nat  BY <1>1, <1>3, <3>2, <3>3
    <3>5. Trimmed(h, D, z)  BY <1>3, <3>3 DEF Trimmed, SameTable
    <3> QED  BY <3>1, <3>4, <3>5
  <2> QED  BY <2>1, <2>2
<1> HIDE DEF OK
<1>4. 0 \in T
  <2> DEFINE f == [k \in 0..0 |-> h]
  <2>1. f = [k \in 0..0 |-> IF k = 0 THEN h ELSE IF f[k - 1].footprint <= target THEN f[k - 1] ELSE DrainOne(f[k - 1])]
    <3>1. \A k \in 0..0 : k = 0  OBVIOUS
    <3> QED  BY <3>1
  <2>2. f[0] = h  OBVIOUS
  <2> HIDE DEF f
  <2>3. Runs(0, f) /\ OK(0, f[0])  BY <2>1, <2>2, <1>2
  <2> QED  BY <2>3
<1>5. ASSUME NEW m \in Nat, m \in T PROVE m + 1 \in T
  <2> SUFFICES ASSUME m + 1 <= n PROVE \E f : Runs(m + 1, f) /\ OK(m + 1, f[m + 1])
    OBVIOUS
  <2>1. PICK f : Runs(m, f) /\ OK(m, f[m])
    <3>1. m <= n  BY <1>1
    <3> QED  BY <3>1, <1>5
  <2> DEFINE e == m + 1
             next == Step(f[m])
             f2 == [k \in 0..e |-> IF k = e THEN next ELSE f[k]]
  <2>2. m \in 0..(n - 1) /\ e - 1 = m /\ e \in Nat  BY <1>1
  <2>3. OK(e, next)
    <3> DEFINE w == f[m]
    <3>1. OK(m, w)  BY <2>1
    <3> HIDE DEF w, Step
    <3>2. OK(m + 1, Step(w))  BY <3>1, <1>3
    <3> QED  BY <3>2 DEF w
  <2>4. f2[e] = next  BY <2>2
  <2>5. Runs(e, f2)
    <3>1. \A k \in 0..m : f[k] = IF k = 0 THEN h ELSE IF f[k - 1].footprint <= target THEN f[k - 1] ELSE DrainOne(f[k - 1])
      BY <2>1
    <3>2. \A k \in 0..m : f2[k] = f[k]  BY <2>2
    <3> HIDE DEF next
    <3>3. ASSUME NEW k \in 0..e
          PROVE  f2[k] = IF k = 0 THEN h ELSE IF f2[k - 1].footprint <= target THEN f2[k - 1] ELSE DrainOne(f2[k - 1])
      <4>1. CASE k = e
        <5>1. k # 0 /\ k - 1 = m /\ m \in 0..m  BY <4>1, <2>2
        <5>2. f2[k - 1] = f[m]  BY <5>1, <3>2
        <5>3. f2[k] = next  BY <4>1, <2>4
        <5> HIDE DEF f2
        <5> QED  BY <5>1, <5>2, <5>3 DEF next
      <4>2. CASE k # e
        <5>1. k \in 0..m /\ (k # 0 => k - 1 \in 0..m)  BY <4>2, <2>2
        <5> HIDE DEF f2
        <5> QED  BY <5>1, <3>1, <3>2
      <4> QED  BY <4>1, <4>2
    <3>4. f2 = [k \in 0..e |-> f2[k]]  OBVIOUS
    <3> HIDE DEF f2
    <3> QED  BY <3>3, <3>4
  <2> HIDE DEF f2, next
  <2> QED  BY <2>3, <2>4, <2>5
<1>6. n \in T
  <2>1. Nat \subseteq T
    <3> HIDE DEF T
    <3> QED  BY <1>4, <1>5, SetInduction
  <2> QED  BY <2>1, <1>1
<1>7. PICK f : Runs(n, f) /\ OK(n, f[n])  BY <1>6, <1>1
<1>8. \A f1, f3 : Runs(n, f1) /\ Runs(n, f3) => f1 = f3
  <2> SUFFICES ASSUME NEW f1, NEW f3, Runs(n, f1), Runs(n, f3) PROVE f1 = f3  OBVIOUS
  <2> DEFINE U == {k \in Nat : k <= n => f1[k] = f3[k]}
  <2>1. \A k \in 0..n : /\ f1[k] = IF k = 0 THEN h ELSE IF f1[k - 1].footprint <= target THEN f1[k - 1] ELSE DrainOne(f1[k - 1])
                        /\ f3[k] = IF k = 0 THEN h ELSE IF f3[k - 1].footprint <= target THEN f3[k - 1] ELSE DrainOne(f3[k - 1])
    BY Zenon
  <2>2. 0 \in U  BY <2>1, <1>1
  <2>3. ASSUME NEW k \in Nat, k \in U PROVE k + 1 \in U
    <3> SUFFICES ASSUME k + 1 <= n PROVE f1[k + 1] = f3[k + 1]  OBVIOUS
    <3>1. k + 1 \in 0..n /\ k + 1 # 0 /\ (k + 1) - 1 = k /\ k <= n  BY <1>1
    <3> QED  BY <3>1, <2>1, <2>3
  <2>4. Nat \subseteq U
    <3> HIDE DEF U
    <3> QED  BY <2>2, <2>3, SetInduction
  <2>5. \A k \in 0..n : f1[k] = f3[k]  BY <2>4, <1>1
  <2>6. f1 = [k \in 0..n |-> f1[k]] /\ f3 = [k \in 0..n |-> f3[k]]  OBVIOUS
  <2> QED  BY <2>5, <2>6
<1>9. Runs(n, drain)  BY <1>7
<1>10. drain = f  BY <1>7, <1>8, <1>9
<1> HIDE DEF drain
<1> QED  BY <1>s, <1>7, <1>10 DEF OK

\* The policy.
LEMMA MaybeShrinkKeeps ==
  ASSUME NEW h, NEW D, Stores(h, D), NEW g, g = heap_maybe_shrink_retention(h)
  PROVE  Trimmed(h, D, g)
<1>1. Trimmed(h, D, h)  BY DEF Trimmed, SameTable, Stores
<1>2. CASE g = h
  BY <1>1, <1>2
<1>3. CASE g # h
  <2>1. g = heap_shrink_retention(h)  BY <1>3 DEF heap_maybe_shrink_retention
  <2> QED  BY <2>1, ShrinkKeeps
<1> QED  BY <1>2, <1>3

------------------------------------------------------------------------------
\* Blocks and their bytes.

Bytes(b) == b.addr..(b.addr + b.len - 1)
AllBytes(B) == UNION {Bytes(b) : b \in B}

SlotBlock(p, c, s) == [addr |-> p * PageSize + s * SlotSize[c], len |-> SlotSize[c]]
XLBlock(x) == [addr |-> x.page * PageSize, len |-> x.n * PageSize]

\* An address that far into a page is in that page.
LEMMA InPage ==
  ASSUME NEW p \in Nat, NEW v \in Nat, p * PageSize <= v, v < p * PageSize + PageSize,
         PageSize \in Nat \ {0}
  PROVE  v \div PageSize = p /\ (v % PageSize) = v - p * PageSize
<1> DEFINE d == PageSize
           q == v \div d
           r == v % d
           a == p * d
           b == q * d
<1>1. q \in Nat /\ d * q <= v /\ v < d * q + d /\ v = d * q + r /\ r \in 0..(d - 1)  BY DivProps
<1>2. b = d * q /\ b \in Nat /\ a \in Nat /\ d \in Nat \ {0}  BY <1>1
<1>3. (p < q => a + d <= b) /\ (q < p => b + d <= a)
  <2>1. p < q => p * d + d <= q * d  BY <1>1, <1>2, NextMultiple
  <2>2. q < p => q * d + d <= p * d  BY <1>1, <1>2, NextMultiple
  <2> QED  BY <2>1, <2>2
<1>4. a <= v /\ v < a + d  OBVIOUS
<1>5. b <= v /\ v < b + d  BY <1>1, <1>2
<1> HIDE DEF q, a, b, d, r
<1>6. ~(p < q) /\ ~(q < p)  BY <1>2, <1>3, <1>4, <1>5
<1>7. p = q  BY <1>1, <1>6
<1>8. r = v - b  BY <1>1, <1>2
<1> QED  BY <1>7, <1>8 DEF q, a, b, d, r

\* Where a slot is.
LEMMA SlotPlace ==
  ASSUME NEW p \in Nat, NEW c \in Classes, NEW s \in 0..(Slots(c) - 1),
         NEW b, b = SlotBlock(p, c, s)
  PROVE  /\ b.addr \in Nat /\ b.len \in Nat /\ b.len > 0 /\ b.len = SlotSize[c]
         /\ b.addr = p * PageSize + s * SlotSize[c] /\ p * PageSize \in Nat /\ s * SlotSize[c] \in Nat
         /\ p * PageSize <= b.addr /\ b.addr + b.len <= p * PageSize + PageSize
         /\ s \in Nat
<1> DEFINE z == SlotSize[c]
           n == Slots(c)
           u == s * z
           a == p * PageSize
<1>1. z \in Nat \ {0} /\ PageSize \in Nat \ {0} /\ n \in Nat /\ n * z = PageSize  BY SlotFacts
<1>2. b.addr = a + u /\ b.len = z  BY DEF SlotBlock
<1>3. s \in Nat /\ s < n  BY <1>1
<1>4. u \in Nat /\ a \in Nat  BY <1>1, <1>3
<1>5. u + z <= PageSize
  <2>1. s * z + z <= n * z  BY <1>1, <1>3, NextMultiple
  <2> QED  BY <2>1, <1>1
<1> HIDE DEF z, n, u, a
<1>6. /\ b.addr \in Nat /\ b.len \in Nat /\ b.len > 0
      /\ a <= b.addr /\ b.addr + b.len <= a + PageSize
  BY <1>1, <1>2, <1>4, <1>5
<1> QED  BY <1>2, <1>3, <1>4, <1>6 DEF z, u, a

\* The bytes of a slot are in its page.
LEMMA SlotBytes ==
  ASSUME NEW p \in Nat, NEW c \in Classes, NEW s \in 0..(Slots(c) - 1),
         NEW b, b = SlotBlock(p, c, s), NEW v \in Bytes(b)
  PROVE  v \in Nat /\ v \div PageSize = p /\ b.addr <= v /\ v < b.addr + b.len
<1> DEFINE a == p * PageSize
<1>1. /\ b.addr \in Nat /\ b.len \in Nat /\ a \in Nat
      /\ a <= b.addr /\ b.addr + b.len <= a + PageSize
  BY SlotPlace
<1>2. PageSize \in Nat \ {0}  BY SlotFacts
<1>3. v \in b.addr..(b.addr + b.len - 1)  BY DEF Bytes
<1>4. v \in Nat /\ b.addr <= v /\ v < b.addr + b.len  BY <1>1, <1>3
<1>5. a <= v /\ v < a + PageSize
  <2> HIDE DEF a
  <2> QED  BY <1>1, <1>2, <1>4
<1> QED  BY <1>2, <1>4, <1>5, InPage

\* Two slots of a page do not overlap.
LEMMA SlotsApart ==
  ASSUME NEW p \in Nat, NEW c \in Classes, NEW s \in 0..(Slots(c) - 1), NEW t \in 0..(Slots(c) - 1), s # t
  PROVE  Bytes(SlotBlock(p, c, s)) \cap Bytes(SlotBlock(p, c, t)) = {}
<1> DEFINE z == SlotSize[c]
           b == SlotBlock(p, c, s)
           d == SlotBlock(p, c, t)
           u == s * z
           w == t * z
           a == p * PageSize
<1>1. /\ b.len = z /\ b.addr = a + u /\ a \in Nat /\ u \in Nat /\ s \in Nat
      /\ d.len = z /\ d.addr = a + w /\ w \in Nat /\ t \in Nat
  BY SlotPlace
<1>2. z \in Nat /\ z > 0  BY SlotFacts
<1>3. s < t => s * z + z <= t * z  BY <1>1, <1>2, NextMultiple
<1>4. t < s => t * z + z <= s * z  BY <1>1, <1>2, NextMultiple
<1>5. s < t => u + z <= w  BY <1>3
<1>6. t < s => w + z <= u  BY <1>4
<1> HIDE DEF z, b, d, u, w, a
<1>7. u + z <= w \/ w + z <= u  BY <1>1, <1>5, <1>6
<1>8. \A v : ~(v \in Bytes(b) /\ v \in Bytes(d))
  BY <1>1, <1>2, <1>7 DEF Bytes
<1> QED  BY <1>8 DEF b, d

\* The bytes of a region are in its pages.
LEMMA RegionBytes ==
  ASSUME NEW x \in XLRegion, PageSize \in Nat \ {0}, NEW b, b = XLBlock(x)
  PROVE  /\ b.addr \in Nat /\ b.len \in Nat /\ b.len > 0
         /\ b.addr = x.page * PageSize /\ b.len = x.n * PageSize
         /\ \A v \in Bytes(b) : v \in Nat /\ v \div PageSize \in PagesOf(x)
<1> DEFINE d == PageSize
           p == x.page
           n == x.n
           a == p * d
           m == n * d
           e == (p + n) * d
<1>1. p \in Nat /\ n \in Nat /\ n > 0 /\ d \in Nat \ {0}  BY RegionFacts
<1>2. b.addr = a /\ b.len = m  BY DEF XLBlock
<1>3. a \in Nat /\ m \in Nat /\ e = a + m /\ m >= d
  <2>1. a \in Nat /\ m \in Nat /\ e = a + m  BY <1>1
  <2>2. 0 * d + d <= n * d  BY <1>1, NextMultiple
  <2>3. 0 * d = 0  BY <1>1
  <2> HIDE DEF a, m, e, d
  <2>4. m \in Nat /\ d \in Nat  BY <2>1, <1>1
  <2> QED  BY <2>1, <2>2, <2>3, <2>4 DEF m
<1>4. ASSUME NEW v \in Bytes(b) PROVE v \in Nat /\ v \div d \in PagesOf(x)
  <2> DEFINE q == v \div d
             f == q * d
  <2>0. v \in a..(a + m - 1)  BY <1>2 DEF Bytes
  <2>1. v \in Nat /\ a <= v /\ v < a + m
    <3> HIDE DEF a, m
    <3> QED  BY <2>0, <1>3
  <2>2. q \in Nat /\ d * q <= v /\ v < d * q + d  BY <1>1, <2>1, DivProps
  <2>3. f = d * q /\ f \in Nat  BY <1>1, <2>2
  <2>4. q < p => q * d + d <= p * d  BY <1>1, <2>2, NextMultiple
  <2>5. p + n \in Nat  BY <1>1
  <2>6. q >= p + n => e <= f
    <3>1. CASE q = p + n
      BY <3>1, <2>2, <2>3, <1>1
    <3>2. CASE q > p + n
      <4>1. (p + n) * d + d <= q * d  BY <3>2, <2>2, <2>5, <1>1, NextMultiple
      <4>2. e \in Nat /\ e + d <= f  BY <4>1, <1>3
      <4> HIDE DEF e, f
      <4> QED  BY <4>2, <1>1, <2>3
    <3> QED  BY <3>1, <3>2, <2>2, <2>5
  <2>7. q < p => f + d <= a  BY <2>4
  <2> HIDE DEF q, f, a, m, e, p, n, d
  <2>8. ~(q < p) /\ ~(q >= p + n)  BY <2>1, <2>2, <2>3, <2>6, <2>7, <1>1, <1>3
  <2>9. q \in p..(p + n - 1)  BY <2>2, <2>8, <1>1
  <2> QED  BY <2>1, <2>9 DEF q, PagesOf, Region, p, n
<1>5. m > 0
  <2> HIDE DEF m, d
  <2> QED  BY <1>1, <1>3
<1> QED  BY <1>2, <1>3, <1>4, <1>5

\* The bytes of a block are as many as its length.
LEMMA BytesCount ==
  ASSUME NEW b, b.addr \in Nat, b.len \in Nat
  PROVE  IsFiniteSet(Bytes(b)) /\ Cardinality(Bytes(b)) = b.len
  BY RegionCard DEF Bytes, Region

\* Blocks that do not overlap.
Blocks(B) ==
    /\ \A b \in B : b.addr \in Nat /\ b.len \in Nat /\ b.len > 0
    /\ \A b, d \in B : b # d => Bytes(b) \cap Bytes(d) = {}
    /\ IsFiniteSet(AllBytes(B))

\* A block more.
LEMMA BlockMore ==
  ASSUME NEW B, NEW x, NEW E, E = B \cup {x}, x \notin B, Blocks(E)
  PROVE  Blocks(B) /\ Cardinality(AllBytes(E)) = Cardinality(AllBytes(B)) + x.len
<1>1. x.addr \in Nat /\ x.len \in Nat  BY DEF Blocks
<1>2. AllBytes(E) = AllBytes(B) \cup Bytes(x)  BY DEF AllBytes
<1>3. \A b \in B : Bytes(b) \cap Bytes(x) = {}  BY DEF Blocks
<1>4. AllBytes(B) \cap Bytes(x) = {}  BY <1>3 DEF AllBytes
<1>5. IsFiniteSet(AllBytes(E))  BY DEF Blocks
<1>6. IsFiniteSet(AllBytes(B))  BY <1>2, <1>5, FS_Subset
<1>7. IsFiniteSet(Bytes(x)) /\ Cardinality(Bytes(x)) = x.len  BY <1>1, BytesCount
<1>8. Cardinality(AllBytes(B) \cup Bytes(x)) = Cardinality(AllBytes(B)) + x.len
  BY <1>4, <1>6, <1>7, CardPlus
<1>9. Blocks(B)  BY <1>6 DEF Blocks
<1> QED  BY <1>2, <1>8, <1>9

\* A block less.
LEMMA BlockLess ==
  ASSUME NEW B, Blocks(B), NEW x \in B, NEW E, E = B \ {x}
  PROVE  /\ Blocks(E) /\ Cardinality(AllBytes(E)) = Cardinality(AllBytes(B)) - x.len
         /\ x.len <= Cardinality(AllBytes(B)) /\ Cardinality(AllBytes(B)) \in Nat /\ x.len \in Nat
<1>1. B = E \cup {x} /\ x \notin E  OBVIOUS
<1>2. Blocks(E) /\ Cardinality(AllBytes(B)) = Cardinality(AllBytes(E)) + x.len  BY <1>1, BlockMore
<1>3. x.len \in Nat  BY DEF Blocks
<1>4. Cardinality(AllBytes(E)) \in Nat  BY <1>2, FS_CardinalityType DEF Blocks
<1> QED  BY <1>2, <1>3, <1>4

------------------------------------------------------------------------------
\* The blocks of a heap.

LiveBits(y) == y.bits \ TailBits(y.cls)
PageBlocks(p, y) == {SlotBlock(p, y.cls, s) : s \in LiveBits(y)}
ClassBlocks(D, cont) == UNION {PageBlocks(p, cont[p]) : p \in D}
XLBlocks(R) == {XLBlock(x) : x \in R}

\* Every page of the classes is what its bitmap says.
GoodPages(D, cont) == D \subseteq Pages /\ \A p \in D : GoodPage(cont[p])

\* A page has a size.
LEMMA PageSizePos == PageSize \in Nat \ {0} /\ 1 \in Classes
<1>1. 1 \in Classes  BY HeapAssumption DEF Classes
<1> QED  BY <1>1, SlotFacts

\* A slot of a page of the classes.
LEMMA ClassBlockIs ==
  ASSUME NEW D, NEW cont, GoodPages(D, cont), NEW b \in ClassBlocks(D, cont)
  PROVE  \E p \in D : \E s \in LiveBits(cont[p]) :
            /\ b = SlotBlock(p, cont[p].cls, s) /\ p \in Nat /\ cont[p].cls \in Classes
            /\ s \in 0..(Slots(cont[p].cls) - 1)
<1>1. PICK p \in D : b \in PageBlocks(p, cont[p])  BY DEF ClassBlocks
<1>2. PICK s \in LiveBits(cont[p]) : b = SlotBlock(p, cont[p].cls, s)  BY <1>1 DEF PageBlocks
<1>3. GoodPage(cont[p]) /\ p \in Nat  BY HeapAssumption DEF GoodPages
<1>4. cont[p].cls \in Classes /\ s \in 0..(Slots(cont[p].cls) - 1)  BY <1>3, PageFacts DEF LiveBits
<1> QED  BY <1>2, <1>3, <1>4

\* Two slots of pages of the classes are the same block only if they are the same slot.
LEMMA SameSlot ==
  ASSUME NEW p \in Nat, NEW c \in Classes, NEW s \in 0..(Slots(c) - 1),
         NEW q \in Nat, NEW d \in Classes, NEW t \in 0..(Slots(d) - 1), p = q => c = d
  PROVE  /\ SlotBlock(p, c, s) = SlotBlock(q, d, t) => p = q /\ s = t
         /\ SlotBlock(p, c, s) # SlotBlock(q, d, t) =>
               Bytes(SlotBlock(p, c, s)) \cap Bytes(SlotBlock(q, d, t)) = {}
<1> DEFINE b == SlotBlock(p, c, s)
           e == SlotBlock(q, d, t)
<1>1. \A v \in Bytes(b) : v \div PageSize = p  BY SlotBytes
<1>2. \A v \in Bytes(e) : v \div PageSize = q  BY SlotBytes
<1>3. p # q => Bytes(b) \cap Bytes(e) = {}  BY <1>1, <1>2
<1>4. p = q /\ s # t => Bytes(b) \cap Bytes(e) = {}
  <2> SUFFICES ASSUME p = q, s # t PROVE Bytes(b) \cap Bytes(e) = {}  OBVIOUS
  <2>1. c = d  OBVIOUS
  <2> QED  BY <2>1, SlotsApart
<1>5. Bytes(b) # {}
  <2>1. b.addr \in Nat /\ b.len \in Nat /\ b.len > 0  BY SlotPlace
  <2>2. b.addr \in Bytes(b)
    <3> HIDE DEF b
    <3> QED  BY <2>1 DEF Bytes
  <2> QED  BY <2>2
<1>6. p = q /\ s = t => b = e  OBVIOUS
<1> HIDE DEF b, e
<1>7. (b = e => p = q /\ s = t) /\ (b # e => Bytes(b) \cap Bytes(e) = {})
  BY <1>3, <1>4, <1>5, <1>6
<1> QED  BY <1>7 DEF b, e

\* The slots of a page are different blocks, and so are those of two pages.
LEMMA SlotOfPage ==
  ASSUME NEW p \in Nat, NEW c \in Classes, NEW s \in 0..(Slots(c) - 1), NEW t \in 0..(Slots(c) - 1),
         SlotBlock(p, c, s) = SlotBlock(p, c, t)
  PROVE  s = t
  BY SameSlot

\* A slot is in one page only.
LEMMA PageOfSlot ==
  ASSUME NEW p \in Nat, NEW c \in Classes, NEW s \in 0..(Slots(c) - 1),
         NEW q \in Nat, NEW d \in Classes, NEW t \in 0..(Slots(d) - 1),
         SlotBlock(p, c, s) = SlotBlock(q, d, t)
  PROVE  p = q
<1>1. CASE p = q => c = d  BY <1>1, SameSlot
<1> QED  BY <1>1

\* A slot and a region on other pages.
LEMMA SlotAndRegion ==
  ASSUME NEW p \in Nat, NEW c \in Classes, NEW s \in 0..(Slots(c) - 1), NEW x \in XLRegion,
         p \notin PagesOf(x)
  PROVE  /\ SlotBlock(p, c, s) # XLBlock(x)
         /\ Bytes(SlotBlock(p, c, s)) \cap Bytes(XLBlock(x)) = {}
<1> DEFINE b == SlotBlock(p, c, s)
           e == XLBlock(x)
<1>1. \A v \in Bytes(b) : v \div PageSize = p  BY SlotBytes
<1>2. \A v \in Bytes(e) : v \div PageSize \in PagesOf(x)  BY PageSizePos, RegionBytes
<1>3. Bytes(b) \cap Bytes(e) = {}  BY <1>1, <1>2
<1>4. Bytes(b) # {}
  <2>1. b.addr \in Nat /\ b.len \in Nat /\ b.len > 0  BY SlotPlace
  <2>2. b.addr \in Bytes(b)
    <3> HIDE DEF b
    <3> QED  BY <2>1 DEF Bytes
  <2> QED  BY <2>2
<1> HIDE DEF b, e
<1>5. b # e /\ Bytes(b) \cap Bytes(e) = {}  BY <1>3, <1>4
<1> QED  BY <1>5 DEF b, e

\* Two regions on other pages, and one region and itself.
LEMMA TwoRegions ==
  ASSUME NEW x \in XLRegion, NEW y \in XLRegion
  PROVE  /\ XLBlock(x) = XLBlock(y) => x = y
         /\ PagesOf(x) \cap PagesOf(y) = {} => Bytes(XLBlock(x)) \cap Bytes(XLBlock(y)) = {}
<1> DEFINE b == XLBlock(x)
           e == XLBlock(y)
<1>1. /\ b.addr = x.page * PageSize /\ b.len = x.n * PageSize
      /\ \A v \in Bytes(b) : v \div PageSize \in PagesOf(x)
  BY PageSizePos, RegionBytes
<1>2. /\ e.addr = y.page * PageSize /\ e.len = y.n * PageSize
      /\ \A v \in Bytes(e) : v \div PageSize \in PagesOf(y)
  BY PageSizePos, RegionBytes
<1>3. \A i, j \in Nat : i * PageSize = j * PageSize => i = j
  <2> SUFFICES ASSUME NEW i \in Nat, NEW j \in Nat, i * PageSize = j * PageSize PROVE i = j  OBVIOUS
  <2> DEFINE u == i * PageSize
             w == j * PageSize
  <2>1. i < j => u + PageSize <= w  BY PageSizePos, NextMultiple
  <2>2. j < i => w + PageSize <= u  BY PageSizePos, NextMultiple
  <2>3. u = w  OBVIOUS
  <2>4. u \in Nat /\ w \in Nat  BY PageSizePos
  <2> HIDE DEF u, w
  <2> QED  BY <2>1, <2>2, <2>3, <2>4, PageSizePos
<1>4. ASSUME b = e PROVE x = y
  <2>1. x.page * PageSize = y.page * PageSize /\ x.n * PageSize = y.n * PageSize  BY <1>1, <1>2, <1>4
  <2>2. x.page \in Nat /\ x.n \in Nat /\ x = [page |-> x.page, n |-> x.n]  BY RegionFacts
  <2>3. y.page \in Nat /\ y.n \in Nat /\ y = [page |-> y.page, n |-> y.n]  BY RegionFacts
  <2>4. x.page = y.page /\ x.n = y.n  BY <2>1, <2>2, <2>3, <1>3
  <2> QED  BY <2>2, <2>3, <2>4
<1>5. PagesOf(x) \cap PagesOf(y) = {} => Bytes(b) \cap Bytes(e) = {}  BY <1>1, <1>2
<1> QED  BY <1>4, <1>5

\* The blocks of a heap are the live slots of its pages and its live regions.
LEMMA LiveIs ==
  ASSUME NEW h, NEW cap, NEW D, NEW cont, Fresh(h, cap, D, cont), NEW s, s = h.xlUse, s \in Seq(XLRegion)
  PROVE  LiveIn(h) = ClassBlocks(D, cont) \cup XLBlocks(Listed(s))
<1> DEFINE At(p) == heap_hash_lookup(h, p)
           B(b) == SlotsInUse(h.pages[b])
           U == {x \in DOMAIN h.pages : h.pages[x].page # None}
           X == {[addr |-> h.xlUse[i].page * PageSize, len |-> h.xlUse[i].n * PageSize] :
                   i \in DOMAIN h.xlUse}
<1>1. /\ D \subseteq Pages /\ DOMAIN h.pages = 0..(cap - 1)
      /\ \A p \in D : /\ At(p) \in 0..(cap - 1)
                      /\ h.pages[At(p)].page = p
                      /\ h.pages[At(p)].bits = cont[p].bits
                      /\ h.pages[At(p)].cls = cont[p].cls
      /\ \A b \in 0..(cap - 1) : h.pages[b].page # None => h.pages[b].page \in D /\ At(h.pages[b].page) = b
  BY FreshReads
<1>2. \A b \in U : h.pages[b].page \in D /\ At(h.pages[b].page) = b  BY <1>1
<1>3. \A p \in D : At(p) \in U  BY <1>1, NoneIsNoPage
<1>4. \A p \in D : B(At(p)) = PageBlocks(p, cont[p])
  <2> SUFFICES ASSUME NEW p \in D PROVE B(At(p)) = PageBlocks(p, cont[p])  OBVIOUS
  <2> QED  BY <1>1 DEF PageBlocks, LiveBits, SlotBlock, SlotsInUse
<1>5. UNION {B(b) : b \in U} = ClassBlocks(D, cont)
  <2>1. ASSUME NEW b \in U PROVE B(b) \subseteq ClassBlocks(D, cont)
    <3>1. B(b) = PageBlocks(h.pages[b].page, cont[h.pages[b].page])  BY <1>2, <1>4
    <3> QED  BY <3>1, <1>2 DEF ClassBlocks
  <2>2. ASSUME NEW p \in D PROVE PageBlocks(p, cont[p]) \subseteq UNION {B(b) : b \in U}
    BY <1>3, <1>4
  <2> HIDE DEF B, U
  <2> QED  BY <2>1, <2>2 DEF ClassBlocks
<1>6. X = XLBlocks(Listed(s))
  <2>1. DOMAIN s = 1..Len(s)  OBVIOUS
  <2> QED  BY <2>1 DEF XLBlocks, XLBlock, Listed
<1> DEFINE V == UNION {B(b) : b \in U}
<1>7. LiveIn(h) = V \cup X  BY DEF LiveIn
<1>8. V = ClassBlocks(D, cont)  BY <1>5
<1> HIDE DEF V, X
<1> QED  BY <1>6, <1>7, <1>8

\* The page p of the classes, and the others.
LEMMA OnePageOf ==
  ASSUME NEW D, NEW cont, GoodPages(D, cont), NEW p \in D, NEW new, GoodPages(D, new),
         \A q \in D : q # p => new[q] = cont[q]
  PROVE  \E O : /\ ClassBlocks(D, cont) = O \cup PageBlocks(p, cont[p])
                /\ ClassBlocks(D, new) = O \cup PageBlocks(p, new[p])
                /\ O \cap PageBlocks(p, cont[p]) = {} /\ O \cap PageBlocks(p, new[p]) = {}
<1> DEFINE O == ClassBlocks(D \ {p}, cont)
<1>1. ClassBlocks(D, cont) = O \cup PageBlocks(p, cont[p])  BY DEF ClassBlocks
<1>2. ClassBlocks(D, new) = O \cup PageBlocks(p, new[p])  BY DEF ClassBlocks
<1>3. ASSUME NEW f, f = cont \/ f = new, NEW b \in O, b \in PageBlocks(p, f[p])
      PROVE  FALSE
  <2>1. GoodPages(D \ {p}, cont) /\ GoodPage(f[p]) /\ p \in Nat  BY <1>3, HeapAssumption DEF GoodPages
  <2>2. PICK q \in D \ {p} : \E s \in LiveBits(cont[q]) :
            /\ b = SlotBlock(q, cont[q].cls, s) /\ q \in Nat /\ cont[q].cls \in Classes
            /\ s \in 0..(Slots(cont[q].cls) - 1)
    BY <1>3, <2>1, ClassBlockIs
  <2>3. PICK s \in LiveBits(cont[q]) :
            /\ b = SlotBlock(q, cont[q].cls, s) /\ q \in Nat /\ cont[q].cls \in Classes
            /\ s \in 0..(Slots(cont[q].cls) - 1)
    BY <2>2
  <2>4. PICK t \in LiveBits(f[p]) : b = SlotBlock(p, f[p].cls, t)  BY <1>3 DEF PageBlocks
  <2>5. f[p].cls \in Classes /\ t \in 0..(Slots(f[p].cls) - 1)  BY <2>1, <2>4, PageFacts DEF LiveBits
  <2>6. p # q  BY <2>2
  <2>7. p = q
    <3> DEFINE c == cont[q].cls
               d == f[p].cls
    <3>1. SlotBlock(q, c, s) = SlotBlock(p, d, t)  BY <2>3, <2>4
    <3>2. q \in Nat /\ c \in Classes /\ s \in 0..(Slots(c) - 1)  BY <2>3
    <3>3. p \in Nat /\ d \in Classes /\ t \in 0..(Slots(d) - 1)  BY <2>1, <2>5
    <3> HIDE DEF c, d
    <3> QED  BY <3>1, <3>2, <3>3, PageOfSlot
  <2> QED  BY <2>6, <2>7
<1>4. O \cap PageBlocks(p, cont[p]) = {}  BY <1>3
<1>5. O \cap PageBlocks(p, new[p]) = {}  BY <1>3
<1> HIDE DEF O
<1> QED  BY <1>1, <1>2, <1>4, <1>5

\* A slot is taken: a block more.
LEMMA TakenBlocks ==
  ASSUME NEW D, NEW cont, GoodPages(D, cont), NEW p \in D, cont[p].used < Slots(cont[p].cls),
         NEW new, new[p] = Taken(cont[p]), \A q \in D : q # p => new[q] = cont[q],
         NEW x, x = SlotBlock(p, cont[p].cls, FreeSlot(cont[p]))
  PROVE  /\ GoodPages(D, new) /\ Taken(cont[p]) \in Content
         /\ ClassBlocks(D, new) = ClassBlocks(D, cont) \cup {x} /\ x \notin ClassBlocks(D, cont)
<1> DEFINE y == cont[p]
           s == FreeSlot(y)
           z == Taken(y)
           c == y.cls
<1>1. GoodPage(y) /\ p \in Nat  BY HeapAssumption DEF GoodPages
<1>2. s \in 0..(Slots(c) - 1) /\ s \notin y.bits /\ GoodPage(z)  BY <1>1, TakenGood DEF FreeSlot, Taken
<1>3. z.bits = y.bits \cup {s} /\ z.cls = c  BY DEF Taken
<1>4. GoodPages(D, new)
  <2>1. \A q \in D : GoodPage(new[q])  BY <1>2 DEF GoodPages
  <2> QED  BY <2>1 DEF GoodPages
<1>5. s \notin TailBits(c)
  <2>1. c \in Classes  BY <1>1, PageFacts
  <2>2. FullBitmap(c) \ TailBits(c) = 0..(Slots(c) - 1)  BY <2>1, SlotFacts
  <2> QED  BY <2>2, <1>2
<1>6. LiveBits(z) = LiveBits(y) \cup {s} /\ s \notin LiveBits(y)  BY <1>2, <1>3, <1>5 DEF LiveBits
<1>7. PageBlocks(p, z) = PageBlocks(p, y) \cup {x}  BY <1>6, <1>3 DEF PageBlocks
<1>8. x \notin PageBlocks(p, y)
  <2> SUFFICES ASSUME NEW t \in LiveBits(y), x = SlotBlock(p, c, t) PROVE FALSE  BY DEF PageBlocks
  <2>1. c \in Classes /\ t \in 0..(Slots(c) - 1)  BY <1>1, PageFacts DEF LiveBits
  <2>2. p \in Nat /\ s \in 0..(Slots(c) - 1) /\ SlotBlock(p, c, t) = SlotBlock(p, c, s)  BY <1>1, <1>2
  <2> HIDE DEF s, c
  <2>3. t = s  BY <2>1, <2>2, SlotOfPage
  <2> USE DEF s, c
  <2> QED  BY <2>3, <1>6
<1>9. z \in Content  BY <1>2 DEF GoodPage
<1>10. PICK O : /\ ClassBlocks(D, cont) = O \cup PageBlocks(p, cont[p])
                /\ ClassBlocks(D, new) = O \cup PageBlocks(p, new[p])
                /\ O \cap PageBlocks(p, new[p]) = {}
  BY <1>4, OnePageOf
<1> QED  BY <1>4, <1>7, <1>8, <1>9, <1>10

\* A slot is cleared: a block less.
LEMMA ClearedBlocks ==
  ASSUME NEW D, NEW cont, GoodPages(D, cont), NEW p \in D,
         NEW s, s \in LiveBits(cont[p]),
         NEW new, new[p] = Cleared(cont[p], s), \A q \in D : q # p => new[q] = cont[q],
         NEW x, x = SlotBlock(p, cont[p].cls, s)
  PROVE  /\ GoodPages(D, new)
         /\ ClassBlocks(D, new) = ClassBlocks(D, cont) \ {x} /\ x \in ClassBlocks(D, cont)
<1> DEFINE y == cont[p]
           z == Cleared(y, s)
           c == y.cls
<1>1. GoodPage(y) /\ p \in Nat  BY HeapAssumption DEF GoodPages
<1>2. s \in y.bits /\ s \notin TailBits(c)  BY DEF LiveBits
<1>3. GoodPage(z)  BY <1>1, <1>2, ClearedGood DEF Cleared
<1>4. z.bits = y.bits \ {s} /\ z.cls = c  BY DEF Cleared
<1>5. GoodPages(D, new)
  <2>1. \A q \in D : GoodPage(new[q])  BY <1>3 DEF GoodPages
  <2> QED  BY <2>1 DEF GoodPages
<1>6. LiveBits(z) = LiveBits(y) \ {s}  BY <1>4 DEF LiveBits
<1>7. PageBlocks(p, z) = {SlotBlock(p, c, t) : t \in LiveBits(y) \ {s}}  BY <1>6, <1>4 DEF PageBlocks
<1>8. \A t \in LiveBits(y) : SlotBlock(p, c, t) = x => t = s
  <2> SUFFICES ASSUME NEW t \in LiveBits(y), x = SlotBlock(p, c, t) PROVE t = s  OBVIOUS
  <2>1. c \in Classes /\ t \in 0..(Slots(c) - 1) /\ s \in 0..(Slots(c) - 1)
    BY <1>1, PageFacts DEF LiveBits
  <2>2. p \in Nat /\ SlotBlock(p, c, t) = SlotBlock(p, c, s)  BY <1>1
  <2> HIDE DEF c
  <2> QED  BY <2>1, <2>2, SlotOfPage
<1>9. PageBlocks(p, z) = PageBlocks(p, y) \ {x} /\ x \in PageBlocks(p, y)
  BY <1>7, <1>8 DEF PageBlocks
<1>10. PICK O : /\ ClassBlocks(D, cont) = O \cup PageBlocks(p, cont[p])
                /\ ClassBlocks(D, new) = O \cup PageBlocks(p, new[p])
                /\ O \cap PageBlocks(p, cont[p]) = {}
  BY <1>5, OnePageOf
<1> QED  BY <1>5, <1>9, <1>10

\* A page without live slots comes: no block more.
LEMMA NewPageBlocks ==
  ASSUME NEW D, NEW cont, GoodPages(D, cont), DOMAIN cont = D, NEW p \in Pages \ D, NEW c \in Classes,
         NEW new, new = Plus(cont, p, NewPage(c))
  PROVE  /\ \A E : E = D \cup {p} => GoodPages(E, new) /\ ClassBlocks(E, new) = ClassBlocks(D, cont)
         /\ new[p] = NewPage(c) /\ \A q \in D : new[q] = cont[q]
<1>1. new[p] = NewPage(c) /\ \A q \in D : new[q] = cont[q]  BY DEF Plus
<1>2. GoodPage(NewPage(c))  BY NewPageGood DEF NewPage
<1>3. \A q \in D \cup {p} : GoodPage(new[q])  BY <1>1, <1>2 DEF GoodPages
<1>4. GoodPages(D \cup {p}, new)  BY <1>3 DEF GoodPages
<1>5. PageBlocks(p, new[p]) = {}  BY <1>1 DEF PageBlocks, LiveBits, NewPage
<1>6. ClassBlocks(D \cup {p}, new) = ClassBlocks(D, cont) \cup PageBlocks(p, new[p])
  BY <1>1 DEF ClassBlocks
<1> QED  BY <1>1, <1>4, <1>5, <1>6

\* A page without live slots goes: no block less.
LEMMA OldPageBlocks ==
  ASSUME NEW D, NEW cont, GoodPages(D, cont), DOMAIN cont = D, NEW p \in D, cont[p].used = 0,
         NEW new, new = Minus(cont, p)
  PROVE  /\ \A E : E = D \ {p} => GoodPages(E, new) /\ ClassBlocks(E, new) = ClassBlocks(D, cont)
         /\ \A q \in D \ {p} : new[q] = cont[q]
<1>1. \A q \in D \ {p} : new[q] = cont[q]  BY DEF Minus
<1>2. GoodPages(D \ {p}, new)  BY <1>1 DEF GoodPages
<1>3. PageBlocks(p, cont[p]) = {}
  <2>1. GoodPage(cont[p])  BY DEF GoodPages
  <2>2. LiveBits(cont[p]) = {}  BY <2>1, PageFacts DEF LiveBits
  <2> QED  BY <2>2 DEF PageBlocks
<1>4. ClassBlocks(D, cont) = ClassBlocks(D \ {p}, new) \cup PageBlocks(p, cont[p])
  BY <1>1 DEF ClassBlocks
<1> QED  BY <1>1, <1>2, <1>3, <1>4

------------------------------------------------------------------------------
\* A heap that is well formed, with the pages D of the classes.

\* The table, half full at most.
Tabled(h, D, cont) ==
    /\ Fresh(h, Cap(h), D, cont) /\ GoodPages(D, cont)
    /\ h.count = Cardinality(D) /\ 2 * h.count <= Cap(h)

\* A class has one page without live slots at most.
Spare(D, cont) ==
    \A p, q \in D : cont[p].used = 0 /\ cont[q].used = 0 /\ cont[p].cls = cont[q].cls => p = q

Well(h, D, cont) == Tabled(h, D, cont) /\ Stores(h, D)
Sound(h) == \E D, cont : Well(h, D, cont) /\ Spare(D, cont)

\* The table of a heap whose stores have changed.
LEMMA TabledMoves ==
  ASSUME NEW g, NEW h, NEW D, NEW cont, Tabled(h, D, cont), SameTable(g, h)
  PROVE  Tabled(g, D, cont)
<1>1. Fresh(g, Cap(h), D, cont) /\ Cap(g) = Cap(h)  BY FreshMoves DEF Tabled
<1> QED  BY <1>1 DEF Tabled, SameTable

\* What can be read in it.
LEMMA TabledFacts ==
  ASSUME NEW h, NEW D, NEW cont, Tabled(h, D, cont)
  PROVE  /\ IsHeap(h) /\ Cap(h) \in Nat /\ D \subseteq Pages /\ IsFiniteSet(D) /\ Cardinality(D) \in Nat
         /\ cont \in [D -> Content] /\ DOMAIN cont = D /\ GoodPages(D, cont)
         /\ Fresh(h, Cap(h), D, cont) /\ h.count = Cardinality(D) /\ 2 * h.count <= Cap(h)
         /\ Cardinality(D) <= Cap(h) /\ (Cap(h) # 0 => Cardinality(D) < Cap(h))
<1>1. /\ IsHeap(h) /\ Cap(h) \in Nat /\ D \subseteq Pages /\ IsFiniteSet(D)
      /\ cont \in [D -> Content]
  BY FreshReads DEF Tabled
<1>2. Cardinality(D) \in Nat  BY <1>1, FS_CardinalityType
<1>3. h.count = Cardinality(D) /\ 2 * h.count <= Cap(h) /\ GoodPages(D, cont) /\ Fresh(h, Cap(h), D, cont)
  BY DEF Tabled
<1> QED  BY <1>1, <1>2, <1>3

\* The blocks of a table and of a list of regions that share no page.
LEMMA TwoKinds ==
  ASSUME NEW D, NEW cont, GoodPages(D, cont), NEW R \in SUBSET XLRegion, Covered(R) \cap D = {},
         NEW b \in ClassBlocks(D, cont), NEW x \in R
  PROVE  b # XLBlock(x) /\ Bytes(b) \cap Bytes(XLBlock(x)) = {}
<1>1. PICK p \in D : \E s \in LiveBits(cont[p]) :
            /\ b = SlotBlock(p, cont[p].cls, s) /\ p \in Nat /\ cont[p].cls \in Classes
            /\ s \in 0..(Slots(cont[p].cls) - 1)
  BY ClassBlockIs
<1>2. PICK s \in LiveBits(cont[p]) :
            /\ b = SlotBlock(p, cont[p].cls, s) /\ p \in Nat /\ cont[p].cls \in Classes
            /\ s \in 0..(Slots(cont[p].cls) - 1)
  BY <1>1
<1>3. p \notin PagesOf(x)  BY DEF Covered
<1>4. x \in XLRegion  OBVIOUS
<1> DEFINE c == cont[p].cls
<1>5. c \in Classes /\ s \in 0..(Slots(c) - 1) /\ b = SlotBlock(p, c, s)  BY <1>2
<1> HIDE DEF c
<1> QED  BY <1>2, <1>3, <1>4, <1>5, SlotAndRegion

\* The blocks of a well formed heap.
LEMMA WellLive ==
  ASSUME NEW h, NEW D, NEW cont, Well(h, D, cont)
  PROVE  /\ LiveIn(h) = ClassBlocks(D, cont) \cup XLBlocks(Listed(h.xlUse))
         /\ Parcels(h.xlUse) /\ Listed(h.xlUse) \subseteq XLRegion
         /\ Covered(Listed(h.xlUse)) \cap D = {} /\ GoodPages(D, cont)
         /\ AllApart(Listed(h.xlUse)) /\ XLPages(h.xlUse) = Covered(Listed(h.xlUse))
<1> DEFINE s == h.xlUse
<1>1. Parcels(s) /\ D \cap XLPages(s) = {}  BY DEF Well, Stores, Owned
<1>2. s \in Seq(XLRegion) /\ Listed(s) \subseteq XLRegion /\ XLPages(s) = Covered(Listed(s)) /\ AllApart(Listed(s))
  BY <1>1, ParcelsFacts
<1>3. Fresh(h, Cap(h), D, cont) /\ GoodPages(D, cont)  BY DEF Well, Tabled
<1>4. LiveIn(h) = ClassBlocks(D, cont) \cup XLBlocks(Listed(s))  BY <1>2, <1>3, LiveIs
<1> QED  BY <1>1, <1>2, <1>3, <1>4

\* They have room in the pages the kernel gave, which are not many.
LEMMA FewBytes ==
  ASSUME NEW M, IsFiniteSet(M), M \subseteq Nat
  PROVE  IsFiniteSet({v \in Nat : v \div PageSize \in M})
<1> DEFINE f == [p \in M |-> Region(p * PageSize, PageSize)]
           T == {f[p] : p \in M}
<1>1. \A p \in M : p * PageSize \in Nat /\ IsFiniteSet(f[p])
  <2> SUFFICES ASSUME NEW p \in M PROVE p * PageSize \in Nat /\ IsFiniteSet(f[p])  OBVIOUS
  <2>1. p \in Nat /\ p * PageSize \in Nat  BY PageSizePos
  <2>2. IsFiniteSet(Region(p * PageSize, PageSize))  BY <2>1, PageSizePos, RegionCard
  <2> QED  BY <2>1, <2>2
<1>2. f \in Surjection(M, T)  BY DEF Surjection
<1>3. IsFiniteSet(T)  BY <1>2, FS_Surjection
<1>4. IsFiniteSet(UNION T)
  <2>1. \A t \in T : IsFiniteSet(t)  BY <1>1
  <2> HIDE DEF T
  <2> QED  BY <1>3, <2>1, FS_UNION
<1>5. \A v \in Nat : v \div PageSize \in M => v \in UNION T
  <2> SUFFICES ASSUME NEW v \in Nat, v \div PageSize \in M PROVE v \in UNION T  OBVIOUS
  <2> DEFINE q == v \div PageSize
             a == q * PageSize
  <2>1. PageSize * q <= v /\ v < PageSize * q + PageSize /\ q \in Nat  BY PageSizePos, DivProps
  <2>2. a = PageSize * q /\ a \in Nat  BY <2>1, PageSizePos
  <2>3. v \in a..(a + PageSize - 1)
    <3> HIDE DEF q, a
    <3> QED  BY <2>1, <2>2, PageSizePos
  <2>4. v \in f[q]  BY <2>3 DEF Region
  <2> QED  BY <2>4
<1>6. {v \in Nat : v \div PageSize \in M} \subseteq UNION T  BY <1>5
<1> QED  BY <1>4, <1>6, FS_Subset

\* They do not overlap.
LEMMA LiveBlocks ==
  ASSUME NEW h, NEW D, NEW cont, Well(h, D, cont)
  PROVE  Blocks(LiveIn(h))
<1> DEFINE C == ClassBlocks(D, cont)
           R == Listed(h.xlUse)
           X == XLBlocks(R)
           M == h.mapped
<1>1. /\ LiveIn(h) = C \cup X /\ R \subseteq XLRegion /\ Covered(R) \cap D = {} /\ GoodPages(D, cont)
      /\ AllApart(R) /\ XLPages(h.xlUse) = Covered(R)
  BY WellLive
<1>2. IsFiniteSet(M) /\ D \subseteq M /\ Covered(R) \subseteq M /\ M \subseteq Nat
  <2>1. IsFiniteSet(M)  BY StoreFacts DEF Well
  <2>2. M \subseteq Pages /\ D \subseteq M /\ XLPages(h.xlUse) \subseteq M  BY DEF Well, Stores, Owned
  <2>3. Pages \subseteq Nat  BY HeapAssumption
  <2> QED  BY <2>1, <2>2, <2>3, <1>1
<1>3. ASSUME NEW b \in C
      PROVE  /\ b.addr \in Nat /\ b.len \in Nat /\ b.len > 0
             /\ \A v \in Bytes(b) : v \in Nat /\ v \div PageSize \in M
             /\ \A e \in C : b # e => Bytes(b) \cap Bytes(e) = {}
  <2>1. PICK p \in D : \E s \in LiveBits(cont[p]) :
            /\ b = SlotBlock(p, cont[p].cls, s) /\ p \in Nat /\ cont[p].cls \in Classes
            /\ s \in 0..(Slots(cont[p].cls) - 1)
    BY <1>1, ClassBlockIs
  <2> DEFINE c == cont[p].cls
  <2>2. PICK s \in LiveBits(cont[p]) :
            b = SlotBlock(p, c, s) /\ p \in Nat /\ c \in Classes /\ s \in 0..(Slots(c) - 1)
    BY <2>1
  <2>5. ASSUME NEW e \in C, b # e PROVE Bytes(b) \cap Bytes(e) = {}
    <3>1. PICK q \in D : \E t \in LiveBits(cont[q]) :
            /\ e = SlotBlock(q, cont[q].cls, t) /\ q \in Nat /\ cont[q].cls \in Classes
            /\ t \in 0..(Slots(cont[q].cls) - 1)
      BY <1>1, ClassBlockIs
    <3> DEFINE d == cont[q].cls
    <3>2. PICK t \in LiveBits(cont[q]) :
              e = SlotBlock(q, d, t) /\ q \in Nat /\ d \in Classes /\ t \in 0..(Slots(d) - 1)
      BY <3>1
    <3>3. p = q => c = d  OBVIOUS
    <3> HIDE DEF c, d
    <3>4. SlotBlock(p, c, s) # SlotBlock(q, d, t)  BY <2>2, <3>2, <2>5
    <3>5. Bytes(SlotBlock(p, c, s)) \cap Bytes(SlotBlock(q, d, t)) = {}
      BY <2>2, <3>2, <3>3, <3>4, SameSlot
    <3> QED  BY <3>5, <2>2, <3>2
  <2> HIDE DEF c
  <2>3. b.addr \in Nat /\ b.len \in Nat /\ b.len > 0  BY <2>2, SlotPlace
  <2>4. \A v \in Bytes(b) : v \in Nat /\ v \div PageSize = p  BY <2>2, SlotBytes
  <2> QED  BY <1>2, <2>3, <2>4, <2>5
<1>4. ASSUME NEW x \in R
      PROVE  /\ XLBlock(x).addr \in Nat /\ XLBlock(x).len \in Nat /\ XLBlock(x).len > 0
             /\ \A v \in Bytes(XLBlock(x)) : v \in Nat /\ v \div PageSize \in M
             /\ \A y \in R : XLBlock(x) # XLBlock(y) => Bytes(XLBlock(x)) \cap Bytes(XLBlock(y)) = {}
             /\ \A b \in C : Bytes(b) \cap Bytes(XLBlock(x)) = {}
  <2>1. x \in XLRegion  BY <1>1
  <2> DEFINE b == XLBlock(x)
  <2>2. /\ b.addr \in Nat /\ b.len \in Nat /\ b.len > 0
        /\ \A v \in Bytes(b) : v \in Nat /\ v \div PageSize \in PagesOf(x)
    BY <2>1, PageSizePos, RegionBytes
  <2>3. PagesOf(x) \subseteq M  BY <1>2 DEF Covered
  <2>4. \A y \in R : XLBlock(x) # XLBlock(y) => Bytes(XLBlock(x)) \cap Bytes(XLBlock(y)) = {}
    <3> SUFFICES ASSUME NEW y \in R, XLBlock(x) # XLBlock(y) PROVE Bytes(XLBlock(x)) \cap Bytes(XLBlock(y)) = {}
      OBVIOUS
    <3>1. y \in XLRegion /\ x # y  BY <1>1
    <3>2. PagesOf(x) \cap PagesOf(y) = {}  BY <1>1, <3>1 DEF AllApart
    <3> QED  BY <2>1, <3>1, <3>2, TwoRegions
  <2>5. \A e \in C : Bytes(e) \cap Bytes(XLBlock(x)) = {}  BY <1>1, TwoKinds
  <2> QED  BY <2>2, <2>3, <2>4, <2>5
<1> HIDE DEF C, M, R
<1>5. \A b \in LiveIn(h) : b.addr \in Nat /\ b.len \in Nat /\ b.len > 0
  BY <1>1, <1>3, <1>4 DEF XLBlocks
<1>6. \A b, e \in LiveIn(h) : b # e => Bytes(b) \cap Bytes(e) = {}
  BY <1>1, <1>3, <1>4 DEF XLBlocks
<1>7. AllBytes(LiveIn(h)) \subseteq {v \in Nat : v \div PageSize \in M}
  BY <1>1, <1>3, <1>4 DEF XLBlocks, AllBytes
<1>8. IsFiniteSet(AllBytes(LiveIn(h)))  BY <1>2, <1>7, FewBytes, FS_Subset
<1> QED  BY <1>5, <1>6, <1>8 DEF Blocks

\* A region that is new is a block that is new.
LEMMA NewRegion ==
  ASSUME NEW h, NEW D, NEW cont, Well(h, D, cont), NEW x \in XLRegion, x \notin Listed(h.xlUse),
         PagesOf(x) \cap D = {}
  PROVE  XLBlock(x) \notin LiveIn(h)
<1> DEFINE C == ClassBlocks(D, cont)
           R == Listed(h.xlUse)
           b == XLBlock(x)
<1>1. LiveIn(h) = C \cup XLBlocks(R) /\ R \subseteq XLRegion /\ GoodPages(D, cont)  BY WellLive
<1>2. b \notin C
  <2>1. x \in {x} /\ {x} \in SUBSET XLRegion /\ Covered({x}) \cap D = {}  BY DEF Covered
  <2> QED  BY <2>1, <1>1, TwoKinds
<1>3. b \notin XLBlocks(R)
  <2> SUFFICES ASSUME NEW y \in R, XLBlock(y) = XLBlock(x) PROVE FALSE  BY DEF XLBlocks
  <2>1. y \in XLRegion  BY <1>1
  <2> QED  BY <2>1, TwoRegions
<1> QED  BY <1>1, <1>2, <1>3

------------------------------------------------------------------------------
\* A class gets a page.

\* The blocks are the same.
Quiet(g, h) == LiveIn(g) = LiveIn(h) /\ g.inUse = h.inUse

\* A bigger table for the same pages.
Enlarging(h, D, cont, new, g) ==
    /\ Well(h, D, cont)
    /\ Cap(h) = 0 \/ 2 * (h.count + 1) > Cap(h)
    /\ new = (IF Cap(h) = 0 THEN InitialCap ELSE 2 * Cap(h))
    /\ g = heap_hash_resize(h, new)

\* The pages and their lists are the same, and one page more has room.
LEMMA EnlargeKeeps ==
  ASSUME NEW h, NEW D, NEW cont, NEW new, NEW g, Enlarging(h, D, cont, new, g)
  PROVE  /\ Well(g, D, cont) /\ 2 * (g.count + 1) <= Cap(g) /\ Cap(g) = new
         /\ g.xlUse = h.xlUse /\ g.inUse = h.inUse
<1> DEFINE cap == Cap(h)
           n == Cardinality(D)
<1>1. Well(h, D, cont) /\ (cap = 0 \/ 2 * (h.count + 1) > cap)
      /\ new = (IF cap = 0 THEN InitialCap ELSE 2 * cap) /\ g = heap_hash_resize(h, new)
  BY DEF Enlarging
<1>2. Tabled(h, D, cont) /\ Stores(h, D)  BY <1>1 DEF Well
<1>3. /\ cap \in Nat /\ n \in Nat /\ h.count = n /\ 2 * n <= cap /\ Fresh(h, cap, D, cont)
      /\ GoodPages(D, cont)
  BY <1>2, TabledFacts
<1>4. InitialCap \in Nat /\ InitialCap > 1  BY HeapAssumption
<1>5. new \in Nat /\ 2 * (n + 1) <= new /\ n < new
  <2> HIDE DEF cap, n
  <2> QED  BY <1>1, <1>3, <1>4
<1>6. PICK loc, w : TableIs(h, cap, D, loc, cont, w)  BY <1>3 DEF Fresh
<1>7. /\ Fresh(g, new, D, cont) /\ SameStores(g, h) /\ g.count = h.count
      /\ g.footprint = h.footprint + TablePages(new) - TablePages(cap)
  BY <1>1, <1>5, <1>6, ResizeKeeps
<1>8. Cap(g) = new /\ IsHeap(g)  BY <1>7, FreshReads
<1>9. Stores(g, D)  BY <1>2, <1>5, <1>7, <1>8, StoresResized
<1>10. 2 * g.count <= new /\ g.count = n
  <2> HIDE DEF n
  <2> QED  BY <1>3, <1>5, <1>7
<1>11. Tabled(g, D, cont)  BY <1>3, <1>7, <1>8, <1>10 DEF Tabled
<1>12. 2 * (g.count + 1) <= Cap(g)  BY <1>5, <1>8, <1>10
<1>13. g.xlUse = h.xlUse /\ g.inUse = h.inUse  BY <1>7 DEF SameStores
<1> QED  BY <1>8, <1>9, <1>11, <1>12, <1>13 DEF Well

\* A page of no class, counted with the pages of the classes, comes to class c.
Installing(h, D, cont, p, c, E, g) ==
    /\ Tabled(h, D, cont) /\ p \in Pages \ D /\ c \in Classes
    /\ E = D \cup {p} /\ Stores(h, E)
    /\ 2 * (h.count + 1) <= Cap(h)
    /\ \E b : /\ b = InsertBucket(h.pages, Cap(h), p)
              /\ g = heap_warm_push([h EXCEPT !.pages[b] = NewDesc(p, c), !.count = @ + 1], b)

\* The blocks are the same.
LEMMA Installed ==
  ASSUME NEW h, NEW D, NEW cont, NEW p, NEW c, NEW E, NEW g, Installing(h, D, cont, p, c, E, g)
  PROVE  /\ Well(g, E, Plus(cont, p, NewPage(c))) /\ ClassBlocks(E, Plus(cont, p, NewPage(c))) = ClassBlocks(D, cont)
         /\ g.xlUse = h.xlUse /\ g.inUse = h.inUse
<1> DEFINE cap == Cap(h)
           n == Cardinality(D)
           new == Plus(cont, p, NewPage(c))
<1>1. /\ Tabled(h, D, cont) /\ p \in Pages /\ p \notin D /\ c \in Classes
      /\ E = D \cup {p} /\ Stores(h, E) /\ 2 * (h.count + 1) <= cap
  BY DEF Installing
<1>2. PICK b : /\ b = InsertBucket(h.pages, cap, p)
               /\ g = heap_warm_push([h EXCEPT !.pages[b] = NewDesc(p, c), !.count = @ + 1], b)
  BY DEF Installing
<1>3. /\ cap \in Nat /\ n \in Nat /\ h.count = n /\ Fresh(h, cap, D, cont) /\ IsFiniteSet(D)
      /\ GoodPages(D, cont) /\ DOMAIN cont = D
  BY <1>1, TabledFacts
<1>4. n < cap
  <2> HIDE DEF n, cap
  <2> QED  BY <1>1, <1>3
<1>5. Fresh(g, cap, E, new) /\ SameRest(g, h) /\ g.count = h.count + 1
  <2>1. p \in Pages \ D /\ Cardinality(D) < cap  BY <1>1, <1>4
  <2>2. Placing(h, cap, D, cont, p, c, b, g)  BY <1>1, <1>2, <1>3, <2>1 DEF Placing
  <2>3. new = Plus(cont, p, NewPage(c)) /\ E = D \cup {p}  BY <1>1
  <2> HIDE DEF new
  <2> QED  BY <2>2, <2>3, InstallKeeps
<1>6. Cardinality(E) = n + 1  BY <1>1, <1>3, FS_AddElement
<1>7. Fresh(g, cap, E, new)  BY <1>5
<1>8. GoodPages(E, new) /\ ClassBlocks(E, new) = ClassBlocks(D, cont)
  <2>1. p \in Pages \ D  BY <1>1
  <2> HIDE DEF new
  <2>2. new = Plus(cont, p, NewPage(c))  BY DEF new
  <2> QED  BY <1>1, <1>3, <2>1, <2>2, NewPageBlocks
<1> HIDE DEF new
<1>9. Cap(g) = cap /\ IsHeap(g)  BY <1>7, FreshReads
<1>10. g.count = Cardinality(E) /\ 2 * g.count <= cap
  <2> HIDE DEF n, cap
  <2> QED  BY <1>1, <1>3, <1>5, <1>6
<1>11. Tabled(g, E, new)  BY <1>7, <1>8, <1>9, <1>10 DEF Tabled
<1>12. Stores(g, E)  BY <1>1, <1>5, <1>9, StoresSame
<1>13. g.xlUse = h.xlUse /\ g.inUse = h.inUse  BY <1>5 DEF SameRest
<1> QED  BY <1>8, <1>11, <1>12, <1>13 DEF Well, new

\* Such a page is the only one of its class without live slots, if no other has room.
LEMMA InstalledSpare ==
  ASSUME NEW D, NEW cont, Spare(D, cont), DOMAIN cont = D, NEW p, p \notin D, NEW c \in Classes,
         \A q \in D : cont[q].cls = c => ~(cont[q].used < Slots(c)),
         NEW E, E = D \cup {p}, NEW new, new = Plus(cont, p, NewPage(c))
  PROVE  Spare(E, new)
<1>1. new[p] = NewPage(c) /\ \A q \in D : new[q] = cont[q]  BY DEF Plus
<1>2. Slots(c) > 0
  <2>1. Slots(c) \in Nat /\ Slots(c) > 1  BY SlotFacts
  <2> QED  BY <2>1
<1>3. \A q \in D : cont[q].cls = c => cont[q].used # 0  BY <1>2
<1>4. new[p].cls = c  BY <1>1 DEF NewPage
<1>5. ASSUME NEW q \in E, NEW r \in E, new[q].used = 0, new[r].used = 0, new[q].cls = new[r].cls
      PROVE  q = r
  <2>1. CASE q \in D /\ r \in D  BY <2>1, <1>1, <1>5 DEF Spare
  <2>2. CASE q = p /\ r = p  BY <2>2
  <2>3. CASE q = p /\ r \in D  BY <2>3, <1>1, <1>3, <1>4, <1>5
  <2>4. CASE q \in D /\ r = p  BY <2>4, <1>1, <1>3, <1>4, <1>5
  <2> QED  BY <2>1, <2>2, <2>3, <2>4
<1> QED  BY <1>5 DEF Spare

\* The blocks of two well formed heaps.
LEMMA SameBlocks ==
  ASSUME NEW h, NEW D, NEW cont, Well(h, D, cont), NEW g, NEW E, NEW new, Well(g, E, new),
         ClassBlocks(E, new) = ClassBlocks(D, cont), g.xlUse = h.xlUse, g.inUse = h.inUse
  PROVE  Quiet(g, h)
<1>1. LiveIn(h) = ClassBlocks(D, cont) \cup XLBlocks(Listed(h.xlUse))  BY WellLive
<1>2. LiveIn(g) = ClassBlocks(E, new) \cup XLBlocks(Listed(g.xlUse))  BY WellLive
<1> QED  BY <1>1, <1>2 DEF Quiet

Outgrowing(h, c, at, fail, g) ==
    /\ Sound(h) /\ c \in Classes /\ h.warm[c] = None /\ at \in Pages \cup {None}
    /\ g = heap_grow_class(h, c, at, fail)

\* heap_grow_class.
LEMMA GrowIs ==
  ASSUME NEW h, NEW c, NEW at, NEW fail, NEW g, Outgrowing(h, c, at, fail, g)
  PROVE  Sound(g) /\ Quiet(g, h)
<1> DEFINE cap == Cap(h)
           full == cap = 0 \/ 2 * (h.count + 1) > cap
           new == IF cap = 0 THEN InitialCap ELSE 2 * cap
           f == IF ~full THEN h ELSE heap_hash_resize(h, new)
           Install(k, p) ==
              LET b == InsertBucket(k.pages, Cap(k), p)
              IN  heap_warm_push([k EXCEPT !.pages[b] = NewDesc(p, c), !.count = @ + 1], b)
           k1 == [f EXCEPT !.recycle = DropLast(@), !.retention = @ - 1]
           p1 == Last(f.recycle)
           k2 == os_page_map(f, at, 1)
<1>1. Sound(h) /\ c \in Classes /\ h.warm[c] = None /\ at \in Pages \cup {None}  BY DEF Outgrowing
<1>2. g = IF full /\ "alloc" \in fail THEN h
          ELSE IF f.recycle # << >> THEN Install(k1, p1)
          ELSE IF CanMap(f, at, 1) THEN Install(k2, at) ELSE f
  BY DEF Outgrowing, heap_grow_class
<1>3. PICK D, cont : Well(h, D, cont) /\ Spare(D, cont)  BY <1>1 DEF Sound
<1>4. Tabled(h, D, cont) /\ Stores(h, D)  BY <1>3 DEF Well
<1>5. \A q \in D : cont[q].cls = c => ~(cont[q].used < Slots(c))
  <2>1. Fresh(h, cap, D, cont)  BY <1>4, TabledFacts
  <2> QED  BY <2>1, <1>1, WarmHead
<1>6. cap \in Nat /\ h.count \in Nat /\ DOMAIN cont = D  BY <1>4, TabledFacts
<1>7. Well(f, D, cont) /\ 2 * (f.count + 1) <= Cap(f) /\ f.xlUse = h.xlUse /\ f.inUse = h.inUse
  <2>1. CASE full
    <3>1. Enlarging(h, D, cont, new, f)  BY <2>1, <1>3 DEF Enlarging
    <3> HIDE DEF f, new
    <3> QED  BY <3>1, EnlargeKeeps
  <2>2. CASE ~full
    <3>1. f = h /\ ~(2 * (h.count + 1) > cap)  BY <2>2
    <3>2. 2 * (h.count + 1) <= cap  BY <3>1, <1>6
    <3> HIDE DEF f
    <3> QED  BY <3>1, <3>2, <1>3
  <2> QED  BY <2>1, <2>2
<1> HIDE DEF f
<1>8. Tabled(f, D, cont) /\ Stores(f, D)  BY <1>7 DEF Well
\* Whatever the page, once it is counted with D.
<1>9. ASSUME NEW k, NEW p, NEW E, E = D \cup {p}, p \in Pages \ D, SameTable(k, f), Stores(k, E),
             k.xlUse = f.xlUse, k.inUse = f.inUse, g = Install(k, p)
      PROVE  Sound(g) /\ Quiet(g, h)
  <2>1. Tabled(k, D, cont)  BY <1>8, <1>9, TabledMoves
  <2>2. Cap(k) = Cap(f) /\ k.count = f.count  BY <1>9 DEF SameTable, Cap
  <2>3. 2 * (k.count + 1) <= Cap(k)  BY <2>2, <1>7
  <2>4. Installing(k, D, cont, p, c, E, g)  BY <2>1, <2>3, <1>1, <1>9 DEF Installing
  <2> DEFINE z == Plus(cont, p, NewPage(c))
  <2>5. Well(g, E, z) /\ ClassBlocks(E, z) = ClassBlocks(D, cont) /\ g.xlUse = k.xlUse /\ g.inUse = k.inUse
    BY <2>4, Installed
  <2> HIDE DEF z
  <2>6. Spare(E, z)
    <3>1. z = Plus(cont, p, NewPage(c)) /\ p \notin D  BY <1>9 DEF z
    <3> QED  BY <3>1, <1>1, <1>3, <1>5, <1>6, <1>9, InstalledSpare
  <2>7. g.xlUse = h.xlUse /\ g.inUse = h.inUse  BY <2>5, <1>7, <1>9
  <2>8. Quiet(g, h)  BY <1>3, <2>5, <2>7, SameBlocks
  <2> QED  BY <2>5, <2>6, <2>8 DEF Sound
<1>10. CASE g = h  BY <1>10, <1>1 DEF Quiet
<1>11. CASE g = f
  <2>1. Quiet(f, h)  BY <1>3, <1>7, SameBlocks
  <2> QED  BY <1>11, <2>1, <1>3, <1>7 DEF Sound
<1>12. CASE f.recycle # << >> /\ g = Install(k1, p1)
  <2>1. Popping(f, D, p1, k1)  BY <1>12, <1>8 DEF Popping
  <2> HIDE DEF k1, p1
  <2>2. /\ (\A E : E = D \cup {p1} => Stores(k1, E)) /\ SameTable(k1, f) /\ p1 \in Pages \ D
        /\ k1.xlUse = f.xlUse /\ k1.inUse = f.inUse
    BY <2>1, PopKeeps
  <2> DEFINE E == D \cup {p1}
  <2>3. E = D \cup {p1} /\ Stores(k1, E)  BY <2>2
  <2> HIDE DEF E
  <2> QED  BY <1>9, <1>12, <2>2, <2>3
<1>13. CASE CanMap(f, at, 1) /\ g = Install(k2, at)
  <2> DEFINE x == [page |-> at, n |-> 1]
  <2>1. Mapping(f, D, at, 1, k2, x)  BY <1>13, <1>8, <1>1 DEF Mapping
  <2>2. x = [page |-> at, n |-> 1]  OBVIOUS
  <2> HIDE DEF k2, x
  <2>3. /\ (\A E : E = D \cup PagesOf(x) => Stores(k2, E)) /\ SameTable(k2, f)
        /\ PagesOf(x) \subseteq Pages /\ PagesOf(x) \cap D = {}
        /\ k2.xlUse = f.xlUse /\ k2.inUse = f.inUse
    BY <2>1, MapKeeps
  <2>4. at \in Pages  BY <1>13, <1>1 DEF CanMap
  <2>5. PagesOf(x) = {at}  BY <2>2, <2>4, OnePage
  <2> DEFINE E == D \cup {at}
  <2>6. E = D \cup {at} /\ Stores(k2, E) /\ at \in Pages \ D  BY <2>3, <2>4, <2>5
  <2> HIDE DEF E
  <2> QED  BY <1>9, <1>13, <2>3, <2>6
<1>14. g = h \/ g = f \/ (f.recycle # << >> /\ g = Install(k1, p1)) \/ (CanMap(f, at, 1) /\ g = Install(k2, at))
  <2> HIDE DEF k1, k2, p1, full, Install
  <2> QED  BY <1>2
<1> QED  BY <1>10, <1>11, <1>12, <1>13, <1>14

------------------------------------------------------------------------------
\* A class gives a slot.

\* The block x, which is new, is the only one more.
Gains(g, h, x) == LiveIn(g) = LiveIn(h) \cup {x} /\ x \notin LiveIn(h)

\* The result r of a call on h that may give a block of so many bytes.
Outcome(h, r, len) ==
    /\ r = [h |-> r.h, ptr |-> r.ptr] /\ Sound(r.h) /\ r.h.inUse = h.inUse
    /\ \/ r.ptr = None /\ LiveIn(r.h) = LiveIn(h)
       \/ r.ptr # None /\ \E x : Gains(r.h, h, x) /\ x.addr = r.ptr /\ x.len = len

\* A class keeps its one spare page, or uses it.
LEMMA SpareLess ==
  ASSUME NEW D, NEW cont, Spare(D, cont), NEW p \in D, NEW new, new[p].used # 0,
         \A q \in D : q # p => new[q] = cont[q]
  PROVE  Spare(D, new)
<1>1. ASSUME NEW q \in D, NEW r \in D, new[q].used = 0, new[r].used = 0, new[q].cls = new[r].cls
      PROVE  q = r
  <2>1. q # p /\ r # p  BY <1>1
  <2>2. new[q] = cont[q] /\ new[r] = cont[r]  BY <2>1
  <2> QED  BY <2>2, <1>1 DEF Spare
<1> QED  BY <1>1 DEF Spare

\* TakeSlot.
LEMMA TakeIs ==
  ASSUME NEW h, Sound(h), NEW c \in Classes, h.warm[c] # None, NEW r, r = TakeSlot(h, h.warm[c])
  PROVE  Outcome(h, r, SlotSize[c]) /\ r.ptr # None
<1>1. PICK D, cont : Well(h, D, cont) /\ Spare(D, cont)  BY DEF Sound
<1>2. Tabled(h, D, cont) /\ Stores(h, D)  BY <1>1 DEF Well
<1> DEFINE cap == Cap(h)
<1>3. /\ cap \in Nat /\ Fresh(h, cap, D, cont) /\ GoodPages(D, cont) /\ cont \in [D -> Content]
      /\ h.count = Cardinality(D) /\ 2 * h.count <= cap
  BY <1>2, TabledFacts
<1>4. PICK p \in D : /\ cont[p].cls = c /\ cont[p].used < Slots(c)
                     /\ r.ptr = p * PageSize + FreeSlot(cont[p]) * SlotSize[c]
                     /\ TakenAt(h, cap, D, cont, p, r.h)
                     /\ r = [h |-> r.h, ptr |-> r.ptr]
  BY <1>3, TakeKeeps
<1> DEFINE new == [cont EXCEPT ![p] = Taken(@)]
           s == FreeSlot(cont[p])
           x == SlotBlock(p, c, s)
           g == r.h
<1>5. new[p] = Taken(cont[p]) /\ (\A q \in D : q # p => new[q] = cont[q])  BY <1>3
<1>6. x = SlotBlock(p, cont[p].cls, FreeSlot(cont[p])) /\ cont[p].used < Slots(cont[p].cls)  BY <1>4
<1>7. /\ GoodPages(D, new) /\ Taken(cont[p]) \in Content
      /\ ClassBlocks(D, new) = ClassBlocks(D, cont) \cup {x} /\ x \notin ClassBlocks(D, cont)
  <2> HIDE DEF new, x
  <2> QED  BY <1>3, <1>5, <1>6, TakenBlocks
<1>8. Fresh(g, cap, D, new) /\ SameRest(g, h) /\ g.count = h.count  BY <1>4, <1>7 DEF TakenAt
<1>9. s \in 0..(Slots(c) - 1) /\ p \in Nat /\ GoodPage(cont[p])
  <2>1. GoodPage(cont[p]) /\ p \in Nat  BY <1>3, HeapAssumption DEF GoodPages
  <2>2. s = Least(FullBitmap(cont[p].cls) \ cont[p].bits)  BY DEF FreeSlot
  <2>3. Taken(cont[p]) = [bits |-> cont[p].bits \cup {s}, used |-> cont[p].used + 1, cls |-> cont[p].cls]
    BY DEF Taken
  <2>4. s \in 0..(Slots(cont[p].cls) - 1)  BY <2>1, <2>2, <2>3, <1>6, TakenGood
  <2> QED  BY <2>1, <2>4, <1>4
<1>10. new[p].used # 0
  <2>1. cont[p].used \in Nat  BY <1>9, PageFacts
  <2>2. new[p].used = cont[p].used + 1  BY <1>5 DEF Taken
  <2> HIDE DEF new
  <2> QED  BY <2>1, <2>2
<1>11. x.addr = r.ptr /\ x.len = SlotSize[c] /\ x.addr \in Nat
  <2>1. x = SlotBlock(p, c, s)  OBVIOUS
  <2> HIDE DEF x, s
  <2>2. x.addr \in Nat /\ x.len = SlotSize[c] /\ x.addr = p * PageSize + s * SlotSize[c]
    BY <2>1, <1>9, SlotPlace
  <2> QED  BY <2>2, <1>4 DEF s
<1> HIDE DEF new, x, g
<1>12. Cap(g) = cap /\ IsHeap(g)  BY <1>8, FreshReads
<1>13. Tabled(g, D, new)  BY <1>3, <1>7, <1>8, <1>12 DEF Tabled
<1>14. Stores(g, D)  BY <1>2, <1>8, <1>12, StoresSame
<1>15. Well(g, D, new)  BY <1>13, <1>14 DEF Well
<1>16. Spare(D, new)  BY <1>1, <1>5, <1>10, SpareLess
<1>17. g.xlUse = h.xlUse /\ g.inUse = h.inUse  BY <1>8 DEF SameRest
<1>18. LiveIn(h) = ClassBlocks(D, cont) \cup XLBlocks(Listed(h.xlUse))
       /\ Covered(Listed(h.xlUse)) \cap D = {} /\ Listed(h.xlUse) \subseteq XLRegion
  BY <1>1, WellLive
<1>19. LiveIn(g) = ClassBlocks(D, new) \cup XLBlocks(Listed(h.xlUse))  BY <1>15, <1>17, WellLive
<1>20. x \notin XLBlocks(Listed(h.xlUse))
  <2>1. x \in ClassBlocks(D, new)  BY <1>7
  <2> SUFFICES ASSUME NEW y \in Listed(h.xlUse), x = XLBlock(y) PROVE FALSE  BY DEF XLBlocks
  <2> DEFINE R == Listed(h.xlUse)
  <2>2. R \in SUBSET XLRegion /\ Covered(R) \cap D = {} /\ y \in R  BY <1>18
  <2> HIDE DEF R
  <2> QED  BY <2>1, <2>2, <1>7, TwoKinds
<1>21. Gains(g, h, x)  BY <1>7, <1>18, <1>19, <1>20 DEF Gains
<1>22. Sound(g)  BY <1>15, <1>16 DEF Sound
<1>23. r.ptr # None  BY <1>11 DEF None
<1> QED  BY <1>4, <1>11, <1>17, <1>21, <1>22, <1>23 DEF Outcome, g

\* The first class large enough.
ClassAllocating(h, c, at, fail, r) ==
    Sound(h) /\ c \in Classes /\ at \in Pages \cup {None} /\ r = AllocClassed(h, c, at, fail)

\* AllocClassed gives a slot of the class, or none.
LEMMA AllocClassedIs ==
  ASSUME NEW h, NEW c, NEW at, NEW fail, NEW r, ClassAllocating(h, c, at, fail, r)
  PROVE  Outcome(h, r, SlotSize[c])
<1> DEFINE g == IF h.warm[c] = None THEN heap_grow_class(h, c, at, fail) ELSE h
<1>1. Sound(h) /\ c \in Classes /\ at \in Pages \cup {None}  BY DEF ClassAllocating
<1>2. r = IF g.warm[c] = None THEN [h |-> g, ptr |-> None] ELSE TakeSlot(g, g.warm[c])
  BY DEF ClassAllocating, AllocClassed
<1>3. Sound(g) /\ Quiet(g, h)
  <2>1. CASE h.warm[c] = None
    <3>1. Outgrowing(h, c, at, fail, g)  BY <2>1, <1>1 DEF Outgrowing
    <3> HIDE DEF g
    <3> QED  BY <3>1, GrowIs
  <2>2. CASE h.warm[c] # None
    <3>1. g = h  BY <2>2
    <3> HIDE DEF g
    <3> QED  BY <3>1, <1>1 DEF Quiet
  <2> QED  BY <2>1, <2>2
<1> HIDE DEF g
<1>4. CASE g.warm[c] = None
  <2>1. r = [h |-> g, ptr |-> None]  BY <1>2, <1>4
  <2>2. r.h = g /\ r.ptr = None  BY <2>1
  <2> QED  BY <2>1, <2>2, <1>3 DEF Outcome, Quiet
<1>5. CASE g.warm[c] # None
  <2>1. r = TakeSlot(g, g.warm[c])  BY <1>2, <1>5
  <2>2. Outcome(g, r, SlotSize[c]) /\ r.ptr # None  BY <2>1, <1>1, <1>3, <1>5, TakeIs
  <2>3. LiveIn(g) = LiveIn(h) /\ g.inUse = h.inUse  BY <1>3 DEF Quiet
  <2> QED  BY <2>2, <2>3 DEF Outcome, Gains
<1> QED  BY <1>4, <1>5

------------------------------------------------------------------------------
\* Regions.

\* The youngest retained region of that size is one of that size.
LEMMA MatchIs ==
  ASSUME NEW h, NEW n, NEW s \in Seq(XLRegion), s = h.xlFreed, NEW m, m = XLMatch(h, n), m # None
  PROVE  m \in 1..Len(s) /\ s[m].n = n
<1> DEFINE M == {j \in DOMAIN s : s[j].n = n}
           F == {Len(s) - j : j \in M}
<1>1. m = IF M = {} THEN None ELSE CHOOSE j \in M : \A k \in M : k <= j  BY DEF XLMatch
<1>2. DOMAIN s = 1..Len(s) /\ Len(s) \in Nat  OBVIOUS
<1>3. M # {}  BY <1>1
<1>4. F # {} /\ F \in SUBSET Nat /\ M \subseteq 1..Len(s)
  <2>1. M \subseteq 1..Len(s)  BY <1>2
  <2>2. \A j \in 1..Len(s) : Len(s) - j \in Nat  BY <1>2
  <2> HIDE DEF M
  <2> QED  BY <2>1, <2>2, <1>3
<1>5. Least(F) \in F /\ \A y \in F : Least(F) <= y  BY <1>4, LeastProps
<1>6. PICK j \in M : Least(F) = Len(s) - j  BY <1>5
<1>7. \A k \in M : k <= j
  <2> SUFFICES ASSUME NEW k \in M PROVE k <= j  OBVIOUS
  <2>1. Len(s) - k \in F  OBVIOUS
  <2>2. Len(s) - j <= Len(s) - k  BY <1>5, <1>6, <2>1
  <2>3. j \in Nat /\ k \in Nat  BY <1>4
  <2> HIDE DEF M, F
  <2> QED  BY <1>2, <2>2, <2>3
<1>8. m \in M
  <2> HIDE DEF M, F
  <2> QED  BY <1>1, <1>3, <1>7
<1> QED  BY <1>8, <1>2

\* A region that is counted with the pages of the classes becomes a block.
Giving(h, D, cont, x, E, g) ==
    /\ Tabled(h, D, cont) /\ Stores(h, E) /\ E = D \cup PagesOf(x) /\ PagesOf(x) \cap D = {}
    /\ x \in XLRegion /\ HasRoom(h)
    /\ g = [h EXCEPT !.xlUse = Append(h.xlUse, x)]

\* The block is the only one more.
LEMMA Given ==
  ASSUME NEW h, NEW D, NEW cont, NEW x, NEW E, NEW g, Giving(h, D, cont, x, E, g)
  PROVE  /\ Well(g, D, cont) /\ g.inUse = h.inUse
         /\ LiveIn(g) = ClassBlocks(D, cont) \cup XLBlocks(Listed(h.xlUse)) \cup {XLBlock(x)}
         /\ x \notin Listed(h.xlUse)
<1>1. /\ Tabled(h, D, cont) /\ Stores(h, E) /\ E = D \cup PagesOf(x) /\ PagesOf(x) \cap D = {}
      /\ x \in XLRegion /\ HasRoom(h)
      /\ g = [h EXCEPT !.xlUse = Append(h.xlUse, x)]
  BY DEF Giving
<1>2. Using(h, E, x, g)
  <2>1. PagesOf(x) \subseteq E  BY <1>1
  <2> QED  BY <1>1, <2>1 DEF Using
<1>3. /\ (\A F : F = E \ PagesOf(x) => Stores(g, F)) /\ SameTable(g, h) /\ g.inUse = h.inUse
      /\ Listed(g.xlUse) = Listed(h.xlUse) \cup {x} /\ x \notin Listed(h.xlUse)
  BY <1>2, UseKeeps
<1>4. D = E \ PagesOf(x)  BY <1>1
<1>5. Well(g, D, cont)
  <2>1. Stores(g, D)  BY <1>3, <1>4
  <2>2. Tabled(g, D, cont)  BY <1>1, <1>3, TabledMoves
  <2> QED  BY <2>1, <2>2 DEF Well
<1>6. LiveIn(g) = ClassBlocks(D, cont) \cup XLBlocks(Listed(g.xlUse))  BY <1>5, WellLive
<1>7. XLBlocks(Listed(g.xlUse)) = XLBlocks(Listed(h.xlUse)) \cup {XLBlock(x)}  BY <1>3 DEF XLBlocks
<1> QED  BY <1>3, <1>5, <1>6, <1>7

RegionAllocating(h, n, at, fail, r) ==
    Sound(h) /\ n \in Nat \ {0} /\ at \in Pages \cup {None} /\ r = heap_alloc_xl(h, n, at, fail)

\* heap_alloc_xl.
LEMMA AllocXLIs ==
  ASSUME NEW h, NEW n, NEW at, NEW fail, NEW r, RegionAllocating(h, n, at, fail, r)
  PROVE  Outcome(h, r, n * PageSize)
<1> DEFINE cap == ReserveCap(Len(h.xlUse), h.xlUseCap, XLPerPage)
           g == [h EXCEPT !.xlUseCap = cap,
                          !.footprint = @ + GrownPages(h.xlUseCap, cap, XLPerPage)]
           m == XLMatch(h, n)
           Use(k, p) == [h |-> [k EXCEPT !.xlUse = Append(@, [page |-> p, n |-> n])],
                         ptr |-> p * PageSize]
           k1 == [g EXCEPT !.xlFreed = SwapRemove(@, m), !.retention = @ - n]
           p1 == h.xlFreed[m].page
           k2 == os_page_map(g, at, n)
<1>1. Sound(h) /\ n \in Nat \ {0} /\ at \in Pages \cup {None}  BY DEF RegionAllocating
<1>2. r = IF cap # h.xlUseCap /\ "alloc" \in fail THEN [h |-> h, ptr |-> None]
          ELSE IF m # None THEN Use(k1, p1)
          ELSE IF CanMap(g, at, n) THEN Use(k2, at)
          ELSE [h |-> g, ptr |-> None]
  BY DEF RegionAllocating, heap_alloc_xl
<1>3. PICK D, cont : Well(h, D, cont) /\ Spare(D, cont)  BY <1>1 DEF Sound
<1>4. Tabled(h, D, cont) /\ Stores(h, D)  BY <1>3 DEF Well
<1>5. IsHeap(h)  BY <1>4 DEF Stores
<1>6. Growing(h, D, cap, g)
  <2> DEFINE u == h.footprint + GrownPages(h.xlUseCap, cap, XLPerPage)
  <2>1. g = [h EXCEPT !.xlUseCap = cap, !.footprint = u]  OBVIOUS
  <2> QED  BY <2>1, <1>4 DEF Growing
<1> HIDE DEF g
<1>7. /\ Stores(g, D) /\ SameRecycle(g, h) /\ HasRoom(g)
      /\ g.xlUse = h.xlUse /\ g.xlFreed = h.xlFreed /\ g.inUse = h.inUse /\ g.retention = h.retention
  BY <1>6, GrowKeeps
<1>8. SameTable(g, h)  BY <1>7 DEF SameRecycle
<1>9. Tabled(g, D, cont)  BY <1>4, <1>8, TabledMoves
<1>10. Well(g, D, cont)  BY <1>7, <1>9 DEF Well
<1>11. Sound(g) /\ Quiet(g, h)
  <2>1. Quiet(g, h)  BY <1>3, <1>7, <1>10, SameBlocks
  <2> QED  BY <2>1, <1>3, <1>10 DEF Sound
\* Whatever the region.
<1>12. ASSUME NEW k, NEW p, NEW E, NEW x, x = [page |-> p, n |-> n], x \in XLRegion,
              E = D \cup PagesOf(x), PagesOf(x) \cap D = {}, SameTable(k, g), Stores(k, E), HasRoom(k),
              k.xlUse = g.xlUse, k.inUse = g.inUse, r = Use(k, p)
       PROVE  Outcome(h, r, n * PageSize)
  <2> DEFINE f == [k EXCEPT !.xlUse = Append(k.xlUse, x)]
  <2>1. r = [h |-> f, ptr |-> p * PageSize]
    <3>1. [k EXCEPT !.xlUse = Append(@, [page |-> p, n |-> n])] = f  BY <1>12
    <3> HIDE DEF f
    <3> QED  BY <3>1, <1>12
  <2>2. Giving(k, D, cont, x, E, f)
    <3>1. Tabled(k, D, cont)  BY <1>9, <1>12, TabledMoves
    <3> QED  BY <3>1, <1>12 DEF Giving
  <2> HIDE DEF f
  <2>3. /\ Well(f, D, cont) /\ f.inUse = k.inUse
        /\ LiveIn(f) = ClassBlocks(D, cont) \cup XLBlocks(Listed(k.xlUse)) \cup {XLBlock(x)}
        /\ x \notin Listed(k.xlUse)
    BY <2>2, Given
  <2>4. k.xlUse = h.xlUse /\ k.inUse = h.inUse  BY <1>7, <1>12
  <2>5. LiveIn(h) = ClassBlocks(D, cont) \cup XLBlocks(Listed(h.xlUse))  BY <1>3, WellLive
  <2>6. XLBlock(x) \notin LiveIn(h)  BY <1>3, <1>12, <2>3, <2>4, NewRegion
  <2>7. Gains(f, h, XLBlock(x))  BY <2>3, <2>4, <2>5, <2>6 DEF Gains
  <2>8. p \in Nat /\ x.page = p /\ x.n = n
    <3>1. x.page \in Nat  BY <1>12, RegionFacts
    <3> QED  BY <3>1, <1>12
  <2>9. XLBlock(x).addr = p * PageSize /\ XLBlock(x).len = n * PageSize  BY <2>8 DEF XLBlock
  <2>10. p * PageSize # None
    <3>1. p * PageSize \in Nat  BY <2>8, PageSizePos
    <3> QED  BY <3>1 DEF None
  <2>11. Sound(f)  BY <2>3, <1>3 DEF Sound
  <2>12. r.h = f /\ r.ptr = p * PageSize  BY <2>1
  <2> QED  BY <2>1, <2>3, <2>4, <2>7, <2>9, <2>10, <2>11, <2>12 DEF Outcome
<1>13. CASE r = [h |-> h, ptr |-> None]
  <2>1. r.h = h /\ r.ptr = None  BY <1>13
  <2> QED  BY <2>1, <1>13, <1>1 DEF Outcome
<1>14. CASE r = [h |-> g, ptr |-> None]
  <2>1. r.h = g /\ r.ptr = None  BY <1>14
  <2> QED  BY <2>1, <1>14, <1>11 DEF Outcome, Quiet
<1>15. CASE m # None /\ r = Use(k1, p1)
  <2> DEFINE s == h.xlFreed
             t == SwapRemove(s, m)
             x == s[m]
  <2>1. s \in Seq(XLRegion)
    <3>1. Parcels(h.xlFreed)  BY <1>4 DEF Stores, Owned
    <3> QED  BY <3>1, ParcelsFacts
  <2>2. m \in 1..Len(s) /\ s[m].n = n
    <3> HIDE DEF m, s
    <3>1. m = XLMatch(h, n) /\ s = h.xlFreed  BY DEF m, s
    <3> QED  BY <3>1, <1>15, <2>1, MatchIs
  <2>3. Sans(s, m, t)  BY <2>1, <2>2, SwapRemoveSans
  <2>4. IsSans(XLRegion, s, m, t)  BY <2>1, <2>2, <2>3 DEF IsSans
  <2>5. k1 = [g EXCEPT !.xlFreed = t, !.retention = g.retention - s[m].n]
    <3>1. g.xlFreed = s  BY <1>7
    <3> QED  BY <3>1, <2>2
  <2>6. s = g.xlFreed  BY <1>7
  <2> HIDE DEF s, t, k1
  <2>7. Unfreeing(g, D, s, m, t, k1)  BY <2>4, <2>5, <2>6, <1>7 DEF Unfreeing
  <2>8. /\ (\A E : E = D \cup PagesOf(s[m]) => Stores(k1, E)) /\ SameRecycle(k1, g)
        /\ s[m] \in XLRegion /\ PagesOf(s[m]) \cap D = {}
        /\ k1.xlUse = g.xlUse /\ k1.xlUseCap = g.xlUseCap /\ k1.inUse = g.inUse
    BY <2>7, UnfreeKeeps
  <2>9. SameTable(k1, g) /\ HasRoom(k1)  BY <2>8, <1>7 DEF SameRecycle, HasRoom
  <2>10. x = [page |-> p1, n |-> n] /\ x \in XLRegion /\ PagesOf(x) \cap D = {}
    <3>1. x = [page |-> x.page, n |-> x.n]  BY <2>8, RegionFacts
    <3>2. x.page = p1  BY DEF s
    <3> QED  BY <3>1, <3>2, <2>2, <2>8
  <2> DEFINE E == D \cup PagesOf(x)
  <2>11. E = D \cup PagesOf(x) /\ Stores(k1, E)  BY <2>8
  <2> HIDE DEF E, x, p1, m
  <2> QED  BY <1>12, <1>15, <2>8, <2>9, <2>10, <2>11
<1>16. CASE CanMap(g, at, n) /\ r = Use(k2, at)
  <2> DEFINE x == [page |-> at, n |-> n]
  <2>1. Mapping(g, D, at, n, k2, x)  BY <1>16, <1>7, <1>1 DEF Mapping
  <2>2. x = [page |-> at, n |-> n]  OBVIOUS
  <2> HIDE DEF k2, x
  <2>3. /\ (\A E : E = D \cup PagesOf(x) => Stores(k2, E)) /\ SameTable(k2, g) /\ x \in XLRegion
        /\ PagesOf(x) \cap D = {}
        /\ k2.xlUse = g.xlUse /\ k2.xlUseCap = g.xlUseCap /\ k2.inUse = g.inUse
    BY <2>1, MapKeeps
  <2>4. HasRoom(k2)  BY <2>3, <1>7 DEF HasRoom
  <2> DEFINE E == D \cup PagesOf(x)
  <2>5. E = D \cup PagesOf(x) /\ Stores(k2, E)  BY <2>3
  <2> HIDE DEF E
  <2> QED  BY <1>12, <1>16, <2>2, <2>3, <2>4, <2>5
<1> HIDE DEF k1, k2, p1, m, cap, Use
<1> QED  BY <1>2, <1>13, <1>14, <1>15, <1>16

------------------------------------------------------------------------------
\* heap_allocator_allocate.

\* The bytes in use are those of the blocks.
Ledger(h) == h.inUse = Cardinality(AllBytes(LiveIn(h)))

HeapInv(h) == Sound(h) /\ Ledger(h)

\* The count of the bytes in use says nothing of the rest.
LEMMA Recount ==
  ASSUME NEW h, Sound(h), NEW v, NEW g, g = [h EXCEPT !.inUse = v]
  PROVE  Sound(g) /\ LiveIn(g) = LiveIn(h) /\ g.inUse = v
<1>1. PICK D, cont : Well(h, D, cont) /\ Spare(D, cont)  BY DEF Sound
<1>2. Tabled(h, D, cont) /\ Stores(h, D)  BY <1>1 DEF Well
<1>3. IsHeap(h)  BY <1>2 DEF Stores
<1>4. /\ IsHeap(g) /\ g.pages = h.pages /\ g.warm = h.warm /\ g.count = h.count
      /\ g.recycle = h.recycle /\ g.recycleCap = h.recycleCap
      /\ g.xlUse = h.xlUse /\ g.xlUseCap = h.xlUseCap
      /\ g.xlFreed = h.xlFreed /\ g.xlFreedCap = h.xlFreedCap
      /\ g.retention = h.retention /\ g.footprint = h.footprint /\ g.inUse = v
      /\ g.mapped = h.mapped
  BY <1>3 DEF IsHeap
<1>5. SameTable(g, h)  BY <1>4 DEF SameTable
<1>6. Tabled(g, D, cont)  BY <1>2, <1>5, TabledMoves
<1>7. Stores(g, D)
  <2>1. Cap(g) = Cap(h)  BY <1>4 DEF Cap
  <2>2. Retained(g) = Retained(h) /\ ArrayPages(g) = ArrayPages(h)  BY <1>4 DEF Retained, ArrayPages
  <2>3. Tallied(g)
    <3>1. h.retention = Cardinality(Retained(h))
          /\ h.footprint = Cardinality(h.mapped) + TablePages(Cap(h)) + ArrayPages(h)
      BY <1>2 DEF Stores, Tallied
    <3> QED  BY <3>1, <2>1, <2>2, <1>4 DEF Tallied
  <2>4. Owned(g, D)
    <3>1. Owned(h, D)  BY <1>2 DEF Stores
    <3> QED  BY <3>1, <1>4 DEF Owned
  <2>5. Roomy(g)
    <3>1. Roomy(h)  BY <1>2 DEF Stores
    <3> QED  BY <3>1, <1>4 DEF Roomy
  <2>6. Cap(g) \in Nat  BY <2>1, <1>2 DEF Stores
  <2> QED  BY <1>4, <2>3, <2>4, <2>5, <2>6 DEF Stores
<1>8. Sound(g)  BY <1>1, <1>6, <1>7 DEF Sound, Well
<1>9. LiveIn(g) = LiveIn(h)  BY <1>4 DEF LiveIn
<1> QED  BY <1>4, <1>8, <1>9

\* A request is rounded up.
LEMMA RoundedUp ==
  ASSUME NEW bytes \in Nat \ {0}
  PROVE  /\ IsXL(bytes) => /\ OsPages(bytes) \in Nat \ {0}
                           /\ Effective(bytes) = OsPages(bytes) * PageSize
         /\ ~IsXL(bytes) => /\ ClassFor(bytes) \in Classes
                            /\ Effective(bytes) = SlotSize[ClassFor(bytes)]
         /\ bytes <= Effective(bytes)
         /\ OsPages(bytes) \in Nat \ {0} /\ bytes <= OsPages(bytes) * PageSize
<1>1. OsPages(bytes) \in Nat \ {0} /\ bytes <= OsPages(bytes) * PageSize
  <2>1. CeilDiv(bytes, PageSize) \in Nat /\ bytes <= CeilDiv(bytes, PageSize) * PageSize
        /\ (bytes > 0 => CeilDiv(bytes, PageSize) > 0)
    BY PageSizePos, CeilDivProps
  <2> QED  BY <2>1 DEF OsPages
<1>2. IsXL(bytes) => Effective(bytes) = OsPages(bytes) * PageSize  BY DEF Effective
<1>3. ASSUME ~IsXL(bytes)
      PROVE  /\ ClassFor(bytes) \in Classes /\ bytes <= SlotSize[ClassFor(bytes)]
             /\ Effective(bytes) = SlotSize[ClassFor(bytes)]
  <2> DEFINE S == {c \in Classes : bytes <= SlotSize[c]}
             n == Len(SlotSize)
  <2>1. SlotSize \in Seq(Nat \ {0}) /\ SlotSize # << >>  BY HeapAssumption
  <2>2. n \in Nat /\ n # 0 /\ Classes = 1..n  BY <2>1 DEF Classes
  <2>3. n \in Classes /\ SlotSize[n] \in Nat  BY <2>1, <2>2
  <2>4. bytes <= SlotSize[n]  BY <1>3, <2>3 DEF IsXL
  <2>5. S \in SUBSET Nat /\ S # {}  BY <2>2, <2>3, <2>4
  <2>6. Least(S) \in S  BY <2>5, LeastProps
  <2> QED  BY <2>6, <1>3 DEF ClassFor, Effective
<1> QED  BY <1>1, <1>2, <1>3

\* Where the bytes of a block more, or less, are counted.
LEMMA LedgerGains ==
  ASSUME NEW h, HeapInv(h), NEW g, Sound(g), NEW x, Gains(g, h, x)
  PROVE  Cardinality(AllBytes(LiveIn(g))) = h.inUse + x.len /\ x.len \in Nat
<1>1. PICK D, cont : Well(g, D, cont)  BY DEF Sound
<1>2. Blocks(LiveIn(g))  BY <1>1, LiveBlocks
<1> DEFINE B == LiveIn(h)
           E == LiveIn(g)
<1>3. E = B \cup {x} /\ x \notin B /\ Blocks(E)  BY <1>2 DEF Gains
<1>4. h.inUse = Cardinality(AllBytes(B))  BY DEF HeapInv, Ledger
<1> HIDE DEF B, E
<1>5. Cardinality(AllBytes(E)) = Cardinality(AllBytes(B)) + x.len  BY <1>3, BlockMore
<1>6. x.len \in Nat  BY <1>3 DEF Blocks
<1> QED  BY <1>4, <1>5, <1>6 DEF E

\* The result of an allocation.
Allocated(h, bytes, r) ==
    /\ r = [h |-> r.h, ptr |-> r.ptr] /\ HeapInv(r.h)
    /\ \/ r.ptr = None /\ LiveIn(r.h) = LiveIn(h)
       \/ r.ptr # None /\ \E x : Gains(r.h, h, x) /\ x.addr = r.ptr /\ x.len = Effective(bytes)

Allocating(h, bytes, at, fail, r) ==
    /\ HeapInv(h) /\ bytes \in Nat \ {0} /\ at \in Pages \cup {None}
    /\ r = heap_allocator_allocate(h, bytes, at, fail)

\* heap_allocator_allocate adds one block of that size, or none.
LEMMA AllocIs ==
  ASSUME NEW h, NEW bytes, NEW at, NEW fail, NEW r, Allocating(h, bytes, at, fail, r)
  PROVE  Allocated(h, bytes, r)
<1> DEFINE q == IF IsXL(bytes) THEN heap_alloc_xl(h, OsPages(bytes), at, fail)
                ELSE AllocClassed(h, ClassFor(bytes), at, fail)
<1>1. HeapInv(h) /\ Sound(h) /\ bytes \in Nat \ {0} /\ at \in Pages \cup {None}
  BY DEF Allocating, HeapInv
<1>2. r = IF q.ptr = None THEN q ELSE [q EXCEPT !.h.inUse = @ + Effective(bytes)]
  BY DEF Allocating, heap_allocator_allocate
<1>3. Outcome(h, q, Effective(bytes))
  <2>1. CASE IsXL(bytes)
    <3> DEFINE n == OsPages(bytes)
    <3>1. n \in Nat \ {0} /\ Effective(bytes) = n * PageSize  BY <2>1, <1>1, RoundedUp
    <3>2. q = heap_alloc_xl(h, n, at, fail)  BY <2>1
    <3> HIDE DEF q, n
    <3>3. RegionAllocating(h, n, at, fail, q)  BY <1>1, <3>1, <3>2 DEF RegionAllocating
    <3> QED  BY <3>1, <3>3, AllocXLIs
  <2>2. CASE ~IsXL(bytes)
    <3> DEFINE c == ClassFor(bytes)
    <3>1. c \in Classes /\ Effective(bytes) = SlotSize[c]  BY <2>2, <1>1, RoundedUp
    <3>2. q = AllocClassed(h, c, at, fail)  BY <2>2
    <3> HIDE DEF q, c
    <3>3. ClassAllocating(h, c, at, fail, q)  BY <1>1, <3>1, <3>2 DEF ClassAllocating
    <3> QED  BY <3>1, <3>3, AllocClassedIs
  <2> QED  BY <2>1, <2>2
<1> HIDE DEF q
<1>4. q = [h |-> q.h, ptr |-> q.ptr] /\ Sound(q.h) /\ q.h.inUse = h.inUse  BY <1>3 DEF Outcome
<1>5. CASE q.ptr = None
  <2>1. r = q  BY <1>2, <1>5
  <2>2. LiveIn(q.h) = LiveIn(h)  BY <1>3, <1>5 DEF Outcome
  <2>3. Ledger(q.h)  BY <1>1, <1>4, <2>2 DEF HeapInv, Ledger
  <2> QED  BY <1>4, <1>5, <2>1, <2>2, <2>3 DEF Allocated, HeapInv
<1>6. CASE q.ptr # None
  <2>1. PICK x : Gains(q.h, h, x) /\ x.addr = q.ptr /\ x.len = Effective(bytes)
    BY <1>3, <1>6 DEF Outcome
  <2> DEFINE k == q.h
             v == k.inUse + Effective(bytes)
             g == [k EXCEPT !.inUse = v]
  <2>2. r = [h |-> g, ptr |-> q.ptr]
    <3>1. r = [q EXCEPT !.h.inUse = @ + Effective(bytes)]  BY <1>2, <1>6
    <3>2. q = [h |-> k, ptr |-> q.ptr]  BY <1>4
    <3>3. [q EXCEPT !.h.inUse = @ + Effective(bytes)] = [q EXCEPT !.h = g]  BY <3>2
    <3> HIDE DEF k, g
    <3> QED  BY <3>1, <3>2, <3>3
  <2>3. g = [k EXCEPT !.inUse = v]  OBVIOUS
  <2> HIDE DEF g, v
  <2>4. Sound(g) /\ LiveIn(g) = LiveIn(k) /\ g.inUse = v  BY <1>4, <2>3, Recount
  <2>5. Gains(g, h, x)  BY <2>1, <2>4 DEF Gains
  <2>6. Cardinality(AllBytes(LiveIn(g))) = h.inUse + x.len  BY <1>1, <2>4, <2>5, LedgerGains
  <2>7. v = h.inUse + x.len  BY <1>4, <2>1 DEF v
  <2>8. HeapInv(g)  BY <2>4, <2>6, <2>7 DEF HeapInv, Ledger
  <2>9. r.h = g /\ r.ptr = q.ptr  BY <2>2
  <2> QED  BY <1>6, <2>1, <2>2, <2>5, <2>8, <2>9 DEF Allocated
<1> QED  BY <1>5, <1>6

------------------------------------------------------------------------------
\* What an address says of a block.

\* The address is the base of a live region, and which block that is.
AtRegion(h, ptr, b) ==
    \E s, i : /\ s = h.xlUse /\ i \in 1..Len(s) /\ b = XLBlock(s[i]) /\ ptr = b.addr
              /\ Recover(h, ptr) = [xl |-> i, bucket |-> None, size |-> b.len]

\* The address is the base of a live slot, and which block that is.
AtSlot(h, D, cont, ptr, b) ==
    \E p \in D : \E t \in LiveBits(cont[p]) :
        /\ b = SlotBlock(p, cont[p].cls, t) /\ ptr = b.addr
        /\ ((ptr % PageSize) \div SlotSize[cont[p].cls]) = t
        /\ Recover(h, ptr) = [xl |-> None, bucket |-> heap_hash_lookup(h, p), size |-> b.len]

\* The indices of the regions that start there.
StartsAt(s, ptr) == {i \in DOMAIN s : s[i].page * PageSize = ptr}

\* heap_recover_size asks the regions first, then the table.
LEMMA RecoverReads ==
  ASSUME NEW h, NEW ptr, NEW s, s = h.xlUse
  PROVE  /\ StartsAt(s, ptr) # {} =>
               Recover(h, ptr) = [xl |-> Least(StartsAt(s, ptr)), bucket |-> None,
                                  size |-> s[Least(StartsAt(s, ptr))].n * PageSize]
         /\ StartsAt(s, ptr) = {} =>
               Recover(h, ptr) = [xl |-> None, bucket |-> heap_hash_lookup(h, ptr \div PageSize),
                                  size |-> IF heap_hash_lookup(h, ptr \div PageSize) = None THEN 0
                                           ELSE SlotSize[h.pages[heap_hash_lookup(h, ptr \div PageSize)].cls]]
  BY DEF Recover, StartsAt

\* Products by the page size tell pages apart.
LEMMA PagesApart ==
  ASSUME NEW i \in Nat, NEW j \in Nat, i * PageSize = j * PageSize
  PROVE  i = j
<1> DEFINE u == i * PageSize
           w == j * PageSize
<1>1. i < j => u + PageSize <= w  BY PageSizePos, NextMultiple
<1>2. j < i => w + PageSize <= u  BY PageSizePos, NextMultiple
<1>3. u = w  OBVIOUS
<1>4. u \in Nat /\ w \in Nat  BY PageSizePos
<1> HIDE DEF u, w
<1> QED  BY <1>1, <1>2, <1>3, <1>4, PageSizePos

\* A region is found by its base.
LEMMA RegionFound ==
  ASSUME NEW h, NEW s, s = h.xlUse, Parcels(s), NEW ptr, StartsAt(s, ptr) # {}
  PROVE  /\ \E i \in 1..Len(s) : AtRegion(h, ptr, XLBlock(s[i]))
         /\ \A x \in Listed(s) : ptr = x.page * PageSize => AtRegion(h, ptr, XLBlock(x))
<1> DEFINE S == StartsAt(s, ptr)
           i == Least(S)
           b == XLBlock(s[i])
<1>1. /\ DOMAIN s = 1..Len(s) /\ Len(s) \in Nat /\ AllApart(Listed(s)) /\ Once(XLRegion, s)
      /\ \A j \in 1..Len(s) : s[j] \in XLRegion /\ s[j] \in Listed(s)
  BY ParcelsFacts
<1>2. S \in SUBSET Nat  BY <1>1 DEF StartsAt
<1>3. i \in S
  <2> HIDE DEF S
  <2> QED  BY <1>2, LeastProps DEF S
<1>4. i \in 1..Len(s) /\ s[i].page * PageSize = ptr  BY <1>1, <1>3 DEF StartsAt
<1>5. Recover(h, ptr) = [xl |-> i, bucket |-> None, size |-> s[i].n * PageSize]  BY RecoverReads
<1>6. b.addr = ptr /\ b.len = s[i].n * PageSize  BY <1>4 DEF XLBlock
<1> HIDE DEF i, S
<1>7. AtRegion(h, ptr, b)  BY <1>4, <1>5, <1>6 DEF AtRegion
<1>8. ASSUME NEW x \in Listed(s), ptr = x.page * PageSize PROVE x = s[i]
  <2>1. PICK j \in 1..Len(s) : x = s[j]  BY <1>8 DEF Listed
  <2>2. x \in XLRegion /\ s[i] \in XLRegion  BY <2>1, <1>1, <1>4
  <2>3. x.page \in Nat /\ s[i].page \in Nat /\ x.page \in PagesOf(x) /\ s[i].page \in PagesOf(s[i])
    BY <2>2, RegionFacts
  <2>4. x.page = s[i].page  BY <1>4, <1>8, <2>3, PagesApart
  <2>5. PagesOf(x) \cap PagesOf(s[i]) # {}  BY <2>3, <2>4
  <2> QED  BY <2>5, <1>1, <1>4, <1>8 DEF AllApart
<1> QED  BY <1>4, <1>7, <1>8

\* A live slot is found by its address.
LEMMA SlotFound ==
  ASSUME NEW h, NEW D, NEW cont, Well(h, D, cont), NEW p \in D, NEW t \in LiveBits(cont[p]),
         NEW b, b = SlotBlock(p, cont[p].cls, t), NEW ptr, ptr = b.addr
  PROVE  AtSlot(h, D, cont, ptr, b)
<1> DEFINE c == cont[p].cls
           s == h.xlUse
           z == SlotSize[c]
<1>1. Parcels(s) /\ Covered(Listed(s)) \cap D = {} /\ GoodPages(D, cont)  BY WellLive
<1>2. Fresh(h, Cap(h), D, cont)  BY DEF Well, Tabled
<1>3. GoodPage(cont[p]) /\ p \in Nat  BY <1>1, HeapAssumption DEF GoodPages
<1>4. c \in Classes /\ t \in 0..(Slots(c) - 1)  BY <1>3, PageFacts DEF LiveBits
<1>5. /\ b.addr \in Nat /\ b.len \in Nat /\ b.len > 0 /\ b.len = z
      /\ b.addr = p * PageSize + t * z /\ p * PageSize \in Nat /\ t * z \in Nat
      /\ p * PageSize <= b.addr /\ b.addr + b.len <= p * PageSize + PageSize
      /\ t \in Nat
  <2> HIDE DEF c
  <2> QED  BY <1>3, <1>4, SlotPlace DEF c
<1>6. ptr \in Nat /\ p * PageSize <= ptr /\ ptr < p * PageSize + PageSize
  <2> DEFINE a == p * PageSize
  <2> HIDE DEF a
  <2> QED  BY <1>5, PageSizePos DEF a
<1>7. ptr \div PageSize = p /\ (ptr % PageSize) = ptr - p * PageSize  BY <1>3, <1>6, PageSizePos, InPage
<1>8. (ptr % PageSize) = t * z
  <2> DEFINE a == p * PageSize
             u == t * z
  <2>1. ptr = a + u /\ a \in Nat /\ u \in Nat  BY <1>5
  <2> HIDE DEF a, u
  <2> QED  BY <2>1, <1>7 DEF a, u
<1>9. ((ptr % PageSize) \div z) = t
  <2>1. z \in Nat \ {0}  BY <1>4, SlotFacts
  <2>2. (t * z) \div z = t
    <3> DEFINE v == t * z
               q == v \div z
               e == z * q
    <3>1. v \in Nat  BY <1>5
    <3>2. q \in Nat /\ e <= v /\ v < e + z  BY <2>1, <3>1, DivProps
    <3>3. e = q * z /\ e \in Nat  BY <2>1, <3>2
    <3>4. q < t => q * z + z <= t * z  BY <1>5, <2>1, <3>2, NextMultiple
    <3>5. t < q => t * z + z <= q * z  BY <1>5, <2>1, <3>2, NextMultiple
    <3>6. (q < t => e + z <= v) /\ (t < q => v + z <= e)  BY <3>3, <3>4, <3>5
    <3> HIDE DEF v, q, e
    <3>7. q = t  BY <1>5, <2>1, <3>1, <3>2, <3>3, <3>6
    <3> QED  BY <3>7 DEF q, v
  <2> QED  BY <1>8, <2>2
<1>10. StartsAt(s, ptr) = {}
  <2> SUFFICES ASSUME NEW i \in DOMAIN s, s[i].page * PageSize = ptr PROVE FALSE  BY DEF StartsAt
  <2> DEFINE x == s[i]
             n == x.page
  <2>1. x \in XLRegion /\ x \in Listed(s)  BY <1>1, ParcelsFacts
  <2>2. n \in Nat /\ n \in PagesOf(x)  BY <2>1, RegionFacts
  <2>3. n * PageSize = ptr  OBVIOUS
  <2> HIDE DEF x, n
  <2>4. n * PageSize <= ptr /\ ptr < n * PageSize + PageSize
    <3> DEFINE a == n * PageSize
    <3>1. a = ptr  BY <2>3
    <3> HIDE DEF a
    <3>2. a <= ptr /\ ptr < a + PageSize  BY <3>1, <1>6, PageSizePos
    <3> QED  BY <3>2 DEF a
  <2>5. ptr \div PageSize = n  BY <2>2, <2>4, <1>6, PageSizePos, InPage
  <2>6. n = p  BY <2>5, <1>7
  <2> QED  BY <2>1, <2>2, <2>6, <1>1 DEF Covered
<1> DEFINE k == heap_hash_lookup(h, p)
<1>11. k # None /\ h.pages[k].cls = c  BY <1>2, FreshReads
<1>12. Recover(h, ptr) = [xl |-> None, bucket |-> k, size |-> z]
  <2> HIDE DEF k, z
  <2> QED  BY <1>7, <1>10, <1>11, RecoverReads DEF k, z
<1> HIDE DEF k
<1> QED  BY <1>5, <1>9, <1>12 DEF AtSlot, k

\* A block is found by its address.
LEMMA BlockFound ==
  ASSUME NEW h, NEW D, NEW cont, Well(h, D, cont), NEW b \in LiveIn(h)
  PROVE  AtRegion(h, b.addr, b) \/ AtSlot(h, D, cont, b.addr, b)
<1> DEFINE s == h.xlUse
<1>1. LiveIn(h) = ClassBlocks(D, cont) \cup XLBlocks(Listed(s)) /\ Parcels(s) /\ GoodPages(D, cont)
  BY WellLive
<1>2. CASE b \in ClassBlocks(D, cont)
  <2>1. PICK p \in D : b \in PageBlocks(p, cont[p])  BY <1>2 DEF ClassBlocks
  <2>2. PICK t \in LiveBits(cont[p]) : b = SlotBlock(p, cont[p].cls, t)  BY <2>1 DEF PageBlocks
  <2> QED  BY <2>2, SlotFound
<1>3. CASE b \in XLBlocks(Listed(s))
  <2>1. PICK x \in Listed(s) : b = XLBlock(x)  BY <1>3 DEF XLBlocks
  <2>2. b.addr = x.page * PageSize  BY <2>1 DEF XLBlock
  <2>3. PICK i \in 1..Len(s) : x = s[i]  BY <2>1 DEF Listed
  <2>4. DOMAIN s = 1..Len(s)  BY <1>1, ParcelsFacts
  <2>5. i \in StartsAt(s, b.addr)  BY <2>2, <2>3, <2>4 DEF StartsAt
  <2>6. StartsAt(s, b.addr) # {}  BY <2>5
  <2> HIDE DEF s
  <2>7. AtRegion(h, b.addr, XLBlock(x))  BY <2>1, <2>2, <2>6, <1>1, RegionFound DEF s
  <2> QED  BY <2>7, <2>1
<1> QED  BY <1>1, <1>2, <1>3

\* An address that passes the checks is that of a block.
LEMMA FreeableIs ==
  ASSUME NEW h, NEW D, NEW cont, Well(h, D, cont), NEW ptr \in Nat, Freeable(h, ptr)
  PROVE  \E b \in LiveIn(h) : b.addr = ptr
<1> DEFINE s == h.xlUse
           r == Recover(h, ptr)
           off == ptr % PageSize
           p == ptr \div PageSize
           k == heap_hash_lookup(h, p)
<1>1. LiveIn(h) = ClassBlocks(D, cont) \cup XLBlocks(Listed(s)) /\ Parcels(s) /\ GoodPages(D, cont)
  BY WellLive
<1>2. CASE StartsAt(s, ptr) # {}
  <2>1. PICK i \in 1..Len(s) : AtRegion(h, ptr, XLBlock(s[i]))
    <3> HIDE DEF s
    <3> QED  BY <1>1, <1>2, RegionFound DEF s
  <2>2. XLBlock(s[i]).addr = ptr  BY <2>1 DEF AtRegion
  <2>3. s[i] \in Listed(s)  BY <1>1, ParcelsFacts
  <2>4. XLBlock(s[i]) \in LiveIn(h)  BY <2>3, <1>1 DEF XLBlocks
  <2> QED  BY <2>2, <2>4
<1>3. CASE StartsAt(s, ptr) = {}
  <2>1. r = [xl |-> None, bucket |-> k,
             size |-> IF k = None THEN 0 ELSE SlotSize[h.pages[k].cls]]
    BY <1>3, RecoverReads
  <2>2. r.xl = None /\ r.bucket = k  BY <2>1
  <2>3. k # None /\ (off % r.size) = 0 /\ (off \div r.size) \in h.pages[k].bits
    BY <2>2 DEF Freeable
  <2>4. p \in D /\ h.pages[k].bits = cont[p].bits /\ h.pages[k].cls = cont[p].cls
    <3>1. Fresh(h, Cap(h), D, cont)  BY DEF Well, Tabled
    <3> HIDE DEF p
    <3> QED  BY <3>1, <2>3, FreshReads
  <2> DEFINE c == cont[p].cls
             z == SlotSize[c]
             t == off \div z
  <2>5. r.size = z  BY <2>1, <2>3, <2>4
  <2>6. GoodPage(cont[p])  BY <2>4, <1>1 DEF GoodPages
  <2>7. c \in Classes  BY <2>6, PageFacts
  <2>8. z \in Nat \ {0} /\ Slots(c) \in Nat /\ Slots(c) * z = PageSize
        /\ FullBitmap(c) \ TailBits(c) = 0..(Slots(c) - 1) /\ BitmapBits(c) \in Nat
    BY <2>7, SlotFacts
  <2>9. off \in Nat /\ off < PageSize /\ p \in Nat /\ ptr = PageSize * p + off
    <3>1. p \in Nat /\ off \in 0..(PageSize - 1) /\ ptr = PageSize * p + off  BY PageSizePos, DivProps
    <3> HIDE DEF off, p
    <3> QED  BY <3>1, PageSizePos
  <2>10. t \in Nat /\ off = z * t
    <3> HIDE DEF off, z
    <3>1. off \div z \in Nat /\ off = z * (off \div z) + (off % z)  BY <2>8, <2>9, DivProps
    <3>2. (off % z) = 0  BY <2>3, <2>5
    <3> DEFINE e == z * t
    <3>3. e \in Nat  BY <2>8, <3>1
    <3> HIDE DEF t
    <3>4. off = e + 0  BY <3>1, <3>2 DEF t
    <3> HIDE DEF e
    <3>5. off = e  BY <3>3, <3>4
    <3> QED  BY <3>1, <3>5 DEF t, e
  <2>11. t \in cont[p].bits  BY <2>3, <2>4, <2>5
  <2>12. t < Slots(c)
    <3> DEFINE n == Slots(c)
               u == n * z
               v == t * z
    <3>1. n < t => n * z + z <= t * z  BY <2>8, <2>10, NextMultiple
    <3>2. u = PageSize /\ v = off
      <4> HIDE DEF off, z, t
      <4> QED  BY <2>8, <2>10
    <3>3. n = t => u = v  OBVIOUS
    <3>4. n < t => u + z <= v  BY <3>1
    <3>5. n \in Nat /\ z \in Nat /\ t \in Nat /\ v < u /\ u \in Nat /\ v \in Nat
      BY <2>8, <2>9, <2>10, <3>2, PageSizePos
    <3> HIDE DEF n, u, v, z, t, off
    <3>6. t < n  BY <3>3, <3>4, <3>5
    <3> QED  BY <3>6 DEF n
  <2>13. t \in LiveBits(cont[p])
    <3>1. t \notin TailBits(c)
      <4> HIDE DEF t, c
      <4> QED  BY <2>8, <2>10, <2>12 DEF TailBits
    <3> QED  BY <3>1, <2>11 DEF LiveBits
  <2> DEFINE b == SlotBlock(p, c, t)
  <2>14. b \in LiveIn(h)
    <3>1. b \in PageBlocks(p, cont[p])  BY <2>13 DEF PageBlocks
    <3> HIDE DEF b, p
    <3> QED  BY <3>1, <2>4, <1>1 DEF ClassBlocks
  <2>15. b.addr = ptr
    <3>1. b.addr = p * PageSize + t * z  BY DEF SlotBlock
    <3> DEFINE u == p * PageSize
               v == t * z
    <3>2. u = PageSize * p /\ v = off
      <4> HIDE DEF off, z, t, p
      <4> QED  BY <2>8, <2>9, <2>10, PageSizePos
    <3> HIDE DEF u, v, b
    <3> QED  BY <3>1, <3>2, <2>9 DEF u, v
  <2> QED  BY <2>14, <2>15
<1> QED  BY <1>2, <1>3

------------------------------------------------------------------------------
\* A block is freed.

\* The result of a free: the block is gone.
Freed(h, b, g) == Sound(g) /\ LiveIn(g) = LiveIn(h) \ {b} /\ b \in LiveIn(h) /\ g.inUse = h.inUse

RegionFreeing(h, ptr, b, i, fail, g) ==
    /\ Sound(h) /\ AtRegion(h, ptr, b) /\ i = Recover(h, ptr).xl
    /\ g = heap_free_xl(h, i, fail)

\* heap_free_xl.
LEMMA FreeXLIs ==
  ASSUME NEW h, NEW ptr, NEW b, NEW i, NEW fail, NEW g, RegionFreeing(h, ptr, b, i, fail, g)
  PROVE  Freed(h, b, g)
<1>1. PICK D, cont : Well(h, D, cont) /\ Spare(D, cont)  BY DEF Sound, RegionFreeing
<1>2. Tabled(h, D, cont) /\ Stores(h, D)  BY <1>1 DEF Well
<1> DEFINE s == h.xlUse
           x == s[i]
           R == Listed(s)
           C == ClassBlocks(D, cont)
           t == SwapRemove(s, i)
           k == [h EXCEPT !.xlUse = t]
           cap == ReserveCap(Len(h.xlFreed), h.xlFreedCap, XLPerPage)
           u == h.footprint + GrownPages(h.xlFreedCap, cap, XLPerPage)
           v == h.retention + x.n
           f1 == os_page_unmap(k, x.page, x.n)
           f2 == [k EXCEPT !.xlFreed = Append(h.xlFreed, x), !.xlFreedCap = cap,
                           !.footprint = u, !.retention = v]
<1>3. i \in 1..Len(s) /\ b = XLBlock(x)
  <2>1. PICK q, j : /\ q = s /\ j \in 1..Len(q) /\ b = XLBlock(q[j])
                    /\ Recover(h, ptr) = [xl |-> j, bucket |-> None, size |-> b.len]
    BY DEF RegionFreeing, AtRegion
  <2>2. i = j  BY <2>1 DEF RegionFreeing
  <2> QED  BY <2>1, <2>2
<1>4. /\ LiveIn(h) = C \cup XLBlocks(R) /\ Parcels(s) /\ R \subseteq XLRegion
      /\ Covered(R) \cap D = {} /\ GoodPages(D, cont)
  BY <1>1, WellLive
<1>5. s \in Seq(XLRegion) /\ x \in R /\ x \in XLRegion  BY <1>3, <1>4, ParcelsFacts
<1>6. IsHeap(h)  BY <1>2 DEF Stores
<1>7. g = f1 \/ g = f2
  <2>1. g = IF cap # h.xlFreedCap /\ "free" \in fail THEN os_page_unmap([h EXCEPT !.xlUse = SwapRemove(@, i)], x.page, x.n)
            ELSE [[h EXCEPT !.xlUse = SwapRemove(@, i)] EXCEPT !.xlFreed = Append(@, x), !.xlFreedCap = cap,
                       !.footprint = @ + GrownPages(h.xlFreedCap, cap, XLPerPage),
                       !.retention = @ + x.n]
    BY DEF RegionFreeing, heap_free_xl
  <2>2. [h EXCEPT !.xlUse = SwapRemove(@, i)] = k  OBVIOUS
  <2> HIDE DEF k, x, cap
  <2>3. g = IF cap # h.xlFreedCap /\ "free" \in fail THEN f1
            ELSE [k EXCEPT !.xlFreed = Append(@, x), !.xlFreedCap = cap,
                       !.footprint = @ + GrownPages(h.xlFreedCap, cap, XLPerPage),
                       !.retention = @ + x.n]
    BY <2>1, <2>2
  <2>4. k.xlFreed = h.xlFreed /\ k.footprint = h.footprint /\ k.retention = h.retention
    BY <1>6 DEF k, IsHeap
  <2>5. [k EXCEPT !.xlFreed = Append(@, x), !.xlFreedCap = cap,
                  !.footprint = @ + GrownPages(h.xlFreedCap, cap, XLPerPage),
                  !.retention = @ + x.n] = f2
    BY <2>4
  <2> QED  BY <2>3, <2>5
<1>8. Releasing(h, D, s, i, t, k)
  <2>1. Sans(s, i, t)  BY <1>3, <1>5, SwapRemoveSans
  <2>2. IsSans(XLRegion, s, i, t)  BY <2>1, <1>3, <1>5 DEF IsSans
  <2> QED  BY <2>2, <1>2 DEF Releasing
<1> HIDE DEF t, k
<1>9. /\ (\A E : E = D \cup PagesOf(s[i]) => Stores(k, E)) /\ SameTable(k, h) /\ k.inUse = h.inUse
      /\ PagesOf(s[i]) \cap D = {}
      /\ k.xlFreed = h.xlFreed /\ k.xlFreedCap = h.xlFreedCap
      /\ k.footprint = h.footprint /\ k.retention = h.retention
      /\ Listed(k.xlUse) = Listed(s) \ {s[i]}
  <2> HIDE DEF s
  <2> QED  BY <1>8, ReleaseKeeps
<1> DEFINE E == D \cup PagesOf(x)
<1>10. E = D \cup PagesOf(x) /\ Stores(k, E) /\ PagesOf(x) \subseteq E /\ D = E \ PagesOf(x)  BY <1>9
<1> HIDE DEF E
<1>11. Stores(g, D) /\ SameTable(g, k) /\ g.xlUse = k.xlUse /\ g.inUse = k.inUse
  <2>1. CASE g = f1
    <3>1. Unmapping(k, E, x, g)  BY <2>1, <1>5, <1>10 DEF Unmapping
    <3> HIDE DEF x
    <3>2. /\ (\A F : F = E \ PagesOf(x) => Stores(g, F)) /\ SameTable(g, k)
          /\ g.xlUse = k.xlUse /\ g.inUse = k.inUse
      BY <3>1, UnmapKeeps
    <3> QED  BY <3>2, <1>10
  <2>2. CASE g = f2
    <3>1. cap = ReserveCap(Len(k.xlFreed), k.xlFreedCap, XLPerPage)  BY <1>9
    <3>2. g = [k EXCEPT !.xlFreed = Append(k.xlFreed, x), !.xlFreedCap = cap,
                        !.footprint = k.footprint + GrownPages(k.xlFreedCap, cap, XLPerPage),
                        !.retention = k.retention + x.n]
      <4>1. u = k.footprint + GrownPages(k.xlFreedCap, cap, XLPerPage) /\ v = k.retention + x.n
            /\ Append(h.xlFreed, x) = Append(k.xlFreed, x)
        BY <1>9
      <4> HIDE DEF u, v, cap, x
      <4> QED  BY <4>1, <2>2
    <3> HIDE DEF cap
    <3>3. Freeing(k, E, x, cap, g)  BY <3>1, <3>2, <1>5, <1>10 DEF Freeing
    <3> HIDE DEF x
    <3>4. /\ (\A F : F = E \ PagesOf(x) => Stores(g, F)) /\ SameRecycle(g, k)
          /\ g.xlUse = k.xlUse /\ g.inUse = k.inUse
      BY <3>3, FreeKeeps
    <3> QED  BY <3>4, <1>10 DEF SameRecycle
  <2> QED  BY <1>7, <2>1, <2>2
<1>12. Tabled(g, D, cont)
  <2>1. Tabled(k, D, cont)  BY <1>2, <1>9, TabledMoves
  <2> QED  BY <2>1, <1>11, TabledMoves
<1>13. Well(g, D, cont)  BY <1>11, <1>12 DEF Well
<1>14. LiveIn(g) = C \cup XLBlocks(R \ {x})
  <2>1. LiveIn(g) = C \cup XLBlocks(Listed(g.xlUse))  BY <1>13, WellLive
  <2> QED  BY <2>1, <1>9, <1>11
<1> HIDE DEF x, s
<1>15. b \notin C  BY <1>3, <1>4, <1>5, TwoKinds
<1>16. XLBlocks(R \ {x}) = XLBlocks(R) \ {b}
  <2>1. \A y \in R : XLBlock(y) = b => y = x
    <3> SUFFICES ASSUME NEW y \in R, XLBlock(y) = b PROVE y = x  OBVIOUS
    <3>1. y \in XLRegion  BY <1>4
    <3> QED  BY <3>1, <1>3, <1>5, TwoRegions
  <2> QED  BY <2>1, <1>3 DEF XLBlocks
<1>17. b \in XLBlocks(R)  BY <1>3, <1>5 DEF XLBlocks
<1>18. LiveIn(g) = LiveIn(h) \ {b} /\ b \in LiveIn(h)
  <2> HIDE DEF C, R
  <2> QED  BY <1>4, <1>14, <1>15, <1>16, <1>17
<1>19. Sound(g)  BY <1>1, <1>13 DEF Sound
<1> QED  BY <1>9, <1>11, <1>18, <1>19 DEF Freed

\* A class keeps one spare page: the freed one that heads its list alone, or
\* none but those it had.
LEMMA SpareKept ==
  ASSUME NEW h, NEW cap, NEW D, NEW new, Fresh(h, cap, D, new), NEW cont, Spare(D, cont), GoodPages(D, new),
         NEW p \in D, NEW i, i = heap_hash_lookup(h, p), h.warm[new[p].cls] = i, h.pages[i].next = None,
         \A q \in D : q # p => new[q] = cont[q]
  PROVE  Spare(D, new)
<1>1. ASSUME NEW q \in D, new[q].used = 0, new[q].cls = new[p].cls
      PROVE  q = p
  <2>1. GoodPage(new[q])  BY DEF GoodPages
  <2>2. new[q].cls \in Classes  BY <2>1, PageFacts
  <2>3. Slots(new[q].cls) \in Nat /\ Slots(new[q].cls) > 1  BY <2>2, SlotFacts
  <2>4. new[q].used < Slots(new[q].cls)  BY <2>3, <1>1
  <2> QED  BY <2>4, <1>1, LastWarm
<1>2. ASSUME NEW q \in D, NEW r \in D, new[q].used = 0, new[r].used = 0, new[q].cls = new[r].cls
      PROVE  q = r
  <2>1. CASE q = p  BY <2>1, <1>1, <1>2
  <2>2. CASE r = p  BY <2>2, <1>1, <1>2
  <2>3. CASE q # p /\ r # p  BY <2>3, <1>2 DEF Spare
  <2> QED  BY <2>1, <2>2, <2>3
<1> QED  BY <1>2 DEF Spare

Emptied(h, D, new, p, i, fail, g) ==
    /\ Tabled(h, D, new) /\ Stores(h, D) /\ p \in D /\ new[p].used = 0 /\ i = heap_hash_lookup(h, p)
    /\ g = heap_recycle_push(heap_hash_remove(heap_warm_unlink(h, i), i), p, fail)

\* An empty page goes.
LEMMA EmptiedGoes ==
  ASSUME NEW h, NEW D, NEW new, NEW p, NEW i, NEW fail, NEW g, Emptied(h, D, new, p, i, fail, g)
  PROVE  /\ \A E, f : E = D \ {p} /\ f = Minus(new, p) =>
                Well(g, E, f) /\ ClassBlocks(E, f) = ClassBlocks(D, new)
         /\ g.xlUse = h.xlUse /\ g.inUse = h.inUse
<1> DEFINE cap == Cap(h)
           n == Cardinality(D)
           k == heap_hash_remove(heap_warm_unlink(h, i), i)
           E == D \ {p}
           f == Minus(new, p)
<1>1. /\ Tabled(h, D, new) /\ Stores(h, D) /\ p \in D /\ new[p].used = 0 /\ i = heap_hash_lookup(h, p)
      /\ g = heap_recycle_push(k, p, fail)
  BY DEF Emptied
<1>2. /\ cap \in Nat /\ D \subseteq Pages /\ IsFiniteSet(D) /\ n \in Nat /\ DOMAIN new = D /\ GoodPages(D, new)
      /\ Fresh(h, cap, D, new) /\ h.count = n /\ 2 * h.count <= cap /\ (cap # 0 => n < cap)
  BY <1>1, TabledFacts
<1>3. n < cap
  <2>1. n # 0  BY <1>1, <1>2, FS_EmptySet
  <2> HIDE DEF n, cap
  <2> QED  BY <2>1, <1>2
<1>4. new[p].used < Slots(new[p].cls)
  <2>1. GoodPage(new[p])  BY <1>1, <1>2 DEF GoodPages
  <2>2. new[p].cls \in Classes  BY <2>1, PageFacts
  <2>3. Slots(new[p].cls) \in Nat /\ Slots(new[p].cls) > 1  BY <2>2, SlotFacts
  <2> QED  BY <2>3, <1>1
<1> HIDE DEF k
<1>5. Fresh(k, cap, E, f) /\ SameRest(k, h) /\ k.count = h.count - 1
  <2>1. k = heap_hash_remove(heap_warm_unlink(h, i), i)  BY DEF k
  <2>2. E = D \ {p} /\ f = Minus(new, p)  OBVIOUS
  <2> HIDE DEF E, f, cap
  <2> QED  BY <2>1, <2>2, <1>1, <1>2, <1>3, <1>4, ReclaimRemoves
<1>6. Cap(k) = cap /\ IsHeap(k)  BY <1>5, FreshReads
<1>7. Stores(k, D)  BY <1>1, <1>5, <1>6, StoresSame
<1>8. (\A F : F = D \ {p} => Stores(g, F)) /\ SameTable(g, k) /\ g.xlUse = k.xlUse /\ g.inUse = k.inUse
  BY <1>1, <1>7, ParkKeeps
<1>9. Stores(g, E)  BY <1>8
<1>10. Cardinality(E) = n - 1  BY <1>1, <1>2, FS_RemoveElement
<1>11. GoodPages(E, f) /\ ClassBlocks(E, f) = ClassBlocks(D, new)
  <2>1. E = D \ {p} /\ f = Minus(new, p)  OBVIOUS
  <2> HIDE DEF E, f
  <2> QED  BY <2>1, <1>1, <1>2, OldPageBlocks
<1> HIDE DEF E, f
<1>12. k.count = Cardinality(E) /\ 2 * k.count <= cap
  <2> HIDE DEF n, cap
  <2> QED  BY <1>2, <1>5, <1>10
<1>13. Tabled(k, E, f)  BY <1>5, <1>6, <1>11, <1>12 DEF Tabled
<1>14. Tabled(g, E, f)  BY <1>8, <1>13, TabledMoves
<1>15. Well(g, E, f)  BY <1>9, <1>14 DEF Well
<1>16. g.xlUse = h.xlUse /\ g.inUse = h.inUse  BY <1>5, <1>8 DEF SameRest
<1> QED  BY <1>11, <1>15, <1>16 DEF E, f

SlotFreeing(h, D, cont, ptr, b, i, fail, g) ==
    /\ Well(h, D, cont) /\ Spare(D, cont) /\ AtSlot(h, D, cont, ptr, b) /\ i = Recover(h, ptr).bucket
    /\ g = FreeClassed(h, ptr, i, fail)

\* heap_free_classed.
LEMMA FreeClassedIs ==
  ASSUME NEW h, NEW D, NEW cont, NEW ptr, NEW b, NEW i, NEW fail, NEW g,
         SlotFreeing(h, D, cont, ptr, b, i, fail, g)
  PROVE  Freed(h, b, g)
<1>1. Well(h, D, cont) /\ Spare(D, cont) /\ g = FreeClassed(h, ptr, i, fail)  BY DEF SlotFreeing
<1>2. Tabled(h, D, cont) /\ Stores(h, D)  BY <1>1 DEF Well
<1>3. PICK p \in D : \E t \in LiveBits(cont[p]) :
        /\ b = SlotBlock(p, cont[p].cls, t) /\ i = heap_hash_lookup(h, p)
        /\ ((ptr % PageSize) \div SlotSize[cont[p].cls]) = t
  BY DEF SlotFreeing, AtSlot
<1>4. PICK t \in LiveBits(cont[p]) :
        /\ b = SlotBlock(p, cont[p].cls, t) /\ i = heap_hash_lookup(h, p)
        /\ ((ptr % PageSize) \div SlotSize[cont[p].cls]) = t
  BY <1>3
<1> DEFINE cap == Cap(h)
           d == h.pages[i]
           k == [h EXCEPT !.pages[i] = [h.pages[i] EXCEPT !.bits = @ \ {t}, !.used = @ - 1]]
           m == IF h.pages[i].used = Slots(h.pages[i].cls) THEN heap_warm_push(k, i) ELSE k
           new == WithCleared(cont, p, t)
<1>5. /\ cap \in Nat /\ GoodPages(D, cont) /\ Fresh(h, cap, D, cont) /\ cont \in [D -> Content]
      /\ h.count = Cardinality(D) /\ 2 * h.count <= cap
  BY <1>2, TabledFacts
<1>6. d.page = p /\ d.used = cont[p].used /\ d.cls = cont[p].cls  BY <1>4, <1>5, FreshReads
<1>7. g = IF d.used = 1 THEN heap_reclaim_empty_page(m, i, fail) ELSE m
  <2> DEFINE slot == (ptr % PageSize) \div SlotSize[d.cls]
  <2>1. slot = t  BY <1>4, <1>6
  <2>2. g = LET cleared == [h EXCEPT !.pages[i] = [d EXCEPT !.bits = @ \ {slot}, !.used = @ - 1]]
                warm == IF d.used = Slots(d.cls) THEN heap_warm_push(cleared, i) ELSE cleared
            IN  IF d.used = 1 THEN heap_reclaim_empty_page(warm, i, fail) ELSE warm
    BY <1>1 DEF FreeClassed
  <2> HIDE DEF slot
  <2>3. [h EXCEPT !.pages[i] = [d EXCEPT !.bits = @ \ {slot}, !.used = @ - 1]] = k  BY <2>1
  <2> HIDE DEF k
  <2> QED  BY <2>2, <2>3
<1>8. Clearing(h, cap, D, cont, p, t, i, k, m)
  <2>1. GoodPage(cont[p]) /\ t \in cont[p].bits /\ t \notin TailBits(cont[p].cls)
    BY <1>5 DEF GoodPages, LiveBits
  <2> QED  BY <2>1, <1>4, <1>5 DEF Clearing
<1> HIDE DEF k, m
<1>9. Fresh(m, cap, D, new) /\ SameRest(m, h) /\ m.count = h.count /\ heap_hash_lookup(m, p) = i
  BY <1>8, ClearSlotKeeps
<1>10. new[p] = Cleared(cont[p], t) /\ \A q \in D : q # p => new[q] = cont[q]  BY <1>5 DEF WithCleared
<1> HIDE DEF new
<1>11. /\ GoodPages(D, new)
       /\ ClassBlocks(D, new) = ClassBlocks(D, cont) \ {b} /\ b \in ClassBlocks(D, cont)
  <2>1. b = SlotBlock(p, cont[p].cls, t) /\ t \in LiveBits(cont[p])  BY <1>4
  <2>2. GoodPages(D, cont) /\ p \in D  BY <1>5
  <2> HIDE DEF cap, d
  <2> QED  BY <2>1, <2>2, <1>10, ClearedBlocks
<1>12. Cap(m) = cap /\ IsHeap(m)  BY <1>9, FreshReads
<1>13. Tabled(m, D, new)  BY <1>5, <1>9, <1>11, <1>12 DEF Tabled
<1>14. Stores(m, D)  BY <1>2, <1>9, <1>12, StoresSame
<1>15. Well(m, D, new)  BY <1>13, <1>14 DEF Well
<1>16. m.xlUse = h.xlUse /\ m.inUse = h.inUse  BY <1>9 DEF SameRest
<1>17. new[p].used = cont[p].used - 1 /\ cont[p].used \in Nat /\ new[p].cls = cont[p].cls
  <2>1. GoodPage(cont[p])  BY <1>5 DEF GoodPages
  <2>2. cont[p].used \in Nat  BY <2>1, PageFacts
  <2> QED  BY <1>10, <2>2 DEF Cleared
\* Any well formed heap with the blocks of m.
<1>18. ASSUME NEW E, NEW f, Well(g, E, f), Spare(E, f), ClassBlocks(E, f) = ClassBlocks(D, new),
              g.xlUse = m.xlUse, g.inUse = m.inUse
       PROVE  Freed(h, b, g)
  <2> DEFINE R == Listed(h.xlUse)
             C == ClassBlocks(D, cont)
  <2>1. /\ LiveIn(h) = C \cup XLBlocks(R) /\ R \subseteq XLRegion /\ Covered(R) \cap D = {}
        /\ GoodPages(D, cont)
    BY <1>1, WellLive
  <2>2. LiveIn(g) = ClassBlocks(E, f) \cup XLBlocks(Listed(g.xlUse))  BY <1>18, WellLive
  <2>3. LiveIn(g) = (C \ {b}) \cup XLBlocks(R)  BY <2>2, <1>11, <1>16, <1>18
  <2>4. b \notin XLBlocks(R)
    <3> SUFFICES ASSUME NEW x \in R, b = XLBlock(x) PROVE FALSE  BY DEF XLBlocks
    <3> HIDE DEF R
    <3> QED  BY <2>1, <1>11, TwoKinds
  <2>5. LiveIn(g) = LiveIn(h) \ {b} /\ b \in LiveIn(h)
    <3> HIDE DEF C, R
    <3>1. b \in C  BY <1>11 DEF C
    <3> QED  BY <2>1, <2>3, <2>4, <3>1
  <2>6. Sound(g)  BY <1>18 DEF Sound
  <2> QED  BY <2>5, <2>6, <1>16, <1>18 DEF Freed
<1>19. CASE d.used # 1
  <2>1. g = m  BY <1>7, <1>19
  <2>2. new[p].used # 0  BY <1>6, <1>17, <1>19
  <2>3. Spare(D, new)  BY <1>1, <1>10, <2>2, SpareLess
  <2> QED  BY <2>1, <2>3, <1>15, <1>18
<1>20. CASE d.used = 1
  <2>1. new[p].used = 0  BY <1>6, <1>17, <1>20
  <2>2. i = heap_hash_lookup(m, p)  BY <1>9
  <2>3. m.pages[i].page = p /\ m.pages[i].cls = new[p].cls  BY <1>9, <2>2, FreshReads
  <2>4. g = IF m.warm[new[p].cls] = i /\ m.pages[i].next = None THEN m
            ELSE heap_recycle_push(heap_hash_remove(heap_warm_unlink(m, i), i), p, fail)
    BY <1>7, <1>20, <2>3 DEF heap_reclaim_empty_page
  <2>5. CASE m.warm[new[p].cls] = i /\ m.pages[i].next = None
    <3>1. g = m  BY <2>4, <2>5
    <3>2. Spare(D, new)  BY <1>1, <1>9, <1>10, <1>11, <2>2, <2>5, SpareKept
    <3> QED  BY <3>1, <3>2, <1>15, <1>18
  <2>6. CASE ~(m.warm[new[p].cls] = i /\ m.pages[i].next = None)
    <3>1. Emptied(m, D, new, p, i, fail, g)  BY <2>1, <2>2, <2>4, <2>6, <1>13, <1>14 DEF Emptied
    <3> DEFINE E == D \ {p}
               f == Minus(new, p)
    <3>2. E = D \ {p} /\ f = Minus(new, p)  OBVIOUS
    <3> HIDE DEF E, f
    <3>3. Well(g, E, f) /\ ClassBlocks(E, f) = ClassBlocks(D, new) /\ g.xlUse = m.xlUse /\ g.inUse = m.inUse
      BY <3>1, <3>2, EmptiedGoes
    <3>4. Spare(E, f)
      <4>1. DOMAIN new = D  BY <1>13, TabledFacts
      <4>2. \A q \in E : f[q] = cont[q] /\ q \in D  BY <4>1, <1>10, <3>2 DEF Minus
      <4> QED  BY <4>2, <1>1 DEF Spare
    <3> QED  BY <3>3, <3>4, <1>18
  <2> QED  BY <2>5, <2>6
<1> QED  BY <1>19, <1>20

------------------------------------------------------------------------------
\* heap_allocator_deallocate.

\* The shrink policy leaves the blocks.
LEMMA ShrinkIs ==
  ASSUME NEW h, Sound(h), NEW g, g = heap_maybe_shrink_retention(h)
  PROVE  Sound(g) /\ Quiet(g, h)
<1>1. PICK D, cont : Well(h, D, cont) /\ Spare(D, cont)  BY DEF Sound
<1>2. Tabled(h, D, cont) /\ Stores(h, D)  BY <1>1 DEF Well
<1>3. Trimmed(h, D, g)  BY <1>2, MaybeShrinkKeeps
<1>4. Stores(g, D) /\ SameTable(g, h) /\ g.xlUse = h.xlUse /\ g.inUse = h.inUse  BY <1>3 DEF Trimmed
<1>5. Tabled(g, D, cont)  BY <1>2, <1>4, TabledMoves
<1>6. Well(g, D, cont)  BY <1>4, <1>5 DEF Well
<1>7. Quiet(g, h)  BY <1>1, <1>4, <1>6, SameBlocks
<1> QED  BY <1>1, <1>6, <1>7 DEF Sound

\* The blocks of a sound heap do not overlap.
LEMMA SoundBlocks ==
  ASSUME NEW h, Sound(h)
  PROVE  Blocks(LiveIn(h))
  BY LiveBlocks DEF Sound

Deallocating(h, b, ptr, fail, g) ==
    /\ HeapInv(h) /\ b \in LiveIn(h) /\ ptr = b.addr
    /\ g = heap_allocator_deallocate(h, ptr, fail)

\* A free takes its block and no other.
LEMMA DeallocIs ==
  ASSUME NEW h, NEW b, NEW ptr, NEW fail, NEW g, Deallocating(h, b, ptr, fail, g)
  PROVE  HeapInv(g) /\ LiveIn(g) = LiveIn(h) \ {b}
<1>1. HeapInv(h) /\ b \in LiveIn(h) /\ ptr = b.addr /\ Sound(h)  BY DEF Deallocating, HeapInv
<1>2. PICK D, cont : Well(h, D, cont) /\ Spare(D, cont)  BY <1>1 DEF Sound
<1> DEFINE r == Recover(h, ptr)
           k == IF r.xl # None THEN heap_free_xl(h, r.xl, fail) ELSE FreeClassed(h, ptr, r.bucket, fail)
           v == IF r.size <= k.inUse THEN k.inUse - r.size ELSE 0
           f == [k EXCEPT !.inUse = v]
<1>3. g = heap_maybe_shrink_retention(f)  BY DEF Deallocating, heap_allocator_deallocate
<1>4. AtRegion(h, ptr, b) \/ AtSlot(h, D, cont, ptr, b)  BY <1>1, <1>2, BlockFound
<1>5. Freed(h, b, k) /\ r.size = b.len
  <2>1. CASE AtRegion(h, ptr, b)
    <3> DEFINE i == r.xl
    <3>1. PICK s, j : /\ j \in 1..Len(s) /\ s = h.xlUse
                      /\ r = [xl |-> j, bucket |-> None, size |-> b.len]
      BY <2>1 DEF AtRegion
    <3>2. i = j /\ i # None /\ r.size = b.len
      <4>1. i = j /\ r.size = b.len  BY <3>1
      <4>2. j # None
        <5>1. j \in Nat \/ j \notin Int  BY <3>1
        <5> QED  BY <5>1 DEF None
      <4> QED  BY <4>1, <4>2
    <3>3. k = heap_free_xl(h, i, fail)  BY <3>2
    <3>4. i = Recover(h, ptr).xl  OBVIOUS
    <3> HIDE DEF i, k, r
    <3>5. RegionFreeing(h, ptr, b, i, fail, k)  BY <2>1, <3>3, <3>4, <1>1 DEF RegionFreeing
    <3>6. Freed(h, b, k)  BY <3>5, FreeXLIs
    <3> QED  BY <3>2, <3>6
  <2>2. CASE AtSlot(h, D, cont, ptr, b)
    <3> DEFINE i == r.bucket
    <3>1. r.xl = None /\ r.size = b.len
      <4>1. \E p \in D : r = [xl |-> None, bucket |-> heap_hash_lookup(h, p), size |-> b.len]
        BY <2>2 DEF AtSlot
      <4> QED  BY <4>1
    <3>2. k = FreeClassed(h, ptr, i, fail) /\ i = Recover(h, ptr).bucket  BY <3>1
    <3> HIDE DEF i, k, r
    <3>3. SlotFreeing(h, D, cont, ptr, b, i, fail, k)  BY <2>2, <3>2, <1>2 DEF SlotFreeing
    <3>4. Freed(h, b, k)  BY <3>3, FreeClassedIs
    <3> QED  BY <3>1, <3>4
  <2> QED  BY <1>4, <2>1, <2>2
<1> HIDE DEF k, r
<1>6. Sound(k) /\ LiveIn(k) = LiveIn(h) \ {b} /\ k.inUse = h.inUse  BY <1>5 DEF Freed
<1> DEFINE B == LiveIn(h)
           E == LiveIn(k)
<1>7. Blocks(B)  BY <1>1, SoundBlocks
<1>8. /\ Cardinality(AllBytes(E)) = Cardinality(AllBytes(B)) - b.len
      /\ b.len <= Cardinality(AllBytes(B)) /\ Cardinality(AllBytes(B)) \in Nat /\ b.len \in Nat
  <2>1. E = B \ {b} /\ b \in B  BY <1>1, <1>6
  <2> HIDE DEF B, E
  <2> QED  BY <2>1, <1>7, BlockLess
<1>9. v = Cardinality(AllBytes(E))
  <2>1. k.inUse = Cardinality(AllBytes(B))  BY <1>1, <1>6 DEF HeapInv, Ledger
  <2> HIDE DEF B, E
  <2> QED  BY <2>1, <1>5, <1>8
<1>10. f = [k EXCEPT !.inUse = v]  OBVIOUS
<1> HIDE DEF f, v
<1>11. Sound(f) /\ LiveIn(f) = LiveIn(k) /\ f.inUse = v  BY <1>6, <1>10, Recount
<1>12. Sound(g) /\ Quiet(g, f)  BY <1>3, <1>11, ShrinkIs
<1>13. LiveIn(g) = LiveIn(k) /\ g.inUse = v  BY <1>11, <1>12 DEF Quiet
<1>14. Ledger(g)  BY <1>9, <1>13 DEF Ledger
<1> QED  BY <1>6, <1>12, <1>13, <1>14 DEF HeapInv

------------------------------------------------------------------------------
\* heap_allocator_remap.

\* A block starts in a page that the kernel can give.
LEMMA BlockPage ==
  ASSUME NEW h, Sound(h), NEW b \in LiveIn(h)
  PROVE  b.addr \in Nat /\ b.addr \div PageSize \in Pages
<1>1. PICK D, cont : Well(h, D, cont)  BY DEF Sound
<1>2. /\ LiveIn(h) = ClassBlocks(D, cont) \cup XLBlocks(Listed(h.xlUse))
      /\ Listed(h.xlUse) \subseteq XLRegion /\ GoodPages(D, cont)
      /\ XLPages(h.xlUse) = Covered(Listed(h.xlUse))
  BY <1>1, WellLive
<1>3. PageSize \in Nat \ {0} /\ D \subseteq Pages /\ XLPages(h.xlUse) \subseteq Pages
  BY <1>1, PageSizePos DEF Well, Stores, Owned
<1>4. Blocks(LiveIn(h))  BY <1>1, LiveBlocks
<1>5. b.addr \in Nat /\ b.len \in Nat /\ b.len > 0 /\ b.addr \in Bytes(b)
  <2>1. b.addr \in Nat /\ b.len \in Nat /\ b.len > 0  BY <1>4 DEF Blocks
  <2> QED  BY <2>1 DEF Bytes
<1>6. CASE b \in ClassBlocks(D, cont)
  <2>1. PICK p \in D : \E s \in LiveBits(cont[p]) :
            /\ b = SlotBlock(p, cont[p].cls, s) /\ p \in Nat /\ cont[p].cls \in Classes
            /\ s \in 0..(Slots(cont[p].cls) - 1)
    BY <1>2, <1>6, ClassBlockIs
  <2>2. b.addr \div PageSize = p  BY <2>1, <1>5, SlotBytes
  <2> QED  BY <1>3, <1>5, <2>2
<1>7. CASE b \in XLBlocks(Listed(h.xlUse))
  <2>1. PICK x \in Listed(h.xlUse) : b = XLBlock(x)  BY <1>7 DEF XLBlocks
  <2>2. b.addr \div PageSize \in PagesOf(x)  BY <2>1, <1>2, <1>3, <1>5, RegionBytes
  <2>3. PagesOf(x) \subseteq Covered(Listed(h.xlUse))  BY DEF Covered
  <2> QED  BY <1>2, <1>3, <1>5, <2>2, <2>3
<1> QED  BY <1>2, <1>6, <1>7

\* The block b has become the block d.
Replaced(g, h, b, d) == LiveIn(g) = (LiveIn(h) \ {b}) \cup {d} /\ d \notin LiveIn(h)

\* A region becomes a region of another size, with the bytes in use as they were.
Resizing(h, s, ptr, b, i, at, m, k) ==
    /\ Sound(h) /\ s = h.xlUse /\ AtRegion(h, ptr, b) /\ i = Recover(h, ptr).xl
    /\ at \in Pages /\ m \in Nat \ {0} /\ s[i].n # m
    /\ Region(at, m) \subseteq
          Pages \ (h.mapped \ IF at = ptr \div PageSize THEN Region(ptr \div PageSize, s[i].n) ELSE {})
    /\ \E A, F, U : /\ A = (h.mapped \ Region(ptr \div PageSize, s[i].n)) \cup Region(at, m)
                    /\ F = h.footprint + m - s[i].n
                    /\ U = [s EXCEPT ![i] = [page |-> at, n |-> m]]
                    /\ k = [h EXCEPT !.mapped = A, !.footprint = F, !.xlUse = U]

\* os_page_remap.
LEMMA ResizingIs ==
  ASSUME NEW h, NEW s, NEW ptr, NEW b, NEW i, NEW at, NEW m, NEW k,
         Resizing(h, s, ptr, b, i, at, m, k)
  PROVE  /\ Sound(k) /\ k.inUse = h.inUse /\ b \in LiveIn(h)
         /\ b.len = s[i].n * PageSize /\ s[i].n \in Nat
         /\ Replaced(k, h, b, Block(at * PageSize, m * PageSize))
<1>1. PICK D, cont : Well(h, D, cont) /\ Spare(D, cont)  BY DEF Resizing, Sound
<1>2. PICK j : /\ s = h.xlUse /\ j \in 1..Len(s) /\ b = XLBlock(s[j]) /\ ptr = b.addr
                  /\ Recover(h, ptr) = [xl |-> j, bucket |-> None, size |-> b.len]
  BY DEF Resizing, AtRegion
<1>3. i = j  BY <1>2 DEF Resizing
<1> DEFINE x == s[i]
           n == x.n
           y == [page |-> at, n |-> m]
           p == ptr \div PageSize
           d == XLBlock(y)
<1>4. at \in Pages /\ m \in Nat \ {0} /\ n # m  BY <1>2 DEF Resizing
<1>5. /\ LiveIn(h) = ClassBlocks(D, cont) \cup XLBlocks(Listed(s))
      /\ Listed(s) \subseteq XLRegion /\ GoodPages(D, cont)
      /\ Covered(Listed(s)) \cap D = {}
  BY <1>1, <1>2, WellLive
<1>6. x \in Listed(s) /\ x \in XLRegion /\ x.page \in Nat /\ n \in Nat \ {0}
  <2>1. x \in Listed(s)  BY <1>2, <1>3 DEF Listed
  <2>2. x \in XLRegion  BY <2>1, <1>5
  <2> QED  BY <2>1, <2>2 DEF XLRegion
<1>7. y \in XLRegion /\ y.page = at /\ y.n = m /\ y # x
  <2>1. at \in Nat  BY <1>4, HeapAssumption
  <2> QED  BY <2>1, <1>4 DEF XLRegion
<1>8. PageSize \in Nat \ {0}  BY PageSizePos
<1>9. p = x.page
  <2>1. b.addr = x.page * PageSize /\ b.addr \in Nat  BY <1>2, <1>3, <1>6, <1>8, RegionBytes
  <2> DEFINE v == x.page * PageSize
  <2>2. v \in Nat /\ v <= v /\ v < v + PageSize  BY <2>1, <1>8
  <2>3. v \div PageSize = x.page  BY <2>2, <1>6, <1>8, InPage
  <2> QED  BY <1>2, <2>1, <2>3
<1>10. PICK A, F, U : /\ A = (h.mapped \ Region(p, n)) \cup Region(at, m)
                      /\ F = h.footprint + m - n
                      /\ U = [s EXCEPT ![i] = y]
                      /\ k = [h EXCEPT !.mapped = A, !.footprint = F, !.xlUse = U]
  BY <1>2 DEF Resizing
<1>11. IsHeap(h) /\ Stores(h, D) /\ Tabled(h, D, cont)  BY <1>1 DEF Well, Stores
<1>12. /\ IsHeap(k) /\ SameTable(k, h) /\ k.recycle = h.recycle /\ k.recycleCap = h.recycleCap
       /\ k.xlFreed = h.xlFreed /\ k.xlFreedCap = h.xlFreedCap /\ k.retention = h.retention
       /\ k.xlUseCap = h.xlUseCap /\ k.inUse = h.inUse
       /\ k.mapped = A /\ k.footprint = F /\ k.xlUse = U
  BY <1>10, <1>11 DEF IsHeap, SameTable
<1>13. PagesOf(x) = Region(p, n) /\ PagesOf(y) = Region(at, m)  BY <1>7, <1>9 DEF PagesOf
<1>14. PagesOf(y) \subseteq Pages /\ PagesOf(y) \cap (h.mapped \ PagesOf(x)) = {}
  <2>1. Region(at, m) \subseteq Pages \ (h.mapped \ IF at = p THEN Region(p, n) ELSE {})
    BY <1>2 DEF Resizing
  <2> HIDE DEF x, y, p, n
  <2> QED  BY <2>1, <1>13
<1>15. k.xlUse = Swapped(s, i, y)  BY <1>10, <1>12 DEF Swapped
<1>16. Moving(h, D, s, i, y, k)
  <2>1. k.mapped = (h.mapped \ PagesOf(x)) \cup PagesOf(y)  BY <1>10, <1>12, <1>13
  <2>2. k.footprint = h.footprint + y.n - x.n  BY <1>10, <1>12, <1>7
  <2> QED  BY <1>2, <1>3, <1>7, <1>11, <1>12, <1>14, <1>15, <2>1, <2>2 DEF Moving
<1> HIDE DEF y
<1>17. /\ Stores(k, D) /\ Listed(k.xlUse) = (Listed(s) \ {x}) \cup {y} /\ y \notin Listed(s) \ {x}
  BY <1>16, MovedKeeps
<1>18. Well(k, D, cont)  BY <1>11, <1>12, <1>17, TabledMoves DEF Well
<1>19. Sound(k)  BY <1>1, <1>18 DEF Sound
<1> DEFINE R == Listed(s)
           T == Listed(k.xlUse)
           C == ClassBlocks(D, cont)
<1>20. LiveIn(k) = C \cup XLBlocks(T) /\ T \subseteq XLRegion /\ Covered(T) \cap D = {}
  BY <1>18, WellLive
<1>21. \A c \in C : c # b /\ c # d
  <2>1. \A c \in C : c # XLBlock(x)  BY <1>5, <1>6, TwoKinds
  <2>2. y \in T  BY <1>17
  <2> HIDE DEF R, T
  <2>3. \A c \in C : c # XLBlock(y)  BY <1>5, <1>20, <2>2, TwoKinds
  <2> QED  BY <1>2, <1>3, <2>1, <2>3
<1>22. \A u, v \in XLRegion : XLBlock(u) = XLBlock(v) => u = v  BY TwoRegions
<1>23. b = XLBlock(x)  BY <1>2, <1>3
<1>24. Replaced(k, h, b, d)
  <2>1. T = (R \ {x}) \cup {y} /\ y \notin R /\ x \in R /\ R \subseteq XLRegion
    BY <1>5, <1>6, <1>7, <1>17
  <2> HIDE DEF R, T, C, x, d
  <2>2. d = XLBlock(y)  BY DEF d
  <2>3. XLBlocks(T) = (XLBlocks(R) \ {b}) \cup {d}  BY <1>7, <1>22, <1>23, <2>1, <2>2 DEF XLBlocks
  <2>4. d \notin XLBlocks(R)  BY <1>7, <1>22, <2>1, <2>2 DEF XLBlocks
  <2>5. LiveIn(h) = C \cup XLBlocks(R)  BY <1>5 DEF R, C
  <2>6. LiveIn(k) = (LiveIn(h) \ {b}) \cup {d}  BY <1>20, <1>21, <2>3, <2>5
  <2>7. d \notin LiveIn(h)  BY <1>21, <2>4, <2>5
  <2> QED  BY <2>6, <2>7 DEF Replaced
<1>25. b \in LiveIn(h)  BY <1>5, <1>6, <1>23 DEF XLBlocks
<1>26. d = Block(at * PageSize, m * PageSize) /\ b.len = n * PageSize
  BY <1>7, <1>23 DEF XLBlock, Block
<1> QED  BY <1>2, <1>6, <1>12, <1>19, <1>24, <1>25, <1>26

\* A remap makes its block the one it returns, or leaves every block alone.
Refitted(r, h, b) ==
    /\ HeapInv(r.h)
    /\ \/ r.ptr = None /\ LiveIn(r.h) = LiveIn(h)
       \/ r.ptr # None /\ b = Block(r.ptr, r.len) /\ LiveIn(r.h) = LiveIn(h)
       \/ r.ptr # None /\ Replaced(r.h, h, b, Block(r.ptr, r.len))

\* The region grown or cut, with its bytes counted.
LEMMA ResizedIs ==
  ASSUME NEW h, NEW s, NEW ptr, NEW b, NEW i, NEW at, NEW m, NEW k,
         Resizing(h, s, ptr, b, i, at, m, k), Ledger(h),
         NEW v, v = h.inUse + (m - s[i].n) * PageSize, NEW g, g = [k EXCEPT !.inUse = v]
  PROVE  HeapInv(g) /\ Replaced(g, h, b, Block(at * PageSize, m * PageSize))
<1>1. /\ Sound(h) /\ Sound(k) /\ k.inUse = h.inUse /\ b \in LiveIn(h)
      /\ b.len = s[i].n * PageSize /\ s[i].n \in Nat /\ m \in Nat
  <2>1. /\ Sound(k) /\ k.inUse = h.inUse /\ b \in LiveIn(h)
        /\ b.len = s[i].n * PageSize /\ s[i].n \in Nat
    BY ResizingIs
  <2>2. Sound(h) /\ m \in Nat  BY DEF Resizing
  <2> QED  BY <2>1, <2>2
<1> DEFINE d == Block(at * PageSize, m * PageSize)
<1>2. Replaced(k, h, b, d) /\ d.len = m * PageSize
  <2>1. Replaced(k, h, b, d)  BY ResizingIs
  <2> QED  BY <2>1 DEF Block
<1> HIDE DEF d
<1>3. Sound(g) /\ LiveIn(g) = LiveIn(k) /\ g.inUse = v  BY <1>1, Recount
<1> DEFINE B == LiveIn(h)
           E == B \ {b}
           F == LiveIn(k)
<1>4. Blocks(B) /\ Blocks(F)  BY <1>1, SoundBlocks
<1>5. F = E \cup {d} /\ d \notin E /\ b \in B  BY <1>1, <1>2 DEF Replaced
<1>6. E = B \ {b}  OBVIOUS
<1>7. h.inUse = Cardinality(AllBytes(B))  BY DEF Ledger
<1> HIDE DEF B, E, F
<1>8. /\ Cardinality(AllBytes(E)) = Cardinality(AllBytes(B)) - b.len
      /\ Cardinality(AllBytes(B)) \in Nat
  BY <1>4, <1>5, <1>6, BlockLess
<1>9. Cardinality(AllBytes(F)) = Cardinality(AllBytes(E)) + d.len  BY <1>4, <1>5, BlockMore
<1> DEFINE c == Cardinality(AllBytes(B))
           n == s[i].n
<1>10. c \in Nat /\ n \in Nat /\ m \in Nat /\ PageSize \in Nat  BY <1>1, <1>8, PageSizePos
<1>11. Cardinality(AllBytes(F)) = c - n * PageSize + m * PageSize  BY <1>1, <1>2, <1>8, <1>9
<1>12. v = c + (m - n) * PageSize  BY <1>7
<1> HIDE DEF c, n
<1>13. v = Cardinality(AllBytes(F))  BY <1>10, <1>11, <1>12, PagesMore
<1>14. Ledger(g)  BY <1>3, <1>13 DEF Ledger, F
<1>15. Replaced(g, h, b, d)  BY <1>2, <1>3 DEF Replaced
<1> QED  BY <1>3, <1>14, <1>15 DEF HeapInv, d

Remapping(h, b, ptr, newSize, at, fail, r) ==
    /\ HeapInv(h) /\ b \in LiveIn(h) /\ ptr = b.addr
    /\ newSize \in Nat \ {0} /\ at \in Pages \cup {None}
    /\ r = heap_allocator_remap(h, ptr, newSize, at, fail)

\* A block is an address and a length.
LEMMA BlockShape ==
  ASSUME NEW h, NEW x \in LiveIn(h)
  PROVE  x = Block(x.addr, x.len)
BY DEF LiveIn, SlotsInUse, Block

\* heap_allocator_remap.
LEMMA RemapIs ==
  ASSUME NEW h, NEW b, NEW ptr, NEW newSize, NEW at, NEW fail, NEW r,
         Remapping(h, b, ptr, newSize, at, fail, r)
  PROVE  Refitted(r, h, b)
<1>1. /\ HeapInv(h) /\ Sound(h) /\ Ledger(h) /\ b \in LiveIn(h) /\ ptr = b.addr
      /\ newSize \in Nat \ {0} /\ at \in Pages \cup {None}
  BY DEF Remapping, HeapInv
<1>2. PICK D, cont : Well(h, D, cont)  BY <1>1 DEF Sound
<1> DEFINE s == h.xlUse
           i == Recover(h, ptr).xl
           n == s[i].n
           m == OsPages(newSize)
           p == ptr \div PageSize
           fresh == heap_allocator_allocate(h, newSize, at, fail)
           y == [page |-> at, n |-> m]
           v == h.inUse + (m - n) * PageSize
           A == (h.mapped \ Region(p, n)) \cup Region(at, m)
           F == h.footprint + m - n
           U == [s EXCEPT ![i] = y]
           k == [h EXCEPT !.mapped = A, !.footprint = F, !.xlUse = U]
           moved == [os_page_remap(h, p, n, at, m) EXCEPT !.xlUse[i] = y, !.inUse = @ + (m - n) * PageSize]
           freed == heap_allocator_deallocate(fresh.h, ptr, fail)
<1>3. m \in Nat \ {0}  BY <1>1, RoundedUp
<1>4. r = IF i # None /\ n = m THEN [h |-> h, ptr |-> ptr, len |-> m * PageSize]
          ELSE IF i # None /\ CanRemap(h, p, n, at, m, fail)
          THEN [h |-> moved, ptr |-> at * PageSize, len |-> m * PageSize]
          ELSE IF fresh.ptr = None THEN [h |-> fresh.h, ptr |-> None, len |-> 0]
          ELSE [h |-> freed, ptr |-> fresh.ptr, len |-> Effective(newSize)]
  BY DEF Remapping, heap_allocator_remap
<1>5. i # None => AtRegion(h, ptr, b)
  <2>1. AtRegion(h, ptr, b) \/ AtSlot(h, D, cont, ptr, b)  BY <1>1, <1>2, BlockFound
  <2>2. ASSUME AtSlot(h, D, cont, ptr, b) PROVE i = None
    <3>1. \E q \in D : Recover(h, ptr) = [xl |-> None, bucket |-> heap_hash_lookup(h, q), size |-> b.len]
      BY <2>2 DEF AtSlot
    <3> QED  BY <3>1
  <2> QED  BY <2>1, <2>2
<1>6. ptr # None
  <2>1. ptr \in Nat  BY <1>1, SoundBlocks DEF Blocks
  <2> QED  BY <2>1 DEF None
<1>7. CASE i # None /\ n = m /\ r = [h |-> h, ptr |-> ptr, len |-> m * PageSize]
  <2>1. b = XLBlock(s[i])  BY <1>7, <1>5 DEF AtRegion
  <2>2. b.len = n * PageSize  BY <2>1 DEF XLBlock
  <2>3. b = Block(ptr, m * PageSize)  BY <1>1, <1>7, <2>2, BlockShape
  <2> QED  BY <1>1, <1>7, <1>6, <2>3 DEF Refitted
<1>8. CASE /\ i # None /\ n # m /\ CanRemap(h, p, n, at, m, fail)
           /\ r = [h |-> moved, ptr |-> at * PageSize, len |-> m * PageSize]
  <2>1. AtRegion(h, ptr, b)  BY <1>8, <1>5
  <2>2. at \in Pages /\ Region(at, m) \subseteq Pages \ (h.mapped \ IF at = p THEN Region(p, n) ELSE {})
    <3>1. at # None /\ Region(at, m) \subseteq Pages \ (h.mapped \ IF at = p THEN Region(p, n) ELSE {})
      BY <1>8 DEF CanRemap
    <3> QED  BY <1>1, <3>1
  <2>3. IsHeap(h)  BY <1>2 DEF Well, Stores
  <2>4. moved = [k EXCEPT !.inUse = v]
    <3>1. os_page_remap(h, p, n, at, m) = [h EXCEPT !.mapped = A, !.footprint = F]
      BY <2>3 DEF os_page_remap, IsHeap
    <3> DEFINE a == os_page_remap(h, p, n, at, m)
    <3>2. a = [h EXCEPT !.mapped = A, !.footprint = F]  BY <3>1
    <3>3. moved = [a EXCEPT !.xlUse = [a.xlUse EXCEPT ![i] = y], !.inUse = a.inUse + (m - n) * PageSize]  OBVIOUS
    <3> HIDE DEF a, A, F, y, n, m, i, moved, p
    <3>4. a.xlUse = s /\ a.inUse = h.inUse  BY <2>3, <3>2 DEF IsHeap
    <3>5. moved = [a EXCEPT !.xlUse = U, !.inUse = v]  BY <3>3, <3>4
    <3> HIDE DEF U, v
    <3> QED  BY <2>3, <3>2, <3>5 DEF IsHeap
  <2>5. Resizing(h, s, ptr, b, i, at, m, k)
    <3>1. \E a, f, u : /\ a = (h.mapped \ Region(p, n)) \cup Region(at, m)
                       /\ f = h.footprint + m - n /\ u = U
                       /\ k = [h EXCEPT !.mapped = a, !.footprint = f, !.xlUse = u]
      OBVIOUS
    <3> HIDE DEF k, m
    <3> QED  BY <1>1, <1>3, <1>8, <2>1, <2>2, <3>1 DEF Resizing
  <2>6. moved = [k EXCEPT !.inUse = v] /\ v = h.inUse + (m - s[i].n) * PageSize  BY <2>4
  <2>7. at * PageSize # None
    <3>1. at \in Nat /\ PageSize \in Nat  BY <2>2, HeapAssumption
    <3>2. at * PageSize \in Nat  BY <3>1
    <3> QED  BY <3>2 DEF None
  <2>8. r.h = moved /\ r.ptr = at * PageSize /\ r.len = m * PageSize  BY <1>8
  <2> HIDE DEF k, m, v, i, s, moved
  <2>9. HeapInv(moved) /\ Replaced(moved, h, b, Block(at * PageSize, m * PageSize))
    BY <1>1, <2>5, <2>6, ResizedIs
  <2> QED  BY <2>7, <2>8, <2>9 DEF Refitted
<1>9. CASE r = IF fresh.ptr = None THEN [h |-> fresh.h, ptr |-> None, len |-> 0]
               ELSE [h |-> freed, ptr |-> fresh.ptr, len |-> Effective(newSize)]
  <2>1. Allocating(h, newSize, at, fail, fresh)  BY <1>1 DEF Allocating
  <2> HIDE DEF fresh
  <2>2. Allocated(h, newSize, fresh)  BY <2>1, AllocIs
  <2>3. HeapInv(fresh.h)  BY <2>2 DEF Allocated
  <2>4. CASE fresh.ptr = None
    <3>1. LiveIn(fresh.h) = LiveIn(h)  BY <2>2, <2>4 DEF Allocated
    <3> QED  BY <1>9, <2>3, <2>4, <3>1 DEF Refitted
  <2>5. CASE fresh.ptr # None
    <3>1. PICK x : Gains(fresh.h, h, x) /\ x.addr = fresh.ptr /\ x.len = Effective(newSize)
      BY <2>2, <2>5 DEF Allocated
    <3> DEFINE f == fresh.h
               g == freed
    <3>2. b \in LiveIn(f) /\ x # b /\ LiveIn(f) = LiveIn(h) \cup {x} /\ x \notin LiveIn(h)
      BY <1>1, <3>1 DEF Gains
    <3>3. g = heap_allocator_deallocate(f, ptr, fail) /\ HeapInv(f)  BY <2>3
    <3>4. r.h = g /\ r.ptr = fresh.ptr /\ r.len = Effective(newSize)  BY <1>9, <2>5
    <3>5. x = Block(r.ptr, r.len)  BY <3>1, <3>2, <3>4, BlockShape
    <3> HIDE DEF f, g
    <3>6. Deallocating(f, b, ptr, fail, g)  BY <1>1, <3>2, <3>3 DEF Deallocating
    <3>7. HeapInv(g) /\ LiveIn(g) = LiveIn(f) \ {b}  BY <3>6, DeallocIs
    <3>8. Replaced(g, h, b, x)  BY <3>2, <3>7 DEF Replaced
    <3> QED  BY <2>5, <3>4, <3>5, <3>7, <3>8 DEF Refitted
  <2> QED  BY <2>4, <2>5
<1> HIDE DEF i, n, m, p, fresh, moved, freed
<1> QED  BY <1>4, <1>7, <1>8, <1>9

------------------------------------------------------------------------------
\* The heap that holds nothing, and the invariant of every heap.

\* The fields of the empty heap.
LEMMA EmptyFields ==
  /\ IsHeap(Empty) /\ Empty.pages = [b \in 0..(0 - 1) |-> EmptyBucket]
  /\ Empty.warm = [c \in Classes |-> None] /\ Empty.count = 0
  /\ Empty.recycle = << >> /\ Empty.recycleCap = 0 /\ Empty.xlUse = << >> /\ Empty.xlUseCap = 0
  /\ Empty.xlFreed = << >> /\ Empty.xlFreedCap = 0
  /\ Empty.retention = 0 /\ Empty.footprint = 0 /\ Empty.inUse = 0 /\ Empty.mapped = {}
<1>1. << >> = [b \in 0..(0 - 1) |-> EmptyBucket]
  <2>1. 0..(0 - 1) = {} /\ 1..0 = {}  OBVIOUS
  <2>2. << >> = [b \in {} |-> EmptyBucket]
    <3>1. << >> = [b \in 1..0 |-> EmptyBucket]  OBVIOUS
    <3> QED  BY <2>1, <3>1
  <2> QED  BY <2>1, <2>2
<1>2. Empty.pages = << >>  BY DEF Empty
<1> QED  BY <1>1, <1>2 DEF Empty, IsHeap

\* No array, no page.
LEMMA NoPages ==
  ASSUME NEW b \in Nat \ {0}
  PROVE  CeilDiv(0, b) = 0
<1>1. b - 1 \in Nat /\ b - 1 < b  OBVIOUS
<1>2. \A n \in Nat : n < b => n \div b = 0  OBVIOUS
<1>3. 0 + b - 1 = b - 1  OBVIOUS
<1> QED  BY <1>1, <1>2, <1>3 DEF CeilDiv

\* A list with nothing in it.
LEMMA NothingListed ==
  /\ Listed(<< >>) = {} /\ XLPages(<< >>) = {} /\ Stack(<< >>) /\ Parcels(<< >>) /\ Len(<< >>) = 0
  BY DEF Listed, XLPages, Stack, Parcels, Once, AllApart

\* The empty heap is well formed.
LEMMA EmptyIs == HeapInv(Empty)
<1> DEFINE h == Empty
           e == [p \in {} |-> 0]
<1>1. /\ IsHeap(h) /\ h.pages = [b \in 0..(0 - 1) |-> EmptyBucket]
      /\ h.warm = [c \in Classes |-> None] /\ h.count = 0
      /\ h.recycle = << >> /\ h.recycleCap = 0 /\ h.xlUse = << >> /\ h.xlUseCap = 0
      /\ h.xlFreed = << >> /\ h.xlFreedCap = 0
      /\ h.retention = 0 /\ h.footprint = 0 /\ h.inUse = 0 /\ h.mapped = {}
  BY EmptyFields
<1> HIDE DEF h
<1>2. Fresh(h, 0, {}, e)
  <2>1. e = Only(e, {})  BY DEF Only
  <2> HIDE DEF e
  <2> QED  BY <1>1, <2>1, FreshTable
<1>3. Cardinality({}) = 0 /\ IsFiniteSet({})  BY FS_EmptySet
<1>4. Cap(h) = 0
  <2>1. DOMAIN h.pages = 0..(0 - 1)  BY <1>1
  <2>2. 0..(0 - 1) = {}  OBVIOUS
  <2> QED  BY <1>3, <2>1, <2>2 DEF Cap
<1>5. Tabled(h, {}, e)
  <2>1. GoodPages({}, e)  BY DEF GoodPages
  <2> HIDE DEF e
  <2> QED  BY <1>1, <1>2, <1>3, <1>4, <2>1 DEF Tabled
<1>6. Stores(h, {})
  <2>1. /\ Listed(h.recycle) = {} /\ XLPages(h.xlUse) = {} /\ XLPages(h.xlFreed) = {}
        /\ Stack(h.recycle) /\ Parcels(h.xlUse) /\ Parcels(h.xlFreed)
        /\ Len(h.recycle) = 0 /\ Len(h.xlUse) = 0 /\ Len(h.xlFreed) = 0
    BY <1>1, NothingListed
  <2>2. Owned(h, {})  BY <1>1, <2>1 DEF Owned
  <2>3. Roomy(h)  BY <1>1, <2>1 DEF Roomy
  <2>4. PtrsPerPage \in Nat \ {0} /\ XLPerPage \in Nat \ {0} /\ DescsPerPage \in Nat \ {0}
    BY HeapAssumption
  <2>5. CeilDiv(h.recycleCap, PtrsPerPage) = 0 /\ CeilDiv(h.xlUseCap, XLPerPage) = 0
        /\ CeilDiv(h.xlFreedCap, XLPerPage) = 0 /\ CeilDiv(Cap(h), DescsPerPage) = 0
    BY <1>1, <1>4, <2>4, NoPages
  <2>6. ArrayPages(h) = 0 /\ TablePages(Cap(h)) = 0  BY <2>5 DEF ArrayPages, TablePages
  <2>7. Retained(h) = {}  BY <2>1 DEF Retained
  <2>8. Tallied(h)  BY <1>1, <1>3, <2>6, <2>7 DEF Tallied
  <2> QED  BY <1>1, <1>4, <2>2, <2>3, <2>8 DEF Stores
<1>7. Well(h, {}, e) /\ Spare({}, e)  BY <1>5, <1>6 DEF Well, Spare
<1>8. LiveIn(h) = {}
  <2>1. LiveIn(h) = ClassBlocks({}, e) \cup XLBlocks(Listed(h.xlUse))  BY <1>7, WellLive
  <2>2. ClassBlocks({}, e) = {}  BY DEF ClassBlocks
  <2>3. Listed(h.xlUse) = {}  BY <1>1, NothingListed
  <2>4. XLBlocks({}) = {}  BY DEF XLBlocks
  <2> QED  BY <2>1, <2>2, <2>3, <2>4
<1>9. Sound(h)  BY <1>7 DEF Sound
<1>10. AllBytes({}) = {}  BY DEF AllBytes
<1>11. Ledger(h)  BY <1>1, <1>3, <1>8, <1>10 DEF Ledger
<1> QED  BY <1>9, <1>11 DEF HeapInv, h

\* It has no blocks.
LEMMA EmptyLive == LiveIn(Empty) = {}
<1>1. Empty.xlUse = << >> /\ DOMAIN Empty.pages = {}
  <2>1. Empty.pages = [b \in 0..(0 - 1) |-> EmptyBucket]  BY EmptyFields
  <2>2. 0..(0 - 1) = {}  OBVIOUS
  <2>3. DOMAIN Empty.pages = 0..(0 - 1)  BY <2>1
  <2> QED  BY <2>2, <2>3, EmptyFields
<1>2. DOMAIN << >> = {}  OBVIOUS
<1> QED  BY <1>1, <1>2 DEF LiveIn

\* HeapAllocatorDeinit leaves no page with the kernel's, and no block.
LEMMA DeinitIs ==
  ASSUME NEW h, Sound(h), NEW g, g = HeapAllocatorDeinit(h)
  PROVE  g = Empty
<1>1. PICK D, cont : Well(h, D, cont)  BY DEF Sound
<1> DEFINE tables == {h.pages[b].page : b \in DOMAIN h.pages}
           parked == {h.recycle[i] : i \in DOMAIN h.recycle}
           gone == tables \cup parked \cup XLPages(h.xlUse) \cup XLPages(h.xlFreed)
<1>2. g = [Empty EXCEPT !.mapped = h.mapped \ gone]
  BY DEF HeapAllocatorDeinit, XLPages
<1>3. /\ h.mapped = D \cup Listed(h.recycle) \cup XLPages(h.xlUse) \cup XLPages(h.xlFreed)
      /\ Stack(h.recycle)
  BY <1>1 DEF Well, Stores, Owned
<1>4. D \subseteq tables
  <2>1. Fresh(h, Cap(h), D, cont)  BY <1>1 DEF Well, Tabled
  <2>2. /\ DOMAIN h.pages = 0..(Cap(h) - 1)
        /\ \A p \in D : /\ heap_hash_lookup(h, p) \in 0..(Cap(h) - 1)
                        /\ h.pages[heap_hash_lookup(h, p)].page = p
    BY <2>1, FreshReads
  <2> QED  BY <2>2
<1>5. Listed(h.recycle) = parked
  <2>1. DOMAIN h.recycle = 1..Len(h.recycle)  BY <1>3 DEF Stack
  <2> QED  BY <2>1 DEF Listed
<1>6. h.mapped \ gone = {}  BY <1>3, <1>4, <1>5
<1>7. Empty.mapped = {} /\ IsHeap(Empty)  BY EmptyFields
<1>8. g = [Empty EXCEPT !.mapped = {}]  BY <1>2, <1>6
<1> QED  BY <1>7, <1>8 DEF IsHeap

------------------------------------------------------------------------------
\* What the invariant says of the table and of the lists.

\* The shapes of the descriptors and of the counters.
LEMMA TypesHold ==
  ASSUME HeapInv(heap)
  PROVE  HeapTypeOK
<1>1. PICK D, cont : Well(heap, D, cont)  BY DEF HeapInv, Sound
<1>2. /\ Tabled(heap, D, cont) /\ Stores(heap, D) /\ Owned(heap, D) /\ Roomy(heap)
  BY <1>1 DEF Well, Stores
<1>3. Fresh(heap, Cap(heap), D, cont) /\ GoodPages(D, cont)  BY <1>2 DEF Tabled
<1>4. DOMAIN heap.pages = 0..Cap(heap) - 1  BY <1>3, FreshReads
<1>5. ASSUME NEW b \in Used
      PROVE  LET d == heap.pages[b]
             IN  /\ d.page \in heap.mapped /\ d.cls \in Classes
                 /\ TailBits(d.cls) \subseteq d.bits /\ d.bits \subseteq FullBitmap(d.cls)
  <2> DEFINE d == heap.pages[b]
             p == d.page
  <2>1. b \in 0..(Cap(heap) - 1) /\ p # None  BY <1>4 DEF Used, Full
  <2>2. p \in D /\ heap_hash_lookup(heap, p) = b  BY <1>3, <2>1, FreshReads
  <2>3. d.bits = cont[p].bits /\ d.cls = cont[p].cls  BY <1>3, <2>2, FreshReads
  <2>4. GoodPage(cont[p])  BY <1>3, <2>2 DEF GoodPages
  <2>5. p \in heap.mapped  BY <1>2, <2>2 DEF Owned
  <2>6. cont[p].cls \in Classes  BY <2>4 DEF GoodPage, Content
  <2> HIDE DEF p
  <2> QED  BY <2>3, <2>4, <2>5, <2>6 DEF GoodPage, p
<1>6. Len(heap.recycle) <= heap.recycleCap /\ Len(heap.xlUse) <= heap.xlUseCap
      /\ Len(heap.xlFreed) <= heap.xlFreedCap
  BY <1>2 DEF Roomy
<1>7. heap.retention \in Nat /\ heap.footprint \in Nat  BY <1>2, StoreFacts
<1>8. heap.inUse \in Nat
  <2>1. Blocks(LiveIn(heap))  BY <1>1, LiveBlocks
  <2>2. IsFiniteSet(AllBytes(LiveIn(heap)))  BY <2>1 DEF Blocks
  <2> QED  BY <2>2, FS_CardinalityType DEF HeapInv, Ledger
<1> QED  BY <1>4, <1>5, <1>6, <1>7, <1>8 DEF HeapTypeOK

\* Every page of the table is found, and half of the table is empty.
LEMMA FindableHolds ==
  ASSUME HeapInv(heap)
  PROVE  PagesFindable
<1>1. PICK D, cont : Well(heap, D, cont)  BY DEF HeapInv, Sound
<1>2. Tabled(heap, D, cont)  BY <1>1 DEF Well
<1>3. /\ Fresh(heap, Cap(heap), D, cont) /\ IsFiniteSet(D)
      /\ heap.count = Cardinality(D) /\ 2 * heap.count <= Cap(heap)
  BY <1>2, TabledFacts
<1> DEFINE cap == Cap(heap)
           loc == [p \in D |-> heap_hash_lookup(heap, p)]
<1>4. /\ DOMAIN heap.pages = 0..(cap - 1)
      /\ \A p \in D : loc[p] \in 0..(cap - 1) /\ heap.pages[loc[p]].page = p
      /\ \A b \in 0..(cap - 1) : heap.pages[b].page # None =>
            heap.pages[b].page \in D /\ heap_hash_lookup(heap, heap.pages[b].page) = b
  BY <1>3, FreshReads
<1>5. None \notin D
  <2>1. D \subseteq Pages  BY <1>2, TabledFacts
  <2> QED  BY <2>1, NoneIsNoPage
<1>6. \A b \in Used : heap_hash_lookup(heap, heap.pages[b].page) = b
  BY <1>4 DEF Used, Full
<1>7. Used = {loc[p] : p \in D}
  <2>1. \A p \in D : loc[p] \in Used  BY <1>4, <1>5 DEF Used, Full
  <2>2. \A b \in Used : heap.pages[b].page \in D /\ loc[heap.pages[b].page] = b  BY <1>4 DEF Used, Full
  <2> HIDE DEF loc
  <2> QED  BY <2>1, <2>2
<1>8. \A p, q \in D : loc[p] = loc[q] => p = q
  <2> HIDE DEF loc
  <2> QED  BY <1>4
<1> HIDE DEF loc
<1>9. Cardinality(Used) = Cardinality(D)  BY <1>3, <1>7, <1>8, AsMany
<1> QED  BY <1>3, <1>6, <1>9, TypesHold DEF PagesFindable

\* A class has one page without live slots at most, and the counts are right.
LEMMA SpareHolds ==
  ASSUME HeapInv(heap)
  PROVE  OneSparePage
<1>1. PICK D, cont : Well(heap, D, cont) /\ Spare(D, cont)  BY DEF HeapInv, Sound
<1>2. Tabled(heap, D, cont)  BY <1>1 DEF Well
<1>3. Fresh(heap, Cap(heap), D, cont) /\ GoodPages(D, cont)  BY <1>2, TabledFacts
<1>4. ASSUME NEW b \in Used
      PROVE  \E p \in D : /\ heap_hash_lookup(heap, p) = b /\ heap.pages[b].bits = cont[p].bits
                          /\ heap.pages[b].used = cont[p].used /\ heap.pages[b].cls = cont[p].cls
  <2> DEFINE p == heap.pages[b].page
  <2>1. b \in 0..(Cap(heap) - 1) /\ p # None  BY <1>3, FreshReads DEF Used, Full
  <2>2. p \in D /\ heap_hash_lookup(heap, p) = b  BY <1>3, <2>1, FreshReads
  <2>3. heap.pages[b].bits = cont[p].bits /\ heap.pages[b].used = cont[p].used
        /\ heap.pages[b].cls = cont[p].cls
    BY <1>3, <2>2, FreshReads
  <2> QED  BY <2>2, <2>3
<1>5. ASSUME NEW b \in Used
      PROVE  heap.pages[b].used = Cardinality(heap.pages[b].bits \ TailBits(heap.pages[b].cls))
  <2>1. PICK p \in D : /\ heap.pages[b].bits = cont[p].bits
                       /\ heap.pages[b].used = cont[p].used /\ heap.pages[b].cls = cont[p].cls
    BY <1>4
  <2>2. cont[p].used = Cardinality(cont[p].bits \ TailBits(cont[p].cls))
    BY <1>3 DEF GoodPages, GoodPage
  <2> QED  BY <2>1, <2>2
<1>6. ASSUME NEW b \in Used, NEW d \in Used, heap.pages[b].used = 0, heap.pages[d].used = 0,
             heap.pages[b].cls = heap.pages[d].cls
      PROVE  b = d
  <2>1. PICK p \in D : /\ heap_hash_lookup(heap, p) = b /\ heap.pages[b].used = cont[p].used
                       /\ heap.pages[b].cls = cont[p].cls
    BY <1>4
  <2>2. PICK q \in D : /\ heap_hash_lookup(heap, q) = d /\ heap.pages[d].used = cont[q].used
                       /\ heap.pages[d].cls = cont[q].cls
    BY <1>4
  <2>3. p = q  BY <1>1, <1>6, <2>1, <2>2 DEF Spare
  <2> QED  BY <2>1, <2>2, <2>3
<1> QED  BY <1>5, <1>6 DEF OneSparePage

\* The first n links of a list, from its head.
Chained(c, s, at, n) ==
    /\ n = Cap(heap) /\ n \in Nat /\ Len(s) \in Nat /\ Len(s) <= n
    /\ heap.warm[c] = IF Len(s) = 0 THEN None ELSE at[s[1]]
    /\ \A k \in 1..Len(s) :
          /\ at[s[k]] # None
          /\ heap.pages[at[s[k]]].next = IF k = Len(s) THEN None ELSE at[s[k + 1]]

\* A walk along the list meets its members, one after the other.
LEMMA WalkIs ==
  ASSUME NEW c, NEW s, NEW at, NEW n, Chained(c, s, at, n)
  PROVE  WarmWalk(c) = [k \in 0..n |-> IF k < Len(s) THEN at[s[k + 1]] ELSE None]
<1> DEFINE Next1(v) == IF v = None THEN None ELSE heap.pages[v].next
           Runs(f) == f = [k \in 0..n |-> IF k = 0 THEN heap.warm[c]
                                         ELSE IF f[k - 1] = None THEN None ELSE heap.pages[f[k - 1]].next]
           sol == [k \in 0..n |-> IF k < Len(s) THEN at[s[k + 1]] ELSE None]
           walk == CHOOSE f : Runs(f)
<1>1. WarmWalk(c) = walk
  <2>1. n = Cap(heap)  BY DEF Chained
  <2> QED  BY <2>1 DEF WarmWalk
<1>2. n \in Nat /\ Len(s) \in Nat /\ Len(s) <= n  BY DEF Chained
<1>3. sol[0] = heap.warm[c]
  <2>1. 0 \in 0..n /\ 0 + 1 = 1 /\ (0 < Len(s) <=> Len(s) # 0)  BY <1>2
  <2> QED  BY <2>1 DEF Chained
<1>4. ASSUME NEW k \in 1..n PROVE sol[k] = Next1(sol[k - 1])
  <2>1. k \in 0..n /\ k - 1 \in 0..n /\ (k - 1) + 1 = k  BY <1>2
  <2>2. sol[k - 1] = IF k - 1 < Len(s) THEN at[s[k]] ELSE None  BY <2>1
  <2>3. sol[k] = IF k < Len(s) THEN at[s[k + 1]] ELSE None  BY <2>1
  <2> HIDE DEF sol
  <2>4. CASE k - 1 < Len(s)
    <3>1. k \in 1..Len(s)  BY <1>2, <2>4
    <3>2. /\ at[s[k]] # None
          /\ heap.pages[at[s[k]]].next = IF k = Len(s) THEN None ELSE at[s[k + 1]]
      BY <3>1 DEF Chained
    <3>3. k < Len(s) <=> k # Len(s)  BY <1>2, <3>1
    <3> QED  BY <2>2, <2>3, <2>4, <3>2, <3>3
  <2>5. CASE ~(k - 1 < Len(s))
    <3>1. ~(k < Len(s))  BY <1>2, <2>5
    <3> QED  BY <2>2, <2>3, <2>5, <3>1
  <2> QED  BY <2>4, <2>5
<1>5. Runs(sol)
  <2>1. \A k \in 0..n : k # 0 => k \in 1..n  BY <1>2
  <2>2. DOMAIN sol = 0..n  OBVIOUS
  <2>3. sol = [k \in 0..n |-> sol[k]]  OBVIOUS
  <2> HIDE DEF sol
  <2>4. \A k \in 0..n : sol[k] = IF k = 0 THEN heap.warm[c]
                                 ELSE IF sol[k - 1] = None THEN None ELSE heap.pages[sol[k - 1]].next
    BY <1>3, <1>4, <2>1
  <2> QED  BY <2>3, <2>4
<1> HIDE DEF Runs
<1>6. Runs(walk)  BY <1>5
<1> USE DEF Runs
<1>7. /\ DOMAIN walk = 0..n /\ walk[0] = heap.warm[c] /\ walk = [k \in 0..n |-> walk[k]]
      /\ \A k \in 1..n : walk[k] = Next1(walk[k - 1])
  <2> HIDE DEF walk
  <2>1. \A k \in 1..n : k \in 0..n /\ k # 0  BY <1>2
  <2>2. 0 \in 0..n  BY <1>2
  <2> QED  BY <1>6, <2>1, <2>2
<1>8. sol = [k \in 0..n |-> sol[k]]  OBVIOUS
<1> HIDE DEF walk, sol, Runs, Next1
<1> DEFINE T == {k \in Nat : k <= n => walk[k] = sol[k]}
<1>9. 0 \in T  BY <1>3, <1>7
<1>10. ASSUME NEW k \in Nat, k \in T PROVE k + 1 \in T
  <2>1. SUFFICES ASSUME k + 1 <= n PROVE walk[k + 1] = sol[k + 1]  OBVIOUS
  <2>2. k + 1 \in 1..n /\ (k + 1) - 1 = k /\ k <= n  BY <1>2, <2>1
  <2>3. walk[k] = sol[k]  BY <1>10, <2>2
  <2>4. walk[k + 1] = Next1(walk[k]) /\ sol[k + 1] = Next1(sol[k])  BY <1>4, <1>7, <2>2
  <2> QED  BY <2>3, <2>4
<1> HIDE DEF T
<1>11. Nat \subseteq T  BY <1>9, <1>10, SetInduction
<1>12. \A k \in 0..n : walk[k] = sol[k]
  <2>1. \A k \in 0..n : k \in T /\ k <= n  BY <1>2, <1>11
  <2> QED  BY <2>1 DEF T
<1>13. walk = sol  BY <1>7, <1>8, <1>12
<1> QED  BY <1>1, <1>13 DEF sol

\* The warm lists are exact.
LEMMA WarmHolds ==
  ASSUME HeapInv(heap)
  PROVE  WarmListsExact
<1>1. PICK D, cont : Well(heap, D, cont)  BY DEF HeapInv, Sound
<1>2. Tabled(heap, D, cont)  BY <1>1 DEF Well
<1> DEFINE cap == Cap(heap)
<1>3. /\ Fresh(heap, cap, D, cont) /\ cap \in Nat /\ IsFiniteSet(D) /\ Cardinality(D) \in Nat
      /\ Cardinality(D) <= cap
  BY <1>2, TabledFacts
<1>4. PICK at, w : TableIs(heap, cap, D, at, cont, w) /\ WarmExact(D, cont, w)
  BY <1>3 DEF Fresh
<1>5. SUFFICES ASSUME NEW c \in Classes
               PROVE  LET walk == WarmWalk(c)
                          list == {walk[k] : k \in DOMAIN walk} \ {None}
                      IN  /\ list = {b \in Used : heap.pages[b].cls = c /\ heap.pages[b].used < Slots(c)}
                          /\ walk[cap] = None
                          /\ \A b \in list :
                                LET d == heap.pages[b]
                                IN  /\ d.next # None => heap.pages[d.next].prev = b
                                    /\ (d.prev = None) <=> (heap.warm[c] = b)
                          /\ \A b \in Used \ list :
                                heap.pages[b].cls = c => heap.pages[b].prev = None /\ heap.pages[b].next = None
  BY SpareHolds DEF WarmListsExact
<1> DEFINE s == w[c]
           n == Len(s)
           walk == WarmWalk(c)
           list == {walk[k] : k \in DOMAIN walk} \ {None}
<1>6. /\ s \in Seq(D) /\ n \in Nat
      /\ \A j, k \in 1..n : s[j] = s[k] => j = k
      /\ heap.warm[c] = IF n = 0 THEN None ELSE at[s[1]]
      /\ \A k \in 1..n :
            /\ s[k] \in D /\ cont[s[k]].cls = c
            /\ heap.pages[at[s[k]]].next = IF k = n THEN None ELSE at[s[k + 1]]
            /\ heap.pages[at[s[k]]].prev = IF k = 1 THEN None ELSE at[s[k - 1]]
      /\ \A p \in D : Unlisted(cont, w, p) => heap.pages[at[p]].prev = None /\ heap.pages[at[p]].next = None
  BY <1>4, TableLists
<1>7. /\ DOMAIN heap.pages = 0..(cap - 1) /\ None \notin D
      /\ at \in [D -> 0..(cap - 1)] /\ \A p, q \in D : at[p] = at[q] => p = q
      /\ \A p \in D : /\ heap.pages[at[p]].page = p /\ heap.pages[at[p]].used = cont[p].used
                      /\ heap.pages[at[p]].cls = cont[p].cls
      /\ \A b \in 0..(cap - 1) : heap.pages[b].page # None =>
            heap.pages[b].page \in D /\ at[heap.pages[b].page] = b
  BY <1>4, TableReads
<1>8. \A p \in D : at[p] # None /\ at[p] \in Used
  <2>1. \A v \in 0..(cap - 1) : v # None  BY <1>3 DEF None
  <2> QED  BY <1>7, <2>1 DEF Used, Full
<1>9. n <= cap
  <2> DEFINE L == Listed(s)
             S == 1..n
  <2>1. L = {s[k] : k \in S}  BY DEF Listed
  <2>2. IsFiniteSet(S) /\ Cardinality(S) = n
    <3>1. 1 \in Nat /\ n - 1 + 1 = n  BY <1>6
    <3> HIDE DEF n
    <3>2. Cardinality(1..n) = IF 1 > n THEN 0 ELSE n - 1 + 1  BY <1>6, FS_Interval
    <3>3. (1 > n) => n = 0  BY <1>6
    <3> QED  BY <1>6, <3>1, <3>2, <3>3, FS_Interval
  <2>3. \A j, k \in S : s[j] = s[k] => j = k  BY <1>6
  <2>4. L \in SUBSET D  BY <1>6 DEF Listed
  <2> HIDE DEF L, S, n, s
  <2>5. Cardinality(L) = n  BY <2>1, <2>2, <2>3, AsMany
  <2>6. Cardinality(L) <= Cardinality(D)  BY <1>3, <2>4, FS_Subset
  <2> HIDE DEF cap
  <2> QED  BY <1>3, <1>6, <2>5, <2>6
<1>10. walk = [k \in 0..cap |-> IF k < n THEN at[s[k + 1]] ELSE None]
  <2>1. Chained(c, s, at, cap)  BY <1>3, <1>6, <1>8, <1>9 DEF Chained
  <2> HIDE DEF s
  <2> QED  BY <2>1, WalkIs
<1> HIDE DEF walk
<1>11. DOMAIN walk = 0..cap /\ \A k \in 0..cap : walk[k] = IF k < n THEN at[s[k + 1]] ELSE None
  BY <1>10
<1>12. list = {at[s[k]] : k \in 1..n}
  <2> HIDE DEF s, n, cap
  <2>1. \A k \in 1..n : at[s[k]] # None /\ k - 1 \in 0..cap /\ walk[k - 1] = at[s[k]]
    <3>1. ASSUME NEW k \in 1..n PROVE k - 1 \in 0..cap /\ k - 1 < n /\ (k - 1) + 1 = k
      BY <1>3, <1>6, <1>9
    <3> QED  BY <1>6, <1>8, <1>11, <3>1
  <2>2. ASSUME NEW k \in 0..cap, walk[k] # None PROVE \E j \in 1..n : walk[k] = at[s[j]]
    <3>1. k < n /\ walk[k] = at[s[k + 1]]  BY <1>11, <2>2
    <3>2. k + 1 \in 1..n  BY <1>3, <1>6, <3>1
    <3> QED  BY <3>1, <3>2
  <2> QED  BY <1>11, <2>1, <2>2
<1> HIDE DEF list
<1>13. \A p \in D : p \in Listed(s) <=> cont[p].cls = c /\ cont[p].used < Slots(c)
  <2>1. ASSUME NEW p \in D, p \in Listed(s) PROVE cont[p].cls = c /\ cont[p].used < Slots(c)
    <3>1. PICK k \in 1..n : p = s[k]  BY <2>1 DEF Listed
    <3>2. cont[p].cls = c  BY <1>6, <3>1
    <3>3. ~Unlisted(cont, w, p)  BY <2>1, <3>2 DEF Unlisted
    <3> QED  BY <1>4, <3>2, <3>3 DEF WarmExact
  <2>2. ASSUME NEW p \in D, cont[p].cls = c, cont[p].used < Slots(c) PROVE p \in Listed(s)
    <3>1. ~Unlisted(cont, w, p)  BY <1>4, <2>2 DEF WarmExact
    <3> QED  BY <2>2, <3>1 DEF Unlisted
  <2> QED  BY <2>1, <2>2
<1>14. Used = {at[p] : p \in D}  BY <1>7, <1>8 DEF Used, Full
<1>15. list = {b \in Used : heap.pages[b].cls = c /\ heap.pages[b].used < Slots(c)}
  <2>1. list = {at[p] : p \in Listed(s)}  BY <1>12 DEF Listed
  <2>2. Listed(s) \subseteq D  BY <1>6 DEF Listed
  <2> HIDE DEF s
  <2> QED  BY <1>7, <1>13, <1>14, <2>1, <2>2
<1>16. walk[cap] = None
  <2>1. cap \in 0..cap /\ ~(cap < n)  BY <1>3, <1>6, <1>9
  <2> QED  BY <1>11, <2>1
<1>17. ASSUME NEW b \in list
       PROVE  /\ heap.pages[b].next # None => heap.pages[heap.pages[b].next].prev = b
              /\ (heap.pages[b].prev = None) <=> (heap.warm[c] = b)
  <2>1. PICK k \in 1..n : b = at[s[k]]  BY <1>12
  <2> HIDE DEF s, n
  <2>2. ASSUME k # n PROVE heap.pages[at[s[k + 1]]].prev = b
    <3> DEFINE j == k + 1
    <3>1. j \in 1..n /\ j # 1 /\ j - 1 = k  BY <1>6, <2>2
    <3> HIDE DEF j
    <3>2. heap.pages[at[s[j]]].prev = at[s[j - 1]]  BY <1>6, <3>1
    <3> QED  BY <2>1, <3>1, <3>2 DEF j
  <2>3. heap.pages[b].next # None => heap.pages[heap.pages[b].next].prev = b  BY <1>6, <2>1, <2>2
  <2>4. 1 \in 1..n /\ n # 0  BY <1>6
  <2>5. heap.warm[c] = at[s[1]]  BY <1>6, <2>4
  <2>6. CASE k = 1  BY <1>6, <2>1, <2>3, <2>5, <2>6
  <2>7. CASE k # 1
    <3>1. k - 1 \in 1..n  BY <1>6, <2>7
    <3>2. heap.pages[b].prev = at[s[k - 1]] /\ at[s[k - 1]] # None  BY <1>6, <1>8, <2>1, <2>7, <3>1
    <3>3. at[s[1]] # at[s[k]]  BY <1>6, <1>7, <2>4, <2>7
    <3> QED  BY <2>1, <2>3, <2>5, <3>2, <3>3
  <2> QED  BY <2>3, <2>6, <2>7
<1>18. ASSUME NEW b \in Used \ list, heap.pages[b].cls = c
       PROVE  heap.pages[b].prev = None /\ heap.pages[b].next = None
  <2>1. PICK p \in D : b = at[p]  BY <1>14
  <2>2. p \notin Listed(s)
    <3>1. list = {at[q] : q \in Listed(s)}  BY <1>12 DEF Listed
    <3> QED  BY <1>18, <2>1, <3>1
  <2>3. cont[p].cls = c  BY <1>7, <1>18, <2>1
  <2>4. Unlisted(cont, w, p)  BY <2>2, <2>3 DEF Unlisted
  <2> QED  BY <1>6, <2>1, <2>4
<1> HIDE DEF s, n, cap
<1> QED  BY <1>15, <1>16, <1>17, <1>18 DEF list, walk

------------------------------------------------------------------------------
\* What the invariant says of the pages, the counters and the callers' blocks.

\* The pages of the model and of the proof.
LEMMA PlacesAre ==
  ASSUME NEW D, NEW cont, Well(heap, D, cont)
  PROVE  UserPages = D /\ Parked = Listed(heap.recycle)
<1>1. Tabled(heap, D, cont) /\ Stores(heap, D)  BY DEF Well
<1>2. Fresh(heap, Cap(heap), D, cont)  BY <1>1 DEF Tabled
<1>3. /\ DOMAIN heap.pages = 0..(Cap(heap) - 1)
      /\ \A p \in D : /\ heap_hash_lookup(heap, p) \in 0..(Cap(heap) - 1)
                      /\ heap.pages[heap_hash_lookup(heap, p)].page = p
      /\ \A b \in 0..(Cap(heap) - 1) : heap.pages[b].page # None => heap.pages[b].page \in D
  BY <1>2, FreshReads
<1>4. None \notin D
  <2>1. D \subseteq Pages  BY <1>1, TabledFacts
  <2> QED  BY <2>1, NoneIsNoPage
<1>5. UserPages = D
  <2>1. \A p \in D : p \in UserPages
    <3>1. ASSUME NEW p \in D PROVE \E b \in Used : heap.pages[b].page = p
      <4>1. heap_hash_lookup(heap, p) \in Used  BY <1>3, <1>4 DEF Used, Full
      <4> QED  BY <1>3, <4>1
    <3> QED  BY <3>1 DEF UserPages
  <2>2. \A b \in Used : heap.pages[b].page \in D  BY <1>3 DEF Used, Full
  <2> QED  BY <2>1, <2>2 DEF UserPages
<1>6. Parked = Listed(heap.recycle)
  <2>1. Stack(heap.recycle)  BY <1>1 DEF Stores, Owned
  <2>2. DOMAIN heap.recycle = 1..Len(heap.recycle)  BY <2>1 DEF Stack
  <2> QED  BY <2>2 DEF Parked, Listed
<1> QED  BY <1>5, <1>6

\* Every page is in one place.
LEMMA PagesHold ==
  ASSUME HeapInv(heap)
  PROVE  EveryPageOwnedOnce
<1>1. PICK D, cont : Well(heap, D, cont)  BY DEF HeapInv, Sound
<1>2. UserPages = D /\ Parked = Listed(heap.recycle)  BY <1>1, PlacesAre
<1>3. Owned(heap, D) /\ Tabled(heap, D, cont)  BY <1>1 DEF Well, Stores
<1>4. Apart(heap.xlUse) /\ Apart(heap.xlFreed)  BY <1>3, ParcelsFacts DEF Owned
<1>5. \A i, j \in DOMAIN heap.recycle : heap.recycle[i] = heap.recycle[j] => i = j
  BY <1>3 DEF Owned, Stack
<1>6. ASSUME NEW b \in Used, NEW d \in Used, heap.pages[b].page = heap.pages[d].page PROVE b = d
  <2>1. PagesFindable  BY FindableHolds
  <2> QED  BY <1>6, <2>1 DEF PagesFindable
<1> QED  BY <1>2, <1>3, <1>4, <1>5, <1>6 DEF EveryPageOwnedOnce, Owned

\* The counters are exact.
LEMMA CountersHold ==
  ASSUME HeapInv(heap), held = Live
  PROVE  CountersExact
<1>1. PICK D, cont : Well(heap, D, cont)  BY DEF HeapInv, Sound
<1>2. Parked = Listed(heap.recycle)  BY <1>1, PlacesAre
<1>3. Stores(heap, D) /\ Tallied(heap)  BY <1>1 DEF Well, Stores
<1>4. /\ Cardinality(heap.mapped) \in Nat /\ TablePages(Cap(heap)) \in Nat
      /\ CeilDiv(heap.recycleCap, PtrsPerPage) \in Nat
      /\ CeilDiv(heap.xlUseCap, XLPerPage) \in Nat /\ CeilDiv(heap.xlFreedCap, XLPerPage) \in Nat
  BY <1>3, StoreFacts
<1>5. heap.footprint = Cardinality(heap.mapped) + TablePages(Cap(heap))
                       + CeilDiv(heap.recycleCap, PtrsPerPage)
                       + CeilDiv(heap.xlUseCap, XLPerPage) + CeilDiv(heap.xlFreedCap, XLPerPage)
  <2> DEFINE a == Cardinality(heap.mapped)
             t == TablePages(Cap(heap))
             r == CeilDiv(heap.recycleCap, PtrsPerPage)
             u == CeilDiv(heap.xlUseCap, XLPerPage)
             f == CeilDiv(heap.xlFreedCap, XLPerPage)
  <2>1. heap.footprint = a + t + (r + u + f)  BY <1>3 DEF Tallied, ArrayPages
  <2>2. a \in Nat /\ t \in Nat /\ r \in Nat /\ u \in Nat /\ f \in Nat  BY <1>4
  <2> HIDE DEF a, t, r, u, f
  <2>3. heap.footprint = a + t + r + u + f  BY <2>1, <2>2
  <2> QED  BY <2>3 DEF a, t, r, u, f
<1>6. heap.retention = Cardinality(Parked \cup XLPages(heap.xlFreed))
  BY <1>2, <1>3 DEF Tallied, Retained
<1>7. heap.inUse = Cardinality(UNION {b.addr..b.addr + b.len - 1 : b \in held})
  BY DEF HeapInv, Ledger, AllBytes, Bytes, Live
<1> QED  BY <1>5, <1>6, <1>7 DEF CountersExact

\* A resize in place has room.
LEMMA ResizeHolds ==
  ASSUME HeapInv(heap), held = Live
  PROVE  ResizeFits
<1>1. PICK D, cont : Well(heap, D, cont)  BY DEF HeapInv, Sound
<1>2. SUFFICES ASSUME NEW b \in held, NEW n \in Sizes, ResizeOK(heap, b.addr, n)
               PROVE  n <= b.len
  BY DEF ResizeFits
<1> DEFINE ptr == b.addr
           r == Recover(heap, ptr)
<1>3. n \in Nat \ {0}  BY HeapAssumption
<1>4. AtRegion(heap, ptr, b) \/ AtSlot(heap, D, cont, ptr, b)
  <2>1. b \in LiveIn(heap)  BY DEF Live
  <2> QED  BY <1>1, <2>1, BlockFound
<1>5. CASE AtRegion(heap, ptr, b)
  <2>1. PICK s, i : /\ s = heap.xlUse /\ i \in 1..Len(s) /\ b = XLBlock(s[i])
                    /\ r = [xl |-> i, bucket |-> None, size |-> b.len]
    BY <1>5 DEF AtRegion
  <2>2. i # None
    <3>1. i \in Nat \/ i \notin Int  BY <2>1
    <3> QED  BY <3>1 DEF None
  <2>3. heap.xlUse[r.xl].n = OsPages(n)  BY <1>2, <2>1, <2>2 DEF ResizeOK
  <2>4. b.len = OsPages(n) * PageSize  BY <2>1, <2>3 DEF XLBlock
  <2> QED  BY <1>3, <2>4, RoundedUp
<1>6. CASE AtSlot(heap, D, cont, ptr, b)
  <2>1. r.xl = None /\ r.size = b.len
    <3>1. \E p \in D : r = [xl |-> None, bucket |-> heap_hash_lookup(heap, p), size |-> b.len]
      BY <1>6 DEF AtSlot
    <3> QED  BY <3>1
  <2>2. ~IsXL(n) /\ SlotSize[ClassFor(n)] = b.len  BY <1>2, <2>1 DEF ResizeOK
  <2> QED  BY <1>3, <2>2, RoundedUp
<1> QED  BY <1>4, <1>5, <1>6

\* Addresses are numbers.
LEMMA AddressesAre == Addresses \subseteq Nat
<1>1. Pages \subseteq Nat /\ PageSize \in Nat  BY HeapAssumption
<1>2. ASSUME NEW p \in Pages, NEW k \in 0..PageSize - 1 PROVE p * PageSize + k \in Nat
  <2>1. p \in Nat /\ PageSize \in Nat /\ k \in Nat  BY <1>1
  <2>2. p * PageSize \in Nat  BY <2>1
  <2> QED  BY <2>1, <2>2
<1> QED  BY <1>2 DEF Addresses

\* A free takes the block it was given.
LEMMA FreesHold ==
  ASSUME HeapInv(heap), held = Live
  PROVE  FreesItsBlock
<1>1. PICK D, cont : Well(heap, D, cont)  BY DEF HeapInv, Sound
<1>2. SUFFICES ASSUME NEW ptr \in Addresses, NEW fail \in SUBSET {"free"}, Freeable(heap, ptr)
               PROVE  \E b \in held :
                         /\ b.addr = ptr
                         /\ LiveIn(heap_allocator_deallocate(heap, ptr, fail)) = held \ {b}
  BY DEF FreesItsBlock
<1>3. ptr \in Nat  BY AddressesAre
<1>4. PICK b \in LiveIn(heap) : b.addr = ptr  BY <1>1, <1>2, <1>3, FreeableIs
<1> DEFINE g == heap_allocator_deallocate(heap, ptr, fail)
<1>5. Deallocating(heap, b, ptr, fail, g)  BY <1>4 DEF Deallocating
<1> HIDE DEF g
<1>6. LiveIn(g) = LiveIn(heap) \ {b}  BY <1>5, DeallocIs
<1> QED  BY <1>4, <1>6 DEF Live, g

------------------------------------------------------------------------------
\* The theorems.

\* What a step does to the blocks.
Dealt(g, h) ==
    \/ LiveIn(g) = LiveIn(h)
    \/ \E x : Gains(g, h, x)
    \/ \E b \in LiveIn(h) : LiveIn(g) = LiveIn(h) \ {b}
    \/ \E b \in LiveIn(h) : \E d : Replaced(g, h, b, d)
    \/ LiveIn(g) = {}

\* Two blocks have two addresses.
LEMMA OneAddress ==
  ASSUME NEW B, Blocks(B), NEW a \in B, NEW b \in B, a.addr = b.addr
  PROVE  a = b
<1>1. SUFFICES ASSUME a # b PROVE FALSE  OBVIOUS
<1>2. a.addr \in Nat /\ a.len \in Nat /\ a.len > 0 /\ b.len \in Nat /\ b.len > 0  BY DEF Blocks
<1>3. a.addr \in a.addr..(a.addr + a.len - 1) /\ b.addr \in b.addr..(b.addr + b.len - 1)  BY <1>2
<1>4. Bytes(a) \cap Bytes(b) = {}  BY <1>1 DEF Blocks
<1> QED  BY <1>3, <1>4 DEF Bytes

\* A step leaves a well formed heap and deals with one block at most, the one
\* its callers know of.
LEMMA StepIs ==
  ASSUME HeapInv(heap), held = Live, Next
  PROVE  HeapInv(heap') /\ held' = LiveIn(heap') /\ Dealt(heap', heap)
<1> DEFINE Done == HeapInv(heap') /\ held' = LiveIn(heap') /\ Dealt(heap', heap)
<1> HIDE DEF Done
<1>1. \A at \in Places : at \in Pages \cup {None}  BY DEF Places
<1>2. Sizes \subseteq Nat \ {0} /\ held = LiveIn(heap)  BY HeapAssumption DEF Live
<1>3. ASSUME NEW bytes \in Sizes, NEW at \in Places, NEW fail \in SUBSET {"alloc"}, Allocate(bytes, at, fail)
      PROVE  Done
  <2> DEFINE r == heap_allocator_allocate(heap, bytes, at, fail)
  <2>1. /\ heap' = r.h
        /\ held' = IF r.ptr = None THEN held ELSE held \cup {Block(r.ptr, Effective(bytes))}
    BY <1>3 DEF Allocate
  <2>2. Allocating(heap, bytes, at, fail, r)  BY <1>1, <1>2 DEF Allocating
  <2> HIDE DEF r
  <2>3. Allocated(heap, bytes, r)  BY <2>2, AllocIs
  <2>4. CASE r.ptr = None
    <3>1. HeapInv(r.h) /\ LiveIn(r.h) = LiveIn(heap)  BY <2>3, <2>4 DEF Allocated
    <3> QED  BY <1>2, <2>1, <2>4, <3>1 DEF Dealt, Done
  <2>5. CASE r.ptr # None
    <3>1. PICK x : Gains(r.h, heap, x) /\ x.addr = r.ptr /\ x.len = Effective(bytes)
      BY <2>3, <2>5 DEF Allocated
    <3>2. HeapInv(r.h)  BY <2>3 DEF Allocated
    <3>3. x \in LiveIn(r.h) /\ LiveIn(r.h) = LiveIn(heap) \cup {x}  BY <3>1 DEF Gains
    <3>4. x = Block(r.ptr, Effective(bytes))  BY <3>1, <3>3, BlockShape
    <3> QED  BY <1>2, <2>1, <2>5, <3>1, <3>2, <3>3, <3>4 DEF Dealt, Done
  <2> QED  BY <2>4, <2>5
<1>4. ASSUME NEW ptr \in Addresses, NEW fail \in SUBSET {"free"}, Deallocate(ptr, fail)
      PROVE  Done
  <2>1. PICK D, cont : Well(heap, D, cont)  BY DEF HeapInv, Sound
  <2>2. ptr \in Nat /\ Freeable(heap, ptr)  BY <1>4, AddressesAre DEF Deallocate
  <2>3. PICK b \in LiveIn(heap) : b.addr = ptr  BY <2>1, <2>2, FreeableIs
  <2> DEFINE g == heap_allocator_deallocate(heap, ptr, fail)
  <2>4. heap' = g /\ held' = {a \in held : a.addr # ptr}  BY <1>4 DEF Deallocate
  <2>5. Deallocating(heap, b, ptr, fail, g)  BY <2>3 DEF Deallocating
  <2> HIDE DEF g
  <2>6. HeapInv(g) /\ LiveIn(g) = LiveIn(heap) \ {b}  BY <2>5, DeallocIs
  <2>7. \A a \in LiveIn(heap) : a.addr = ptr => a = b  BY <2>3, OneAddress, SoundBlocks DEF HeapInv
  <2>8. held' = LiveIn(heap) \ {b}  BY <1>2, <2>3, <2>4, <2>7
  <2> QED  BY <2>3, <2>4, <2>6, <2>8 DEF Dealt, Done
<1>5. ASSUME NEW b \in held, NEW newSize \in Sizes, NEW at \in Places \cup {b.addr \div PageSize},
             NEW fail, Remap(b, newSize, at, fail)
      PROVE  Done
  <2>1. b \in LiveIn(heap) /\ Sound(heap)  BY <1>2 DEF HeapInv
  <2>2. at \in Pages \cup {None}  BY <1>1, <2>1, BlockPage
  <2> DEFINE r == heap_allocator_remap(heap, b.addr, newSize, at, fail)
             ptr == b.addr
             d == Block(r.ptr, r.len)
  <2>3. heap' = r.h /\ held' = IF r.ptr = None THEN held ELSE (held \ {b}) \cup {d}
    BY <1>5 DEF Remap
  <2>4. Remapping(heap, b, ptr, newSize, at, fail, r)  BY <1>2, <2>1, <2>2 DEF Remapping
  <2> HIDE DEF r, ptr
  <2>5. Refitted(r, heap, b)  BY <2>4, RemapIs
  <2>6. HeapInv(r.h)  BY <2>5 DEF Refitted
  <2>7. CASE r.ptr = None /\ LiveIn(r.h) = LiveIn(heap)
    BY <1>2, <2>3, <2>6, <2>7 DEF Dealt, Done
  <2>8. CASE r.ptr # None /\ b = d /\ LiveIn(r.h) = LiveIn(heap)
    <3> HIDE DEF d
    <3>1. (held \ {b}) \cup {d} = held  BY <2>8
    <3> QED  BY <1>2, <2>3, <2>6, <2>8, <3>1 DEF Dealt, Done
  <2>9. CASE r.ptr # None /\ Replaced(r.h, heap, b, d)
    <3> HIDE DEF d
    <3>1. held' = LiveIn(r.h)  BY <1>2, <2>3, <2>9 DEF Replaced
    <3> QED  BY <2>1, <2>3, <2>6, <2>9, <3>1 DEF Dealt, Done
  <2> QED  BY <2>5, <2>7, <2>8, <2>9 DEF Refitted
<1>6. CASE Deinit
  <2>1. heap' = Empty /\ held' = {}  BY <1>6, DeinitIs DEF Deinit, HeapInv
  <2> QED  BY <2>1, EmptyIs, EmptyLive DEF Dealt, Done
<1> QED  BY <1>3, <1>4, <1>5, <1>6 DEF Next, Done

\* The inductive invariant of the heap.
IInv == HeapInv(heap) /\ held = Live

\* The heap is well formed for ever and its books show the callers' blocks,
\* whatever is asked of it and whatever the kernel refuses.
THEOREM Inductive == Spec => []IInv
<1>1. Init => IInv  BY EmptyIs, EmptyLive DEF Init, IInv, Live
<1>2. IInv /\ [Next]_vars => IInv'
  <2> SUFFICES ASSUME HeapInv(heap), held = Live, [Next]_vars
               PROVE  HeapInv(heap') /\ held' = LiveIn(heap')
    BY DEF IInv, Live
  <2>1. CASE UNCHANGED vars  BY <2>1 DEF vars, Live
  <2> QED  BY <2>1, StepIs
<1> QED  BY <1>1, <1>2, PTL DEF Spec

\* Every page of the table is found by its probe, once, and the table is half
\* empty at least: no lookup of Heap.c runs for ever or misses a page.
THEOREM TableFindsItsPages == Spec => []PagesFindable
<1>1. IInv => PagesFindable  BY FindableHolds DEF IInv
<1> QED  BY <1>1, Inductive, PTL

\* The warm lists, whose links are bucket numbers that moves and resizes
\* rewrite, are exactly the pages with a free slot.
THEOREM WarmListsStayExact == Spec => []WarmListsExact
<1>1. IInv => WarmListsExact  BY WarmHolds DEF IInv
<1> QED  BY <1>1, Inductive, PTL

\* A free that returns takes the block it was given, and no other.
THEOREM FreeTakesItsBlock == Spec => []FreesItsBlock
<1>1. IInv => FreesItsBlock  BY FreesHold DEF IInv
<1> QED  BY <1>1, Inductive, PTL

\* No page leaks, and none is in two places.
THEOREM PagesStayOwnedOnce == Spec => []EveryPageOwnedOnce
<1>1. IInv => EveryPageOwnedOnce  BY PagesHold DEF IInv
<1> QED  BY <1>1, Inductive, PTL

\* The footprint, the retention and the bytes in use are exact.
THEOREM CountersStayExact == Spec => []CountersExact
<1>1. IInv => CountersExact  BY CountersHold DEF IInv
<1> QED  BY <1>1, Inductive, PTL

\* A block that resize leaves in place has room for the request.
THEOREM ResizeInPlaceFits == Spec => []ResizeFits
<1>1. IInv => ResizeFits  BY ResizeHolds DEF IInv
<1> QED  BY <1>1, Inductive, PTL

\* Blocks that do not overlap are apart as the contract has it.
LEMMA BlocksDisjoint ==
  ASSUME NEW B, Blocks(B), NEW a \in B, NEW b \in B, a # b
  PROVE  Contract!Disjoint(a, b)
<1> DEFINE x == a.addr
           m == a.len
           y == b.addr
           n == b.len
<1>1. x \in Nat /\ m \in Nat /\ m > 0 /\ y \in Nat /\ n \in Nat /\ n > 0  BY DEF Blocks
<1>2. (x..(x + m - 1)) \cap (y..(y + n - 1)) = {}  BY DEF Blocks, Bytes
<1> HIDE DEF x, m, y, n
<1>3. CASE x <= y
  <2>1. y \in y..(y + n - 1)  BY <1>1
  <2>2. y \notin x..(x + m - 1)  BY <1>2, <2>1
  <2>3. x + m <= y  BY <1>1, <1>3, <2>2
  <2> QED  BY <2>3 DEF Contract!Disjoint, x, m, y, n
<1>4. CASE y < x
  <2>1. x \in x..(x + m - 1)  BY <1>1
  <2>2. x \notin y..(y + n - 1)  BY <1>2, <2>1
  <2>3. y + n <= x  BY <1>1, <1>4, <2>2
  <2> QED  BY <2>3 DEF Contract!Disjoint, x, m, y, n
<1> QED  BY <1>1, <1>3, <1>4

\* A block among others that it does not overlap.
LEMMA BlockFits ==
  ASSUME NEW B, Blocks(B), NEW b \in B, NEW S, S \subseteq B \ {b}
  PROVE  Contract!Fits(b, S)
<1>1. b.len > 0  BY DEF Blocks
<1>2. \A x \in S : Contract!Disjoint(b, x)  BY BlocksDisjoint
<1> QED  BY <1>1, <1>2 DEF Contract!Fits

\* The heap does what <Misra/Std/Allocator.h> promises of every allocator: the
\* callers' blocks never overlap, and a call, whatever fails in it, adds, takes
\* or replaces one of them, all, or none; and the heap loses none of them.
THEOREM HeapKeepsTheContract == Spec => ImplementsContract
<1>1. Init => Contract!ContractInit  BY DEF Init, Contract!ContractInit
<1>2. IInv /\ [Next]_vars => [Contract!ContractNext]_held
  <2> SUFFICES ASSUME HeapInv(heap), held = Live, [Next]_vars
               PROVE  Contract!ContractNext \/ held' = held
    BY DEF IInv
  <2>1. CASE UNCHANGED vars  BY <2>1 DEF vars
  <2>2. CASE Next
    <3> DEFINE B == LiveIn(heap)
               E == LiveIn(heap')
    <3>1. HeapInv(heap') /\ held' = E /\ Dealt(heap', heap)  BY <2>2, StepIs
    <3>2. Blocks(E)  BY <3>1, SoundBlocks DEF HeapInv
    <3>3. held = B /\ held' = E  BY <3>1 DEF Live
    <3>4. ASSUME NEW x, Gains(heap', heap, x) PROVE Contract!Alloc
      <4>1. E = B \cup {x} /\ x \notin B  BY <3>4 DEF Gains
      <4> HIDE DEF B, E
      <4>2. Contract!Fits(x, B)  BY <3>2, <4>1, BlockFits
      <4> QED  BY <3>3, <4>1, <4>2 DEF Contract!Alloc
    <3>5. ASSUME NEW b \in B, E = B \ {b} PROVE Contract!Free
      BY <3>3, <3>5 DEF Contract!Free
    <3>6. ASSUME NEW b \in B, NEW d, Replaced(heap', heap, b, d) PROVE Contract!Remap
      <4>1. E = (B \ {b}) \cup {d} /\ d \notin B /\ b \in B  BY <3>6 DEF Replaced
      <4> HIDE DEF B, E
      <4>2. Contract!Fits(d, B \ {b})  BY <3>2, <4>1, BlockFits
      <4>3. d \in E \ B  BY <4>1
      <4> QED  BY <3>3, <4>1, <4>2, <4>3 DEF Contract!Remap
    <3>7. CASE E = {}  BY <3>3, <3>7 DEF Contract!ContractNext, Contract!FreeAll
    <3> QED  BY <3>1, <3>3, <3>4, <3>5, <3>6, <3>7 DEF Dealt, Contract!ContractNext
  <2> QED  BY <2>1, <2>2
<1>3. IInv => held = Live  BY DEF IInv
<1> QED  BY <1>1, <1>2, <1>3, Inductive, PTL DEF Spec, ImplementsContract, Contract!ContractSpec
=============================================================================
