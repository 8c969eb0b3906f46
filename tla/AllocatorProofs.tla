---- MODULE AllocatorProofs ----
(***************************************************************************)
(* Facts about the helpers every allocator is built from (sorted tables,   *)
(* their totals, pages, held blocks) and, from them, what each operation   *)
(* of the slab, page, arena and debug allocators does to sound books.      *)
(* Then the dispatcher's theorems: the books of every allocator stay       *)
(* exact, a zeroed block reads as zeroes, and every allocator implements   *)
(* the abstract contract.                                                  *)
(*                                                                         *)
(* And the budget allocator, for every buffer that Init accepts: the       *)
(* layout Init works out fits the buffer, bits and blocks agree, and every *)
(* step is one of the contract or changes none of its blocks.              *)
(***************************************************************************)
EXTENDS Budget, Allocator, Slab, PageAllocator, Arena, SequenceTheorems, Lemmas

\* RoundUp gives the next multiple.
LEMMA RoundUpProps ==
  ASSUME NEW n \in Nat, NEW a \in Nat \ {0}
  PROVE  /\ RoundUp(n, a) \in Nat /\ RoundUp(n, a) % a = 0
         /\ n <= RoundUp(n, a) /\ RoundUp(n, a) <= n + a - 1
<1> DEFINE m == n + a - 1
           q == m \div a
<1>1. m \in Nat  OBVIOUS
<1>2. q \in Nat /\ a * q <= m /\ m < a * q + a  BY <1>1, DivProps
<1>3. RoundUp(n, a) = q * a /\ q * a = a * q  BY <1>2 DEF RoundUp
<1>4. q * a \in Nat /\ (q * a) % a = 0  BY <1>2, ModOfMultiple
<1> HIDE DEF q
<1>5. n <= a * q /\ a * q <= n + a - 1  BY <1>2
<1> QED  BY <1>3, <1>4, <1>5

------------------------------------------------------------------------------
\* Sorted tables.

Ascending(t) == \A i, j \in 1..Len(t) : i < j => t[i] <= t[j]
Distinct(t) == \A i, j \in 1..Len(t) : t[i] = t[j] => i = j

\* One round of the binary search of n keys narrows its bounds.
Narrowed(t, x, b) ==
    LET mid == b[1] + (b[2] - b[1]) \div 2
    IN  IF b[1] >= b[2] THEN b
        ELSE IF t[mid + 1] < x THEN <<mid + 1, b[2]>> ELSE <<b[1], mid>>
Search(t, x, n, f) == f = [k \in 0..n |-> IF k = 0 THEN <<0, n>> ELSE Narrowed(t, x, f[k - 1])]

\* The middle of a nonempty range lies in it, below its end.
LEMMA Middle ==
  ASSUME NEW lo \in Nat, NEW hi \in Nat, lo < hi
  PROVE  lo + (hi - lo) \div 2 \in lo..(hi - 1)
  OBVIOUS

\* A step of the binary search keeps its bounds within the table.
LEMMA NarrowedIn ==
  ASSUME NEW t, NEW x, NEW n \in Nat, NEW b \in (0..n) \X (0..n)
  PROVE  Narrowed(t, x, b) \in (0..n) \X (0..n)
<1> DEFINE mid == b[1] + (b[2] - b[1]) \div 2
<1>1. CASE b[1] >= b[2]  BY <1>1 DEF Narrowed
<1>2. CASE b[1] < b[2]
  <2>1. mid \in b[1]..(b[2] - 1) /\ b[1] \in 0..n /\ b[2] \in 0..n  BY <1>2, Middle
  <2>2. Narrowed(t, x, b) = IF t[mid + 1] < x THEN <<mid + 1, b[2]>> ELSE <<b[1], mid>>
    BY <1>2, <2>1 DEF Narrowed
  <2> HIDE DEF mid
  <2>3. mid \in 0..n /\ mid + 1 \in 0..n  BY <2>1
  <2> QED  BY <2>1, <2>2, <2>3
<1> QED  BY <1>1, <1>2

\* The binary search has a run of every length.
LEMMA SearchRuns ==
  ASSUME NEW t, NEW x, NEW n \in Nat
  PROVE  \E f : Search(t, x, n, f)
<1> DEFINE S == (0..n) \X (0..n)
           a == <<0, n>>
           F == [k \in Nat |-> [b \in S |-> Narrowed(t, x, b)]]
<1>1. F \in [Nat -> [S -> S]]  BY NarrowedIn
<1>2. a \in S  OBVIOUS
<1> HIDE DEF S, a
<1>3. PICK f \in [0..n -> S] : f[0] = a /\ \A k \in 1..n : f[k] = F[k][f[k - 1]]
  <2> HIDE DEF F
  <2> QED  BY <1>1, <1>2, RunExists
<1>4. ASSUME NEW k \in 0..n PROVE f[k] = IF k = 0 THEN a ELSE Narrowed(t, x, f[k - 1])
  <2>1. CASE k = 0  BY <2>1, <1>3
  <2>2. CASE k # 0
    <3>1. k \in 1..n /\ k - 1 \in 0..n /\ k \in Nat  BY <2>2
    <3>2. f[k - 1] \in S  BY <3>1
    <3> QED  BY <2>2, <3>1, <3>2, <1>3
  <2> QED  BY <2>1, <2>2
<1>5. f = [k \in 0..n |-> IF k = 0 THEN a ELSE Narrowed(t, x, f[k - 1])]  BY <1>4, Zenon
<1> QED  BY <1>5 DEF Search, a

\* The binary search ends at the first entry that is not below x.
LEMMA SearchEnds ==
  ASSUME NEW t, NEW x \in Int, Len(t) \in Nat, \A i \in 1..Len(t) : t[i] \in Int, Ascending(t)
  PROVE  /\ LowerBound(t, x) \in 0..Len(t)
         /\ \A i \in 1..LowerBound(t, x) : t[i] < x
         /\ \A i \in (LowerBound(t, x) + 1)..Len(t) : x <= t[i]
<1> DEFINE n == Len(t)
           S == (0..n) \X (0..n)
           run == CHOOSE f : Search(t, x, n, f)
<1>1. n \in Nat /\ \A i \in 1..n : t[i] \in Int  OBVIOUS
<1>8. LowerBound(t, x) = run[n][1]  BY DEF LowerBound, Search, Narrowed
<1> HIDE DEF n
<1>7. Search(t, x, n, run)  BY <1>1, SearchRuns
<1> DEFINE Inv(k) == /\ run[k] \in S
                     /\ run[k][1] <= run[k][2] /\ run[k][2] - run[k][1] <= n - k
                     /\ \A i \in 1..run[k][1] : t[i] < x
                     /\ \A i \in (run[k][2] + 1)..n : x <= t[i]
           T == {k \in Nat : k <= n => Inv(k)}
<1>9. /\ run[0] = <<0, n>>
      /\ \A k \in 1..n : run[k] = Narrowed(t, x, run[k - 1])
  <2>1. 0 \in 0..n /\ \A k \in 1..n : k \in 0..n /\ k # 0  BY <1>1
  <2> HIDE DEF run
  <2>2. \A k \in 0..n : run[k] = IF k = 0 THEN <<0, n>> ELSE Narrowed(t, x, run[k - 1])  BY <1>7, Zenon DEF Search
  <2> QED  BY <2>1, <2>2
<1> HIDE DEF run
<1>10. Inv(0)  BY <1>1, <1>9
<1>11. ASSUME NEW k \in Nat, k + 1 <= n, Inv(k) PROVE Inv(k + 1)
  <2> DEFINE b == run[k]
             mid == b[1] + (b[2] - b[1]) \div 2
  <2>1. run[k + 1] = Narrowed(t, x, b)
    <3>1. k + 1 \in 1..n /\ (k + 1) - 1 = k  BY <1>1, <1>11
    <3> QED  BY <1>9, <3>1
  <2>2. b \in S /\ b[1] \in 0..n /\ b[2] \in 0..n /\ b[1] <= b[2] /\ b[2] - b[1] <= n - k  BY <1>11
  <2>3. CASE b[1] >= b[2]
    <3>1. run[k + 1] = b  BY <2>1, <2>3 DEF Narrowed
    <3>2. b[2] - b[1] <= n - (k + 1)  BY <1>1, <1>11, <2>2, <2>3
    <3> QED  BY <3>1, <3>2, <1>11, <2>2
  <2>4. CASE b[1] < b[2]
    <3>1. mid \in b[1]..(b[2] - 1)  BY Middle, <2>2, <2>4
    <3>2. run[k + 1] = IF t[mid + 1] < x THEN <<mid + 1, b[2]>> ELSE <<b[1], mid>>
      BY <2>1, <2>2, <2>4 DEF Narrowed
    <3> HIDE DEF mid
    <3>3. mid \in Nat /\ mid + 1 \in 1..n /\ t[mid + 1] \in Int  BY <1>1, <2>2, <3>1
    <3>4. CASE t[mid + 1] < x
      <4>1. run[k + 1] = <<mid + 1, b[2]>> /\ run[k + 1] \in S  BY <3>2, <3>4, <3>3, <2>2
      <4>2. \A i \in 1..(mid + 1) : t[i] < x
        <5> SUFFICES ASSUME NEW i \in 1..(mid + 1) PROVE t[i] < x  OBVIOUS
        <5>1. i \in 1..n /\ t[i] \in Int  BY <1>1, <3>3
        <5>2. i = mid + 1 \/ t[i] <= t[mid + 1]  BY <3>3, <5>1 DEF Ascending, n
        <5> QED  BY <5>1, <5>2, <3>3, <3>4
      <4>3. mid + 1 <= b[2] /\ b[2] - (mid + 1) <= n - (k + 1)  BY <2>2, <3>1, <3>3, <1>1
      <4> QED  BY <4>1, <4>2, <4>3, <1>11, <2>2
    <3>5. CASE ~(t[mid + 1] < x)
      <4>1. run[k + 1] = <<b[1], mid>> /\ run[k + 1] \in S  BY <3>2, <3>5, <3>1, <3>3, <2>2, <1>1
      <4>2. \A i \in (mid + 1)..n : x <= t[i]
        <5> SUFFICES ASSUME NEW i \in (mid + 1)..n PROVE x <= t[i]  OBVIOUS
        <5>1. i \in 1..n /\ t[i] \in Int  BY <1>1, <3>3
        <5>2. i = mid + 1 \/ t[mid + 1] <= t[i]  BY <3>3, <5>1 DEF Ascending, n
        <5> QED  BY <5>1, <5>2, <3>3, <3>5
      <4>3. b[1] <= mid /\ mid - b[1] <= n - (k + 1)  BY <2>2, <3>1, <3>3, <1>1
      <4> QED  BY <4>1, <4>2, <4>3, <1>11, <2>2
    <3> QED  BY <3>4, <3>5
  <2> QED  BY <2>2, <2>3, <2>4
<1>12. Inv(n)
  <2>1. 0 \in T /\ \A k \in Nat : k \in T => k + 1 \in T
    <3>1. 0 \in T  BY <1>10
    <3>2. ASSUME NEW k \in Nat, k \in T PROVE k + 1 \in T
      <4> HIDE DEF Inv
      <4>1. k + 1 <= n => k <= n  BY <1>1
      <4> QED  BY <1>11, <3>2, <4>1
    <3> QED  BY <3>1, <3>2
  <2> HIDE DEF T
  <2>2. n \in T  BY <2>1, <1>1, SetInduction
  <2> QED  BY <2>2, <1>1 DEF T
<1>13. run[n][1] = run[n][2] /\ run[n][1] \in 0..n  BY <1>12, <1>1
<1> QED  BY <1>12, <1>13, <1>8 DEF n

\* The lower bound of an ascending table splits it: smaller keys before it, the others from it on.
LEMMA LowerBoundIs ==
  ASSUME NEW t \in Seq(Int), NEW x \in Int, Ascending(t)
  PROVE  /\ LowerBound(t, x) \in 0..Len(t)
         /\ \A i \in 1..LowerBound(t, x) : t[i] < x
         /\ \A i \in (LowerBound(t, x) + 1)..Len(t) : x <= t[i]
<1>1. Len(t) \in Nat /\ \A i \in 1..Len(t) : t[i] \in Int  OBVIOUS
<1> QED  BY <1>1, SearchEnds

\* How n + 1 entries u come from n entries t by one put in, and n - 1 by one
\* taken out.
IsInserted(u, t, n, i, x) ==
    \A k \in 1..(n + 1) : u[k] = IF k <= i THEN t[k] ELSE IF k = i + 1 THEN x ELSE t[k - 1]
IsRemoved(u, t, n, i) == \A k \in 1..(n - 1) : u[k] = IF k <= i THEN t[k] ELSE t[k + 1]

\* The entries of a prefix, one more and a suffix.
Shifts(n, i, t, a, b, c, d, x) ==
    /\ n \in Nat /\ i \in 0..n
    /\ \A k \in 1..i : a[k] = t[k]
    /\ \A k \in 1..(n - i) : b[k] = t[i + k]
    /\ \A k \in 1..(i + 1) : c[k] = IF k <= i THEN a[k] ELSE x
    /\ \A k \in 1..(n + 1) : d[k] = IF k <= i + 1 THEN c[k] ELSE b[k - (i + 1)]

\* Moving the tail up by one and writing the gap is an insertion.
LEMMA Shifted ==
  ASSUME NEW n, NEW i, NEW t, NEW a, NEW b, NEW c, NEW d, NEW x, Shifts(n, i, t, a, b, c, d, x)
  PROVE  IsInserted(d, t, n, i, x)
<1> SUFFICES ASSUME NEW k \in 1..(n + 1)
             PROVE d[k] = IF k <= i THEN t[k] ELSE IF k = i + 1 THEN x ELSE t[k - 1]
  BY DEF IsInserted
<1> USE DEF Shifts
<1>1. CASE k <= i
  <2>1. k \in 1..i /\ k \in 1..(i + 1) /\ k <= i + 1  BY <1>1
  <2>2. d[k] = c[k] /\ c[k] = a[k] /\ a[k] = t[k]  BY <2>1, <1>1
  <2> QED  BY <2>2, <1>1
<1>2. CASE k = i + 1
  <2>1. k \in 1..(i + 1) /\ k <= i + 1 /\ ~(k <= i)  BY <1>2
  <2>2. d[k] = c[k] /\ c[k] = x  BY <2>1
  <2> QED  BY <2>2, <1>2, <2>1
<1>3. CASE k > i + 1
  <2>1. k - (i + 1) \in 1..(n - i) /\ i + (k - (i + 1)) = k - 1 /\ ~(k <= i + 1) /\ ~(k <= i) /\ k # i + 1  BY <1>3
  <2>2. d[k] = b[k - (i + 1)] /\ b[k - (i + 1)] = t[k - 1]  BY <2>1
  <2> QED  BY <2>2, <2>1
<1> QED  BY <1>1, <1>2, <1>3

\* The same without the entry between them.
Closes(n, i, t, a, b, d) ==
    /\ n \in Nat /\ i \in 0..(n - 1)
    /\ \A k \in 1..i : a[k] = t[k]
    /\ \A k \in 1..(n - i - 1) : b[k] = t[i + 1 + k]
    /\ \A k \in 1..(n - 1) : d[k] = IF k <= i THEN a[k] ELSE b[k - i]

\* Moving the tail down by one over an entry is a removal.
LEMMA Closed ==
  ASSUME NEW n, NEW i, NEW t, NEW a, NEW b, NEW d, Closes(n, i, t, a, b, d)
  PROVE  IsRemoved(d, t, n, i)
<1> SUFFICES ASSUME NEW k \in 1..(n - 1) PROVE d[k] = IF k <= i THEN t[k] ELSE t[k + 1]
  BY DEF IsRemoved
<1> USE DEF Closes
<1>1. CASE k <= i
  <2>1. k \in 1..i  BY <1>1
  <2> QED  BY <2>1, <1>1
<1>2. CASE k > i
  <2>1. k - i \in 1..(n - i - 1) /\ i + 1 + (k - i) = k + 1 /\ ~(k <= i)  BY <1>2
  <2>2. d[k] = b[k - i] /\ b[k - i] = t[k + 1]  BY <2>1
  <2> QED  BY <2>1, <2>2
<1> QED  BY <1>1, <1>2
\* An entry put at an index, and one taken out, shift those behind.
LEMMA InsertedSeq ==
  ASSUME NEW S, NEW t \in Seq(S), NEW i \in 0..Len(t), NEW x \in S
  PROVE  /\ Inserted(t, i, x) \in Seq(S) /\ Len(Inserted(t, i, x)) = Len(t) + 1
         /\ IsInserted(Inserted(t, i, x), t, Len(t), i, x)
<1> DEFINE a == SubSeq(t, 1, i)
           b == SubSeq(t, i + 1, Len(t))
           n == Len(t)
<1>0. n \in Nat /\ i \in Nat /\ i <= n  OBVIOUS
<1>1. a \in Seq(S) /\ Len(a) = i /\ \A k \in 1..i : a[k] = t[k]
  <2>1. \A k \in 1..i : t[k] \in S  OBVIOUS
  <2> QED  BY <2>1, <1>0, SubSeqProperties
<1>2. b \in Seq(S) /\ Len(b) = n - i /\ \A k \in 1..(n - i) : b[k] = t[i + k]
  <2>1. \A k \in (i + 1)..n : t[k] \in S  OBVIOUS
  <2> QED  BY <2>1, <1>0, SubSeqProperties
<1>3. <<x>> \in Seq(S) /\ Len(<<x>>) = 1 /\ <<x>>[1] = x  OBVIOUS
<1> HIDE DEF a, b
<1>4. /\ a \o <<x>> \in Seq(S) /\ Len(a \o <<x>>) = i + 1
      /\ \A k \in 1..(i + 1) : (a \o <<x>>)[k] = IF k <= i THEN a[k] ELSE x
  BY <1>0, <1>1, <1>3, ConcatProperties
<1> DEFINE c == a \o <<x>>
<1>5. /\ c \o b \in Seq(S) /\ Len(c \o b) = n + 1
      /\ \A k \in 1..(n + 1) : (c \o b)[k] = IF k <= i + 1 THEN c[k] ELSE b[k - (i + 1)]
  <2>1. c \in Seq(S) /\ Len(c) = i + 1  BY <1>4
  <2> HIDE DEF c, n
  <2>2. /\ c \o b \in Seq(S) /\ Len(c \o b) = Len(c) + Len(b)
        /\ \A k \in 1..(Len(c) + Len(b)) : (c \o b)[k] = IF k <= Len(c) THEN c[k] ELSE b[k - Len(c)]
    BY <2>1, <1>2, ConcatProperties
  <2>3. Len(c) + Len(b) = n + 1  BY <2>1, <1>0, <1>2
  <2> QED  BY <2>1, <2>2, <2>3
<1> HIDE DEF c
<1>6. Inserted(t, i, x) = c \o b  BY DEF Inserted, a, b, c
<1> HIDE DEF n
<1> DEFINE d == c \o b
<1>8. /\ \A k \in 1..(i + 1) : c[k] = IF k <= i THEN a[k] ELSE x
      /\ \A k \in 1..(n + 1) : d[k] = IF k <= i + 1 THEN c[k] ELSE b[k - (i + 1)]
      /\ \A k \in 1..i : a[k] = t[k]
      /\ \A k \in 1..(n - i) : b[k] = t[i + k]
  BY <1>1, <1>2, <1>4, <1>5, Zenon DEF c
<1> HIDE DEF d
<1>9. Shifts(n, i, t, a, b, c, d, x)
  <2>1. n \in Nat /\ i \in 0..n  BY <1>0
  <2> QED  BY <2>1, <1>8, Zenon DEF Shifts
<1>7. IsInserted(d, t, n, i, x)
  BY <1>9, Shifted, Zenon
<1> QED  BY <1>5, <1>6, <1>7 DEF n, d

\* A removal leaves a sequence one entry shorter.
LEMMA RemovedSeq ==
  ASSUME NEW S, NEW t \in Seq(S), NEW i \in 0..(Len(t) - 1)
  PROVE  /\ Removed(t, i) \in Seq(S) /\ Len(Removed(t, i)) = Len(t) - 1
         /\ IsRemoved(Removed(t, i), t, Len(t), i)
<1> DEFINE a == SubSeq(t, 1, i)
           b == SubSeq(t, i + 2, Len(t))
           n == Len(t)
<1>0. n \in Nat /\ i \in Nat /\ i < n  OBVIOUS
<1>1. a \in Seq(S) /\ Len(a) = i /\ \A k \in 1..i : a[k] = t[k]
  <2>1. \A k \in 1..i : t[k] \in S  OBVIOUS
  <2> QED  BY <2>1, <1>0, SubSeqProperties
<1>2. b \in Seq(S) /\ Len(b) = n - i - 1 /\ \A k \in 1..(n - i - 1) : b[k] = t[i + 1 + k]
  <2>1. \A k \in (i + 2)..n : t[k] \in S  OBVIOUS
  <2> QED  BY <2>1, <1>0, SubSeqProperties
<1> HIDE DEF a, b
<1> HIDE DEF n
<1>4. Len(a) + Len(b) = n - 1  BY <1>0, <1>1, <1>2
<1>5. /\ a \o b \in Seq(S) /\ Len(a \o b) = n - 1
      /\ \A k \in 1..(n - 1) : (a \o b)[k] = IF k <= i THEN a[k] ELSE b[k - i]
  <2>1. /\ a \o b \in Seq(S) /\ Len(a \o b) = Len(a) + Len(b)
        /\ \A k \in 1..Len(a) + Len(b) : (a \o b)[k] = IF k <= Len(a) THEN a[k] ELSE b[k - Len(a)]
    BY <1>1, <1>2, ConcatProperties
  <2> QED  BY <2>1, <1>1, <1>4, Zenon
<1>6. Removed(t, i) = a \o b  BY DEF Removed, a, b
<1> DEFINE d == a \o b
<1> HIDE DEF d
<1>7. IsRemoved(d, t, n, i)
  <2>1. n \in Nat /\ i \in 0..(n - 1)  BY <1>0
  <2>2. /\ \A k \in 1..i : a[k] = t[k]
        /\ \A k \in 1..(n - i - 1) : b[k] = t[i + 1 + k]
        /\ \A k \in 1..(n - 1) : d[k] = IF k <= i THEN a[k] ELSE b[k - i]
    BY <1>1, <1>2, <1>5, Zenon DEF d
  <2>3. Closes(n, i, t, a, b, d)  BY <2>1, <2>2, Zenon DEF Closes
  <2> QED  BY <2>3, Closed, Zenon
<1> QED  BY <1>5, <1>6, <1>7 DEF n, d

\* A table stays sorted when an entry goes in where the search says, and when
\* one goes out.
LEMMA InsertedAscends ==
  ASSUME NEW t \in Seq(Int), NEW x \in Int, Ascending(t)
  PROVE  Ascending(Inserted(t, LowerBound(t, x), x))
<1> DEFINE i == LowerBound(t, x)
           u == Inserted(t, i, x)
<1>1. i \in 0..Len(t)  BY LowerBoundIs
<1>3. \A k \in 1..i : t[k] < x  BY LowerBoundIs
<1>4. \A k \in (i + 1)..Len(t) : x <= t[k]  BY LowerBoundIs
<1> HIDE DEF i
<1>2. Len(u) = Len(t) + 1 /\ IsInserted(u, t, Len(t), i, x)
  BY <1>1, InsertedSeq
<1>6. \A k \in 1..(Len(t) + 1) : u[k] = IF k <= i THEN t[k] ELSE IF k = i + 1 THEN x ELSE t[k - 1]
  BY <1>2 DEF IsInserted
<1> HIDE DEF u
<1>5. ASSUME NEW j \in 1..Len(u), NEW k \in 1..Len(u), j < k PROVE u[j] <= u[k]
  <2>1. j \in 1..(Len(t) + 1) /\ k \in 1..(Len(t) + 1)  BY <1>2, <1>6
  <2>2. CASE k <= i
    <3>1. j \in 1..Len(t) /\ k \in 1..Len(t) /\ u[j] = t[j] /\ u[k] = t[k]  BY <1>1, <1>2, <1>6, <1>5, <2>1, <2>2
    <3> QED  BY <3>1, <1>5 DEF Ascending
  <2>3. CASE k = i + 1
    <3>1. j \in 1..i /\ u[j] = t[j] /\ u[k] = x  BY <1>1, <1>2, <1>6, <1>5, <2>1, <2>3
    <3>2. t[j] < x /\ t[j] \in Int  BY <1>1, <1>3, <3>1
    <3> QED  BY <3>1, <3>2
  <2>4. CASE k > i + 1
    <3>1. u[k] = t[k - 1] /\ k - 1 \in (i + 1)..Len(t)  BY <1>1, <1>2, <1>6, <2>1, <2>4
    <3>2. x <= t[k - 1] /\ t[k - 1] \in Int  BY <1>1, <1>4, <3>1
    <3>3. CASE j <= i
      <4>1. u[j] = t[j] /\ j \in 1..i  BY <1>1, <1>2, <1>6, <2>1, <3>3
      <4>2. t[j] < x /\ t[j] \in Int  BY <1>1, <1>3, <4>1
      <4> QED  BY <4>1, <4>2, <3>1, <3>2
    <3>4. CASE j = i + 1
      <4>1. u[j] = x  BY <3>4, <1>1, <1>2, <1>6, <2>1
      <4> QED  BY <4>1, <3>1, <3>2
    <3>5. CASE j > i + 1
      <4>1. u[j] = t[j - 1] /\ j - 1 \in 1..Len(t) /\ j - 1 < k - 1  BY <1>1, <1>2, <1>6, <1>5, <2>1, <3>5
      <4>2. k - 1 \in 1..Len(t)  BY <1>1, <3>1
      <4> QED  BY <4>1, <4>2, <3>1 DEF Ascending
    <3> QED  BY <1>1, <2>1, <3>3, <3>4, <3>5
  <2> QED  BY <1>1, <2>1, <2>2, <2>3, <2>4
<1> QED  BY <1>5 DEF Ascending, u, i

\* An ascending table stays ascending when an entry is removed.
LEMMA RemovedAscends ==
  ASSUME NEW t \in Seq(Int), Ascending(t), NEW i \in 0..(Len(t) - 1)
  PROVE  Ascending(Removed(t, i))
<1> DEFINE u == Removed(t, i)
<1>1. Len(t) \in Nat  OBVIOUS
<1>2. Len(u) = Len(t) - 1 /\ \A k \in 1..(Len(t) - 1) : u[k] = IF k <= i THEN t[k] ELSE t[k + 1]
  BY RemovedSeq DEF IsRemoved
<1> HIDE DEF u
<1>3. ASSUME NEW j \in 1..Len(u), NEW k \in 1..Len(u), j < k PROVE u[j] <= u[k]
  <2>1. j \in 1..(Len(t) - 1) /\ k \in 1..(Len(t) - 1)  BY <1>2
  <2> DEFINE J == IF j <= i THEN j ELSE j + 1
             K == IF k <= i THEN k ELSE k + 1
  <2>2. u[j] = t[J] /\ u[k] = t[K]  BY <1>2, <2>1
  <2>3. J \in 1..Len(t) /\ K \in 1..Len(t) /\ J < K  BY <1>1, <1>3, <2>1
  <2> HIDE DEF J, K
  <2> QED  BY <2>2, <2>3 DEF Ascending
<1> QED  BY <1>3 DEF Ascending, u

\* The search finds a key that is there, and no other.
LEMMA FoundIs ==
  ASSUME NEW t \in Seq(Int), NEW x \in Int, Ascending(t)
  PROVE  /\ Found(t, x) \in -1..(Len(t) - 1)
         /\ Found(t, x) # -1 => t[Found(t, x) + 1] = x
         /\ Found(t, x) = -1 => \A k \in 1..Len(t) : t[k] # x
<1> DEFINE i == LowerBound(t, x)
<1>1. i \in 0..Len(t)  BY LowerBoundIs
<1>2. \A k \in 1..i : t[k] < x  BY LowerBoundIs
<1>3. \A k \in (i + 1)..Len(t) : x <= t[k]  BY LowerBoundIs
<1>4. Found(t, x) = IF i < Len(t) /\ t[i + 1] = x THEN i ELSE -1  BY DEF Found
<1> HIDE DEF i
<1>5. Len(t) \in Nat /\ \A k \in 1..Len(t) : t[k] \in Int  OBVIOUS
<1>6. CASE i < Len(t) /\ t[i + 1] = x  BY <1>1, <1>4, <1>5, <1>6
<1>7. CASE ~(i < Len(t) /\ t[i + 1] = x)
  <2>1. ASSUME NEW k \in 1..Len(t), t[k] = x PROVE FALSE
    <3>1. ~(k <= i)
      <4> SUFFICES ASSUME k <= i PROVE FALSE  OBVIOUS
      <4>1. k \in 1..i  BY <1>1, <1>5
      <4> QED  BY <4>1, <1>2, <2>1
    <3>2. i + 1 \in 1..Len(t) /\ k > i /\ i < Len(t)  BY <3>1, <1>1, <1>5
    <3>3. x <= t[i + 1] /\ t[i + 1] # x  BY <3>2, <1>3, <1>1, <1>5, <1>7
    <3>4. t[i + 1] <= t[k]
      <4>1. k = i + 1 \/ i + 1 < k  BY <3>2, <1>1, <1>5
      <4>2. CASE k = i + 1  BY <4>2, <1>5
      <4>3. CASE i + 1 < k  BY <4>3, <3>2 DEF Ascending
      <4> QED  BY <4>1, <4>2, <4>3
    <3> QED  BY <3>2, <3>3, <3>4, <2>1, <1>5
  <2>2. Found(t, x) = -1  BY <1>4, <1>7
  <2> QED  BY <1>5, <2>1, <2>2
<1> QED  BY <1>6, <1>7

\* Where keys are distinct, it finds the entry itself.
LEMMA FoundIndex ==
  ASSUME NEW t \in Seq(Int), Ascending(t), Distinct(t), NEW k \in 1..Len(t)
  PROVE  Found(t, t[k]) = k - 1
<1>1. t[k] \in Int /\ Len(t) \in Nat  OBVIOUS
<1>2. /\ Found(t, t[k]) \in -1..(Len(t) - 1)
      /\ Found(t, t[k]) # -1 => t[Found(t, t[k]) + 1] = t[k]
      /\ Found(t, t[k]) = -1 => \A j \in 1..Len(t) : t[j] # t[k]
  BY <1>1, FoundIs
<1>3. Found(t, t[k]) + 1 \in 1..Len(t) /\ t[Found(t, t[k]) + 1] = t[k]  BY <1>1, <1>2
<1>4. Found(t, t[k]) + 1 = k  BY <1>3 DEF Distinct
<1> QED  BY <1>2, <1>4

\* Where entry k stands once another one stands at index i (from 0).
Up(i, k) == IF k <= i THEN k ELSE k + 1

\* Up maps the old indices one to one onto the new ones but the inserted one.
LEMMA UpOnto ==
  ASSUME NEW n \in Nat, NEW i \in 0..n
  PROVE  /\ \A k \in 1..n : Up(i, k) \in (1..(n + 1)) \ {i + 1}
         /\ \A j \in 1..(n + 1) : j = i + 1 \/ \E k \in 1..n : j = Up(i, k)
         /\ \A j, k \in 1..n : Up(i, j) = Up(i, k) => j = k
<1>1. ASSUME NEW j \in 1..(n + 1), j # i + 1 PROVE \E k \in 1..n : j = Up(i, k)
  <2>1. CASE j <= i
    <3>1. j \in 1..n /\ j = Up(i, j)  BY <2>1 DEF Up
    <3> QED  BY <3>1
  <2>2. CASE j > i + 1
    <3>1. j - 1 \in 1..n /\ j = Up(i, j - 1)  BY <2>2 DEF Up
    <3> QED  BY <3>1
  <2> QED  BY <1>1, <2>1, <2>2
<1>2. \A k \in 1..n : Up(i, k) \in (1..(n + 1)) \ {i + 1}  BY DEF Up
<1>3. \A j, k \in 1..n : Up(i, j) = Up(i, k) => j = k  BY DEF Up
<1> QED  BY <1>1, <1>2, <1>3

\* An entry x of S can be put at index i of a sequence of S.
CanInsert(S, t, i, x) == t \in Seq(S) /\ i \in 0..Len(t) /\ x \in S

\* After an insertion the new entry stands at its index and every other where Up says.
LEMMA InsertedUp ==
  ASSUME NEW S, NEW t, NEW i, NEW x, CanInsert(S, t, i, x)
  PROVE  /\ Inserted(t, i, x) \in Seq(S) /\ Len(Inserted(t, i, x)) = Len(t) + 1
         /\ Inserted(t, i, x)[i + 1] = x
         /\ \A k \in 1..Len(t) : Inserted(t, i, x)[Up(i, k)] = t[k]
<1> DEFINE u == Inserted(t, i, x)
           n == Len(t)
<1>0. t \in Seq(S) /\ i \in 0..Len(t) /\ x \in S  BY DEF CanInsert
<1>1. u \in Seq(S) /\ Len(u) = n + 1 /\ IsInserted(u, t, n, i, x)  BY <1>0, InsertedSeq
<1>2. n \in Nat /\ i \in 0..n  BY <1>0
<1> HIDE DEF u, n
<1>3. u[i + 1] = x
  <2>1. i + 1 \in 1..(n + 1) /\ ~(i + 1 <= i)  BY <1>2
  <2> QED  BY <1>1, <2>1 DEF IsInserted
<1>4. ASSUME NEW k \in 1..n PROVE u[Up(i, k)] = t[k]
  <2>1. CASE k <= i
    <3>1. Up(i, k) = k /\ k \in 1..(n + 1)  BY <1>2, <2>1 DEF Up
    <3> QED  BY <1>1, <2>1, <3>1 DEF IsInserted
  <2>2. CASE k > i
    <3>1. Up(i, k) = k + 1 /\ k + 1 \in 1..(n + 1) /\ ~(k + 1 <= i) /\ k + 1 # i + 1 /\ (k + 1) - 1 = k
      BY <1>2, <2>2 DEF Up
    <3> QED  BY <1>1, <2>2, <3>1 DEF IsInserted
  <2>3. k <= i \/ k > i  BY <1>2
  <2> QED  BY <2>1, <2>2, <2>3
<1> QED  BY <1>1, <1>3, <1>4 DEF u, n

\* After a removal entry k is the one Up found before it.
LEMMA RemovedUp ==
  ASSUME NEW S, NEW t \in Seq(S), NEW i \in 0..(Len(t) - 1)
  PROVE  /\ Removed(t, i) \in Seq(S) /\ Len(Removed(t, i)) = Len(t) - 1 /\ Len(t) - 1 \in Nat
         /\ \A k \in 1..(Len(t) - 1) : Removed(t, i)[k] = t[Up(i, k)]
<1> DEFINE u == Removed(t, i)
           n == Len(t)
<1>1. u \in Seq(S) /\ Len(u) = n - 1 /\ IsRemoved(u, t, n, i)  BY RemovedSeq
<1>2. n \in Nat /\ i \in 0..(n - 1) /\ n - 1 \in Nat  OBVIOUS
<1> HIDE DEF u, n
<1>3. \A k \in 1..(n - 1) : u[k] = t[Up(i, k)]  BY <1>1 DEF IsRemoved, Up
<1> QED  BY <1>1, <1>2, <1>3 DEF u, n

\* The sum over n + 1 entries is that over n of them and the one left out.
LEMMA TotalWithout ==
  ASSUME NEW n \in Nat, NEW i \in 0..n, NEW u \in [1..n -> Nat], NEW w \in [1..(n + 1) -> Nat],
         \A k \in 1..n : w[Up(i, k)] = u[k]
  PROVE  Total(w) = Total(u) + w[i + 1] /\ Total(u) \in Nat /\ Total(w) \in Nat
<1> DEFINE N == 1..n
           M == 1..(n + 1)
           z == i + 1
           h == [k \in N |-> Up(i, k)]
<1>1. IsFiniteSet(N) /\ IsFiniteSet(M)
  <2>1. n \in Int /\ n + 1 \in Int /\ 1 \in Int  OBVIOUS
  <2> QED  BY <2>1, FS_Interval
<1>2. z \in M /\ u \in [N -> Nat] /\ w \in [M -> Nat] /\ \A k \in N : w[Up(i, k)] = u[k]  OBVIOUS
<1>3. /\ \A k \in N : Up(i, k) \in M \ {z}
      /\ \A j \in M : j = z \/ \E k \in N : j = Up(i, k)
      /\ \A j, k \in N : Up(i, j) = Up(i, k) => j = k
  BY UpOnto
<1> HIDE DEF N, M, z
<1>4. OneMore(N, M, z, h, u, w)  BY <1>1, <1>2, <1>3 DEF OneMore
<1> HIDE DEF h
<1>5. CountOf(w) = CountOf(u) + w[z] /\ CountOf(u) \in Nat /\ CountOf(w) \in Nat
  BY <1>4, CountOneMore
<1> QED  BY <1>5 DEF Total, CountOf, Units, z

\* A page and an offset in it make an address, and are found again in it.
LEMMA AddressParts ==
  ASSUME NEW a \in Nat \ {0}, NEW p \in Nat, NEW r \in 0..(a - 1)
  PROVE  (p * a + r) \div a = p /\ (p * a + r) % a = r /\ p * a + r \in Nat
<1> DEFINE x == p * a + r
           q == x \div a
<1>1. p * a \in Nat /\ x \in Nat  OBVIOUS
<1>2. q \in Nat /\ a * q <= x /\ x < a * q + a /\ x = a * q + (x % a)  BY <1>1, DivProps
<1>3. a * q = q * a /\ q * a \in Nat  BY <1>2
<1>4. ~(q < p)  BY <1>1, <1>2, <1>3, NextMultiple
<1>5. ~(p < q)  BY <1>1, <1>2, <1>3, NextMultiple
<1>6. q = p  BY <1>2, <1>4, <1>5
<1>7. x % a \in 0..(a - 1)  BY <1>1, DivProps
<1> HIDE DEF q
<1>8. x = q * a + (x % a)  BY <1>2, <1>3
<1> QED  BY <1>1, <1>6, <1>7, <1>8 DEF q

\* Overwriting an entry keeps a sequence and its length.
LEMMA SeqExcept ==
  ASSUME NEW S, NEW t \in Seq(S), NEW i \in 1..Len(t), NEW x \in S
  PROVE  [t EXCEPT ![i] = x] \in Seq(S) /\ Len([t EXCEPT ![i] = x]) = Len(t)
  OBVIOUS

\* The footprint after a mapping and an unmapping.
LEMMA FootprintTwice ==
  ASSUME NEW s, NEW a, NEW b
  PROVE  /\ [[s EXCEPT !.footprint = a] EXCEPT !.footprint = b] = [s EXCEPT !.footprint = b]
         /\ "footprint" \in DOMAIN s => [s EXCEPT !.footprint = a].footprint = a
  OBVIOUS

\* Mapping a table of n bytes and unmapping the old one of k moves the footprint by the difference.
LEMMA MapUnmap ==
  ASSUME NEW s, "footprint" \in DOMAIN s, NEW n \in Nat, NEW k \in Nat, NEW F \in Nat, s.footprint = F + k
  PROVE  Unmapped(MappedTable(s, n), k) = [s EXCEPT !.footprint = F + n]
<1> DEFINE a == s.footprint + n
<1>1. MappedTable(s, n) = [s EXCEPT !.footprint = a]  BY DEF MappedTable
<1>2. k <= a /\ a - k = F + n  OBVIOUS
<1> HIDE DEF a
<1> DEFINE t == [s EXCEPT !.footprint = a]
<1>3. t.footprint = a  BY FootprintTwice
<1>4. Unmapped(t, k) = [t EXCEPT !.footprint = a - k]  BY <1>2, <1>3 DEF Unmapped
<1>5. [t EXCEPT !.footprint = a - k] = [s EXCEPT !.footprint = F + n]  BY <1>2, FootprintTwice
<1> QED  BY <1>1, <1>4, <1>5

\* Unmapping what was just mapped restores the record.
LEMMA Undone ==
  ASSUME NEW s, "footprint" \in DOMAIN s, [s EXCEPT !.footprint = s.footprint] = s,
         s.footprint \in Nat, NEW n \in Nat
  PROVE  Unmapped(MappedTable(s, n), n) = s
<1> DEFINE a == s.footprint + n
<1>1. MappedTable(s, n) = [s EXCEPT !.footprint = a]  BY DEF MappedTable
<1>2. n <= a /\ a - n = s.footprint  OBVIOUS
<1> HIDE DEF a
<1> DEFINE t == [s EXCEPT !.footprint = a]
<1>3. t.footprint = a  BY FootprintTwice
<1>4. Unmapped(t, n) = [t EXCEPT !.footprint = a - n]  BY <1>2, <1>3 DEF Unmapped
<1>5. [t EXCEPT !.footprint = a - n] = s  BY <1>2, FootprintTwice
<1> QED  BY <1>1, <1>4, <1>5

\* A multiple is its own next multiple.
LEMMA RoundUpMultiple ==
  ASSUME NEW q \in Nat, NEW a \in Nat \ {0}
  PROVE  RoundUp(q * a, a) = q * a
<1>1. a - 1 \in 0..(a - 1) /\ q * a + a - 1 = q * a + (a - 1)  OBVIOUS
<1>2. (q * a + (a - 1)) \div a = q  BY <1>1, AddressParts
<1> QED  BY <1>1, <1>2 DEF RoundUp

\* What rounding a request to pages yields.
LEMMA PageRounding ==
  ASSUME NEW n \in Nat
  PROVE  /\ os_page_round_up(n) \in Nat /\ n <= os_page_round_up(n)
         /\ PageCount(n) \in Nat /\ PageCount(n) * PageSize = os_page_round_up(n)
         /\ PageSize * PageCount(n) = os_page_round_up(n)
         /\ n > 0 => PageCount(n) > 0
<1>1. PageSize \in Nat \ {0}  BY BaseAssumption
<1> DEFINE r == os_page_round_up(n)
           q == r \div PageSize
<1>2. r \in Nat /\ r % PageSize = 0 /\ n <= r  BY <1>1, RoundUpProps DEF os_page_round_up
<1> HIDE DEF r
<1>3. q \in Nat /\ r = PageSize * q + (r % PageSize)  BY <1>1, <1>2, DivProps
<1>4. PageCount(n) = q  BY DEF PageCount, r
<1> HIDE DEF q
<1>5. PageSize * q = r /\ q * PageSize = PageSize * q  BY <1>1, <1>2, <1>3
<1>6. n > 0 => q > 0  BY <1>1, <1>2, <1>3, <1>5
<1> QED  BY <1>2, <1>3, <1>4, <1>5, <1>6 DEF r

\* A whole number of pages rounds to itself.
LEMMA PageMultiple ==
  ASSUME NEW q \in Nat
  PROVE  os_page_round_up(q * PageSize) = q * PageSize /\ PageCount(q * PageSize) = q
<1>1. PageSize \in Nat \ {0}  BY BaseAssumption
<1>2. os_page_round_up(q * PageSize) = q * PageSize  BY <1>1, RoundUpMultiple DEF os_page_round_up
<1>3. 0 \in 0..(PageSize - 1) /\ q * PageSize + 0 = q * PageSize  BY <1>1
<1>4. (q * PageSize + 0) \div PageSize = q  BY <1>1, <1>3, AddressParts
<1> QED  BY <1>2, <1>3, <1>4 DEF PageCount

\* The pages of a region.
LEMMA RegionSize ==
  ASSUME NEW p \in Nat, NEW n \in Nat
  PROVE  IsFiniteSet(Region(p, n)) /\ Cardinality(Region(p, n)) = PageCount(n)
<1>1. PageCount(n) \in Nat  BY PageRounding
<1> DEFINE b == p + PageCount(n) - 1
<1>2. p \in Int /\ b \in Int  BY <1>1
<1>3. b - p + 1 = PageCount(n) /\ (p > b => PageCount(n) = 0)  BY <1>1
<1> HIDE DEF b
<1>4. IsFiniteSet(p..b) /\ Cardinality(p..b) = IF p > b THEN 0 ELSE b - p + 1  BY <1>2, FS_Interval
<1> QED  BY <1>3, <1>4 DEF Region, b

------------------------------------------------------------------------------
\* The blocks of the callers.

Block(a, n) == [addr |-> a, len |-> n]
Addrs(H) == {b.addr : b \in H}
IsDisjoint(a, b) == a.addr + a.len <= b.addr \/ b.addr + b.len <= a.addr

\* What is asked of them in every allocator.
WellHeld(H) ==
    /\ IsFiniteSet(H)
    /\ H \subseteq [addr : Nat \ {0}, len : Nat \ {0}]
    /\ \A a, b \in H : a # b => IsDisjoint(a, b)

\* Held blocks are told apart by their addresses.
LEMMA HeldUnique ==
  ASSUME NEW H, WellHeld(H), NEW a \in H, NEW b \in H, a.addr = b.addr
  PROVE  a = b
<1> SUFFICES ASSUME a # b PROVE FALSE  OBVIOUS
<1>1. IsDisjoint(a, b) /\ a.addr \in Nat /\ b.addr \in Nat /\ a.len \in Nat \ {0} /\ b.len \in Nat \ {0}
  BY DEF WellHeld
<1> QED  BY <1>1 DEF IsDisjoint

\* A block apart from every held one may be held too.
LEMMA HeldMore ==
  ASSUME NEW H, WellHeld(H), NEW p \in Nat \ {0}, NEW n \in Nat \ {0},
         \A b \in H : IsDisjoint(b, Block(p, n))
  PROVE  WellHeld(H \cup {Block(p, n)}) /\ Addrs(H \cup {Block(p, n)}) = Addrs(H) \cup {p}
<1>1. Block(p, n) \in [addr : Nat \ {0}, len : Nat \ {0}] /\ Block(p, n).addr = p  BY DEF Block
<1>2. IsFiniteSet(H \cup {Block(p, n)})  BY FS_AddElement DEF WellHeld
<1>3. \A a, b \in H \cup {Block(p, n)} : a # b => IsDisjoint(a, b)  BY DEF WellHeld, IsDisjoint
<1>4. Addrs(H \cup {Block(p, n)}) = Addrs(H) \cup {p}  BY <1>1 DEF Addrs
<1> QED  BY <1>1, <1>2, <1>3, <1>4 DEF WellHeld

\* Giving a held block back leaves the others held.
LEMMA HeldLess ==
  ASSUME NEW H, WellHeld(H), NEW b \in H
  PROVE  WellHeld(H \ {b}) /\ Addrs(H \ {b}) = Addrs(H) \ {b.addr}
<1>1. IsFiniteSet(H \ {b})  BY FS_RemoveElement DEF WellHeld
<1>2. Addrs(H \ {b}) = Addrs(H) \ {b.addr}  BY HeldUnique DEF Addrs
<1> QED  BY <1>1, <1>2 DEF WellHeld

\* There are as many held addresses as held blocks.
LEMMA HeldCount ==
  ASSUME NEW H, WellHeld(H)
  PROVE  IsFiniteSet(Addrs(H)) /\ Cardinality(Addrs(H)) = Cardinality(H)
<1> DEFINE f == [b \in H |-> b.addr]
<1>1. f \in Bijection(H, Addrs(H))  BY HeldUnique DEF Bijection, Injection, Surjection, IsInjective, Addrs
<1> HIDE DEF f
<1> QED  BY <1>1, FS_Bijection DEF WellHeld, ExistsBijection

PageTables == Seq(Pages)
Bitmaps == Seq(SUBSET Nat)
SlabRecord ==
    [slot_size : Nat \ {0}, words : Nat, slabs : PageTables, bitmaps : Bitmaps, cap : Nat,
     in_use : Nat, footprint : Nat, dirty : SUBSET Nat]

ArraysMapped(s) == IF s.cap = 0 THEN 0 ELSE ArraysBytes(s, s.cap)

\* The two arrays, and what the kernel gave for them.
SlabShape(s) ==
    /\ s \in SlabRecord /\ SlotFits(s.slot_size)
    /\ s.words = 0 => s.cap = 0
    /\ s.words # 0 => s.words = (SlotsPerSlab(s) + SlabWordBits - 1) \div SlabWordBits
    /\ Len(s.slabs) <= s.cap /\ Len(s.bitmaps) = Len(s.slabs)
    /\ Ascending(s.slabs) /\ Distinct(s.slabs)
    /\ \A i \in 1..Len(s.slabs) : s.bitmaps[i] \subseteq SlabBits(s) /\ TailBits(s) \subseteq s.bitmaps[i]
    /\ s.footprint = Len(s.slabs) * PageSize + ArraysMapped(s)

\* Bit b of slab i is a slot in use.
InUse(s, i, b) == i \in 1..Len(s.slabs) /\ b \in s.bitmaps[i] /\ b \in 0..(SlotsPerSlab(s) - 1)

\* Besides, the slots in use are exactly the blocks held.
SlabSound(s, H) ==
    /\ SlabShape(s) /\ WellHeld(H)
    /\ SlabHolds(s) = Addrs(H)
    /\ \A b \in H : b.len <= s.slot_size
    /\ s.in_use = s.slot_size * Cardinality(H)

\* The constants that the slab reads.
SlabConstants ==
    /\ SlabInitialCap \in Nat \ {0} /\ SlabWordBits \in Nat \ {0}

\* The facts about pages the proofs cite.
LEMMA PageNumbers == Pages \subseteq Nat \ {0} /\ IsFiniteSet(Pages) /\ PageSize \in Nat \ {0} /\ PtrBytes \in Nat \ {0}
  BY BaseAssumption

\* The lower bound of a page among the slabs' pages.
LEMMA PageTablesAscend ==
  ASSUME NEW t \in Seq(Pages), NEW p \in Pages, Ascending(t)
  PROVE  /\ LowerBound(t, p) \in 0..Len(t) /\ t \in Seq(Int) /\ p \in Int /\ Len(t) \in Nat
         /\ LowerBound(t, p) \in Nat
<1>1. Pages \subseteq Int  BY PageNumbers
<1>2. t \in Seq(Int) /\ p \in Int /\ Len(t) \in Nat
  <2>1. Len(t) \in Nat /\ t \in [1..Len(t) -> Pages]  OBVIOUS
  <2>2. t \in [1..Len(t) -> Int]  BY <1>1, <2>1
  <2> QED  BY <1>1, <2>1, <2>2
<1>3. LowerBound(t, p) \in 0..Len(t)  BY <1>2, LowerBoundIs
<1> QED  BY <1>2, <1>3

\* Slots tile the page.
LEMMA SlotsTile ==
  ASSUME NEW s, SlabConstants, s.slot_size \in Nat, SlotFits(s.slot_size)
  PROVE  /\ SlotsPerSlab(s) \in Nat \ {0} /\ SlotsPerSlab(s) * s.slot_size = PageSize
         /\ \A b \in 0..(SlotsPerSlab(s) - 1) :
               b * s.slot_size \in 0..(PageSize - 1) /\ b * s.slot_size + s.slot_size <= PageSize
<1> DEFINE z == s.slot_size
           n == PageSize \div z
<1>1. z \in Nat \ {0} /\ PageSize % z = 0 /\ PageSize \in Nat \ {0}  BY PageNumbers DEF SlotFits
<1>2. n \in Nat /\ PageSize = z * n + (PageSize % z)  BY <1>1, DivProps
<1>3. SlotsPerSlab(s) = n  BY DEF SlotsPerSlab
<1> HIDE DEF n, z
<1>4. PageSize = z * n /\ z * n = n * z  BY <1>1, <1>2
<1>5. n # 0  BY <1>1, <1>2, <1>4
<1>6. ASSUME NEW b \in 0..(n - 1) PROVE b * z \in 0..(PageSize - 1) /\ b * z + z <= PageSize
  <2>1. b \in Nat /\ b < n  BY <1>2
  <2>2. b * z + z <= n * z  BY <2>1, <1>1, <1>2, NextMultiple
  <2>3. b * z \in Nat  BY <2>1, <1>1
  <2> QED  BY <2>2, <2>3, <1>1, <1>4
<1> QED  BY <1>2, <1>3, <1>4, <1>5, <1>6 DEF z

\* Once the words are counted, the bits that are no tail are the slots.
LEMMA BitsAreSlots ==
  ASSUME NEW s, SlabConstants, s.slot_size \in Nat, SlotFits(s.slot_size),
         s.words = (SlotsPerSlab(s) + SlabWordBits - 1) \div SlabWordBits
  PROVE  /\ s.words \in Nat \ {0}
         /\ SlabBits(s) \subseteq Nat /\ TailBits(s) \subseteq SlabBits(s)
         /\ SlabBits(s) \ TailBits(s) = 0..(SlotsPerSlab(s) - 1)
<1> DEFINE n == SlotsPerSlab(s)
           W == SlabWordBits
           w == s.words
<1>1. n \in Nat \ {0} /\ W \in Nat \ {0}  BY SlotsTile DEF SlabConstants
<1>2. n < W \/ n % W = 0  BY DEF SlotFits, SlotsPerSlab
<1>3. w = (n + W - 1) \div W /\ SlabBits(s) = 0..(w * W - 1)
      /\ TailBits(s) = IF n < W THEN n..(W - 1) ELSE {}
  BY DEF SlabBits, TailBits
<1>4. CASE n < W
  <2>1. n - 1 \in 0..(W - 1) /\ 1 \in Nat /\ n + W - 1 = 1 * W + (n - 1)  BY <1>1, <1>4
  <2>2. (1 * W + (n - 1)) \div W = 1  BY <2>1, <1>1, AddressParts
  <2>3. w = 1 /\ w * W = W  BY <2>1, <2>2, <1>1, <1>3
  <2>4. TailBits(s) = n..(W - 1) /\ SlabBits(s) = 0..(W - 1)  BY <1>3, <1>4, <2>3
  <2> HIDE DEF n, W, w
  <2> QED  BY <1>1, <1>4, <2>3, <2>4 DEF n, w
<1>5. CASE ~(n < W)
  <2> DEFINE q == n \div W
  <2>1. q \in Nat /\ n = W * q + (n % W)  BY <1>1, DivProps
  <2>2. n % W = 0  BY <1>2, <1>5
  <2> HIDE DEF n, W, q
  <2>3. n = W * q /\ W * q = q * W  BY <1>1, <2>1, <2>2
  <2>4. W - 1 \in 0..(W - 1) /\ n + W - 1 = q * W + (W - 1)  BY <1>1, <2>3
  <2>5. (q * W + (W - 1)) \div W = q  BY <2>1, <2>4, <1>1, AddressParts
  <2>6. w = q  BY <1>3, <2>4, <2>5
  <2>7. w * W = n /\ w \in Nat \ {0}
    <3>1. w * W = n  BY <2>6, <2>3, Zenon
    <3>2. q # 0  BY <1>1, <2>3
    <3> QED  BY <3>1, <3>2, <2>6, <2>1
  <2>8. TailBits(s) = {} /\ SlabBits(s) = 0..(n - 1)  BY <1>3, <1>5, <2>7
  <2> QED  BY <1>1, <2>7, <2>8 DEF n, w
<1> QED  BY <1>4, <1>5

\* A held slot is one whose bitmap bit is clear.
LEMMA HoldsIff ==
  ASSUME NEW s \in SlabRecord
  PROVE  \A a : a \in SlabHolds(s) <=> \E i, b : InUse(s, i, b) /\ a = SlabSlot(s, i, b)
<1>1. s.slabs \in Seq(Pages)  BY DEF SlabRecord, PageTables
<1>2. DOMAIN s.slabs = 1..Len(s.slabs)  BY <1>1
<1> QED  BY <1>2 DEF SlabHolds, InUse

\* A slot is found in its address, and slots do not overlap.
LEMMA SlotAddress ==
  ASSUME NEW s, SlabConstants, SlabShape(s), NEW i \in 1..Len(s.slabs), NEW b \in 0..(SlotsPerSlab(s) - 1)
  PROVE  /\ SlabSlot(s, i, b) \in Nat \ {0}
         /\ SlabSlot(s, i, b) \div PageSize = s.slabs[i]
         /\ SlabSlot(s, i, b) % PageSize = b * s.slot_size
         /\ (b * s.slot_size) % s.slot_size = 0 /\ (b * s.slot_size) \div s.slot_size = b
<1> DEFINE p == s.slabs[i]
           r == b * s.slot_size
           z == s.slot_size
<1>1. z \in Nat \ {0} /\ SlotFits(z) /\ s.slabs \in Seq(Pages)  BY DEF SlabShape, SlabRecord, PageTables
<1>2. p \in Nat \ {0} /\ PageSize \in Nat \ {0}
  <2>1. p \in Pages  BY <1>1
  <2> QED  BY <2>1, PageNumbers
<1>3. r \in 0..(PageSize - 1)  BY <1>1, SlotsTile
<1>4. SlabSlot(s, i, b) = p * PageSize + r  BY DEF SlabSlot
<1>5. b \in Nat /\ 0 \in 0..(z - 1)
  <2>1. SlotsPerSlab(s) \in Nat  BY <1>1, SlotsTile
  <2> QED  BY <2>1, <1>1
<1> HIDE DEF p
<1>6. (p * PageSize + r) \div PageSize = p /\ (p * PageSize + r) % PageSize = r /\ p * PageSize + r \in Nat
  <2> HIDE DEF r
  <2> QED  BY <1>2, <1>3, AddressParts
<1>7. p * PageSize + r # 0
  <2>1. p * PageSize >= PageSize
    <3>1. 0 * PageSize + PageSize <= p * PageSize  BY <1>2, NextMultiple
    <3> QED  BY <3>1, <1>2
  <2> HIDE DEF r
  <2> QED  BY <2>1, <1>2, <1>3
<1> HIDE DEF z
<1>8. (b * z) % z = 0 /\ (b * z) \div z = b
  <2>1. (b * z + 0) \div z = b /\ (b * z + 0) % z = 0  BY <1>1, <1>5, AddressParts
  <2>2. b * z + 0 = b * z  BY <1>1, <1>5
  <2> QED  BY <2>1, <2>2
<1> QED  BY <1>4, <1>6, <1>7, <1>8 DEF p, r, z

\* Different slots do not overlap, of one slab or of two.
LEMMA SlotsApart ==
  ASSUME NEW s, SlabConstants, SlabShape(s),
         NEW i \in 1..Len(s.slabs), NEW b \in 0..(SlotsPerSlab(s) - 1),
         NEW j \in 1..Len(s.slabs), NEW c \in 0..(SlotsPerSlab(s) - 1), <<i, b>> # <<j, c>>
  PROVE  \/ SlabSlot(s, i, b) + s.slot_size <= SlabSlot(s, j, c)
         \/ SlabSlot(s, j, c) + s.slot_size <= SlabSlot(s, i, b)
<1> DEFINE p == s.slabs[i]
           q == s.slabs[j]
           z == s.slot_size
           x == b * z
           y == c * z
<1>1. z \in Nat \ {0} /\ SlotFits(z) /\ s.slabs \in Seq(Pages) /\ Distinct(s.slabs)  BY DEF SlabShape, SlabRecord, PageTables
<1>2. p \in Nat /\ q \in Nat /\ PageSize \in Nat \ {0}
  <2>1. p \in Pages /\ q \in Pages  BY <1>1
  <2> QED  BY <2>1, PageNumbers
<1>3. x \in 0..(PageSize - 1) /\ x + z <= PageSize /\ y \in 0..(PageSize - 1) /\ y + z <= PageSize
  BY <1>1, SlotsTile
<1>4. SlabSlot(s, i, b) = p * PageSize + x /\ SlabSlot(s, j, c) = q * PageSize + y  BY DEF SlabSlot
<1>5. b \in Nat /\ c \in Nat
  <2>1. SlotsPerSlab(s) \in Nat  BY <1>1, SlotsTile
  <2> QED  BY <2>1
<1>6. p = q => b # c  BY <1>1 DEF Distinct
<1>7. b < c => x + z <= y  BY <1>1, <1>5, NextMultiple
<1>8. c < b => y + z <= x  BY <1>1, <1>5, NextMultiple
<1> DEFINE P == p * PageSize
           Q == q * PageSize
<1>9. p < q => P + PageSize <= Q  BY <1>2, NextMultiple
<1>10. q < p => Q + PageSize <= P  BY <1>2, NextMultiple
<1>11. P \in Nat /\ Q \in Nat  BY <1>2
<1>12. p = q => P = Q  OBVIOUS
<1> HIDE DEF p, q, x, y, z, P, Q
<1>13. \/ P + x + z <= Q + y \/ Q + y + z <= P + x
  <2>1. CASE p = q
    <3>1. b < c \/ c < b  BY <2>1, <1>5, <1>6
    <3> QED  BY <3>1, <2>1, <1>1, <1>3, <1>7, <1>8, <1>11, <1>12
  <2>2. CASE p < q  BY <2>2, <1>1, <1>2, <1>3, <1>9, <1>11
  <2>3. CASE q < p  BY <2>3, <1>1, <1>2, <1>3, <1>10, <1>11
  <2> QED  BY <1>2, <2>1, <2>2, <2>3
<1> QED  BY <1>4, <1>13 DEF P, Q, z

\* What the shape of a slab reads of its record.
SlabSame(s, t) ==
    /\ t.slot_size = s.slot_size /\ t.words = s.words /\ t.cap = s.cap
    /\ t.slabs = s.slabs /\ t.footprint = s.footprint

\* Records with the same size class and arrays compute the same slots.
LEMMA SlabSameIs ==
  ASSUME NEW s, NEW t, SlabSame(s, t)
  PROVE  /\ SlotsPerSlab(t) = SlotsPerSlab(s) /\ SlabBits(t) = SlabBits(s) /\ TailBits(t) = TailBits(s)
         /\ ArraysMapped(t) = ArraysMapped(s)
         /\ \A i, b : SlabSlot(t, i, b) = SlabSlot(s, i, b)
  BY DEF SlabSame, SlotsPerSlab, SlabBits, TailBits, ArraysMapped, ArraysBytes, SlabSlot

\* A bit changed in a bitmap: a slot taken or given back.
LEMMA BitsChanged ==
  ASSUME NEW s, SlabConstants, SlabShape(s), NEW i \in 1..Len(s.slabs),
         NEW B, B \subseteq SlabBits(s), TailBits(s) \subseteq B,
         NEW t, SlabSame(s, t), t \in SlabRecord, t.bitmaps = [s.bitmaps EXCEPT ![i] = B]
  PROVE  /\ SlabShape(t)
         /\ \A j, c : InUse(t, j, c) <=> IF j = i THEN c \in B /\ c \in 0..(SlotsPerSlab(s) - 1)
                                                  ELSE InUse(s, j, c)
<1>1. s.bitmaps \in Seq(SUBSET Nat) /\ Len(s.bitmaps) = Len(s.slabs) /\ s.slabs \in Seq(Pages)
  BY DEF SlabShape, SlabRecord, PageTables, Bitmaps
<1>2. DOMAIN s.bitmaps = 1..Len(s.slabs) /\ DOMAIN t.bitmaps = 1..Len(s.slabs) /\ Len(t.bitmaps) = Len(s.slabs)
  <2>1. t.bitmaps \in Seq(SUBSET Nat)  BY DEF SlabRecord, Bitmaps
  <2>2. DOMAIN s.bitmaps = 1..Len(s.slabs)  BY <1>1
  <2>3. DOMAIN t.bitmaps = 1..Len(s.slabs)  BY <2>2
  <2>4. Len(s.slabs) \in Nat  BY <1>1
  <2> QED  BY <2>1, <2>2, <2>3, <2>4
<1>3. \A j \in 1..Len(s.slabs) : t.bitmaps[j] = IF j = i THEN B ELSE s.bitmaps[j]  BY <1>2
<1>4. /\ SlotsPerSlab(t) = SlotsPerSlab(s) /\ SlabBits(t) = SlabBits(s) /\ TailBits(t) = TailBits(s)
      /\ ArraysMapped(t) = ArraysMapped(s) /\ t.slabs = s.slabs
  BY SlabSameIs DEF SlabSame
<1>5. \A j, c : InUse(t, j, c) <=> IF j = i THEN c \in B /\ c \in 0..(SlotsPerSlab(s) - 1) ELSE InUse(s, j, c)
  BY <1>3, <1>4, Zenon DEF InUse
<1>6. \A j \in 1..Len(t.slabs) : t.bitmaps[j] \subseteq SlabBits(t) /\ TailBits(t) \subseteq t.bitmaps[j]
  BY <1>3, <1>4 DEF SlabShape
<1>7. SlabShape(t)
  BY <1>2, <1>4, <1>6 DEF SlabShape, SlabSame
<1> QED  BY <1>5, <1>7

\* A page that is in the array has its words counted, so its bits are slots.
LEMMA WordsCounted ==
  ASSUME NEW s, SlabConstants, SlabShape(s), NEW i \in 1..Len(s.slabs)
  PROVE  /\ s.words # 0
         /\ SlabBits(s) \subseteq Nat /\ TailBits(s) \subseteq SlabBits(s)
         /\ SlabBits(s) \ TailBits(s) = 0..(SlotsPerSlab(s) - 1)
         /\ SlabBits(s) \ s.bitmaps[i] \subseteq 0..(SlotsPerSlab(s) - 1)
         /\ s.bitmaps[i] \subseteq SlabBits(s) /\ TailBits(s) \subseteq s.bitmaps[i]
<1>1. s.cap # 0
  <2>1. Len(s.slabs) <= s.cap /\ s.cap \in Nat /\ Len(s.slabs) \in Nat
      BY DEF SlabShape, SlabRecord, PageTables
  <2> QED  BY <2>1
<1>2. s.words = (SlotsPerSlab(s) + SlabWordBits - 1) \div SlabWordBits /\ s.words # 0  BY <1>1 DEF SlabShape
<1>3. s.slot_size \in Nat /\ SlotFits(s.slot_size)  BY DEF SlabShape, SlabRecord
<1>4. s.bitmaps[i] \subseteq SlabBits(s) /\ TailBits(s) \subseteq s.bitmaps[i]  BY DEF SlabShape
<1>5. /\ SlabBits(s) \subseteq Nat /\ TailBits(s) \subseteq SlabBits(s)
      /\ SlabBits(s) \ TailBits(s) = 0..(SlotsPerSlab(s) - 1)
  BY <1>2, <1>3, BitsAreSlots
<1> QED  BY <1>2, <1>4, <1>5

\* The slots in use after one is taken, and after one is given back.
LEMMA HoldsMore ==
  ASSUME NEW s, SlabConstants, SlabShape(s), NEW t, SlabShape(t), SlabSame(s, t),
         NEW i \in 1..Len(s.slabs), NEW b \in 0..(SlotsPerSlab(s) - 1), ~InUse(s, i, b),
         \A j, c : InUse(t, j, c) <=> InUse(s, j, c) \/ (j = i /\ c = b)
  PROVE  /\ SlabHolds(t) = SlabHolds(s) \cup {SlabSlot(s, i, b)}
         /\ SlabSlot(s, i, b) \notin SlabHolds(s)
         /\ \A a \in SlabHolds(s) : a + s.slot_size <= SlabSlot(s, i, b) \/ SlabSlot(s, i, b) + s.slot_size <= a
<1>1. s \in SlabRecord /\ t \in SlabRecord  BY DEF SlabShape
<1>2. \A j, c : SlabSlot(t, j, c) = SlabSlot(s, j, c)  BY SlabSameIs
<1>3. ASSUME NEW a PROVE a \in SlabHolds(t) <=> a \in SlabHolds(s) \cup {SlabSlot(s, i, b)}
  <2>1. a \in SlabHolds(t) <=> \E j, c : InUse(t, j, c) /\ a = SlabSlot(s, j, c)
    BY <1>1, <1>2, HoldsIff
  <2>2. a \in SlabHolds(s) <=> \E j, c : InUse(s, j, c) /\ a = SlabSlot(s, j, c)
    BY <1>1, HoldsIff
  <2> QED  BY <2>1, <2>2, Zenon
<1>4. ASSUME NEW a \in SlabHolds(s)
      PROVE  a + s.slot_size <= SlabSlot(s, i, b) \/ SlabSlot(s, i, b) + s.slot_size <= a
  <2>1. PICK j, c : InUse(s, j, c) /\ a = SlabSlot(s, j, c)  BY <1>1, HoldsIff
  <2>2. j \in 1..Len(s.slabs) /\ c \in 0..(SlotsPerSlab(s) - 1) /\ <<j, c>> # <<i, b>>  BY <2>1 DEF InUse
  <2> QED  BY <2>1, <2>2, SlotsApart
<1>5. SlabSlot(s, i, b) \notin SlabHolds(s)
  <2>1. s.slot_size \in Nat \ {0} /\ SlabSlot(s, i, b) \in Nat  BY SlotAddress DEF SlabShape, SlabRecord
  <2> QED  BY <1>4, <2>1
<1> QED  BY <1>3, <1>4, <1>5

\* Freeing a slot takes its address, and no other, from the held ones.
LEMMA HoldsLess ==
  ASSUME NEW s, SlabConstants, SlabShape(s), NEW t, SlabShape(t), SlabSame(s, t),
         NEW i \in 1..Len(s.slabs), NEW b \in 0..(SlotsPerSlab(s) - 1),
         \A j, c : InUse(t, j, c) <=> InUse(s, j, c) /\ ~(j = i /\ c = b)
  PROVE  SlabHolds(t) = SlabHolds(s) \ {SlabSlot(s, i, b)}
<1>1. s \in SlabRecord /\ t \in SlabRecord  BY DEF SlabShape
<1>2. \A j, c : SlabSlot(t, j, c) = SlabSlot(s, j, c)  BY SlabSameIs
<1>3. s.slot_size \in Nat \ {0} /\ SlabSlot(s, i, b) \in Nat  BY SlotAddress DEF SlabShape, SlabRecord
<1>4. ASSUME NEW j, NEW c, InUse(s, j, c), ~(j = i /\ c = b) PROVE SlabSlot(s, j, c) # SlabSlot(s, i, b)
  <2>1. j \in 1..Len(s.slabs) /\ c \in 0..(SlotsPerSlab(s) - 1) /\ <<j, c>> # <<i, b>>  BY <1>4 DEF InUse
  <2>2. \/ SlabSlot(s, j, c) + s.slot_size <= SlabSlot(s, i, b)
        \/ SlabSlot(s, i, b) + s.slot_size <= SlabSlot(s, j, c)
    BY <2>1, SlotsApart
  <2> QED  BY <2>2, <1>3
<1>5. ASSUME NEW a PROVE a \in SlabHolds(t) <=> a \in SlabHolds(s) \ {SlabSlot(s, i, b)}
  <2>1. a \in SlabHolds(t) <=> \E j, c : InUse(t, j, c) /\ a = SlabSlot(s, j, c)
    BY <1>1, <1>2, HoldsIff
  <2>2. a \in SlabHolds(s) <=> \E j, c : InUse(s, j, c) /\ a = SlabSlot(s, j, c)
    BY <1>1, HoldsIff
  <2> QED  BY <2>1, <2>2, <1>4, Zenon
<1> QED  BY <1>5

\* A block for the caller out of a free slot.
LEMMA SlabTake ==
  ASSUME NEW s, NEW H, SlabConstants, SlabSound(s, H), NEW i \in 1..Len(s.slabs),
         NEW b \in SlabBits(s) \ s.bitmaps[i], NEW z \in BOOLEAN, NEW n \in Nat \ {0}, n <= s.slot_size,
         NEW o, o = TakeSlot(s, i, b, z)
  PROVE  /\ ~o.abort /\ o.ptr \in Nat \ {0} /\ o.ptr \notin Addrs(H)
         /\ SlabSound(o.self, H \cup {Block(o.ptr, n)})
         /\ z => Bytes(o.ptr, n) \cap o.self.dirty = {}
<1> DEFINE t == o.self
           a == SlabSlot(s, i, b)
           Z == s.slot_size
           B == s.bitmaps[i] \cup {b}
<1>1. s \in SlabRecord /\ SlabShape(s) /\ WellHeld(H)  BY DEF SlabSound, SlabShape
<1>2. /\ b \in 0..(SlotsPerSlab(s) - 1) /\ b \notin s.bitmaps[i]
      /\ B \subseteq SlabBits(s) /\ TailBits(s) \subseteq B /\ b \in Nat
  BY <1>1, WordsCounted
<1>3. a \in Nat \ {0}  BY <1>1, <1>2, SlotAddress
<1>4. ~o.abort /\ o.ptr = a  BY DEF TakeSlot, Gives
<1>5. /\ SlabSame(s, t) /\ t.bitmaps = [s.bitmaps EXCEPT ![i] = B] /\ t.in_use = s.in_use + Z
      /\ t.dirty = IF z THEN s.dirty \ Bytes(a, Z) ELSE s.dirty
  BY <1>1 DEF TakeSlot, Gives, Charge, Zero, SlabSame, SlabRecord
<1>6. t \in SlabRecord
  <2>1. t.bitmaps \in Seq(SUBSET Nat)
    <3>1. s.bitmaps \in Seq(SUBSET Nat) /\ B \in SUBSET Nat
      <4>1. s.bitmaps \in Seq(SUBSET Nat)  BY <1>1 DEF SlabRecord, Bitmaps
      <4>2. SlabBits(s) \subseteq Nat  BY <1>1, WordsCounted
      <4> QED  BY <4>1, <4>2, <1>2
    <3>2. i \in 1..Len(s.bitmaps)  BY <1>1 DEF SlabShape
    <3> HIDE DEF B
    <3> QED  BY <1>5, <3>1, <3>2, SeqExcept
  <2>2. t.in_use \in Nat /\ t.dirty \subseteq Nat  BY <1>1, <1>5 DEF SlabRecord
  <2>3. t = [s EXCEPT !.bitmaps = t.bitmaps, !.in_use = t.in_use, !.dirty = t.dirty]
    BY <1>1 DEF TakeSlot, Gives, Charge, Zero, SlabRecord
  <2> HIDE DEF t
  <2> QED  BY <1>1, <2>1, <2>2, <2>3 DEF SlabRecord, Bitmaps
<1> HIDE DEF t, B
<1>7. SlabShape(t) /\ \A j, c : InUse(t, j, c) <=> IF j = i THEN c \in B /\ c \in 0..(SlotsPerSlab(s) - 1)
                                                           ELSE InUse(s, j, c)
  BY <1>1, <1>2, <1>5, <1>6, BitsChanged
<1>8. ~InUse(s, i, b) /\ \A j, c : InUse(t, j, c) <=> InUse(s, j, c) \/ (j = i /\ c = b)
  <2>1. ~InUse(s, i, b)  BY <1>2 DEF InUse
  <2>2. ASSUME NEW j, NEW c PROVE InUse(t, j, c) <=> InUse(s, j, c) \/ (j = i /\ c = b)
    <3>1. c \in B <=> c \in s.bitmaps[i] \/ c = b  BY DEF B
    <3>2. InUse(s, i, c) <=> c \in s.bitmaps[i] /\ c \in 0..(SlotsPerSlab(s) - 1)  BY DEF InUse
    <3> QED  BY <3>1, <3>2, <1>2, <1>7, Zenon
  <2> QED  BY <2>1, <2>2
<1>9. /\ SlabHolds(t) = SlabHolds(s) \cup {a} /\ a \notin SlabHolds(s)
      /\ \A x \in SlabHolds(s) : x + Z <= a \/ a + Z <= x
  BY <1>1, <1>2, <1>5, <1>7, <1>8, HoldsMore
<1>10. SlabHolds(s) = Addrs(H) /\ \A x \in H : x.len <= Z /\ x.addr \in Addrs(H)
  BY DEF SlabSound, Addrs
<1>11. Z \in Nat \ {0} /\ t.slot_size = Z  BY <1>1, <1>5 DEF SlabRecord, SlabSame
<1>12. \A x \in H : IsDisjoint(x, Block(a, n))
  <2> SUFFICES ASSUME NEW x \in H PROVE IsDisjoint(x, Block(a, n))  OBVIOUS
  <2>1. x.addr \in Nat /\ x.len \in Nat /\ x.len <= Z  BY <1>1, <1>10 DEF WellHeld
  <2>2. x.addr + Z <= a \/ a + Z <= x.addr  BY <1>9, <1>10
  <2>3. Block(a, n).addr = a /\ Block(a, n).len = n  BY DEF Block
  <2> HIDE DEF a, Z
  <2> QED  BY <2>1, <2>2, <2>3, <1>3, <1>11 DEF IsDisjoint, Z
<1> DEFINE G == H \cup {Block(a, n)}
<1>13. WellHeld(G) /\ Addrs(G) = Addrs(H) \cup {a}  BY <1>1, <1>3, <1>12, HeldMore
<1>14. Cardinality(G) = Cardinality(H) + 1 /\ Cardinality(H) \in Nat
  <2>1. Block(a, n) \notin H  BY <1>9, <1>10 DEF Block
  <2> QED  BY <2>1, <1>1, FS_AddElement, FS_CardinalityType DEF WellHeld
<1>15. \A x \in G : x.len <= Z  BY <1>10 DEF Block
<1>16. t.in_use = Z * Cardinality(G)
  <2>1. s.in_use = Z * Cardinality(H)  BY DEF SlabSound
  <2> HIDE DEF Z, G
  <2> QED  BY <2>1, <1>5, <1>11, <1>14
<1>17. SlabSound(t, G)  BY <1>7, <1>9, <1>10, <1>11, <1>13, <1>15, <1>16 DEF SlabSound
<1>18. z => Bytes(a, n) \cap t.dirty = {}
  <2>1. Bytes(a, n) \subseteq Bytes(a, Z)  BY <1>3, <1>11 DEF Bytes
  <2> QED  BY <2>1, <1>5
<1> QED  BY <1>3, <1>4, <1>9, <1>10, <1>17, <1>18 DEF t

\* An attempt to grow leaves the slabs as they were, or puts one more in.
LEMMA SlabSoundSame ==
  ASSUME NEW s, NEW H, SlabSound(s, H), NEW t, SlabShape(t), t.slot_size = s.slot_size,
         SlabHolds(t) = SlabHolds(s), t.in_use = s.in_use
  PROVE  SlabSound(t, H)
  BY DEF SlabSound

\* The bytes of the slab arrays are a natural number.
LEMMA ArraysType ==
  ASSUME NEW s, s.words \in Nat, NEW c \in Nat
  PROVE  ArraysBytes(s, c) \in Nat /\ os_page_round_up(c * PtrBytes) \in Nat
<1>1. c * PtrBytes \in Nat /\ c * s.words * PtrBytes \in Nat
  <2>1. PtrBytes \in Nat  BY PageNumbers
  <2>2. c * s.words \in Nat  OBVIOUS
  <2>3. c * PtrBytes \in Nat  BY <2>1
  <2> DEFINE d == c * s.words
  <2> HIDE DEF d
  <2>4. d * PtrBytes \in Nat  BY <2>1, <2>2 DEF d
  <2> QED  BY <2>3, <2>4 DEF d
<1>2. os_page_round_up(c * PtrBytes) \in Nat /\ os_page_round_up(c * s.words * PtrBytes) \in Nat
  BY <1>1, PageRounding
<1> QED  BY <1>2 DEF ArraysBytes

\* What a growth of the arrays leaves alone; F is the rest of the footprint.
Grows(m, t, F) ==
    /\ t \in SlabRecord
    /\ t.slot_size = m.slot_size /\ t.words = m.words /\ t.slabs = m.slabs /\ t.bitmaps = m.bitmaps
    /\ t.in_use = m.in_use
    /\ t.footprint = F + ArraysMapped(t)

\* slab_grow_caps doubles both arrays or leaves the record's size, and the footprint follows.
LEMMA GrowCaps ==
  ASSUME NEW m \in SlabRecord, SlabConstants, NEW F \in Nat, m.footprint = F + ArraysMapped(m),
         NEW g \in slab_grow_caps(m)
  PROVE  /\ ~g.abort /\ g.ptr \in {NULL, 1} /\ Grows(m, g.self, F)
         /\ IF g.ptr = NULL THEN g.self.cap = m.cap ELSE m.cap < g.self.cap
<1> DEFINE cap == IF m.cap = 0 THEN SlabInitialCap ELSE 2 * m.cap
           first == os_page_round_up(cap * PtrBytes)
           new == ArraysBytes(m, cap)
           old == ArraysMapped(m)
<1>1. m.cap \in Nat /\ m.words \in Nat /\ m.footprint \in Nat  BY DEF SlabRecord
<1>2. cap \in Nat \ {0} /\ m.cap < cap  BY <1>1 DEF SlabConstants
<1>3. first \in Nat /\ new \in Nat /\ old \in Nat  BY <1>1, <1>2, ArraysType DEF ArraysMapped
<1>4. \A t : t.words = m.words /\ t.cap = cap => ArraysMapped(t) = new  BY <1>2 DEF ArraysMapped, ArraysBytes
<1>5. \A t : t.words = m.words /\ t.cap = m.cap => ArraysMapped(t) = old  BY DEF ArraysMapped, ArraysBytes
<1>6. \/ g = Fails(m) \/ g = Fails(GrowUndo(MappedTable(m, first), first))
      \/ g = Gives([Unmapped(MappedTable(m, new), old) EXCEPT !.cap = cap], 1)
  BY DEF slab_grow_caps, ArraysMapped
<1> HIDE DEF cap, first, new, old
<1>7. CASE g = Fails(m)
  <2>1. g.self = m /\ ~g.abort /\ g.ptr = NULL  BY <1>7 DEF Fails, Gives
  <2> QED  BY <2>1 DEF Grows
<1>8. CASE g = Fails(GrowUndo(MappedTable(m, first), first))
  <2>1. g.self = m /\ ~g.abort /\ g.ptr = NULL
    <3>1. "footprint" \in DOMAIN m /\ [m EXCEPT !.footprint = m.footprint] = m  BY DEF SlabRecord
    <3>3. Unmapped(MappedTable(m, first), first) = m
      BY <3>1, <1>1, <1>3, Undone
    <3> QED  BY <3>3, <1>8 DEF Fails, Gives, GrowUndo
  <2> QED  BY <2>1 DEF Grows
<1>9. CASE g = Gives([Unmapped(MappedTable(m, new), old) EXCEPT !.cap = cap], 1)
  <2> DEFINE t == [m EXCEPT !.footprint = F + new, !.cap = cap]
  <2>1. g.self = t /\ ~g.abort /\ g.ptr = 1
    <3>1. "footprint" \in DOMAIN m /\ m.footprint = F + old  BY DEF SlabRecord, old
    <3>3. Unmapped(MappedTable(m, new), old) = [m EXCEPT !.footprint = F + new]  BY <3>1, <1>3, MapUnmap
    <3>4. [Unmapped(MappedTable(m, new), old) EXCEPT !.cap = cap] = t  BY <3>3 DEF SlabRecord
    <3> QED  BY <3>4, <1>9 DEF Gives
  <2>2. t \in SlabRecord /\ t.cap = cap /\ t.words = m.words /\ t.footprint = F + new
    <3>1. F + new \in Nat  BY <1>3
    <3> DEFINE f == F + new
    <3> HIDE DEF f
    <3>2. f \in Nat  BY <3>1 DEF f
    <3> QED  BY <3>2, <1>2 DEF SlabRecord, f
  <2>3. t.slot_size = m.slot_size /\ t.slabs = m.slabs /\ t.bitmaps = m.bitmaps
        /\ t.in_use = m.in_use /\ t.dirty = m.dirty
    BY DEF SlabRecord
  <2>4. ArraysMapped(t) = new  BY <1>4, <2>2
  <2> HIDE DEF t
  <2> QED  BY <2>1, <2>2, <2>3, <2>4, <1>2 DEF Grows, NULL
<1> QED  BY <1>6, <1>7, <1>8, <1>9

\* A page put in both arrays at the place the search gives.
PutsIn(s, r, p, k, t) ==
    /\ SlabShape(s) /\ s.words # 0 /\ p \in Pages
    /\ \A i \in 1..Len(s.slabs) : s.slabs[i] # p
    /\ Grows(s, r, Len(s.slabs) * PageSize + PageSize) /\ Len(s.slabs) < r.cap
    /\ k = LowerBound(s.slabs, p)
    /\ t = [r EXCEPT !.slabs = Inserted(@, k, p), !.bitmaps = Inserted(@, k, TailBits(r))]

\* A new slab in the sorted arrays holds nothing, and the others hold what they did.
LEMMA SlabPut ==
  ASSUME NEW s, NEW r, NEW p, NEW k, NEW t, SlabConstants, PutsIn(s, r, p, k, t)
  PROVE  /\ SlabShape(t) /\ t.slot_size = s.slot_size /\ SlabHolds(t) = SlabHolds(s) /\ t.in_use = s.in_use
         /\ k + 1 \in 1..Len(t.slabs) /\ t.bitmaps[k + 1] = TailBits(t)
<1> DEFINE n == Len(s.slabs)
<1>0. /\ SlabShape(s) /\ s.words # 0 /\ p \in Pages
      /\ \A i \in 1..Len(s.slabs) : s.slabs[i] # p
      /\ Grows(s, r, Len(s.slabs) * PageSize + PageSize) /\ Len(s.slabs) < r.cap
      /\ k = LowerBound(s.slabs, p)
      /\ t = [r EXCEPT !.slabs = Inserted(@, k, p), !.bitmaps = Inserted(@, k, TailBits(r))]
  BY DEF PutsIn
<1>1. /\ s \in SlabRecord /\ s.slabs \in Seq(Pages) /\ s.bitmaps \in Seq(SUBSET Nat) /\ Len(s.bitmaps) = n
      /\ n \in Nat /\ Ascending(s.slabs) /\ Distinct(s.slabs) /\ s.words = (SlotsPerSlab(s) + SlabWordBits - 1) \div SlabWordBits
      /\ s.slot_size \in Nat /\ SlotFits(s.slot_size)
  BY <1>0 DEF SlabShape, SlabRecord, PageTables, Bitmaps
<1>2. s.slabs \in Seq(Int) /\ p \in Int /\ PageSize \in Nat  BY <1>0, <1>1, PageTablesAscend, PageNumbers
<1>3. k \in 0..n  BY <1>0, <1>1, PageTablesAscend
<1>4. /\ SlabBits(s) \subseteq Nat /\ TailBits(s) \subseteq SlabBits(s)
      /\ SlabBits(s) \ TailBits(s) = 0..(SlotsPerSlab(s) - 1)
  BY <1>1, BitsAreSlots
<1>5. /\ r \in SlabRecord /\ r.slot_size = s.slot_size /\ r.words = s.words /\ r.slabs = s.slabs
      /\ r.bitmaps = s.bitmaps /\ r.in_use = s.in_use /\ r.footprint = n * PageSize + PageSize + ArraysMapped(r)
  BY <1>0 DEF Grows
<1>6. TailBits(r) = TailBits(s)  BY <1>5 DEF TailBits, SlotsPerSlab
<1> DEFINE u == Inserted(s.slabs, k, p)
           v == Inserted(s.bitmaps, k, TailBits(s))
<1>7. /\ u \in Seq(Pages) /\ Len(u) = n + 1 /\ u[k + 1] = p
      /\ \A j \in 1..n : u[Up(k, j)] = s.slabs[j]
  <2>1. p \in Pages /\ s.slabs \in Seq(Pages) /\ k \in 0..Len(s.slabs)  BY <1>0, <1>1, <1>3
  <2> DEFINE m == s.slabs
             S == Pages
  <2>2. p \in S /\ k \in 0..Len(m) /\ m \in Seq(S)  BY <2>1
  <2>4. Len(m) = n  OBVIOUS
  <2> HIDE DEF m, n, S, u, v
  <2>5. CanInsert(S, m, k, p)  BY <2>2 DEF CanInsert
  <2>3. /\ Inserted(m, k, p) \in Seq(S) /\ Len(Inserted(m, k, p)) = Len(m) + 1
        /\ Inserted(m, k, p)[k + 1] = p
        /\ \A j \in 1..Len(m) : Inserted(m, k, p)[Up(k, j)] = m[j]
    BY <2>5, InsertedUp
  <2> QED  BY <2>4, <2>3 DEF m, S, u
<1>8. /\ v \in Seq(SUBSET Nat) /\ Len(v) = n + 1 /\ v[k + 1] = TailBits(s)
      /\ \A j \in 1..n : v[Up(k, j)] = s.bitmaps[j]
  <2> DEFINE S == SUBSET Nat
             x == TailBits(s)
  <2> DEFINE m == s.bitmaps
  <2>1. x \in S /\ k \in 0..Len(m) /\ m \in Seq(S)  BY <1>1, <1>3, <1>4
  <2> HIDE DEF S, x
  <2>3. Len(m) = n  BY <1>1
  <2> HIDE DEF m, n
  <2>4. CanInsert(S, m, k, x)  BY <2>1, <2>3 DEF CanInsert, n
  <2>2. /\ Inserted(m, k, x) \in Seq(S) /\ Len(Inserted(m, k, x)) = Len(m) + 1
        /\ Inserted(m, k, x)[k + 1] = x
        /\ \A j \in 1..Len(m) : Inserted(m, k, x)[Up(k, j)] = m[j]
    BY <2>4, InsertedUp
  <2> QED  BY <2>2, <2>3 DEF S, x, m
<1>9. Ascending(u)  BY <1>0, <1>1, <1>2, InsertedAscends
<1>10. /\ \A j \in 1..n : Up(k, j) \in (1..(n + 1)) \ {k + 1}
       /\ \A j \in 1..(n + 1) : j = k + 1 \/ \E i \in 1..n : j = Up(k, i)
       /\ \A i, j \in 1..n : Up(k, i) = Up(k, j) => i = j
  BY <1>1, <1>3, UpOnto
<1>11. /\ t \in SlabRecord /\ t.slabs = u /\ t.bitmaps = v /\ t.slot_size = s.slot_size /\ t.words = s.words
       /\ t.in_use = s.in_use /\ t.cap = r.cap /\ t.footprint = r.footprint
  <2>1. t = [r EXCEPT !.slabs = u, !.bitmaps = v]  BY <1>0, <1>5, <1>6 DEF SlabRecord
  <2>2. u \in PageTables /\ v \in Bitmaps  BY <1>7, <1>8 DEF PageTables, Bitmaps
  <2> HIDE DEF u, v
  <2> QED  BY <2>1, <2>2, <1>5 DEF SlabRecord
<1> HIDE DEF u, v, n
<1>12. Distinct(t.slabs)
  <2> SUFFICES ASSUME NEW i \in 1..(n + 1), NEW j \in 1..(n + 1), u[i] = u[j] PROVE i = j
    BY <1>7, <1>11 DEF Distinct
  <2>6. \A x \in 1..n : s.slabs[x] # p  BY <1>0 DEF n
  <2>1. \A x \in 1..n : u[Up(k, x)] # p  BY <1>7, <2>6
  <2>2. \A x, y \in 1..n : s.slabs[x] = s.slabs[y] => x = y  BY <1>1 DEF Distinct, n
  <2>3. CASE i = k + 1
    <3>1. u[j] = p  BY <2>3, <1>7
    <3> QED  BY <3>1, <2>1, <2>3, <1>10
  <2>4. CASE j = k + 1
    <3>1. u[i] = p  BY <2>4, <1>7
    <3> QED  BY <3>1, <2>1, <2>4, <1>10
  <2>5. CASE i # k + 1 /\ j # k + 1
    <3>1. PICK x \in 1..n : i = Up(k, x)  BY <2>5, <1>10
    <3>2. PICK y \in 1..n : j = Up(k, y)  BY <2>5, <1>10
    <3>3. s.slabs[x] = s.slabs[y]  BY <1>7, <3>1, <3>2
    <3> QED  BY <2>2, <3>1, <3>2, <3>3
  <2> QED  BY <2>3, <2>4, <2>5
<1>13. SlotsPerSlab(t) = SlotsPerSlab(s) /\ SlabBits(t) = SlabBits(s) /\ TailBits(t) = TailBits(s)
       /\ ArraysMapped(t) = ArraysMapped(r)
  BY <1>5, <1>11 DEF SlotsPerSlab, SlabBits, TailBits, ArraysMapped, ArraysBytes
<1>14. \A j \in 1..(n + 1) : v[j] \subseteq SlabBits(s) /\ TailBits(s) \subseteq v[j]
  <2> SUFFICES ASSUME NEW j \in 1..(n + 1) PROVE v[j] \subseteq SlabBits(s) /\ TailBits(s) \subseteq v[j]
    OBVIOUS
  <2>1. CASE j = k + 1  BY <2>1, <1>4, <1>8
  <2>2. CASE j # k + 1
    <3>1. PICK x \in 1..n : j = Up(k, x)  BY <2>2, <1>10
    <3>2. s.bitmaps[x] \subseteq SlabBits(s) /\ TailBits(s) \subseteq s.bitmaps[x]  BY <1>0 DEF SlabShape, n
    <3> QED  BY <3>1, <3>2, <1>8
  <2> QED  BY <2>1, <2>2
<1>15. n + 1 <= t.cap /\ t.footprint = (n + 1) * PageSize + ArraysMapped(t)
  <2>1. n * PageSize + PageSize = (n + 1) * PageSize  BY <1>1, <1>2 DEF n
  <2>2. r.cap \in Nat /\ n \in Nat  BY <1>1, <1>5 DEF SlabRecord, n
  <2> QED  BY <2>1, <2>2, <1>0, <1>5, <1>11, <1>13 DEF n
<1>16. SlabShape(t)
  <2>1. t.words # 0 /\ t.words = (SlotsPerSlab(t) + SlabWordBits - 1) \div SlabWordBits  BY <1>0, <1>1, <1>11, <1>13
  <2>2. Len(t.slabs) = n + 1 /\ Len(t.bitmaps) = n + 1 /\ Ascending(t.slabs)  BY <1>7, <1>8, <1>9, <1>11
  <2>3. \A j \in 1..Len(t.slabs) : t.bitmaps[j] \subseteq SlabBits(t) /\ TailBits(t) \subseteq t.bitmaps[j]
    BY <2>2, <1>11, <1>13, <1>14
  <2> QED  BY <2>1, <2>2, <2>3, <1>1, <1>11, <1>12, <1>15 DEF SlabShape
<1>17. SlabHolds(t) = SlabHolds(s)
  <2> SUFFICES ASSUME NEW a PROVE a \in SlabHolds(t) <=> a \in SlabHolds(s)  OBVIOUS
  <2>1. a \in SlabHolds(t) <=> \E j, c : InUse(t, j, c) /\ a = SlabSlot(t, j, c)
    BY <1>11, HoldsIff
  <2>2. a \in SlabHolds(s) <=> \E j, c : InUse(s, j, c) /\ a = SlabSlot(s, j, c)
    BY <1>1, HoldsIff
  <2>3. ASSUME NEW j, NEW c, InUse(t, j, c)
        PROVE  \E x : InUse(s, x, c) /\ SlabSlot(s, x, c) = SlabSlot(t, j, c)
    <3>1. j \in 1..(n + 1) /\ c \in v[j] /\ c \in 0..(SlotsPerSlab(s) - 1)
      BY <2>3, <1>7, <1>11, <1>13 DEF InUse
    <3>2. j # k + 1
      <4>1. c \notin TailBits(s)  BY <3>1, <1>4
      <4> QED  BY <4>1, <3>1, <1>8
    <3>3. PICK x \in 1..n : j = Up(k, x)  BY <3>1, <3>2, <1>10
    <3>4. InUse(s, x, c)  BY <3>1, <3>3, <1>8 DEF InUse, n
    <3>5. SlabSlot(s, x, c) = SlabSlot(t, j, c)  BY <3>3, <1>7, <1>11 DEF SlabSlot
    <3> QED  BY <3>4, <3>5
  <2>4. ASSUME NEW x, NEW c, InUse(s, x, c)
        PROVE  \E j : InUse(t, j, c) /\ SlabSlot(t, j, c) = SlabSlot(s, x, c)
    <3>1. x \in 1..n /\ c \in s.bitmaps[x] /\ c \in 0..(SlotsPerSlab(s) - 1)  BY <2>4 DEF InUse, n
    <3>2. Up(k, x) \in 1..(n + 1)  BY <3>1, <1>10
    <3>3. InUse(t, Up(k, x), c)  BY <3>1, <3>2, <1>7, <1>8, <1>11, <1>13 DEF InUse
    <3>4. SlabSlot(t, Up(k, x), c) = SlabSlot(s, x, c)  BY <3>1, <1>7, <1>11 DEF SlabSlot
    <3> QED  BY <3>3, <3>4
  <2>5. ASSUME a \in SlabHolds(t) PROVE a \in SlabHolds(s)
    <3>1. PICK j, c : InUse(t, j, c) /\ a = SlabSlot(t, j, c)  BY <2>1, <2>5
    <3> QED  BY <3>1, <2>2, <2>3
  <2>6. ASSUME a \in SlabHolds(s) PROVE a \in SlabHolds(t)
    <3>1. PICK x, c : InUse(s, x, c) /\ a = SlabSlot(s, x, c)  BY <2>2, <2>6
    <3> QED  BY <3>1, <2>1, <2>4
  <2> QED  BY <2>5, <2>6
<1>18. k + 1 \in 1..Len(t.slabs) /\ t.bitmaps[k + 1] = TailBits(t)
  <2>1. n \in Nat /\ k \in 0..n  BY <1>1, <1>3 DEF n
  <2>2. Len(t.slabs) = n + 1  BY <1>7, <1>11
  <2> QED  BY <2>1, <2>2, <1>8, <1>11, <1>13
<1> QED  BY <1>11, <1>16, <1>17, <1>18

\* Computing the size class's constants late changes no slot.
LEMMA ShapeWords ==
  ASSUME NEW s, SlabConstants, SlabShape(s), NEW r,
         r = IF s.words = 0 THEN slab_finalize_runtime_consts(s) ELSE s
  PROVE  /\ SlabShape(r) /\ r.words # 0 /\ r.slot_size = s.slot_size /\ r.slabs = s.slabs
         /\ SlabHolds(r) = SlabHolds(s) /\ r.in_use = s.in_use
<1>1. s \in SlabRecord /\ s.slot_size \in Nat /\ SlotFits(s.slot_size)  BY DEF SlabShape, SlabRecord
<1>2. CASE s.words = 0
  <2> DEFINE w == (SlotsPerSlab(s) + SlabWordBits - 1) \div SlabWordBits
  <2>1. r = [s EXCEPT !.words = w]  BY <1>2 DEF slab_finalize_runtime_consts
  <2>2. w \in Nat \ {0}
    <3> DEFINE t == [s EXCEPT !.words = w]
    <3>1. t.words = w /\ t.slot_size = s.slot_size  BY <1>1 DEF SlabRecord
    <3>2. SlotsPerSlab(t) = SlotsPerSlab(s)  BY <3>1 DEF SlotsPerSlab
    <3> HIDE DEF t, w
    <3>3. t.words = (SlotsPerSlab(t) + SlabWordBits - 1) \div SlabWordBits  BY <3>1, <3>2 DEF w
    <3> QED  BY <1>1, <3>1, <3>3, BitsAreSlots
  <2> HIDE DEF w
  <2>3. /\ r \in SlabRecord /\ r.words = w /\ r.slot_size = s.slot_size /\ r.slabs = s.slabs
        /\ r.bitmaps = s.bitmaps /\ r.cap = s.cap /\ r.footprint = s.footprint /\ r.in_use = s.in_use
    BY <1>1, <2>1, <2>2 DEF SlabRecord
  <2>4. s.cap = 0 /\ Len(s.slabs) = 0 /\ Len(s.bitmaps) = 0
    <3>1. s.cap = 0 /\ Len(s.slabs) <= s.cap /\ Len(s.bitmaps) = Len(s.slabs)  BY <1>2 DEF SlabShape
    <3>2. Len(s.slabs) \in Nat  BY <1>1 DEF SlabRecord, PageTables
    <3> QED  BY <3>1, <3>2
  <2>5. w = (SlotsPerSlab(r) + SlabWordBits - 1) \div SlabWordBits  BY <2>3 DEF w, SlotsPerSlab
  <2>6. ArraysMapped(r) = ArraysMapped(s)  BY <2>3, <2>4 DEF ArraysMapped
  <2>7. SlabShape(r)  BY <1>1, <2>2, <2>3, <2>4, <2>5, <2>6 DEF SlabShape
  <2>8. SlabHolds(r) = SlabHolds(s)
    <3>1. \A i, b : ~InUse(s, i, b) /\ ~InUse(r, i, b)  BY <2>3, <2>4 DEF InUse
    <3>2. \A a : a \notin SlabHolds(s) /\ a \notin SlabHolds(r)  BY <1>1, <2>3, <3>1, HoldsIff
    <3> QED  BY <3>2
  <2> QED  BY <2>2, <2>3, <2>7, <2>8
<1>3. CASE s.words # 0  BY <1>3
<1> QED  BY <1>2, <1>3

\* slab_grow_one adds an empty slab or nothing at all, whichever mapping fails.
LEMMA SlabGrow ==
  ASSUME NEW s, SlabConstants, SlabShape(s), NEW g \in slab_grow_one(s)
  PROVE  /\ ~g.abort /\ SlabShape(g.self) /\ g.self.slot_size = s.slot_size
         /\ SlabHolds(g.self) = SlabHolds(s) /\ g.self.in_use = s.in_use
         /\ g.ptr # NULL => g.ptr \in 1..Len(g.self.slabs) /\ g.self.bitmaps[g.ptr] = TailBits(g.self)
<1> DEFINE r == IF s.words = 0 THEN slab_finalize_runtime_consts(s) ELSE s
           taken == {s.slabs[i] : i \in DOMAIN s.slabs}
           With(p) == {IF h.ptr = NULL THEN Fails(Unmapped(h.self, PageSize)) ELSE h :
                         h \in slab_insert_sorted(Mapped(r, p, PageSize), p)}
<1>1. /\ SlabShape(r) /\ r.words # 0 /\ r.slot_size = s.slot_size /\ r.slabs = s.slabs
      /\ SlabHolds(r) = SlabHolds(s) /\ r.in_use = s.in_use
  BY ShapeWords
<1>2. g = Fails(r) \/ \E p \in Places(taken, PageSize) : g \in With(p)
  BY DEF slab_grow_one
<1>3. r \in SlabRecord /\ PageSize \in Nat \ {0}  BY <1>1, PageNumbers DEF SlabShape
<1> HIDE DEF r
<1>4. CASE g = Fails(r)
  <2>1. g.self = r /\ g.ptr = NULL /\ ~g.abort  BY <1>4 DEF Fails, Gives
  <2> QED  BY <2>1, <1>1
<1>5. CASE \E p \in Places(taken, PageSize) : g \in With(p)
  <2>1. PICK p \in Places(taken, PageSize) : g \in With(p)  BY <1>5
  <2>2. p \in Pages /\ \A i \in 1..Len(r.slabs) : r.slabs[i] # p
    <3>1. p \in Pages /\ Region(p, PageSize) \subseteq Pages \ taken  BY DEF Places
    <3>2. PageCount(PageSize) = 1
      <4>1. 1 \in Nat /\ 1 * PageSize = PageSize  BY PageNumbers
      <4> QED  BY <4>1, PageMultiple
    <3>3. p \in Region(p, PageSize)
      <4>1. p \in Nat  BY <3>1, PageNumbers
      <4> QED  BY <3>2, <4>1 DEF Region
    <3>4. DOMAIN s.slabs = 1..Len(s.slabs)  BY DEF SlabShape, SlabRecord, PageTables
    <3> QED  BY <3>1, <3>3, <3>4, <1>1
  <2> DEFINE m == Mapped(r, p, PageSize)
             n == Len(r.slabs)
             F == n * PageSize + PageSize
  <2>3. n \in Nat /\ F \in Nat /\ n * PageSize \in Nat
    <3>1. n \in Nat  BY <1>3 DEF SlabRecord, PageTables
    <3> HIDE DEF n
    <3>2. n * PageSize \in Nat  BY <3>1, <1>3
    <3> QED  BY <3>1, <3>2, <1>3
  <2>4. /\ m \in SlabRecord /\ m.slot_size = r.slot_size /\ m.words = r.words /\ m.slabs = r.slabs
        /\ m.bitmaps = r.bitmaps /\ m.in_use = r.in_use /\ m.cap = r.cap
        /\ m.footprint = r.footprint + PageSize
    <3> DEFINE f == r.footprint + PageSize
               d == r.dirty \ Bytes(p * PageSize, PageSize)
    <3>1. m = [r EXCEPT !.footprint = f, !.dirty = d]  BY DEF Mapped
    <3>2. f \in Nat /\ d \in SUBSET Nat  BY <1>3 DEF SlabRecord
    <3> HIDE DEF m, d
    <3>3. f = r.footprint + PageSize  OBVIOUS
    <3> HIDE DEF f
    <3> QED  BY <3>1, <3>2, <3>3, <1>3 DEF SlabRecord
  <2> HIDE DEF m, F
  <2>5. ArraysMapped(m) = ArraysMapped(r) /\ ArraysMapped(r) \in Nat
    <3>1. ArraysMapped(m) = ArraysMapped(r)  BY <2>4 DEF ArraysMapped, ArraysBytes
    <3>2. r.words \in Nat /\ r.cap \in Nat  BY <1>3 DEF SlabRecord
    <3> QED  BY <3>1, <3>2, ArraysType DEF ArraysMapped
  <2>6. m.footprint = F + ArraysMapped(m)
    <3>1. r.footprint = n * PageSize + ArraysMapped(r)  BY <1>1 DEF SlabShape
    <3> DEFINE x == n * PageSize
    <3>2. x \in Nat  BY <2>3
    <3>3. r.footprint = x + ArraysMapped(r) /\ F = x + PageSize  BY <3>1 DEF F
    <3> HIDE DEF x
    <3> QED  BY <3>2, <3>3, <2>4, <2>5, <1>3
  <2> DEFINE room == IF Len(m.slabs) = m.cap THEN slab_grow_caps(m) ELSE {Gives(m, 1)}
             Put(q) == LET k == LowerBound(q.slabs, p)
                       IN  [q EXCEPT !.slabs = Inserted(@, k, p), !.bitmaps = Inserted(@, k, TailBits(q))]
  <2>7. PICK e \in room : g = IF e.ptr = NULL THEN Fails(Unmapped(e.self, PageSize))
                              ELSE Gives(Put(e.self), LowerBound(e.self.slabs, p) + 1)
    <3>1. PICK h \in slab_insert_sorted(m, p) : g = IF h.ptr = NULL THEN Fails(Unmapped(h.self, PageSize)) ELSE h
      BY <2>1 DEF m
    <3>2. PICK e \in room : h = IF e.ptr = NULL THEN e ELSE Gives(Put(e.self), LowerBound(e.self.slabs, p) + 1)
      BY DEF slab_insert_sorted
    <3>3. CASE e.ptr = NULL  BY <3>1, <3>2, <3>3
    <3>4. CASE e.ptr # NULL
      <4>1. h.ptr = LowerBound(e.self.slabs, p) + 1  BY <3>2, <3>4 DEF Gives
      <4>2. e.self.slabs = r.slabs
        <5>1. CASE e = Gives(m, 1)  BY <5>1, <2>4 DEF Gives
        <5>2. CASE e \in slab_grow_caps(m)  BY <5>2, <2>3, <2>4, <2>6, GrowCaps DEF Grows
        <5> QED  BY <5>1, <5>2
      <4>3. LowerBound(e.self.slabs, p) \in Nat
        <5>1. r.slabs \in Seq(Pages)  BY <1>3 DEF SlabRecord, PageTables
        <5>2. Ascending(r.slabs)  BY <1>1 DEF SlabShape
        <5> QED  BY <4>2, <5>1, <5>2, <2>2, PageTablesAscend
      <4>4. h.ptr # NULL  BY <4>1, <4>3 DEF NULL
      <4> QED  BY <3>1, <3>2, <3>4, <4>4
    <3> QED  BY <3>3, <3>4
  <2>8. /\ ~e.abort /\ Grows(m, e.self, F) /\ e.ptr \in {NULL, 1}
        /\ IF e.ptr = NULL THEN e.self.cap = m.cap ELSE n < e.self.cap
    <3>1. Len(m.slabs) = n /\ n <= m.cap /\ m.cap \in Nat
      BY <1>1, <2>4 DEF SlabShape, SlabRecord
    <3>2. CASE n = m.cap
      <4>1. e \in slab_grow_caps(m)  BY <3>1, <3>2, <2>7
      <4> QED  BY <4>1, <3>2, <2>3, <2>4, <2>6, GrowCaps
    <3>3. CASE n # m.cap
      <4>1. e = Gives(m, 1)  BY <3>1, <3>3, <2>7
      <4>2. e.self = m /\ e.ptr = 1 /\ ~e.abort  BY <4>1 DEF Gives
      <4> QED  BY <4>2, <3>1, <3>3, <2>3, <2>4, <2>6 DEF Grows, NULL
    <3> QED  BY <3>2, <3>3
  <2> DEFINE t == e.self
  <2>9. CASE e.ptr = NULL
    <3> DEFINE q == Unmapped(t, PageSize)
    <3>1. g.self = q /\ g.ptr = NULL /\ ~g.abort  BY <2>7, <2>9 DEF Fails, Gives
    <3>2. t \in SlabRecord /\ t.footprint = F + ArraysMapped(t) /\ t.cap = m.cap /\ t.words = m.words
          /\ t.slot_size = m.slot_size /\ t.slabs = m.slabs /\ t.bitmaps = m.bitmaps /\ t.in_use = m.in_use
      BY <2>8, <2>9 DEF Grows
    <3>3. ArraysMapped(t) = ArraysMapped(r)  BY <3>2, <2>4 DEF ArraysMapped, ArraysBytes
    <3> DEFINE x == n * PageSize
    <3>4. x \in Nat /\ t.footprint = x + PageSize + ArraysMapped(r) /\ r.footprint = x + ArraysMapped(r)
      BY <3>2, <3>3, <2>3, <1>1 DEF F, SlabShape
    <3> HIDE DEF x
    <3>5. PageSize <= t.footprint /\ t.footprint - PageSize = r.footprint /\ r.footprint \in Nat
      BY <3>4, <2>5, <1>3
    <3> HIDE DEF t
    <3>6. q = [t EXCEPT !.footprint = r.footprint]  BY <3>5 DEF Unmapped
    <3>7. q \in SlabRecord /\ q.footprint = r.footprint /\ q.cap = r.cap /\ q.words = r.words
          /\ q.slot_size = r.slot_size /\ q.slabs = r.slabs /\ q.bitmaps = r.bitmaps /\ q.in_use = r.in_use
      BY <3>2, <3>5, <3>6, <2>4 DEF SlabRecord
    <3> HIDE DEF q
    <3>8. SlabSame(r, q)  BY <3>7 DEF SlabSame
    <3>9. SlabShape(q)
      BY <3>7, <3>8, <1>1, SlabSameIs DEF SlabShape
    <3>10. SlabHolds(q) = SlabHolds(r)
      BY <3>7 DEF SlabHolds, SlabSlot, SlotsPerSlab
    <3> QED  BY <3>1, <3>7, <3>9, <3>10, <1>1
  <2>10. CASE e.ptr # NULL
    <3> DEFINE k == LowerBound(t.slabs, p)
               q == Put(t)
    <3>1. g.self = q /\ g.ptr = k + 1 /\ ~g.abort  BY <2>7, <2>10 DEF Gives
    <3>2. Grows(r, t, F)
      BY <2>4, <2>8 DEF Grows
    <3>3. n < t.cap /\ t.slabs = r.slabs  BY <2>8, <2>10, <3>2 DEF Grows
    <3>4. k = LowerBound(r.slabs, p)  BY <3>3
    <3>5. q = [t EXCEPT !.slabs = Inserted(@, k, p), !.bitmaps = Inserted(@, k, TailBits(t))]  OBVIOUS
    <3> HIDE DEF k, q, t
    <3>6. /\ SlabShape(q) /\ q.slot_size = r.slot_size /\ SlabHolds(q) = SlabHolds(r) /\ q.in_use = r.in_use
          /\ k + 1 \in 1..Len(q.slabs) /\ q.bitmaps[k + 1] = TailBits(q)
      <4>1. Grows(r, t, Len(r.slabs) * PageSize + PageSize) /\ Len(r.slabs) < t.cap  BY <3>2, <3>3 DEF F
      <4> HIDE DEF n, F
      <4>2. PutsIn(r, t, p, k, q)  BY <1>1, <2>2, <3>4, <3>5, <4>1 DEF PutsIn
      <4> QED  BY <4>2, SlabPut
    <3> QED  BY <3>1, <3>6, <1>1
  <2> QED  BY <2>9, <2>10
<1> QED  BY <1>2, <1>4, <1>5

\* A set of naturals that is not empty has a least element.
LEMMA LeastIsIn ==
  ASSUME NEW R, R \subseteq Nat, R # {}
  PROVE  Min(R) \in R
<1> DEFINE T == {n \in Nat : \A m \in 0..n : m \notin R}
<1>1. SUFFICES ASSUME \A x \in R : \E y \in R : ~(x <= y) PROVE FALSE
  BY Zenon DEF Min
<1>2. 0 \in T
  <2>1. 0 \notin R  BY <1>1
  <2> QED  BY <2>1
<1>3. ASSUME NEW n \in Nat, n \in T PROVE n + 1 \in T
  <2>1. \A m \in 0..n : m \notin R  BY <1>3
  <2>2. n + 1 \notin R
    <3> SUFFICES ASSUME n + 1 \in R PROVE FALSE  OBVIOUS
    <3>1. PICK y \in R : ~(n + 1 <= y)  BY <1>1
    <3>2. y \in 0..n  BY <3>1
    <3> QED  BY <3>2, <2>1
  <2> QED  BY <2>1, <2>2
<1>4. Nat \subseteq T
  <2> HIDE DEF T
  <2> QED  BY <1>2, <1>3, SetInduction
<1>5. PICK x \in R : TRUE  OBVIOUS
<1> QED  BY <1>4, <1>5

\* A smaller product with the same factor has the smaller other factor.
LEMMA SmallFactor ==
  ASSUME NEW n \in Nat, NEW b \in Nat, NEW z \in Nat, b * z < n * z
  PROVE  b \in 0..(n - 1)
<1>1. n < b => n * z + z <= b * z  BY NextMultiple
<1>2. n = b => n * z = b * z  OBVIOUS
<1> DEFINE N == n * z
           B == b * z
<1>3. N \in Nat /\ B \in Nat  OBVIOUS
<1> HIDE DEF N, B
<1>4. B < N /\ (n < b => N + z <= B) /\ (n = b => N = B)  BY <1>1, <1>2 DEF N, B
<1> QED  BY <1>3, <1>4

\* The array of pages, as a table to search.
LEMMA SlabsSearched ==
  ASSUME NEW t \in Seq(Pages)
  PROVE  t \in Seq(Int) /\ Len(t) \in Nat
<1>1. Pages \subseteq Int  BY PageNumbers
<1>2. Len(t) \in Nat /\ t \in [1..Len(t) -> Pages]  OBVIOUS
<1>3. t \in [1..Len(t) -> Int]  BY <1>1, <1>2
<1> QED  BY <1>1, <1>2, <1>3

\* What slab_allocator_allocate does to the blocks.
LEMMA SlabAllocOK ==
  ASSUME NEW s, NEW H, SlabConstants, SlabSound(s, H), NEW n \in Nat, NEW z \in BOOLEAN,
         NEW o \in slab_allocator_allocate(s, n, z)
  PROVE  /\ ~o.abort
         /\ o.ptr = NULL => SlabSound(o.self, H)
         /\ o.ptr # NULL => /\ n # 0 /\ o.ptr \in Nat \ {0} /\ o.ptr \notin Addrs(H)
                            /\ SlabSound(o.self, H \cup {Block(o.ptr, n)})
                            /\ z => Bytes(o.ptr, n) \cap o.self.dirty = {}
<1> DEFINE FreeBits(i) == SlabBits(s) \ s.bitmaps[i]
           roomy == {i \in DOMAIN s.slabs : FreeBits(i) # {}}
<1>1. SlabShape(s) /\ s.slot_size \in Nat \ {0} /\ DOMAIN s.slabs = 1..Len(s.slabs)
  BY DEF SlabSound, SlabShape, SlabRecord, PageTables
<1>2. CASE n = 0 \/ n > s.slot_size
  <2>1. o = Fails(s)  BY <1>2 DEF slab_allocator_allocate
  <2>2. o.self = s /\ o.ptr = NULL /\ ~o.abort  BY <2>1 DEF Fails, Gives
  <2> QED  BY <2>2
<1>3. CASE ~(n = 0 \/ n > s.slot_size) /\ roomy # {}
  <2> DEFINE i == Min(roomy)
             b == Min(FreeBits(i))
  <2>1. o = TakeSlot(s, i, b, z)  BY <1>3 DEF slab_allocator_allocate
  <2>2. i \in roomy
    <3>1. roomy \subseteq Nat  BY <1>1
    <3> HIDE DEF roomy
    <3> QED  BY <3>1, <1>3, LeastIsIn
  <2>3. i \in 1..Len(s.slabs) /\ FreeBits(i) # {}  BY <2>2, <1>1
  <2> HIDE DEF i
  <2>4. FreeBits(i) \subseteq Nat  BY <2>3, <1>1, WordsCounted
  <2>5. b \in SlabBits(s) \ s.bitmaps[i]  BY <2>3, <2>4, LeastIsIn
  <2> HIDE DEF b
  <2>6. n \in Nat \ {0} /\ n <= s.slot_size  BY <1>1, <1>3
  <2>7. /\ ~o.abort /\ o.ptr \in Nat \ {0} /\ o.ptr \notin Addrs(H)
        /\ SlabSound(o.self, H \cup {Block(o.ptr, n)})
        /\ z => Bytes(o.ptr, n) \cap o.self.dirty = {}
    BY <2>1, <2>3, <2>5, <2>6, SlabTake
  <2> QED  BY <2>7, <1>3 DEF NULL
<1>4. CASE ~(n = 0 \/ n > s.slot_size) /\ roomy = {}
  <2>1. PICK g \in slab_grow_one(s) : o = IF g.ptr = NULL THEN g ELSE TakeSlot(g.self, g.ptr, 0, z)
    BY <1>4 DEF slab_allocator_allocate
  <2>2. /\ ~g.abort /\ SlabShape(g.self) /\ g.self.slot_size = s.slot_size
        /\ SlabHolds(g.self) = SlabHolds(s) /\ g.self.in_use = s.in_use
        /\ g.ptr # NULL => g.ptr \in 1..Len(g.self.slabs) /\ g.self.bitmaps[g.ptr] = TailBits(g.self)
    BY <1>1, SlabGrow
  <2> DEFINE t == g.self
  <2>3. SlabSound(t, H)  BY <2>2, SlabSoundSame
  <2>4. CASE g.ptr = NULL  BY <2>1, <2>2, <2>3, <2>4
  <2>5. CASE g.ptr # NULL
    <3> DEFINE i == g.ptr
    <3>1. o = TakeSlot(t, i, 0, z)  BY <2>1, <2>5
    <3>2. i \in 1..Len(t.slabs) /\ t.bitmaps[i] = TailBits(t)  BY <2>2, <2>5
    <3>3. SlabBits(t) \ TailBits(t) = 0..(SlotsPerSlab(t) - 1)  BY <2>2, <3>2, WordsCounted
    <3>4. SlotsPerSlab(t) \in Nat \ {0}  BY <2>2, <1>1, SlotsTile DEF SlabShape
    <3>5. 0 \in SlabBits(t) \ t.bitmaps[i]  BY <3>2, <3>3, <3>4
    <3>6. n \in Nat \ {0} /\ n <= t.slot_size  BY <1>1, <1>4, <2>2
    <3> HIDE DEF t, i
    <3>7. /\ ~o.abort /\ o.ptr \in Nat \ {0} /\ o.ptr \notin Addrs(H)
          /\ SlabSound(o.self, H \cup {Block(o.ptr, n)})
          /\ z => Bytes(o.ptr, n) \cap o.self.dirty = {}
      BY <2>3, <3>1, <3>2, <3>5, <3>6, SlabTake
    <3> QED  BY <3>7, <1>4 DEF NULL
  <2> QED  BY <2>4, <2>5
<1> QED  BY <1>2, <1>3, <1>4

\* The slot of a block the callers hold is found, and one they do not is not.
LEMMA SlabFinds ==
  ASSUME NEW s, NEW H, SlabConstants, SlabSound(s, H), NEW a \in Addrs(H)
  PROVE  \E i, b : /\ InUse(s, i, b) /\ a = SlabSlot(s, i, b) /\ a # NULL
                   /\ Found(s.slabs, a \div PageSize) + 1 = i
                   /\ (a % PageSize) % s.slot_size = 0 /\ (a % PageSize) \div s.slot_size = b
<1>1. SlabShape(s) /\ s \in SlabRecord /\ a \in SlabHolds(s)  BY DEF SlabSound, SlabShape
<1>2. PICK i, b : InUse(s, i, b) /\ a = SlabSlot(s, i, b)  BY <1>1, HoldsIff
<1>3. i \in 1..Len(s.slabs) /\ b \in 0..(SlotsPerSlab(s) - 1)  BY <1>2 DEF InUse
<1>4. /\ a \in Nat \ {0} /\ a \div PageSize = s.slabs[i] /\ a % PageSize = b * s.slot_size
      /\ (b * s.slot_size) % s.slot_size = 0 /\ (b * s.slot_size) \div s.slot_size = b
  BY <1>1, <1>2, <1>3, SlotAddress
<1>5. s.slabs \in Seq(Int) /\ Ascending(s.slabs) /\ Distinct(s.slabs)
  <2>1. s.slabs \in Seq(Pages) /\ Ascending(s.slabs) /\ Distinct(s.slabs)  BY <1>1 DEF SlabShape, SlabRecord, PageTables
  <2> QED  BY <2>1, SlabsSearched
<1>6. Found(s.slabs, s.slabs[i]) = i - 1  BY <1>3, <1>5, FoundIndex
<1>7. i - 1 + 1 = i  BY <1>3
<1> QED  BY <1>2, <1>4, <1>6, <1>7 DEF NULL

\* An address that is not held leads to a free slot: the freeing of it is caught.
LEMMA SlabFindsNone ==
  ASSUME NEW s, NEW H, SlabConstants, SlabSound(s, H), NEW a \in Nat, a \notin Addrs(H),
         NEW i, i = Found(s.slabs, a \div PageSize) + 1, i # 0,
         NEW b, b = (a % PageSize) \div s.slot_size, (a % PageSize) % s.slot_size = 0
  PROVE  b \notin s.bitmaps[i]
<1> SUFFICES ASSUME b \in s.bitmaps[i] PROVE FALSE  OBVIOUS
<1> DEFINE p == a \div PageSize
           r == a % PageSize
           z == s.slot_size
<1>1. SlabShape(s) /\ s \in SlabRecord /\ a \notin SlabHolds(s) /\ z \in Nat \ {0} /\ SlotFits(z)
  BY DEF SlabSound, SlabShape, SlabRecord
<1>2. PageSize \in Nat \ {0} /\ p \in Nat /\ r \in 0..(PageSize - 1) /\ a = PageSize * p + r
  BY PageNumbers, DivProps
<1>3. s.slabs \in Seq(Pages) /\ Ascending(s.slabs) /\ Pages \subseteq Nat
  BY <1>1, PageNumbers DEF SlabShape, SlabRecord, PageTables
<1>4. i \in 1..Len(s.slabs) /\ s.slabs[i] = p
  <2> DEFINE t == s.slabs
             f == Found(t, p)
  <2>1. t \in Seq(Int) /\ Len(t) \in Nat /\ Ascending(t)  BY <1>3, SlabsSearched
  <2>3. i = f + 1 /\ p \in Int  BY <1>2
  <2> HIDE DEF t, p
  <2>2. f \in -1..(Len(t) - 1) /\ (f # -1 => t[f + 1] = p)
    BY <2>1, <2>3, FoundIs
  <2> HIDE DEF f
  <2>4. i \in 1..Len(t) /\ t[i] = p  BY <2>1, <2>2, <2>3
  <2> QED  BY <2>4 DEF t, p
<1>5. b \in Nat /\ r = b * z
  <2> HIDE DEF r, z
  <2>0. b = r \div z /\ r % z = 0  BY DEF r, z
  <2>1. r \in Nat  BY <1>2
  <2>2. b \in Nat /\ r = z * b + (r % z)  BY <2>0, <2>1, <1>1, DivProps
  <2> QED  BY <2>0, <2>1, <2>2, <1>1
<1>6. b \in 0..(SlotsPerSlab(s) - 1)
  <2> DEFINE n == SlotsPerSlab(s)
  <2>1. n \in Nat \ {0} /\ n * z = PageSize  BY <1>1, SlotsTile
  <2>2. b * z < n * z  BY <2>1, <1>2, <1>5
  <2> HIDE DEF n, z
  <2> QED  BY <2>1, <2>2, <1>1, <1>5, SmallFactor DEF n, z
<1>7. InUse(s, i, b)  BY <1>4, <1>6 DEF InUse
<1>8. a = SlabSlot(s, i, b)
  <2>1. SlabSlot(s, i, b) = p * PageSize + r  BY <1>4, <1>5 DEF SlabSlot
  <2>2. PageSize * p = p * PageSize  BY <1>2
  <2> QED  BY <2>1, <2>2, <1>2
<1> QED  BY <1>1, <1>7, <1>8, HoldsIff

\* A block given back leaves the others as they were.
LEMMA SlabFreeOK ==
  ASSUME NEW s, NEW H, SlabConstants, SlabSound(s, H), NEW x \in H,
         NEW o \in slab_allocator_deallocate(s, x.addr)
  PROVE  ~o.abort /\ SlabSound(o.self, H \ {x})
<1> DEFINE a == x.addr
           Z == s.slot_size
           G == H \ {x}
<1>1. s \in SlabRecord /\ SlabShape(s) /\ WellHeld(H) /\ Z \in Nat \ {0} /\ a \in Addrs(H)
  BY DEF SlabSound, SlabShape, SlabRecord, Addrs
<1>2. PICK i, b : /\ InUse(s, i, b) /\ a = SlabSlot(s, i, b) /\ a # NULL
                  /\ Found(s.slabs, a \div PageSize) + 1 = i
                  /\ (a % PageSize) % s.slot_size = 0 /\ (a % PageSize) \div s.slot_size = b
  BY <1>1, SlabFinds
<1>3. i \in 1..Len(s.slabs) /\ b \in 0..(SlotsPerSlab(s) - 1) /\ b \in s.bitmaps[i] /\ i # 0  BY <1>2 DEF InUse
<1> DEFINE B == s.bitmaps[i] \ {b}
           t == Discharge([s EXCEPT !.bitmaps[i] = @ \ {b}], Z)
<1>4. o = Gives(t, Z)  BY <1>2, <1>3 DEF slab_allocator_deallocate
<1>5. ~o.abort /\ o.self = t  BY <1>4 DEF Gives
<1>6. Cardinality(G) = Cardinality(H) - 1 /\ Cardinality(H) \in Nat \ {0}
  <2>1. IsFiniteSet(H)  BY <1>1 DEF WellHeld
  <2>2. Cardinality(G) = Cardinality(H) - 1 /\ Cardinality(H) \in Nat  BY <2>1, FS_RemoveElement, FS_CardinalityType
  <2>3. Cardinality(H) # 0  BY <2>1, FS_EmptySet
  <2> QED  BY <2>2, <2>3
<1>7. s.in_use = Z * Cardinality(H) /\ Z <= s.in_use /\ s.in_use - Z = Z * Cardinality(G)
  <2> DEFINE h == Cardinality(H)
  <2>1. s.in_use = Z * h  BY DEF SlabSound
  <2>2. h \in Nat \ {0} /\ Cardinality(G) = h - 1  BY <1>6
  <2> HIDE DEF Z, h, G
  <2>3. Z \in Nat  BY <1>1 DEF Z
  <2>4. Z <= Z * h /\ Z * h - Z = Z * (h - 1)
    <3>1. h - 1 \in Nat  BY <2>2
    <3>2. (h - 1) * Z + Z = h * Z  BY <2>2, <2>3
    <3>3. (h - 1) * Z = Z * (h - 1) /\ h * Z = Z * h /\ Z * (h - 1) \in Nat  BY <3>1, <2>2, <2>3
    <3> QED  BY <3>2, <3>3, <2>3
  <2> QED  BY <2>1, <2>2, <2>4 DEF h
<1>8. t = [s EXCEPT !.bitmaps = [s.bitmaps EXCEPT ![i] = B], !.in_use = Z * Cardinality(G)]
  <2> DEFINE q == [s EXCEPT !.bitmaps = [s.bitmaps EXCEPT ![i] = B]]
  <2>1. q = [s EXCEPT !.bitmaps[i] = @ \ {b}]  BY <1>1 DEF SlabRecord
  <2>2. q.in_use = s.in_use  BY <1>1 DEF SlabRecord
  <2> HIDE DEF B
  <2>3. Discharge(q, Z) = [q EXCEPT !.in_use = s.in_use - Z]  BY <1>7, <2>2 DEF Discharge
  <2> QED  BY <2>1, <2>3, <1>7
<1>9. [s.bitmaps EXCEPT ![i] = B] \in Seq(SUBSET Nat)
  <2>1. s.bitmaps \in Seq(SUBSET Nat) /\ Len(s.bitmaps) = Len(s.slabs)  BY <1>1 DEF SlabShape, SlabRecord, Bitmaps
  <2>2. i \in 1..Len(s.bitmaps)  BY <2>1, <1>3
  <2>3. B \in SUBSET Nat
    <3>1. s.bitmaps[i] \in SUBSET Nat  BY <2>1, <2>2
    <3> QED  BY <3>1
  <2> HIDE DEF B
  <2> QED  BY <2>1, <2>2, <2>3, SeqExcept
<1> DEFINE U == [s.bitmaps EXCEPT ![i] = B]
           w == Z * Cardinality(G)
<1>10. U \in Bitmaps /\ w \in Nat
  <2>1. U \in Bitmaps  BY <1>9 DEF Bitmaps
  <2>2. s.in_use \in Nat  BY <1>1 DEF SlabRecord
  <2> HIDE DEF U, Z, G
  <2>3. Z \in Nat  BY <1>1 DEF Z
  <2> QED  BY <2>1, <2>2, <2>3, <1>7
<1>11. /\ t \in SlabRecord /\ SlabSame(s, t) /\ t.bitmaps = U /\ t.in_use = w
  <2> HIDE DEF t, U, w
  <2>1. t = [s EXCEPT !.bitmaps = U, !.in_use = w]  BY <1>8 DEF U, w
  <2> QED  BY <2>1, <1>10, <1>1 DEF SlabRecord, SlabSame
<1>12. B \subseteq SlabBits(s) /\ TailBits(s) \subseteq B
  <2>1. /\ SlabBits(s) \ TailBits(s) = 0..(SlotsPerSlab(s) - 1)
        /\ s.bitmaps[i] \subseteq SlabBits(s) /\ TailBits(s) \subseteq s.bitmaps[i]
    BY <1>1, <1>3, WordsCounted
  <2>2. b \notin TailBits(s)  BY <2>1, <1>3
  <2> QED  BY <2>1, <2>2
<1> HIDE DEF t
<1>13. SlabShape(t) /\ \A j, c : InUse(t, j, c) <=> IF j = i THEN c \in B /\ c \in 0..(SlotsPerSlab(s) - 1)
                                                            ELSE InUse(s, j, c)
  <2> HIDE DEF B
  <2> QED  BY <1>1, <1>3, <1>11, <1>12, BitsChanged DEF U
<1>14. \A j, c : InUse(t, j, c) <=> InUse(s, j, c) /\ ~(j = i /\ c = b)
  <2> SUFFICES ASSUME NEW j, NEW c PROVE InUse(t, j, c) <=> InUse(s, j, c) /\ ~(j = i /\ c = b)  OBVIOUS
  <2>1. InUse(s, i, c) <=> c \in s.bitmaps[i] /\ c \in 0..(SlotsPerSlab(s) - 1)  BY <1>3 DEF InUse
  <2>2. c \in B <=> c \in s.bitmaps[i] /\ c # b  OBVIOUS
  <2> QED  BY <2>1, <2>2, <1>13, Zenon
<1>15. SlabHolds(t) = SlabHolds(s) \ {a}  BY <1>1, <1>2, <1>3, <1>11, <1>13, <1>14, HoldsLess
<1>16. WellHeld(G) /\ Addrs(G) = Addrs(H) \ {a}  BY <1>1, HeldLess
<1>17. SlabHolds(s) = Addrs(H) /\ t.slot_size = Z /\ \A y \in G : y.len <= Z  BY <1>11 DEF SlabSound, SlabSame
<1>18. SlabSound(t, G)  BY <1>11, <1>13, <1>15, <1>16, <1>17 DEF SlabSound
<1> QED  BY <1>5, <1>18

\* A pointer that is no block's is refused.
LEMMA SlabStaleOK ==
  ASSUME NEW s, NEW H, SlabConstants, SlabSound(s, H), NEW a \in Nat \ {0}, a \notin Addrs(H),
         NEW o \in slab_allocator_deallocate(s, a)
  PROVE  o.abort
<1> DEFINE i == Found(s.slabs, a \div PageSize) + 1
           f == a % PageSize
           b == f \div s.slot_size
<1>1. i # 0 /\ f % s.slot_size = 0 => b \notin s.bitmaps[i]  BY SlabFindsNone
<1>2. o = Aborts(s)  BY <1>1 DEF slab_allocator_deallocate, NULL
<1> QED  BY <1>2 DEF Aborts

\* A block that keeps its slot may have any length the slot has room for.
LEMMA SlabResized ==
  ASSUME NEW s, NEW H, SlabConstants, SlabSound(s, H), NEW x \in H, NEW n \in Nat \ {0}, n <= s.slot_size
  PROVE  x.addr \notin Addrs(H \ {x}) /\ SlabSound(s, (H \ {x}) \cup {Block(x.addr, n)})
<1> DEFINE Z == s.slot_size
           G == H \ {x}
           y == Block(x.addr, n)
<1>1. SlabShape(s) /\ WellHeld(H) /\ Z \in Nat \ {0} /\ SlabHolds(s) = Addrs(H) /\ \A b \in H : b.len <= Z
      /\ s.in_use = Z * Cardinality(H)
  BY DEF SlabSound, SlabShape, SlabRecord
<1>2. x.addr \in Nat \ {0}  BY <1>1 DEF WellHeld
<1>3. WellHeld(G) /\ Addrs(G) = Addrs(H) \ {x.addr}  BY <1>1, HeldLess
<1>4. \A b \in G : IsDisjoint(b, y)
  <2> SUFFICES ASSUME NEW b \in G PROVE IsDisjoint(b, y)  OBVIOUS
  <2>1. b.addr # x.addr /\ b.addr \in SlabHolds(s) /\ x.addr \in SlabHolds(s) /\ b.addr \in Nat /\ b.len \in Nat /\ b.len <= Z
    BY <1>1, HeldUnique DEF WellHeld, Addrs
  <2>2. b.addr + Z <= x.addr \/ x.addr + Z <= b.addr
    <3>1. PICK i, c : InUse(s, i, c) /\ b.addr = SlabSlot(s, i, c)  BY <1>1, <2>1, HoldsIff DEF SlabShape
    <3>2. PICK j, d : InUse(s, j, d) /\ x.addr = SlabSlot(s, j, d)  BY <1>1, <2>1, HoldsIff DEF SlabShape
    <3>3. <<i, c>> # <<j, d>>  BY <3>1, <3>2, <2>1
    <3> QED  BY <1>1, <3>1, <3>2, <3>3, SlotsApart DEF InUse
  <2>3. y.addr = x.addr /\ y.len = n  BY DEF Block
  <2> HIDE DEF y, Z
  <2>4. Z \in Nat /\ n <= Z  BY <1>1 DEF Z
  <2> QED  BY <1>2, <2>1, <2>2, <2>3, <2>4 DEF IsDisjoint
<1>5. WellHeld(G \cup {y}) /\ Addrs(G \cup {y}) = Addrs(H)
  <2>1. WellHeld(G \cup {y}) /\ Addrs(G \cup {y}) = Addrs(G) \cup {x.addr}  BY <1>2, <1>3, <1>4, HeldMore
  <2>2. x.addr \in Addrs(H)  BY DEF Addrs
  <2> QED  BY <2>1, <2>2, <1>3
<1>6. Cardinality(G \cup {y}) = Cardinality(H)
  <2>1. Cardinality(Addrs(G \cup {y})) = Cardinality(G \cup {y}) /\ Cardinality(Addrs(H)) = Cardinality(H)
    BY <1>1, <1>5, HeldCount
  <2> QED  BY <2>1, <1>5
<1>7. \A b \in G \cup {y} : b.len <= Z  BY <1>1 DEF Block
<1> QED  BY <1>1, <1>3, <1>5, <1>6, <1>7 DEF SlabSound

\* A resize in place keeps the slot and the books.
LEMMA SlabResizeOK ==
  ASSUME NEW s, NEW H, SlabConstants, SlabSound(s, H), NEW x \in H, NEW n \in Nat \ {0},
         NEW o \in slab_allocator_resize(s, x.addr, n), o.ptr # NULL
  PROVE  x.addr \notin Addrs(H \ {x}) /\ SlabSound(o.self, (H \ {x}) \cup {Block(x.addr, n)})
<1>1. o.self = s /\ n <= s.slot_size  BY DEF slab_allocator_resize, Gives, NULL
<1> QED  BY <1>1, SlabResized

\* A remap moves the block, or keeps it when the new slot cannot be had.
LEMMA SlabRemapOK ==
  ASSUME NEW s, NEW H, SlabConstants, SlabSound(s, H), NEW x \in H, NEW n \in Nat,
         NEW o \in slab_allocator_remap(s, x.addr, n)
  PROVE  /\ ~o.abort
         /\ o.ptr = NULL => SlabSound(o.self, IF n = 0 THEN H \ {x} ELSE H)
         /\ o.ptr # NULL => /\ n # 0 /\ o.ptr \in Nat \ {0} /\ o.ptr \notin Addrs(H \ {x})
                            /\ SlabSound(o.self, (H \ {x}) \cup {Block(o.ptr, n)})
<1>1. x.addr \in Nat \ {0}  BY DEF SlabSound, WellHeld
<1>2. CASE n = 0
  <2>1. PICK d \in slab_allocator_deallocate(s, x.addr) : o = [d EXCEPT !.ptr = NULL]
    BY <1>1, <1>2 DEF slab_allocator_remap, NULL
  <2>2. ~d.abort /\ SlabSound(d.self, H \ {x})  BY SlabFreeOK
  <2>3. d \in {Fails(s), Aborts(s)} \/ \E t, p : d = Gives(t, p)  BY DEF slab_allocator_deallocate
  <2>4. o.self = d.self /\ o.ptr = NULL /\ o.abort = d.abort  BY <2>1, <2>3 DEF Fails, Aborts, Gives
  <2> QED  BY <2>2, <2>4, <1>2
<1>3. CASE n # 0
  <2>1. o = Gives(s, IF n <= s.slot_size THEN x.addr ELSE NULL)  BY <1>1, <1>3 DEF slab_allocator_remap, NULL
  <2>2. o.self = s /\ ~o.abort /\ o.ptr = IF n <= s.slot_size THEN x.addr ELSE NULL  BY <2>1 DEF Gives
  <2>3. CASE n <= s.slot_size
    <3>1. x.addr \notin Addrs(H \ {x}) /\ SlabSound(s, (H \ {x}) \cup {Block(x.addr, n)})  BY <2>3, <1>3, SlabResized
    <3> QED  BY <2>2, <2>3, <3>1, <1>1, <1>3 DEF NULL
  <2>4. CASE ~(n <= s.slot_size)  BY <2>2, <2>4, <1>3
  <2> QED  BY <2>3, <2>4
<1> QED  BY <1>2, <1>3

\* What the callers write changes no book.
LEMMA SlabWriteOK ==
  ASSUME NEW s, NEW H, SlabSound(s, H), NEW a \in Nat, NEW n \in Nat
  PROVE  SlabSound([s EXCEPT !.dirty = @ \cup Bytes(a, n)], H)
<1> DEFINE D == s.dirty \cup Bytes(a, n)
           t == [s EXCEPT !.dirty = D]
<1>1. s \in SlabRecord /\ SlabShape(s)  BY DEF SlabSound, SlabShape
<1>2. D \in SUBSET Nat
  <2>1. Bytes(a, n) \subseteq Nat  BY DEF Bytes
  <2> QED  BY <2>1, <1>1 DEF SlabRecord
<1> HIDE DEF D
<1>3. /\ t \in SlabRecord /\ t.slot_size = s.slot_size /\ t.words = s.words /\ t.cap = s.cap
      /\ t.slabs = s.slabs /\ t.footprint = s.footprint /\ t.bitmaps = s.bitmaps /\ t.in_use = s.in_use
  BY <1>1, <1>2 DEF SlabRecord
<1> HIDE DEF t
<1>4. SlabSame(s, t)  BY <1>3 DEF SlabSame
<1>5. SlabShape(t)  BY <1>1, <1>3, <1>4, SlabSameIs DEF SlabShape
<1>6. SlabHolds(t) = SlabHolds(s)  BY <1>3 DEF SlabHolds, SlabSlot, SlotsPerSlab
<1>7. SlabSound(t, H)  BY <1>3, <1>5, <1>6, SlabSoundSame
<1> QED  BY <1>7 DEF t, D

\* A new slab allocator holds nothing and its books are sound.
LEMMA SlabInitOK ==
  ASSUME NEW slot, SlotFits(slot)
  PROVE  SlabSound(SlabInit(slot), {})
<1> DEFINE s == SlabInit(slot)
<1>1. /\ s.slot_size = slot /\ s.words = 0 /\ s.slabs = << >> /\ s.bitmaps = << >> /\ s.cap = 0
      /\ s.in_use = 0 /\ s.footprint = 0 /\ s.dirty = {}
  BY DEF SlabInit
<1>2. s \in SlabRecord  BY DEF SlabInit, SlabRecord, SlotFits, PageTables, Bitmaps
<1> HIDE DEF s
<1>3. Len(s.slabs) = 0 /\ Len(s.bitmaps) = 0 /\ DOMAIN s.slabs = {}  BY <1>1
<1>4. PageSize \in Nat  BY PageNumbers
<1>5. SlabShape(s)  BY <1>1, <1>2, <1>3, <1>4 DEF SlabShape, Ascending, Distinct, ArraysMapped
<1>6. SlabHolds(s) = {}  BY <1>3 DEF SlabHolds
<1>7. WellHeld({}) /\ Addrs({}) = {} /\ Cardinality({}) = 0  BY FS_EmptySet DEF WellHeld, Addrs
<1>8. s.slot_size * 0 = 0  BY <1>1 DEF SlotFits
<1>9. SlabSound(s, {})  BY <1>1, <1>5, <1>6, <1>7, <1>8 DEF SlabSound
<1> QED  BY <1>9 DEF s

\* Deinit unmaps every page.
LEMMA SlabDeinitOK ==
  ASSUME NEW s, NEW H, SlabSound(s, H)
  PROVE  SlabAllocatorDeinit(s).footprint = 0
<1>1. s \in SlabRecord /\ s.footprint = Len(s.slabs) * PageSize + ArraysMapped(s)  BY DEF SlabSound, SlabShape
<1>2. SlabAllocatorDeinit(s) = Unmapped(s, s.footprint)  BY <1>1 DEF SlabAllocatorDeinit, ArraysMapped
<1>3. s.footprint \in Nat /\ "footprint" \in DOMAIN s  BY <1>1 DEF SlabRecord
<1>4. Unmapped(s, s.footprint) = [s EXCEPT !.footprint = 0]  BY <1>3 DEF Unmapped
<1> QED  BY <1>2, <1>3, <1>4, FootprintTwice

\* The books of the slab are right while it is sound.
LEMMA SlabBooksOK ==
  ASSUME NEW s, NEW H, SlabConstants, SlabSound(s, H)
  PROVE  SlabInv(s, Addrs(H)) /\ \A b \in H : b.len <= SlabRoom(s, b.addr)
<1>1. SlabShape(s) /\ WellHeld(H) /\ SlabHolds(s) = Addrs(H)
      /\ s.in_use = s.slot_size * Cardinality(H) /\ \A b \in H : b.len <= s.slot_size
  BY DEF SlabSound
<1>2. \A i \in DOMAIN s.slabs : Found(s.slabs, s.slabs[i]) = i - 1
  <2> DEFINE t == s.slabs
  <2>1. t \in Seq(Pages) /\ Ascending(t) /\ Distinct(t)  BY <1>1 DEF SlabShape, SlabRecord, PageTables
  <2> HIDE DEF t
  <2>2. t \in Seq(Int) /\ DOMAIN t = 1..Len(t)  BY <2>1, SlabsSearched
  <2>3. \A i \in 1..Len(t) : Found(t, t[i]) = i - 1  BY <2>1, <2>2, FoundIndex
  <2> QED  BY <2>2, <2>3 DEF t
<1>3. Cardinality(Addrs(H)) = Cardinality(H)  BY <1>1, HeldCount
<1> QED  BY <1>1, <1>2, <1>3 DEF SlabInv, SlabRoom, SlabShape, ArraysMapped

------------------------------------------------------------------------------
\* The page allocator and the arena: tables of regions of whole pages, live
\* and retained ones of the page allocator, chunks of the arena.

PageEntry == [ptr : Nat \ {0}, bytes : Nat \ {0}]
PageTable == Seq(PageEntry)
PageRecord ==
    [align : Nat, entries : PageTable, cap : Nat, entries_bytes : Nat,
     free : PageTable, free_cap : Nat, free_bytes : Nat,
     in_use : Nat, footprint : Nat, dirty : SUBSET Nat]

\* The pages of an entry, and of a table of them.
Reg(e) == Region(e.ptr \div PageSize, e.bytes)
RegsOf(t) == UNION {Reg(t[i]) : i \in 1..Len(t)}

\* An entry stands for whole pages.
IsRegion(e) ==
    /\ e \in PageEntry
    /\ e.ptr \div PageSize \in Nat \ {0} /\ e.ptr = (e.ptr \div PageSize) * PageSize
    /\ PageCount(e.bytes) \in Nat \ {0} /\ e.bytes = PageSize * PageCount(e.bytes)

\* No page is in two entries of a table, and its sizes count its pages.
TableSound(t) ==
    /\ t \in PageTable
    /\ \A i \in 1..Len(t) : IsRegion(t[i])
    /\ \A i, j \in 1..Len(t) : i # j => Reg(t[i]) \cap Reg(t[j]) = {}
    /\ IsFiniteSet(RegsOf(t)) /\ PageSize * Cardinality(RegsOf(t)) = Total(SizesOf(t))

\* An entry fits a page.
PageTablesAre ==
    /\ PageEntryBytes \in Nat \ {0} /\ PageEntryBytes <= PageSize

\* Keys and sizes of a table are sequences of numbers.
LEMMA ColumnsOf ==
  ASSUME NEW t \in PageTable
  PROVE  /\ Len(t) \in Nat /\ DOMAIN t = 1..Len(t) /\ \A i \in 1..Len(t) : t[i] \in PageEntry
         /\ Keys(t) \in Seq(Int) /\ Len(Keys(t)) = Len(t) /\ \A i \in 1..Len(t) : Keys(t)[i] = t[i].ptr
         /\ SizesOf(t) \in Seq(Int) /\ Len(SizesOf(t)) = Len(t) /\ \A i \in 1..Len(t) : SizesOf(t)[i] = t[i].bytes
         /\ SizesOf(t) \in [1..Len(t) -> Nat]
<1>1. Len(t) \in Nat /\ DOMAIN t = 1..Len(t) /\ \A i \in 1..Len(t) : t[i] \in PageEntry
  BY DEF PageTable
<1> DEFINE n == Len(t)
<1>2. n \in Nat /\ DOMAIN t = 1..n /\ \A i \in 1..n : t[i] \in PageEntry  BY <1>1
<1> HIDE DEF n
<1>3. \A i \in 1..n : t[i].ptr \in Int /\ t[i].bytes \in Nat /\ t[i].bytes \in Int  BY <1>2 DEF PageEntry
<1>4. Keys(t) = [i \in 1..n |-> t[i].ptr] /\ SizesOf(t) = [i \in 1..n |-> t[i].bytes]  BY <1>2 DEF Keys, SizesOf
<1>5. [i \in 1..n |-> t[i].ptr] \in [1..n -> Int] /\ [i \in 1..n |-> t[i].bytes] \in [1..n -> Nat]  BY <1>3
<1>6. Keys(t) \in [1..n -> Int] /\ SizesOf(t) \in [1..n -> Nat] /\ SizesOf(t) \in [1..n -> Int]  BY <1>3, <1>4, <1>5
<1>7. Keys(t) \in Seq(Int) /\ Len(Keys(t)) = n  BY <1>2, <1>6
<1>8. SizesOf(t) \in Seq(Int) /\ Len(SizesOf(t)) = n  BY <1>2, <1>6
<1>9. \A i \in 1..n : Keys(t)[i] = t[i].ptr /\ SizesOf(t)[i] = t[i].bytes  BY <1>4
<1> QED  BY <1>1, <1>6, <1>7, <1>8, <1>9 DEF n

\* The columns of a table with an entry more are those of the table with its
\* values more, and likewise with an entry less.
LEMMA ColumnsInserted ==
  ASSUME NEW t \in PageTable, NEW k \in 0..Len(t), NEW e \in PageEntry
  PROVE  /\ Keys(Inserted(t, k, e)) = Inserted(Keys(t), k, e.ptr)
         /\ SizesOf(Inserted(t, k, e)) = Inserted(SizesOf(t), k, e.bytes)
<1> DEFINE u == Inserted(t, k, e)
           n == Len(t)
           A == Keys(t)
           B == SizesOf(t)
           a == Inserted(A, k, e.ptr)
           b == Inserted(B, k, e.bytes)
<1>1. /\ A \in Seq(Int) /\ Len(A) = n /\ (\A i \in 1..n : A[i] = t[i].ptr)
      /\ B \in Seq(Int) /\ Len(B) = n /\ (\A i \in 1..n : B[i] = t[i].bytes) /\ n \in Nat
  BY ColumnsOf
<1>2. u \in PageTable /\ Len(u) = n + 1 /\ IsInserted(u, t, n, k, e)  BY InsertedSeq DEF PageTable
<1>3. /\ Keys(u) \in Seq(Int) /\ Len(Keys(u)) = n + 1 /\ (\A i \in 1..(n + 1) : Keys(u)[i] = u[i].ptr)
      /\ SizesOf(u) \in Seq(Int) /\ Len(SizesOf(u)) = n + 1 /\ (\A i \in 1..(n + 1) : SizesOf(u)[i] = u[i].bytes)
  <2> HIDE DEF u
  <2> QED  BY <1>2, ColumnsOf
<1>4. e.ptr \in Int /\ e.bytes \in Int /\ k \in 0..n  BY DEF PageEntry
<1>5. a \in Seq(Int) /\ Len(a) = n + 1 /\ IsInserted(a, A, n, k, e.ptr)
  <2> DEFINE x == e.ptr
  <2>1. x \in Int /\ A \in Seq(Int) /\ k \in 0..Len(A) /\ Len(A) = n  BY <1>1, <1>4
  <2> HIDE DEF A, B, n, x, u
  <2>2. Inserted(A, k, x) \in Seq(Int) /\ Len(Inserted(A, k, x)) = Len(A) + 1
        /\ IsInserted(Inserted(A, k, x), A, Len(A), k, x)
    BY <2>1, InsertedSeq
  <2> QED  BY <2>1, <2>2 DEF x
<1>6. b \in Seq(Int) /\ Len(b) = n + 1 /\ IsInserted(b, B, n, k, e.bytes)
  <2> DEFINE x == e.bytes
  <2>1. x \in Int /\ B \in Seq(Int) /\ k \in 0..Len(B) /\ Len(B) = n  BY <1>1, <1>4
  <2> HIDE DEF A, B, n, x, u
  <2>2. Inserted(B, k, x) \in Seq(Int) /\ Len(Inserted(B, k, x)) = Len(B) + 1
        /\ IsInserted(Inserted(B, k, x), B, Len(B), k, x)
    BY <2>1, InsertedSeq
  <2> QED  BY <2>1, <2>2 DEF x
<1> HIDE DEF u, n, A, B, a, b
<1>7. \A i \in 1..(n + 1) : Keys(u)[i] = a[i] /\ SizesOf(u)[i] = b[i]
  <2> SUFFICES ASSUME NEW i \in 1..(n + 1) PROVE Keys(u)[i] = a[i] /\ SizesOf(u)[i] = b[i]  OBVIOUS
  <2>1. Keys(u)[i] = u[i].ptr /\ SizesOf(u)[i] = u[i].bytes  BY <1>3
  <2>2. u[i] = (IF i <= k THEN t[i] ELSE IF i = k + 1 THEN e ELSE t[i - 1])  BY <1>2 DEF IsInserted
  <2>3. a[i] = (IF i <= k THEN A[i] ELSE IF i = k + 1 THEN e.ptr ELSE A[i - 1])  BY <1>5 DEF IsInserted
  <2>4. b[i] = (IF i <= k THEN B[i] ELSE IF i = k + 1 THEN e.bytes ELSE B[i - 1])  BY <1>6 DEF IsInserted
  <2>5. CASE i <= k
    <3>1. i \in 1..n  BY <2>5, <1>1, <1>4
    <3> QED  BY <3>1, <2>1, <2>2, <2>3, <2>4, <2>5, <1>1
  <2>6. CASE i = k + 1
    <3>1. ~(i <= k)  BY <2>6, <1>1, <1>4
    <3> QED  BY <3>1, <2>1, <2>2, <2>3, <2>4, <2>6
  <2>7. CASE ~(i <= k) /\ i # k + 1
    <3>1. i - 1 \in 1..n  BY <2>7, <1>1, <1>4
    <3> QED  BY <3>1, <2>1, <2>2, <2>3, <2>4, <2>7, <1>1
  <2> QED  BY <2>5, <2>6, <2>7
<1>8. Keys(u) = a
  <2> DEFINE w == Keys(u)
  <2>1. w \in Seq(Int) /\ a \in Seq(Int) /\ Len(w) = Len(a)  BY <1>3, <1>5
  <2>2. \A i \in 1..Len(w) : w[i] = a[i]  BY <1>3, <1>7
  <2> HIDE DEF w
  <2>3. w = a  BY <2>1, <2>2, SeqEqual
  <2> QED  BY <2>3 DEF w
<1>9. SizesOf(u) = b
  <2> DEFINE w == SizesOf(u)
  <2>1. w \in Seq(Int) /\ b \in Seq(Int) /\ Len(w) = Len(b)  BY <1>3, <1>6
  <2>2. \A i \in 1..Len(w) : w[i] = b[i]  BY <1>3, <1>7
  <2> HIDE DEF w
  <2>3. w = b  BY <2>1, <2>2, SeqEqual
  <2> QED  BY <2>3 DEF w
<1> QED  BY <1>8, <1>9 DEF u, a, b, A, B

\* Removing an entry removes it from both columns.
LEMMA ColumnsRemoved ==
  ASSUME NEW t \in PageTable, NEW k \in 0..(Len(t) - 1)
  PROVE  /\ Keys(Removed(t, k)) = Removed(Keys(t), k)
         /\ SizesOf(Removed(t, k)) = Removed(SizesOf(t), k)
<1> DEFINE u == Removed(t, k)
           n == Len(t)
           A == Keys(t)
           B == SizesOf(t)
           a == Removed(A, k)
           b == Removed(B, k)
<1>1. /\ A \in Seq(Int) /\ Len(A) = n /\ (\A i \in 1..n : A[i] = t[i].ptr)
      /\ B \in Seq(Int) /\ Len(B) = n /\ (\A i \in 1..n : B[i] = t[i].bytes) /\ n \in Nat
  BY ColumnsOf
<1>2. u \in PageTable /\ Len(u) = n - 1 /\ IsRemoved(u, t, n, k)  BY RemovedSeq DEF PageTable
<1>3. /\ Keys(u) \in Seq(Int) /\ Len(Keys(u)) = n - 1 /\ (\A i \in 1..(n - 1) : Keys(u)[i] = u[i].ptr)
      /\ SizesOf(u) \in Seq(Int) /\ Len(SizesOf(u)) = n - 1 /\ (\A i \in 1..(n - 1) : SizesOf(u)[i] = u[i].bytes)
  <2> HIDE DEF u
  <2> QED  BY <1>2, ColumnsOf
<1>4. k \in 0..(n - 1)  OBVIOUS
<1>5. a \in Seq(Int) /\ Len(a) = n - 1 /\ IsRemoved(a, A, n, k)
  <2> HIDE DEF A, n
  <2> QED  BY <1>1, <1>4, RemovedSeq
<1>6. b \in Seq(Int) /\ Len(b) = n - 1 /\ IsRemoved(b, B, n, k)
  <2> HIDE DEF B, n
  <2> QED  BY <1>1, <1>4, RemovedSeq
<1> HIDE DEF u, n, A, B, a, b
<1>7. \A i \in 1..(n - 1) : Keys(u)[i] = a[i] /\ SizesOf(u)[i] = b[i]
  <2> SUFFICES ASSUME NEW i \in 1..(n - 1) PROVE Keys(u)[i] = a[i] /\ SizesOf(u)[i] = b[i]  OBVIOUS
  <2>1. Keys(u)[i] = u[i].ptr /\ SizesOf(u)[i] = u[i].bytes  BY <1>3
  <2>2. u[i] = (IF i <= k THEN t[i] ELSE t[i + 1])  BY <1>2 DEF IsRemoved
  <2>3. a[i] = (IF i <= k THEN A[i] ELSE A[i + 1])  BY <1>5 DEF IsRemoved
  <2>4. b[i] = (IF i <= k THEN B[i] ELSE B[i + 1])  BY <1>6 DEF IsRemoved
  <2>5. i \in 1..n /\ i + 1 \in 1..n  BY <1>1
  <2> QED  BY <2>1, <2>2, <2>3, <2>4, <2>5, <1>1
<1>8. Keys(u) = a
  <2> DEFINE w == Keys(u)
  <2>1. w \in Seq(Int) /\ a \in Seq(Int) /\ Len(w) = Len(a)  BY <1>3, <1>5
  <2>2. \A i \in 1..Len(w) : w[i] = a[i]  BY <1>3, <1>7
  <2> HIDE DEF w
  <2>3. w = a  BY <2>1, <2>2, SeqEqual
  <2> QED  BY <2>3 DEF w
<1>9. SizesOf(u) = b
  <2> DEFINE w == SizesOf(u)
  <2>1. w \in Seq(Int) /\ b \in Seq(Int) /\ Len(w) = Len(b)  BY <1>3, <1>6
  <2>2. \A i \in 1..Len(w) : w[i] = b[i]  BY <1>3, <1>7
  <2> HIDE DEF w
  <2>3. w = b  BY <2>1, <2>2, SeqEqual
  <2> QED  BY <2>3 DEF w
<1> QED  BY <1>8, <1>9 DEF u, a, b, A, B

\* An entry of free pages put in a table.
InsertsIn(t, k, e, u) ==
    /\ TableSound(t) /\ k \in 0..Len(t) /\ IsRegion(e)
    /\ Reg(e) \cap RegsOf(t) = {}
    /\ u = Inserted(t, k, e)

\* An entry of pages no other entry has can be put at any index of a table.
LEMMA TableInsert ==
  ASSUME NEW t, NEW k, NEW e, NEW u, InsertsIn(t, k, e, u)
  PROVE  /\ TableSound(u) /\ Len(u) = Len(t) + 1 /\ u[k + 1] = e
         /\ RegsOf(u) = RegsOf(t) \cup Reg(e)
         /\ Total(SizesOf(u)) = Total(SizesOf(t)) + e.bytes
         /\ \A j \in 1..Len(t) : Up(k, j) \in 1..Len(u) /\ u[Up(k, j)] = t[j]
         /\ \A i \in 1..Len(u) : i = k + 1 \/ \E j \in 1..Len(t) : i = Up(k, j) /\ u[i] = t[j]
<1> DEFINE n == Len(t)
<1>1. /\ TableSound(t) /\ k \in 0..n /\ IsRegion(e) /\ Reg(e) \cap RegsOf(t) = {} /\ u = Inserted(t, k, e)
      /\ t \in PageTable /\ e \in PageEntry /\ n \in Nat
  <2>1. t \in PageTable /\ e \in PageEntry  BY DEF InsertsIn, TableSound, IsRegion
  <2>2. n \in Nat  BY <2>1, ColumnsOf
  <2> QED  BY <2>1, <2>2 DEF InsertsIn
<1>2. /\ u \in PageTable /\ Len(u) = n + 1 /\ u[k + 1] = e
      /\ \A j \in 1..n : u[Up(k, j)] = t[j]
  <2> DEFINE S == PageEntry
  <2>1. t \in Seq(S) /\ k \in 0..Len(t) /\ e \in S  BY <1>1 DEF PageTable
  <2> HIDE DEF n, S
  <2>3. CanInsert(S, t, k, e)  BY <2>1 DEF CanInsert
  <2>2. /\ Inserted(t, k, e) \in Seq(S) /\ Len(Inserted(t, k, e)) = Len(t) + 1
        /\ Inserted(t, k, e)[k + 1] = e
        /\ \A j \in 1..Len(t) : Inserted(t, k, e)[Up(k, j)] = t[j]
    BY <2>3, InsertedUp
  <2> QED  BY <1>1, <2>2 DEF PageTable, n, S
<1>3. /\ \A j \in 1..n : Up(k, j) \in (1..(n + 1)) \ {k + 1}
      /\ \A i \in 1..(n + 1) : i = k + 1 \/ \E j \in 1..n : i = Up(k, j)
      /\ \A i, j \in 1..n : Up(k, i) = Up(k, j) => i = j
  BY <1>1, UpOnto
<1>4. /\ \A i \in 1..n : IsRegion(t[i]) /\ Reg(t[i]) \subseteq RegsOf(t)
      /\ \A i, j \in 1..n : i # j => Reg(t[i]) \cap Reg(t[j]) = {}
      /\ IsFiniteSet(RegsOf(t)) /\ PageSize * Cardinality(RegsOf(t)) = Total(SizesOf(t))
  BY <1>1 DEF TableSound, RegsOf
<1>5. k + 1 \in 1..(n + 1)  BY <1>1
<1>6. \A p : p \in RegsOf(t) <=> \E i \in 1..n : p \in Reg(t[i])  BY DEF RegsOf
<1>7. \A p : p \in RegsOf(u) <=> \E i \in 1..(n + 1) : p \in Reg(u[i])  BY <1>2 DEF RegsOf
<1>15. SizesOf(u) \in [1..(n + 1) -> Nat] /\ SizesOf(t) \in [1..n -> Nat]
       /\ (\A i \in 1..(n + 1) : SizesOf(u)[i] = u[i].bytes) /\ \A i \in 1..n : SizesOf(t)[i] = t[i].bytes
  BY <1>1, <1>2, ColumnsOf
<1> HIDE DEF n
<1>8. \A i \in 1..(n + 1) : i = k + 1 \/ \E j \in 1..n : i = Up(k, j) /\ u[i] = t[j]  BY <1>2, <1>3
<1>9. \A i \in 1..(n + 1) : IsRegion(u[i])  BY <1>1, <1>2, <1>4, <1>8
<1>10. ASSUME NEW i \in 1..(n + 1), NEW j \in 1..(n + 1), i # j PROVE Reg(u[i]) \cap Reg(u[j]) = {}
  <2>1. CASE i = k + 1
    <3>1. PICK x \in 1..n : u[j] = t[x]  BY <1>8, <1>10, <2>1
    <3> QED  BY <2>1, <3>1, <1>1, <1>2, <1>4
  <2>2. CASE j = k + 1
    <3>1. PICK x \in 1..n : u[i] = t[x]  BY <1>8, <1>10, <2>2
    <3> QED  BY <2>2, <3>1, <1>1, <1>2, <1>4
  <2>3. CASE i # k + 1 /\ j # k + 1
    <3>1. PICK x \in 1..n : i = Up(k, x) /\ u[i] = t[x]  BY <1>8, <2>3
    <3>2. PICK y \in 1..n : j = Up(k, y) /\ u[j] = t[y]  BY <1>8, <2>3
    <3>3. x # y  BY <3>1, <3>2, <1>10
    <3> QED  BY <3>1, <3>2, <3>3, <1>4
  <2> QED  BY <2>1, <2>2, <2>3
<1>11. RegsOf(u) = RegsOf(t) \cup Reg(e)
  <2> SUFFICES ASSUME NEW p PROVE p \in RegsOf(u) <=> p \in RegsOf(t) \/ p \in Reg(e)  OBVIOUS
  <2>1. ASSUME p \in RegsOf(u) PROVE p \in RegsOf(t) \/ p \in Reg(e)
    BY <2>1, <1>2, <1>6, <1>7, <1>8
  <2>2. ASSUME p \in Reg(e) PROVE p \in RegsOf(u)  BY <2>2, <1>2, <1>5, <1>7
  <2>3. ASSUME p \in RegsOf(t) PROVE p \in RegsOf(u)
    <3>1. PICK j \in 1..n : p \in Reg(t[j])  BY <2>3, <1>6
    <3>2. Up(k, j) \in 1..(n + 1) /\ u[Up(k, j)] = t[j]  BY <1>2, <1>3
    <3> QED  BY <3>1, <3>2, <1>7
  <2> QED  BY <2>1, <2>2, <2>3
<1>12. IsFiniteSet(Reg(e)) /\ Cardinality(Reg(e)) = PageCount(e.bytes) /\ e.bytes = PageSize * PageCount(e.bytes)
       /\ PageCount(e.bytes) \in Nat
  <2>1. e.ptr \div PageSize \in Nat /\ e.bytes \in Nat  BY <1>1 DEF IsRegion, PageEntry
  <2> QED  BY <2>1, <1>1, RegionSize DEF Reg, IsRegion
<1>13. IsFiniteSet(RegsOf(u)) /\ Cardinality(RegsOf(u)) = Cardinality(RegsOf(t)) + PageCount(e.bytes)
       /\ Cardinality(RegsOf(t)) \in Nat
  <2>1. Cardinality(RegsOf(t) \cap Reg(e)) = 0
    <3>1. RegsOf(t) \cap Reg(e) = {}  BY <1>1
    <3> QED  BY <3>1, FS_EmptySet
  <2>2. Cardinality(RegsOf(t)) \in Nat  BY <1>4, FS_CardinalityType
  <2>3. IsFiniteSet(RegsOf(t) \cup Reg(e)) /\ Cardinality(RegsOf(t) \cup Reg(e)) = Cardinality(RegsOf(t)) + Cardinality(Reg(e)) - Cardinality(RegsOf(t) \cap Reg(e))
    BY <1>4, <1>12, FS_Union
  <2> DEFINE a == Cardinality(RegsOf(t))
             b == PageCount(e.bytes)
             c == Cardinality(RegsOf(u))
  <2>5. c = a + b - 0 /\ a \in Nat /\ b \in Nat  BY <2>1, <2>2, <2>3, <1>11, <1>12, Zenon
  <2>6. IsFiniteSet(RegsOf(u))  BY <2>3, <1>11
  <2> HIDE DEF a, b, c
  <2>7. c = a + b  BY <2>5
  <2> QED  BY <2>5, <2>6, <2>7 DEF a, b, c
<1>14. Total(SizesOf(u)) = Total(SizesOf(t)) + e.bytes
  <2>1. ASSUME NEW j \in 1..n PROVE SizesOf(u)[Up(k, j)] = SizesOf(t)[j]
    <3>1. Up(k, j) \in 1..(n + 1) /\ u[Up(k, j)] = t[j]  BY <1>2, <1>3
    <3>2. SizesOf(u)[Up(k, j)] = u[Up(k, j)].bytes /\ SizesOf(t)[j] = t[j].bytes  BY <3>1, <1>15
    <3> QED  BY <3>1, <3>2
  <2>2. SizesOf(u)[k + 1] = e.bytes  BY <1>2, <1>5, <1>15
  <2>3. n \in Nat /\ k \in 0..n  BY <1>1
  <2> QED  BY <2>1, <2>2, <2>3, <1>15, TotalWithout
<1>16. PageSize * Cardinality(RegsOf(u)) = Total(SizesOf(u))
  <2> DEFINE a == Cardinality(RegsOf(t))
             b == PageCount(e.bytes)
  <2>1. a \in Nat /\ b \in Nat /\ PageSize \in Nat  BY <1>12, <1>13, PageNumbers
  <2>2. Cardinality(RegsOf(u)) = a + b /\ Total(SizesOf(u)) = PageSize * a + PageSize * b  BY <1>4, <1>12, <1>13, <1>14
  <2> HIDE DEF a, b
  <2>3. PageSize * (a + b) = PageSize * a + PageSize * b  BY <2>1
  <2> QED  BY <2>2, <2>3
<1>17. TableSound(u)  BY <1>2, <1>9, <1>10, <1>13, <1>16 DEF TableSound
<1>18. /\ \A j \in 1..Len(t) : Up(k, j) \in 1..Len(u) /\ u[Up(k, j)] = t[j]
       /\ \A i \in 1..Len(u) : i = k + 1 \/ \E j \in 1..Len(t) : i = Up(k, j) /\ u[i] = t[j]
  BY <1>2, <1>3, <1>8 DEF n
<1> QED  BY <1>2, <1>11, <1>14, <1>17, <1>18 DEF n

\* An entry taken out of a table.
LEMMA TableRemove ==
  ASSUME NEW t, TableSound(t), NEW k \in 0..(Len(t) - 1), NEW u, u = Removed(t, k)
  PROVE  /\ TableSound(u) /\ Len(u) = Len(t) - 1
         /\ RegsOf(u) \cup Reg(t[k + 1]) = RegsOf(t) /\ RegsOf(u) \cap Reg(t[k + 1]) = {}
         /\ Total(SizesOf(t)) = Total(SizesOf(u)) + t[k + 1].bytes /\ Total(SizesOf(u)) \in Nat
         /\ \A j \in 1..Len(u) : Up(k, j) \in 1..Len(t) /\ Up(k, j) # k + 1 /\ u[j] = t[Up(k, j)]
         /\ \A i \in 1..Len(t) : i = k + 1 \/ \E j \in 1..Len(u) : i = Up(k, j) /\ u[j] = t[i]
<1> DEFINE n == Len(t) - 1
           e == t[k + 1]
<1>1. t \in PageTable /\ Len(t) \in Nat  BY ColumnsOf DEF TableSound
<1>2. /\ u \in PageTable /\ Len(u) = n /\ n \in Nat
      /\ \A j \in 1..n : u[j] = t[Up(k, j)]
  <2>1. t \in Seq(PageEntry)  BY <1>1 DEF PageTable
  <2> QED  BY <2>1, RemovedUp DEF PageTable
<1>3. Len(t) = n + 1 /\ k \in 0..n /\ k + 1 \in 1..(n + 1)  BY <1>1, <1>2
<1>5. \A p : p \in RegsOf(t) <=> \E i \in 1..(n + 1) : p \in Reg(t[i])  BY <1>3 DEF RegsOf
<1>6. \A p : p \in RegsOf(u) <=> \E i \in 1..n : p \in Reg(u[i])  BY <1>2 DEF RegsOf
<1>7. /\ \A i \in 1..(n + 1) : IsRegion(t[i])
      /\ \A i, j \in 1..(n + 1) : i # j => Reg(t[i]) \cap Reg(t[j]) = {}
      /\ IsFiniteSet(RegsOf(t)) /\ PageSize * Cardinality(RegsOf(t)) = Total(SizesOf(t))
  BY <1>3 DEF TableSound
<1>8. SizesOf(t) \in [1..(n + 1) -> Nat] /\ SizesOf(u) \in [1..n -> Nat]
      /\ (\A i \in 1..(n + 1) : SizesOf(t)[i] = t[i].bytes) /\ \A i \in 1..n : SizesOf(u)[i] = u[i].bytes
  BY <1>1, <1>2, <1>3, ColumnsOf
<1>19. Len(u) = Len(t) - 1  BY <1>2
<1> HIDE DEF n
<1>4. /\ \A j \in 1..n : Up(k, j) \in (1..(n + 1)) \ {k + 1}
      /\ \A i \in 1..(n + 1) : i = k + 1 \/ \E j \in 1..n : i = Up(k, j)
      /\ \A i, j \in 1..n : Up(k, i) = Up(k, j) => i = j
  BY <1>2, <1>3, UpOnto
<1>9. \A i \in 1..n : IsRegion(u[i])  BY <1>2, <1>4, <1>7
<1>10. ASSUME NEW i \in 1..n, NEW j \in 1..n, i # j PROVE Reg(u[i]) \cap Reg(u[j]) = {}
  <2>1. Up(k, i) \in 1..(n + 1) /\ u[i] = t[Up(k, i)]  BY <1>2, <1>4
  <2>2. Up(k, j) \in 1..(n + 1) /\ u[j] = t[Up(k, j)]  BY <1>2, <1>4
  <2>3. Up(k, i) # Up(k, j)  BY <1>4, <1>10
  <2> QED  BY <2>1, <2>2, <2>3, <1>7
<1>11. RegsOf(u) \cup Reg(e) = RegsOf(t)
  <2> SUFFICES ASSUME NEW p PROVE p \in RegsOf(t) <=> p \in RegsOf(u) \/ p \in Reg(e)  OBVIOUS
  <2>1. ASSUME p \in RegsOf(u) PROVE p \in RegsOf(t)
    <3>1. PICK j \in 1..n : p \in Reg(u[j])  BY <2>1, <1>6
    <3>2. Up(k, j) \in 1..(n + 1) /\ u[j] = t[Up(k, j)]  BY <1>2, <1>4
    <3> QED  BY <3>1, <3>2, <1>5
  <2>2. ASSUME p \in Reg(e) PROVE p \in RegsOf(t)  BY <2>2, <1>3, <1>5
  <2>3. ASSUME p \in RegsOf(t) PROVE p \in RegsOf(u) \/ p \in Reg(e)
    <3>1. PICK i \in 1..(n + 1) : p \in Reg(t[i])  BY <2>3, <1>5
    <3>2. CASE i = k + 1  BY <3>1, <3>2
    <3>3. CASE i # k + 1
      <4>1. PICK j \in 1..n : i = Up(k, j)  BY <3>3, <1>4
      <4> QED  BY <4>1, <3>1, <1>2, <1>6
    <3> QED  BY <3>2, <3>3
  <2> QED  BY <2>1, <2>2, <2>3
<1>12. RegsOf(u) \cap Reg(e) = {}
  <2> SUFFICES ASSUME NEW p, p \in RegsOf(u), p \in Reg(e) PROVE FALSE  OBVIOUS
  <2>1. PICK j \in 1..n : p \in Reg(u[j])  BY <1>6
  <2>2. Up(k, j) \in 1..(n + 1) /\ Up(k, j) # k + 1 /\ u[j] = t[Up(k, j)]  BY <1>2, <1>4
  <2> QED  BY <2>1, <2>2, <1>3, <1>7
<1>13. IsFiniteSet(Reg(e)) /\ Cardinality(Reg(e)) = PageCount(e.bytes) /\ e.bytes = PageSize * PageCount(e.bytes)
       /\ PageCount(e.bytes) \in Nat
  <2>0. IsRegion(e)  BY <1>3, <1>7
  <2> HIDE DEF e
  <2>1. e.ptr \div PageSize \in Nat /\ e.bytes \in Nat  BY <2>0 DEF IsRegion, PageEntry
  <2> QED  BY <2>0, <2>1, RegionSize DEF Reg, IsRegion
<1>14. IsFiniteSet(RegsOf(u)) /\ Cardinality(RegsOf(t)) = Cardinality(RegsOf(u)) + PageCount(e.bytes)
       /\ Cardinality(RegsOf(u)) \in Nat
  <2> HIDE DEF e
  <2>1. Cardinality(RegsOf(u) \cap Reg(e)) = 0  BY <1>12, FS_EmptySet
  <2>2. IsFiniteSet(RegsOf(u))  BY <1>7, <1>11, FS_Subset
  <2>3. Cardinality(RegsOf(u)) \in Nat  BY <2>2, FS_CardinalityType
  <2>4. Cardinality(RegsOf(u) \cup Reg(e)) = Cardinality(RegsOf(u)) + Cardinality(Reg(e)) - Cardinality(RegsOf(u) \cap Reg(e))
    BY <2>2, <1>13, FS_Union
  <2> DEFINE a == Cardinality(RegsOf(u))
             b == PageCount(e.bytes)
             c == Cardinality(RegsOf(t))
  <2>5. c = a + b - 0 /\ a \in Nat /\ b \in Nat  BY <2>1, <2>3, <2>4, <1>11, <1>13, Zenon
  <2> HIDE DEF a, b, c
  <2>6. c = a + b  BY <2>5
  <2> QED  BY <2>2, <2>5, <2>6 DEF a, b, c
<1>15. Total(SizesOf(t)) = Total(SizesOf(u)) + e.bytes /\ Total(SizesOf(u)) \in Nat
  <2>1. ASSUME NEW j \in 1..n PROVE SizesOf(t)[Up(k, j)] = SizesOf(u)[j]
    <3>1. Up(k, j) \in 1..(n + 1) /\ u[j] = t[Up(k, j)]  BY <1>2, <1>4
    <3>2. SizesOf(t)[Up(k, j)] = t[Up(k, j)].bytes /\ SizesOf(u)[j] = u[j].bytes  BY <3>1, <1>8
    <3> QED  BY <3>1, <3>2
  <2>2. SizesOf(t)[k + 1] = e.bytes  BY <1>3, <1>8
  <2>3. n \in Nat /\ k \in 0..n  BY <1>2, <1>3
  <2> QED  BY <2>1, <2>2, <2>3, <1>8, TotalWithout
<1>16. PageSize * Cardinality(RegsOf(u)) = Total(SizesOf(u))
  <2> DEFINE a == Cardinality(RegsOf(u))
             b == PageCount(e.bytes)
  <2>1. a \in Nat /\ b \in Nat /\ PageSize \in Nat  BY <1>13, <1>14, PageNumbers
  <2>2. PageSize * (a + b) = Total(SizesOf(u)) + PageSize * b  BY <1>7, <1>13, <1>14, <1>15
  <2>4. Total(SizesOf(u)) \in Nat  BY <1>15
  <2> HIDE DEF a, b
  <2>3. PageSize * (a + b) = PageSize * a + PageSize * b /\ PageSize * a \in Nat /\ PageSize * b \in Nat  BY <2>1
  <2>5. PageSize * a = Total(SizesOf(u))  BY <2>2, <2>3, <2>4
  <2> QED  BY <2>5 DEF a
<1>17. TableSound(u)  BY <1>2, <1>9, <1>10, <1>14, <1>16 DEF TableSound
<1>18. /\ \A j \in 1..Len(u) : Up(k, j) \in 1..Len(t) /\ Up(k, j) # k + 1 /\ u[j] = t[Up(k, j)]
       /\ \A i \in 1..Len(t) : i = k + 1 \/ \E j \in 1..Len(u) : i = Up(k, j) /\ u[j] = t[i]
  <2>1. Len(u) = n /\ Len(t) = n + 1  BY <1>2, <1>3
  <2>2. ASSUME NEW j \in 1..n PROVE Up(k, j) \in 1..(n + 1) /\ Up(k, j) # k + 1 /\ u[j] = t[Up(k, j)]
    BY <1>2, <1>4
  <2>3. ASSUME NEW i \in 1..(n + 1), i # k + 1 PROVE \E j \in 1..n : i = Up(k, j) /\ u[j] = t[i]
    <3>1. PICK j \in 1..n : i = Up(k, j)  BY <2>3, <1>4
    <3> QED  BY <3>1, <1>2
  <2> QED  BY <2>1, <2>2, <2>3
<1> QED  BY <1>11, <1>12, <1>15, <1>17, <1>18, <1>19

\* How many entries the bytes of a table have room for.
CapOK(cap, bytes) == cap = bytes \div PageEntryBytes /\ (bytes = 0 \/ PageEntryBytes <= bytes)

\* A product within a bound has its factor within the quotient.
LEMMA QuotientAtLeast ==
  ASSUME NEW E \in Nat \ {0}, NEW x \in Nat, NEW n \in Nat, x * E <= n
  PROVE  x <= n \div E
<1> DEFINE q == n \div E
<1>1. q \in Nat /\ n < E * q + E  BY DivProps
<1> HIDE DEF q
<1>2. E * q = q * E  BY <1>1
<1>3. q < x => q * E + E <= x * E  BY <1>1, NextMultiple
<1> DEFINE a == q * E
           b == x * E
<1>4. a \in Nat /\ b \in Nat  BY <1>1
<1> HIDE DEF a, b
<1>5. n < a + E /\ b <= n /\ (q < x => a + E <= b)  BY <1>1, <1>2, <1>3 DEF a, b
<1> QED  BY <1>1, <1>4, <1>5 DEF q

\* A table that grows has room for one entry more.
LEMMA GrownProps ==
  ASSUME PageTablesAre, NEW b \in Nat, b = 0 \/ PageEntryBytes <= b
  PROVE  /\ GrownBytes(b) \in Nat /\ PageEntryBytes <= GrownBytes(b)
         /\ b \div PageEntryBytes \in Nat /\ GrownBytes(b) \div PageEntryBytes \in Nat
         /\ b \div PageEntryBytes < GrownBytes(b) \div PageEntryBytes
<1> DEFINE E == PageEntryBytes
           n == GrownBytes(b)
           q == b \div E
<1>1. E \in Nat \ {0} /\ E <= PageSize /\ PageSize \in Nat \ {0}  BY PageNumbers DEF PageTablesAre
<1>2. q \in Nat /\ E * q <= b  BY <1>1, DivProps
<1>3. n \in Nat /\ E <= n /\ b + E <= n
  <2>1. CASE b = 0  BY <2>1, <1>1 DEF GrownBytes
  <2>2. CASE b # 0
    <3>1. 2 * b \in Nat /\ n = os_page_round_up(2 * b)  BY <2>2 DEF GrownBytes
    <3>2. n \in Nat /\ 2 * b <= n  BY <3>1, PageRounding
    <3> QED  BY <3>2, <2>2, <1>1
  <2> QED  BY <2>1, <2>2
<1> HIDE DEF n, q, E
<1>4. (q + 1) * E <= n
  <2>1. (q + 1) * E = E * q + E /\ E * q \in Nat  BY <1>1, <1>2
  <2> QED  BY <2>1, <1>1, <1>2, <1>3
<1>5. q + 1 <= n \div E  BY <1>1, <1>2, <1>3, <1>4, QuotientAtLeast
<1>6. n \div E \in Nat  BY <1>1, <1>3, DivProps
<1> QED  BY <1>2, <1>3, <1>5, <1>6 DEF n, q, E

\* What an entry more changes in the record of the allocator; F is the rest of
\* the footprint.
LiveAdded(s, t, k, e, F) ==
    /\ t \in PageRecord /\ t.entries = Inserted(s.entries, k, e)
    /\ t.align = s.align /\ t.free = s.free /\ t.free_cap = s.free_cap /\ t.free_bytes = s.free_bytes
    /\ t.in_use = s.in_use /\ t.dirty = s.dirty
    /\ CapOK(t.cap, t.entries_bytes) /\ Len(s.entries) + 1 <= t.cap
    /\ t.footprint = F + t.entries_bytes
FreeAdded(s, t, k, e, F) ==
    /\ t \in PageRecord /\ t.free = Inserted(s.free, k, e)
    /\ t.align = s.align /\ t.entries = s.entries /\ t.cap = s.cap /\ t.entries_bytes = s.entries_bytes
    /\ t.in_use = s.in_use /\ t.dirty = s.dirty
    /\ CapOK(t.free_cap, t.free_bytes) /\ Len(s.free) + 1 <= t.free_cap
    /\ t.footprint = F + t.free_bytes

\* page_table_insert_sorted adds the live entry at its lower bound, or changes nothing.
LEMMA PutLive ==
  ASSUME PageTablesAre, NEW s \in PageRecord, NEW e \in PageEntry, NEW F \in Nat,
         s.footprint = F + s.entries_bytes, CapOK(s.cap, s.entries_bytes), Len(s.entries) <= s.cap,
         Ascending(Keys(s.entries)), NEW g \in page_table_insert_sorted(s, e.ptr, e.bytes)
  PROVE  /\ ~g.abort /\ LowerBound(Keys(s.entries), e.ptr) \in 0..Len(s.entries)
         /\ IF g.ptr = NULL THEN g.self = s
                            ELSE LiveAdded(s, g.self, LowerBound(Keys(s.entries), e.ptr), e, F)
<1> DEFINE k == LowerBound(Keys(s.entries), e.ptr)
           b == s.entries_bytes
           n == GrownBytes(b)
           c == n \div PageEntryBytes
           m == [s EXCEPT !.footprint = F + n, !.entries_bytes = n, !.cap = c]
           Put(r) == [r EXCEPT !.entries =
                        Inserted(@, LowerBound(Keys(@), e.ptr), [ptr |-> e.ptr, bytes |-> e.bytes])]
           room == IF Len(s.entries) = s.cap THEN GrowEntries(s) ELSE {Gives(s, 1)}
<1>1. /\ s.entries \in PageTable /\ b \in Nat /\ s.cap \in Nat /\ s.footprint \in Nat
      /\ Len(s.entries) \in Nat /\ Keys(s.entries) \in Seq(Int) /\ Len(Keys(s.entries)) = Len(s.entries)
  <2>1. s.entries \in PageTable  BY DEF PageRecord
  <2> QED  BY <2>1, ColumnsOf DEF PageRecord
<1>2. k \in 0..Len(s.entries)
  <2>1. e.ptr \in Int  BY DEF PageEntry
  <2> DEFINE T == Keys(s.entries)
             x == e.ptr
  <2>2. T \in Seq(Int) /\ x \in Int /\ Ascending(T) /\ Len(T) = Len(s.entries)  BY <1>1, <2>1
  <2> HIDE DEF T, x
  <2>3. LowerBound(T, x) \in 0..Len(T)  BY <2>2, LowerBoundIs
  <2> QED  BY <2>2, <2>3 DEF T, x
<1>3. e = [ptr |-> e.ptr, bytes |-> e.bytes]  BY DEF PageEntry
<1>4. \A r : r.entries = s.entries => Put(r) = [r EXCEPT !.entries = Inserted(s.entries, k, e)]  BY <1>3
<1>5. PICK h \in room : g = IF h.ptr = NULL THEN h ELSE Gives(Put(h.self), 1)  BY DEF page_table_insert_sorted
<1>6. n \in Nat /\ CapOK(c, n) /\ s.cap < c /\ c \in Nat
  <2>1. b = 0 \/ PageEntryBytes <= b  BY DEF CapOK
  <2>2. s.cap = b \div PageEntryBytes  BY DEF CapOK
  <2> QED  BY <1>1, <2>1, <2>2, GrownProps DEF CapOK
<1>7. GrowEntries(s) = {Fails(s), Gives(m, 1)}
  <2>1. "footprint" \in DOMAIN s  BY DEF PageRecord
  <2>3. s.footprint = F + b /\ b \in Nat /\ n \in Nat  BY <1>1, <1>6
  <2>4. Unmapped(MappedTable(s, n), b) = [s EXCEPT !.footprint = F + n]
    <3> HIDE DEF n, b, c, k, m, room
    <3> QED  BY <2>1, <2>3, MapUnmap
  <2> QED  BY <2>4 DEF GrowEntries
<1> DEFINE u == Inserted(s.entries, k, e)
<1>8. u \in PageTable
  <2> DEFINE S == PageEntry
             t == s.entries
  <2>1. t \in Seq(S) /\ k \in 0..Len(t) /\ e \in S  BY <1>1, <1>2 DEF PageTable
  <2> HIDE DEF S, t, k
  <2>3. CanInsert(S, t, k, e)  BY <2>1 DEF CanInsert
  <2>2. Inserted(t, k, e) \in Seq(S)  BY <2>3, InsertedUp
  <2> QED  BY <2>2 DEF S, t, PageTable
<1>9. CASE Len(s.entries) = s.cap
  <2>1. h = Fails(s) \/ h = Gives(m, 1)  BY <1>5, <1>7, <1>9
  <2>2. CASE h = Fails(s)  BY <2>2, <1>2, <1>5 DEF Fails, Gives
  <2>3. CASE h = Gives(m, 1)
    <3>1. h.ptr # NULL /\ h.self = m  BY <2>3 DEF Gives, NULL
    <3>2. m.entries = s.entries  BY DEF PageRecord
    <3>3. g = Gives([m EXCEPT !.entries = u], 1)  BY <3>1, <3>2, <1>4, <1>5
    <3> DEFINE t == [m EXCEPT !.entries = u]
               f == F + n
    <3>4. g.self = t /\ ~g.abort /\ g.ptr # NULL  BY <3>3 DEF Gives, NULL
    <3>5. f \in Nat  BY <1>6
    <3>6. t = [s EXCEPT !.footprint = f, !.entries_bytes = n, !.cap = c, !.entries = u]  OBVIOUS
    <3> HIDE DEF t, f, u, n, c, k
    <3>7. /\ t \in PageRecord /\ t.entries = u
          /\ t.align = s.align /\ t.free = s.free /\ t.free_cap = s.free_cap /\ t.free_bytes = s.free_bytes
          /\ t.in_use = s.in_use /\ t.dirty = s.dirty /\ t.cap = c /\ t.entries_bytes = n /\ t.footprint = f
      BY <3>5, <3>6, <1>6, <1>8 DEF PageRecord
    <3>8. Len(s.entries) + 1 <= c  BY <1>1, <1>6, <1>9
    <3>9. LiveAdded(s, t, k, e, F)  BY <3>7, <3>8, <1>6 DEF LiveAdded, f, u
    <3> QED  BY <3>4, <3>9, <1>2 DEF k
  <2> QED  BY <2>1, <2>2, <2>3
<1>10. CASE Len(s.entries) # s.cap
  <2>1. h = Gives(s, 1)  BY <1>5, <1>10
  <2>2. h.ptr # NULL /\ h.self = s  BY <2>1 DEF Gives, NULL
  <2>3. g = Gives([s EXCEPT !.entries = u], 1)  BY <2>2, <1>4, <1>5
  <2> DEFINE t == [s EXCEPT !.entries = u]
  <2>4. g.self = t /\ ~g.abort /\ g.ptr # NULL  BY <2>3 DEF Gives, NULL
  <2> HIDE DEF u, n, c, k
  <2>5. /\ t \in PageRecord /\ t.entries = u
        /\ t.align = s.align /\ t.free = s.free /\ t.free_cap = s.free_cap /\ t.free_bytes = s.free_bytes
        /\ t.in_use = s.in_use /\ t.dirty = s.dirty /\ t.cap = s.cap /\ t.entries_bytes = b /\ t.footprint = s.footprint
    BY <1>8 DEF PageRecord
  <2>6. Len(s.entries) + 1 <= s.cap  BY <1>1, <1>10
  <2> HIDE DEF t
  <2>7. LiveAdded(s, t, k, e, F)  BY <2>5, <2>6 DEF LiveAdded, u
  <2> QED  BY <2>4, <2>7, <1>2 DEF k
<1> QED  BY <1>9, <1>10

\* page_free_insert_sorted adds the retained entry at its lower bound, or changes nothing.
LEMMA PutFree ==
  ASSUME PageTablesAre, NEW s \in PageRecord, NEW e \in PageEntry, NEW F \in Nat,
         s.footprint = F + s.free_bytes, CapOK(s.free_cap, s.free_bytes), Len(s.free) <= s.free_cap,
         Ascending(SizesOf(s.free)), NEW g \in page_free_insert_sorted(s, e.ptr, e.bytes)
  PROVE  /\ ~g.abort /\ LowerBound(SizesOf(s.free), e.bytes) \in 0..Len(s.free)
         /\ IF g.ptr = NULL THEN g.self = s
                            ELSE FreeAdded(s, g.self, LowerBound(SizesOf(s.free), e.bytes), e, F)
<1> DEFINE k == LowerBound(SizesOf(s.free), e.bytes)
           b == s.free_bytes
           n == GrownBytes(b)
           c == n \div PageEntryBytes
           m == [s EXCEPT !.footprint = F + n, !.free_bytes = n, !.free_cap = c]
           Put(r) == [r EXCEPT !.free =
                        Inserted(@, LowerBound(SizesOf(@), e.bytes), [ptr |-> e.ptr, bytes |-> e.bytes])]
           room == IF Len(s.free) = s.free_cap THEN GrowFree(s) ELSE {Gives(s, 1)}
<1>1. /\ s.free \in PageTable /\ b \in Nat /\ s.free_cap \in Nat /\ s.footprint \in Nat
      /\ Len(s.free) \in Nat /\ SizesOf(s.free) \in Seq(Int) /\ Len(SizesOf(s.free)) = Len(s.free)
  <2>1. s.free \in PageTable  BY DEF PageRecord
  <2> QED  BY <2>1, ColumnsOf DEF PageRecord
<1>2. k \in 0..Len(s.free)
  <2>1. e.bytes \in Int  BY DEF PageEntry
  <2> DEFINE T == SizesOf(s.free)
             x == e.bytes
  <2>2. T \in Seq(Int) /\ x \in Int /\ Ascending(T) /\ Len(T) = Len(s.free)  BY <1>1, <2>1
  <2> HIDE DEF T, x
  <2>3. LowerBound(T, x) \in 0..Len(T)  BY <2>2, LowerBoundIs
  <2> QED  BY <2>2, <2>3 DEF T, x
<1>3. e = [ptr |-> e.ptr, bytes |-> e.bytes]  BY DEF PageEntry
<1>4. \A r : r.free = s.free => Put(r) = [r EXCEPT !.free = Inserted(s.free, k, e)]  BY <1>3
<1>5. PICK h \in room : g = IF h.ptr = NULL THEN h ELSE Gives(Put(h.self), 1)  BY DEF page_free_insert_sorted
<1>6. n \in Nat /\ CapOK(c, n) /\ s.free_cap < c /\ c \in Nat
  <2>1. b = 0 \/ PageEntryBytes <= b  BY DEF CapOK
  <2>2. s.free_cap = b \div PageEntryBytes  BY DEF CapOK
  <2> QED  BY <1>1, <2>1, <2>2, GrownProps DEF CapOK
<1>7. GrowFree(s) = {Fails(s), Gives(m, 1)}
  <2>1. "footprint" \in DOMAIN s  BY DEF PageRecord
  <2>3. s.footprint = F + b /\ b \in Nat /\ n \in Nat  BY <1>1, <1>6
  <2>4. Unmapped(MappedTable(s, n), b) = [s EXCEPT !.footprint = F + n]
    <3> HIDE DEF n, b, c, k, m, room
    <3> QED  BY <2>1, <2>3, MapUnmap
  <2> QED  BY <2>4 DEF GrowFree
<1> DEFINE u == Inserted(s.free, k, e)
<1>8. u \in PageTable
  <2> DEFINE S == PageEntry
             t == s.free
  <2>1. t \in Seq(S) /\ k \in 0..Len(t) /\ e \in S  BY <1>1, <1>2 DEF PageTable
  <2> HIDE DEF S, t, k
  <2>3. CanInsert(S, t, k, e)  BY <2>1 DEF CanInsert
  <2>2. Inserted(t, k, e) \in Seq(S)  BY <2>3, InsertedUp
  <2> QED  BY <2>2 DEF S, t, PageTable
<1>9. CASE Len(s.free) = s.free_cap
  <2>1. h = Fails(s) \/ h = Gives(m, 1)  BY <1>5, <1>7, <1>9
  <2>2. CASE h = Fails(s)  BY <2>2, <1>2, <1>5 DEF Fails, Gives
  <2>3. CASE h = Gives(m, 1)
    <3>1. h.ptr # NULL /\ h.self = m  BY <2>3 DEF Gives, NULL
    <3>2. m.free = s.free  BY DEF PageRecord
    <3>3. g = Gives([m EXCEPT !.free = u], 1)  BY <3>1, <3>2, <1>4, <1>5
    <3> DEFINE t == [m EXCEPT !.free = u]
               f == F + n
    <3>4. g.self = t /\ ~g.abort /\ g.ptr # NULL  BY <3>3 DEF Gives, NULL
    <3>5. f \in Nat  BY <1>6
    <3>6. t = [s EXCEPT !.footprint = f, !.free_bytes = n, !.free_cap = c, !.free = u]  OBVIOUS
    <3> HIDE DEF t, f, u, n, c, k
    <3>7. /\ t \in PageRecord /\ t.free = u
          /\ t.align = s.align /\ t.entries = s.entries /\ t.cap = s.cap /\ t.entries_bytes = s.entries_bytes
          /\ t.in_use = s.in_use /\ t.dirty = s.dirty /\ t.free_cap = c /\ t.free_bytes = n /\ t.footprint = f
      BY <3>5, <3>6, <1>6, <1>8 DEF PageRecord
    <3>8. Len(s.free) + 1 <= c  BY <1>1, <1>6, <1>9
    <3>9. FreeAdded(s, t, k, e, F)  BY <3>7, <3>8, <1>6 DEF FreeAdded, f, u
    <3> QED  BY <3>4, <3>9, <1>2 DEF k
  <2> QED  BY <2>1, <2>2, <2>3
<1>10. CASE Len(s.free) # s.free_cap
  <2>1. h = Gives(s, 1)  BY <1>5, <1>10
  <2>2. h.ptr # NULL /\ h.self = s  BY <2>1 DEF Gives, NULL
  <2>3. g = Gives([s EXCEPT !.free = u], 1)  BY <2>2, <1>4, <1>5
  <2> DEFINE t == [s EXCEPT !.free = u]
  <2>4. g.self = t /\ ~g.abort /\ g.ptr # NULL  BY <2>3 DEF Gives, NULL
  <2> HIDE DEF u, n, c, k
  <2>5. /\ t \in PageRecord /\ t.free = u
        /\ t.align = s.align /\ t.entries = s.entries /\ t.cap = s.cap /\ t.entries_bytes = s.entries_bytes
        /\ t.in_use = s.in_use /\ t.dirty = s.dirty /\ t.free_cap = s.free_cap /\ t.free_bytes = b /\ t.footprint = s.footprint
    BY <1>8 DEF PageRecord
  <2>6. Len(s.free) + 1 <= s.free_cap  BY <1>1, <1>10
  <2> HIDE DEF t
  <2>7. FreeAdded(s, t, k, e, F)  BY <2>5, <2>6 DEF FreeAdded, u
  <2> QED  BY <2>4, <2>7, <1>2 DEF k
<1> QED  BY <1>9, <1>10

\* The entries of the table are the callers' blocks, each with room for its
\* block.
Covers(t, H) ==
    /\ \A b \in H : \E i \in 1..Len(t) : t[i].ptr = b.addr /\ b.len <= t[i].bytes
    /\ \A i \in 1..Len(t) : t[i].ptr \in Addrs(H)

\* The inductive invariant of the page allocator: no page is live twice, retained
\* twice or both, the tables are sorted within their capacities, the counters exact.
PageSound(s, H) ==
    /\ s \in PageRecord /\ PageAligns(s.align)
    /\ TableSound(s.entries) /\ TableSound(s.free) /\ RegsOf(s.entries) \cap RegsOf(s.free) = {}
    /\ Ascending(Keys(s.entries)) /\ Ascending(SizesOf(s.free))
    /\ CapOK(s.cap, s.entries_bytes) /\ Len(s.entries) <= s.cap
    /\ CapOK(s.free_cap, s.free_bytes) /\ Len(s.free) <= s.free_cap
    /\ s.in_use = Total(SizesOf(s.entries))
    /\ s.footprint = Total(SizesOf(s.entries)) + Total(SizesOf(s.free)) + s.entries_bytes + s.free_bytes
    /\ WellHeld(H) /\ Covers(s.entries, H)

\* The first page of a region is in it.
LEMMA FirstPage ==
  ASSUME NEW e, IsRegion(e)
  PROVE  e.ptr \div PageSize \in Reg(e) /\ Reg(e) \subseteq Nat
<1> DEFINE p == e.ptr \div PageSize
           k == PageCount(e.bytes)
<1>1. p \in Nat /\ k \in Nat \ {0} /\ Reg(e) = p..(p + k - 1)  BY DEF IsRegion, Reg, Region
<1> HIDE DEF p, k
<1>2. p \in p..(p + k - 1) /\ p..(p + k - 1) \subseteq Nat  BY <1>1
<1> QED  BY <1>1, <1>2 DEF p

\* Entries of a table start at different addresses.
LEMMA KeysDistinct ==
  ASSUME NEW t, TableSound(t)
  PROVE  /\ \A i, j \in 1..Len(t) : t[i].ptr = t[j].ptr => i = j
         /\ Distinct(Keys(t))
<1>1. ASSUME NEW i \in 1..Len(t), NEW j \in 1..Len(t), t[i].ptr = t[j].ptr PROVE i = j
  <2>1. IsRegion(t[i]) /\ IsRegion(t[j])  BY DEF TableSound
  <2>2. t[i].ptr \div PageSize \in Reg(t[i]) /\ t[i].ptr \div PageSize \in Reg(t[j])  BY <1>1, <2>1, FirstPage
  <2> QED  BY <2>2 DEF TableSound
<1>2. t \in PageTable  BY DEF TableSound
<1>3. Len(Keys(t)) = Len(t) /\ \A i \in 1..Len(t) : Keys(t)[i] = t[i].ptr  BY <1>2, ColumnsOf
<1> QED  BY <1>1, <1>3 DEF Distinct

\* The lookup finds an entry by its address, and nothing for any other address.
LEMMA EntryFound ==
  ASSUME NEW t, TableSound(t), Ascending(Keys(t))
  PROVE  /\ \A i \in 1..Len(t) : Found(Keys(t), t[i].ptr) = i - 1
         /\ \A a \in Nat : (\A i \in 1..Len(t) : t[i].ptr # a) => Found(Keys(t), a) = -1
<1> DEFINE K == Keys(t)
           n == Len(t)
<1>1. K \in Seq(Int) /\ Len(K) = n /\ n \in Nat /\ \A i \in 1..n : K[i] = t[i].ptr
  BY ColumnsOf DEF TableSound
<1>2. Ascending(K) /\ Distinct(K)  BY KeysDistinct
<1> HIDE DEF K, n
<1>3. ASSUME NEW i \in 1..n PROVE Found(K, t[i].ptr) = i - 1
  <2>1. i \in 1..Len(K) /\ K[i] = t[i].ptr  BY <1>1
  <2>2. Found(K, K[i]) = i - 1  BY <1>1, <1>2, <2>1, FoundIndex
  <2> QED  BY <2>1, <2>2
<1>4. ASSUME NEW a \in Nat, \A i \in 1..n : t[i].ptr # a PROVE Found(K, a) = -1
  <2>1. /\ Found(K, a) \in -1..(Len(K) - 1)
        /\ Found(K, a) # -1 => K[Found(K, a) + 1] = a
    <3>1. a \in Int  OBVIOUS
    <3> QED  BY <1>1, <1>2, <3>1, FoundIs
  <2> SUFFICES ASSUME Found(K, a) # -1 PROVE FALSE  OBVIOUS
  <2>2. Found(K, a) + 1 \in 1..n  BY <2>1, <1>1
  <2> QED  BY <2>1, <2>2, <1>1, <1>4
<1> QED  BY <1>3, <1>4 DEF K, n

\* Regions without a page in common are apart in memory.
LEMMA RegionsApart ==
  ASSUME NEW d, IsRegion(d), NEW e, IsRegion(e), Reg(d) \cap Reg(e) = {}
  PROVE  d.ptr + d.bytes <= e.ptr \/ e.ptr + e.bytes <= d.ptr
<1> DEFINE p == d.ptr \div PageSize
           k == PageCount(d.bytes)
           q == e.ptr \div PageSize
           l == PageCount(e.bytes)
<1>1. p \in Nat /\ k \in Nat \ {0} /\ q \in Nat /\ l \in Nat \ {0}
      /\ d.ptr = p * PageSize /\ d.bytes = PageSize * k /\ e.ptr = q * PageSize /\ e.bytes = PageSize * l
      /\ Reg(d) = p..(p + k - 1) /\ Reg(e) = q..(q + l - 1)
  BY DEF IsRegion, Reg, Region
<1>2. PageSize \in Nat \ {0}  BY PageNumbers
<1> HIDE DEF p, k, q, l
<1>3. p + k <= q \/ q + l <= p
  <2> SUFFICES ASSUME ~(p + k <= q), ~(q + l <= p) PROVE FALSE  OBVIOUS
  <2>1. CASE p <= q
    <3>1. q \in Reg(d) /\ q \in Reg(e)  BY <2>1, <1>1
    <3> QED  BY <3>1
  <2>2. CASE q < p
    <3>1. p \in Reg(d) /\ p \in Reg(e)  BY <2>2, <1>1
    <3> QED  BY <3>1
  <2> QED  BY <2>1, <2>2, <1>1
<1>4. ASSUME NEW x \in Nat, NEW y \in Nat, NEW z \in Nat, x + y <= z PROVE x * PageSize + PageSize * y <= z * PageSize
  <2> DEFINE w == x + y
  <2>1. w * PageSize = x * PageSize + PageSize * y /\ w \in Nat  BY <1>2
  <2> HIDE DEF w
  <2>2. w <= z  BY <1>4 DEF w
  <2>3. w < z => w * PageSize + PageSize <= z * PageSize  BY <2>1, <1>2, NextMultiple
  <2>4. w = z => w * PageSize = z * PageSize  OBVIOUS
  <2> DEFINE W == w * PageSize
             Z == z * PageSize
  <2>5. W \in Nat /\ Z \in Nat  BY <2>1, <1>2
  <2>6. W <= Z
    <3> HIDE DEF W, Z
    <3>1. (w < z => W + PageSize <= Z) /\ (w = z => W = Z)  BY <2>3, <2>4 DEF W, Z
    <3> QED  BY <3>1, <2>1, <2>2, <2>5, <1>2
  <2> QED  BY <2>1, <2>6
<1>5. CASE p + k <= q  BY <1>1, <1>4, <1>5
<1>6. CASE q + l <= p  BY <1>1, <1>4, <1>6
<1> QED  BY <1>3, <1>5, <1>6

\* What a request is rounded to.
LEMMA PageRounded ==
  ASSUME NEW s, PageAligns(s.align), NEW n \in Nat, NEW r, r = page_rounded_size(s, n)
  PROVE  /\ r \in Nat /\ n <= r /\ r = PageSize * PageCount(r) /\ PageCount(r) \in Nat
         /\ n # 0 => PageCount(r) # 0 /\ r # 0
<1> DEFINE a == page_effective_alignment(s)
           c == a \div PageSize
           q == r \div a
<1>1. PageSize \in Nat \ {0} /\ s.align \in Nat  BY PageNumbers DEF PageAligns
<1>2. a \in Nat \ {0} /\ a % PageSize = 0
  <2>1. PageSize % PageSize = 0  BY <1>1
  <2> QED  BY <1>1, <2>1 DEF page_effective_alignment, PageAligns
<1>3. r \in Nat /\ r % a = 0 /\ n <= r
  <2>1. r = RoundUp(n, a)  BY DEF page_rounded_size
  <2> HIDE DEF a
  <2> QED  BY <2>1, <1>2, RoundUpProps
<1>4. c \in Nat /\ a = PageSize * c
  <2> HIDE DEF a
  <2>1. c \in Nat /\ a = PageSize * c + (a % PageSize)  BY <1>1, <1>2, DivProps
  <2> HIDE DEF c
  <2>2. PageSize * c \in Nat  BY <2>1, <1>1
  <2> QED  BY <2>1, <2>2, <1>2
<1> HIDE DEF a, c
<1>5. q \in Nat /\ r = a * q
  <2>1. q \in Nat /\ r = a * q + (r % a)  BY <1>2, <1>3, DivProps
  <2> HIDE DEF q
  <2>2. a * q \in Nat  BY <2>1, <1>2
  <2> QED  BY <2>1, <2>2, <1>3
<1> HIDE DEF q
<1> DEFINE m == c * q
<1>6. m \in Nat /\ r = m * PageSize /\ m * PageSize = PageSize * m  BY <1>1, <1>4, <1>5
<1> HIDE DEF m
<1>7. PageCount(r) = m  BY <1>6, PageMultiple
<1>8. n # 0 => m # 0 /\ r # 0  BY <1>1, <1>3, <1>6
<1> QED  BY <1>3, <1>6, <1>7, <1>8

\* A block on a new entry is held beside the others, and every block has its entry.
LEMMA CoversMore ==
  ASSUME NEW t, NEW k, NEW e, NEW u, InsertsIn(t, k, e, u), NEW H, WellHeld(H), Covers(t, H),
         NEW n \in Nat \ {0}, n <= e.bytes
  PROVE  /\ e.ptr \in Nat \ {0} /\ e.ptr \notin Addrs(H)
         /\ WellHeld(H \cup {Block(e.ptr, n)}) /\ Covers(u, H \cup {Block(e.ptr, n)})
<1> DEFINE y == Block(e.ptr, n)
<1>1. /\ TableSound(t) /\ IsRegion(e) /\ e \in PageEntry /\ \A i \in 1..Len(t) : IsRegion(t[i]) /\ Reg(t[i]) \cap Reg(e) = {}
  BY DEF InsertsIn, TableSound, RegsOf, IsRegion
<1>2. e.ptr \in Nat \ {0} /\ e.bytes \in Nat \ {0} /\ y.addr = e.ptr /\ y.len = n  BY <1>1 DEF PageEntry, Block
<1>3. \A b \in H : IsDisjoint(b, y)
  <2> SUFFICES ASSUME NEW b \in H PROVE IsDisjoint(b, y)  OBVIOUS
  <2>1. PICK i \in 1..Len(t) : t[i].ptr = b.addr /\ b.len <= t[i].bytes  BY DEF Covers
  <2>2. t[i].ptr + t[i].bytes <= e.ptr \/ e.ptr + e.bytes <= t[i].ptr  BY <1>1, RegionsApart
  <2>3. t[i].ptr \in Nat /\ t[i].bytes \in Nat  BY <1>1 DEF IsRegion, PageEntry
  <2>4. b.len \in Nat  BY DEF WellHeld
  <2> HIDE DEF y
  <2> QED  BY <2>1, <2>2, <2>3, <2>4, <1>2 DEF IsDisjoint
<1>4. WellHeld(H \cup {y}) /\ Addrs(H \cup {y}) = Addrs(H) \cup {e.ptr}  BY <1>2, <1>3, HeldMore
<1>5. e.ptr \notin Addrs(H)
  <2> SUFFICES ASSUME NEW b \in H, b.addr = e.ptr PROVE FALSE  BY DEF Addrs
  <2>1. IsDisjoint(b, y) /\ b.len \in Nat \ {0}  BY <1>3 DEF WellHeld
  <2> HIDE DEF y
  <2> QED  BY <2>1, <1>2 DEF IsDisjoint
<1>6. /\ u[k + 1] = e /\ k + 1 \in 1..Len(u)
      /\ \A j \in 1..Len(t) : Up(k, j) \in 1..Len(u) /\ u[Up(k, j)] = t[j]
      /\ \A i \in 1..Len(u) : i = k + 1 \/ \E j \in 1..Len(t) : i = Up(k, j) /\ u[i] = t[j]
  <2>1. k \in 0..Len(t) /\ Len(t) \in Nat  BY ColumnsOf DEF InsertsIn, TableSound
  <2>2. Len(u) = Len(t) + 1  BY TableInsert
  <2>3. k + 1 \in 1..Len(u)  BY <2>1, <2>2
  <2> QED  BY <2>3, TableInsert
<1>7. \A b \in H \cup {y} : \E i \in 1..Len(u) : u[i].ptr = b.addr /\ b.len <= u[i].bytes
  <2>1. ASSUME NEW b \in H PROVE \E i \in 1..Len(u) : u[i].ptr = b.addr /\ b.len <= u[i].bytes
    <3>1. PICK j \in 1..Len(t) : t[j].ptr = b.addr /\ b.len <= t[j].bytes  BY DEF Covers
    <3> QED  BY <3>1, <1>6
  <2>2. u[k + 1].ptr = y.addr /\ y.len <= u[k + 1].bytes  BY <1>2, <1>6
  <2> QED  BY <2>1, <2>2, <1>6
<1>8. \A i \in 1..Len(u) : u[i].ptr \in Addrs(H \cup {y})  BY <1>4, <1>6 DEF Covers
<1> QED  BY <1>2, <1>4, <1>5, <1>7, <1>8 DEF Covers

\* Giving a block back with its entry leaves every other block its entry.
LEMMA CoversLess ==
  ASSUME NEW t, TableSound(t), NEW k \in 0..(Len(t) - 1), NEW u, u = Removed(t, k),
         NEW H, WellHeld(H), Covers(t, H), NEW x \in H, t[k + 1].ptr = x.addr
  PROVE  WellHeld(H \ {x}) /\ Covers(u, H \ {x})
<1>1. WellHeld(H \ {x}) /\ Addrs(H \ {x}) = Addrs(H) \ {x.addr}  BY HeldLess
<1>2. /\ \A j \in 1..Len(u) : Up(k, j) \in 1..Len(t) /\ Up(k, j) # k + 1 /\ u[j] = t[Up(k, j)]
      /\ \A i \in 1..Len(t) : i = k + 1 \/ \E j \in 1..Len(u) : i = Up(k, j) /\ u[j] = t[i]
  BY TableRemove
<1>3. k + 1 \in 1..Len(t)
  <2>1. Len(t) \in Nat  BY ColumnsOf DEF TableSound
  <2> QED  BY <2>1
<1>4. \A i \in 1..Len(t) : t[i].ptr = x.addr => i = k + 1  BY <1>3, KeysDistinct
<1>5. ASSUME NEW b \in H \ {x} PROVE \E i \in 1..Len(u) : u[i].ptr = b.addr /\ b.len <= u[i].bytes
  <2>1. PICK i \in 1..Len(t) : t[i].ptr = b.addr /\ b.len <= t[i].bytes  BY DEF Covers
  <2>2. b.addr # x.addr  BY <1>5, HeldUnique
  <2>3. i # k + 1  BY <2>1, <2>2
  <2>4. PICK j \in 1..Len(u) : u[j] = t[i]  BY <2>3, <1>2
  <2>5. u[j].ptr = b.addr /\ b.len <= u[j].bytes  BY <2>1, <2>4
  <2> QED  BY <2>5
<1>6. ASSUME NEW j \in 1..Len(u) PROVE u[j].ptr \in Addrs(H \ {x})
  <2>1. u[j].ptr \in Addrs(H) /\ u[j].ptr # x.addr  BY <1>2, <1>4 DEF Covers
  <2> QED  BY <2>1, <1>1
<1> QED  BY <1>1, <1>5, <1>6 DEF Covers

\* One region more in the hands of the callers.
PageAdds(s, H, u, k, e, n) ==
    /\ PageSound(s, H) /\ InsertsIn(s.entries, k, e, u.entries) /\ k = LowerBound(Keys(s.entries), e.ptr)
    /\ u \in PageRecord /\ u.align = s.align
    /\ TableSound(u.free) /\ RegsOf(u.free) \cap RegsOf(s.entries) = {} /\ RegsOf(u.free) \cap Reg(e) = {}
    /\ Ascending(SizesOf(u.free))
    /\ CapOK(u.cap, u.entries_bytes) /\ Len(s.entries) + 1 <= u.cap
    /\ CapOK(u.free_cap, u.free_bytes) /\ Len(u.free) <= u.free_cap
    /\ u.in_use = s.in_use + e.bytes
    /\ u.footprint = Total(SizesOf(s.entries)) + e.bytes + Total(SizesOf(u.free)) + u.entries_bytes + u.free_bytes
    /\ n \in Nat \ {0} /\ n <= e.bytes

\* Books to which an entry and its block were added are sound.
LEMMA PageAdded ==
  ASSUME NEW s, NEW H, NEW u, NEW k, NEW e, NEW n, PageAdds(s, H, u, k, e, n)
  PROVE  /\ e.ptr \in Nat \ {0} /\ e.ptr \notin Addrs(H)
         /\ PageSound(u, H \cup {Block(e.ptr, n)})
<1> DEFINE t == s.entries
           w == u.entries
           G == H \cup {Block(e.ptr, n)}
<1>1. /\ InsertsIn(t, k, e, w) /\ WellHeld(H) /\ Covers(t, H) /\ n \in Nat \ {0} /\ n <= e.bytes
      /\ w = Inserted(t, k, e) /\ k \in 0..Len(t) /\ e \in PageEntry /\ t \in PageTable
      /\ Ascending(Keys(t)) /\ k = LowerBound(Keys(t), e.ptr)
  BY DEF PageAdds, PageSound, InsertsIn, IsRegion, TableSound
<1>2. /\ TableSound(w) /\ Len(w) = Len(t) + 1
      /\ RegsOf(w) = RegsOf(t) \cup Reg(e)
      /\ Total(SizesOf(w)) = Total(SizesOf(t)) + e.bytes
  BY <1>1, TableInsert
<1>3. /\ e.ptr \in Nat \ {0} /\ e.ptr \notin Addrs(H) /\ WellHeld(G) /\ Covers(w, G)
  BY <1>1, CoversMore
<1>4. Ascending(Keys(w))
  <2> DEFINE K == Keys(t)
             x == e.ptr
  <2>1. Keys(w) = Inserted(K, k, x)  BY <1>1, ColumnsInserted
  <2>2. K \in Seq(Int) /\ x \in Int /\ Ascending(K) /\ k = LowerBound(K, x)  BY <1>1, <1>3, ColumnsOf
  <2> HIDE DEF K, x
  <2> QED  BY <2>1, <2>2, InsertedAscends
<1>5. RegsOf(w) \cap RegsOf(u.free) = {}  BY <1>2 DEF PageAdds
<1>6. u.in_use = Total(SizesOf(w))
      /\ u.footprint = Total(SizesOf(w)) + Total(SizesOf(u.free)) + u.entries_bytes + u.free_bytes
  BY <1>2 DEF PageAdds, PageSound
<1> HIDE DEF t, w, G
<1>7. PageSound(u, G)
  BY <1>2, <1>3, <1>4, <1>5, <1>6 DEF PageSound, PageAdds, t, w
<1> QED  BY <1>3, <1>7 DEF G

\* One region less, kept for the next caller or given back to the kernel.
PageDrops(s, H, u, k, x) ==
    /\ PageSound(s, H) /\ x \in H /\ k \in 0..(Len(s.entries) - 1) /\ s.entries[k + 1].ptr = x.addr
    /\ u \in PageRecord /\ u.align = s.align /\ u.entries = Removed(s.entries, k)
    /\ TableSound(u.free) /\ RegsOf(u.free) \subseteq RegsOf(s.free) \cup Reg(s.entries[k + 1])
    /\ Ascending(SizesOf(u.free))
    /\ u.cap = s.cap /\ u.entries_bytes = s.entries_bytes
    /\ CapOK(u.free_cap, u.free_bytes) /\ Len(u.free) <= u.free_cap
    /\ u.in_use + s.entries[k + 1].bytes = s.in_use
    /\ u.footprint + s.entries[k + 1].bytes
       = Total(SizesOf(s.entries)) + Total(SizesOf(u.free)) + u.entries_bytes + u.free_bytes

\* Books from which a block and its entry were taken are sound.
LEMMA PageDropped ==
  ASSUME NEW s, NEW H, NEW u, NEW k, NEW x, PageDrops(s, H, u, k, x)
  PROVE  PageSound(u, H \ {x})
<1> DEFINE t == s.entries
           w == u.entries
           e == t[k + 1]
           G == H \ {x}
<1>1. /\ TableSound(t) /\ t \in PageTable /\ k \in 0..(Len(t) - 1) /\ w = Removed(t, k) /\ Len(t) \in Nat
      /\ WellHeld(H) /\ Covers(t, H) /\ x \in H /\ e.ptr = x.addr /\ Ascending(Keys(t))
      /\ Len(t) <= s.cap /\ s.cap \in Nat
  <2>1. TableSound(t) /\ t \in PageTable /\ s \in PageRecord  BY DEF PageDrops, PageSound, TableSound
  <2>2. Len(t) \in Nat  BY <2>1, ColumnsOf
  <2> QED  BY <2>1, <2>2 DEF PageDrops, PageSound, PageRecord
<1>2. /\ TableSound(w) /\ Len(w) = Len(t) - 1
      /\ RegsOf(w) \cup Reg(e) = RegsOf(t) /\ RegsOf(w) \cap Reg(e) = {}
      /\ Total(SizesOf(t)) = Total(SizesOf(w)) + e.bytes /\ Total(SizesOf(w)) \in Nat
  BY <1>1, TableRemove
<1>3. WellHeld(G) /\ Covers(w, G)
  <2> HIDE DEF t, w
  <2> QED  BY <1>1, CoversLess
<1>4. Ascending(Keys(w))
  <2> DEFINE K == Keys(t)
  <2>1. Keys(w) = Removed(K, k)  BY <1>1, ColumnsRemoved
  <2>2. K \in Seq(Int) /\ Ascending(K) /\ k \in 0..(Len(K) - 1)  BY <1>1, ColumnsOf
  <2> HIDE DEF K
  <2> QED  BY <2>1, <2>2, RemovedAscends
<1>5. RegsOf(w) \cap RegsOf(u.free) = {}
  <2>1. RegsOf(t) \cap RegsOf(s.free) = {}  BY DEF PageDrops, PageSound
  <2>2. RegsOf(u.free) \subseteq RegsOf(s.free) \cup Reg(e)  BY DEF PageDrops
  <2> HIDE DEF t, w, e
  <2> QED  BY <2>1, <2>2, <1>2
<1>6. e.bytes \in Nat
  <2>1. k + 1 \in 1..Len(t)  BY <1>1
  <2> QED  BY <2>1, <1>1, ColumnsOf DEF PageEntry
<1>7. u.in_use = Total(SizesOf(w))
      /\ u.footprint = Total(SizesOf(w)) + Total(SizesOf(u.free)) + u.entries_bytes + u.free_bytes
  <2> DEFINE T == Total(SizesOf(t))
             W == Total(SizesOf(w))
             f == Total(SizesOf(u.free))
             b == e.bytes
  <2>1. T = W + b /\ W \in Nat /\ b \in Nat  BY <1>2, <1>6
  <2>2. u.in_use + b = T /\ u.footprint + b = T + f + u.entries_bytes + u.free_bytes  BY DEF PageDrops, PageSound
  <2>3. u.in_use \in Nat /\ u.footprint \in Nat /\ u.entries_bytes \in Nat /\ u.free_bytes \in Nat
    BY DEF PageDrops, PageRecord
  <2>4. f \in Nat
    <3> DEFINE c == Cardinality(RegsOf(u.free))
    <3>1. f = PageSize * c /\ IsFiniteSet(RegsOf(u.free))  BY DEF PageDrops, TableSound
    <3>2. c \in Nat /\ PageSize \in Nat  BY <3>1, FS_CardinalityType, PageNumbers
    <3> HIDE DEF c, f
    <3> QED  BY <3>1, <3>2
  <2> HIDE DEF T, W, f, b
  <2>5. u.in_use = W /\ u.footprint = W + f + u.entries_bytes + u.free_bytes  BY <2>1, <2>2, <2>3, <2>4
  <2> QED  BY <2>5 DEF W, f
<1>8. Len(w) <= s.cap  BY <1>1, <1>2
<1> HIDE DEF t, w, e, G
<1>9. PageSound(u, G)
  BY <1>2, <1>3, <1>4, <1>5, <1>7, <1>8 DEF PageSound, PageDrops, t, w
<1> QED  BY <1>9 DEF G

\* What was written, or zeroed, is no part of the books.
LEMMA PageSoundSame ==
  ASSUME NEW s, NEW H, PageSound(s, H), NEW t, t \in PageRecord,
         t.align = s.align, t.entries = s.entries, t.cap = s.cap, t.entries_bytes = s.entries_bytes,
         t.free = s.free, t.free_cap = s.free_cap, t.free_bytes = s.free_bytes,
         t.in_use = s.in_use, t.footprint = s.footprint
  PROVE  PageSound(t, H)
  BY DEF PageSound

\* The total size of a table is a natural number.
LEMMA TableTotals ==
  ASSUME NEW t, TableSound(t)
  PROVE  Total(SizesOf(t)) \in Nat
<1> DEFINE c == Cardinality(RegsOf(t))
<1>1. Total(SizesOf(t)) = PageSize * c /\ IsFiniteSet(RegsOf(t))  BY DEF TableSound
<1>2. c \in Nat /\ PageSize \in Nat  BY <1>1, FS_CardinalityType, PageNumbers
<1> HIDE DEF c
<1> QED  BY <1>1, <1>2

\* The taken pages are those of the live and of the retained entries.
LEMMA TakenIs ==
  ASSUME NEW s, s.entries \in PageTable, s.free \in PageTable
  PROVE  Taken(s) = RegsOf(s.entries) \cup RegsOf(s.free)
<1> DEFINE t == s.entries
           u == s.free
<1>1. DOMAIN t = 1..Len(t) /\ DOMAIN u = 1..Len(u)  BY ColumnsOf
<1>2. Taken(s) = UNION {Reg(e) : e \in {t[i] : i \in 1..Len(t)} \cup {u[i] : i \in 1..Len(u)}}
  BY <1>1 DEF Taken, Reg
<1> HIDE DEF t, u
<1>3. UNION {Reg(e) : e \in {t[i] : i \in 1..Len(t)} \cup {u[i] : i \in 1..Len(u)}} = RegsOf(t) \cup RegsOf(u)
  BY DEF RegsOf
<1> QED  BY <1>2, <1>3 DEF t, u

\* An entry of an address and a size.
LEMMA EntryFields ==
  ASSUME NEW a \in Nat \ {0}, NEW n \in Nat \ {0}, NEW e, e = [ptr |-> a, bytes |-> n]
  PROVE  e.ptr = a /\ e.bytes = n /\ e \in PageEntry
  BY DEF PageEntry

\* A region fresh from the kernel.
FreshEntry(p, n, e) ==
    /\ p \in Nat \ {0} /\ PageCount(n) \in Nat \ {0} /\ n = PageSize * PageCount(n)
    /\ e = [ptr |-> p * PageSize, bytes |-> n]

\* An entry on pages just mapped covers exactly those pages.
LEMMA FreshRegion ==
  ASSUME NEW p, NEW n, NEW e, FreshEntry(p, n, e)
  PROVE  IsRegion(e) /\ Reg(e) = Region(p, n) /\ e.ptr = p * PageSize /\ e.bytes = n
<1> DEFINE c == PageCount(n)
<1>1. PageSize \in Nat \ {0} /\ p \in Nat \ {0} /\ c \in Nat \ {0} /\ n = PageSize * c  BY PageNumbers DEF FreshEntry
<1> HIDE DEF c
<1> DEFINE a == p * PageSize
<1>2. a \in Nat /\ a # 0
  <2>1. 0 * PageSize + PageSize <= p * PageSize  BY <1>1, NextMultiple
  <2>2. a \in Nat /\ 0 * PageSize = 0  BY <1>1
  <2> QED  BY <2>1, <2>2, <1>1
<1>3. a \div PageSize = p
  <2>1. 0 \in 0..(PageSize - 1) /\ p * PageSize + 0 = a  BY <1>1, <1>2
  <2> QED  BY <2>1, <1>1, AddressParts
<1>4. n \in Nat \ {0}
  <2>1. PageSize * c \in Nat /\ PageSize * c # 0
    <3>1. 0 * PageSize + PageSize <= c * PageSize  BY <1>1, NextMultiple
    <3>2. c * PageSize = PageSize * c /\ PageSize * c \in Nat /\ 0 * PageSize = 0  BY <1>1
    <3> QED  BY <3>1, <3>2, <1>1
  <2> QED  BY <2>1, <1>1
<1> HIDE DEF a
<1>5. e = [ptr |-> a, bytes |-> n]  BY DEF a, FreshEntry
<1>9. a \in Nat \ {0}  BY <1>2
<1>6. e.ptr = a /\ e.bytes = n /\ e \in PageEntry  BY <1>4, <1>5, <1>9, EntryFields
<1>7. a = p * PageSize  BY DEF a
<1>8. IsRegion(e)  BY <1>1, <1>3, <1>6, <1>7 DEF IsRegion, c
<1> QED  BY <1>3, <1>6, <1>7, <1>8 DEF Reg

\* A fresh mapping gives a clean block no other block meets, or leaves the books as they were.
LEMMA MapFreshOK ==
  ASSUME PageTablesAre, NEW s, NEW H, PageSound(s, H), NEW b \in Nat \ {0},
         NEW n, n = page_rounded_size(s, b), NEW o \in MapFresh(s, n)
  PROVE  /\ ~o.abort
         /\ o.ptr = NULL => PageSound(o.self, H)
         /\ o.ptr # NULL => /\ o.ptr \in Nat \ {0} /\ o.ptr \notin Addrs(H)
                            /\ PageSound(o.self, H \cup {Block(o.ptr, b)})
                            /\ Bytes(o.ptr, b) \cap o.self.dirty = {}
<1>1. /\ s \in PageRecord /\ s.entries \in PageTable /\ s.free \in PageTable /\ PageAligns(s.align)
      /\ Ascending(Keys(s.entries)) /\ Len(s.entries) \in Nat
  <2>1. s \in PageRecord /\ PageAligns(s.align) /\ Ascending(Keys(s.entries))  BY DEF PageSound
  <2> QED  BY <2>1, ColumnsOf DEF PageRecord
<1> DEFINE c == PageCount(n)
<1>2. n \in Nat \ {0} /\ b <= n /\ n = PageSize * c /\ c \in Nat \ {0}  BY <1>1, PageRounded
<1> DEFINE Register(p) ==
             {IF g.ptr = NULL THEN Fails(Unmapped(g.self, n))
              ELSE Gives(Charge(g.self, n), p * PageSize) :
                g \in page_table_insert_sorted(Mapped(s, p, n), p * PageSize, n)}
<1>3. o = Fails(s) \/ \E p \in Places(Taken(s), n) : o \in Register(p)  BY DEF MapFresh
<1> HIDE DEF c
<1>4. CASE o = Fails(s)
  <2>1. o.self = s /\ o.ptr = NULL /\ ~o.abort  BY <1>4 DEF Fails, Gives
  <2> QED  BY <2>1
<1>5. CASE \E p \in Places(Taken(s), n) : o \in Register(p)
  <2>1. PICK p \in Places(Taken(s), n) : o \in Register(p)  BY <1>5
  <2> DEFINE e == [ptr |-> p * PageSize, bytes |-> n]
             m == Mapped(s, p, n)
             T == Total(SizesOf(s.entries))
             U == Total(SizesOf(s.free))
             F == T + U + s.free_bytes + n
             k == LowerBound(Keys(s.entries), e.ptr)
  <2>2. p \in Nat \ {0} /\ Region(p, n) \cap RegsOf(s.entries) = {} /\ Region(p, n) \cap RegsOf(s.free) = {}
    <3>1. p \in Pages /\ Region(p, n) \subseteq Pages \ Taken(s)  BY DEF Places
    <3> QED  BY <3>1, <1>1, TakenIs, PageNumbers
  <2>3. IsRegion(e) /\ Reg(e) = Region(p, n) /\ e.ptr = p * PageSize /\ e.bytes = n
    <3>1. FreshEntry(p, n, e)  BY <1>2, <2>2 DEF FreshEntry, c
    <3> HIDE DEF e
    <3> QED  BY <3>1, FreshRegion
  <2>4. PICK g \in page_table_insert_sorted(m, e.ptr, e.bytes) :
          o = IF g.ptr = NULL THEN Fails(Unmapped(g.self, n)) ELSE Gives(Charge(g.self, n), e.ptr)
    BY <2>1, <2>3
  <2>5. T \in Nat /\ U \in Nat /\ s.free_bytes \in Nat /\ s.entries_bytes \in Nat /\ s.footprint = T + U + s.entries_bytes + s.free_bytes
        /\ s.footprint \in Nat /\ s.in_use \in Nat /\ s.in_use = T
    BY <1>1, TableTotals DEF PageSound, PageRecord
  <2> HIDE DEF e, T, U
  <2>6. /\ m \in PageRecord /\ m.align = s.align /\ m.entries = s.entries /\ m.cap = s.cap
        /\ m.entries_bytes = s.entries_bytes /\ m.free = s.free /\ m.free_cap = s.free_cap
        /\ m.free_bytes = s.free_bytes /\ m.in_use = s.in_use
        /\ m.footprint = s.footprint + n /\ m.dirty = s.dirty \ Bytes(e.ptr, n)
    <3> DEFINE f == s.footprint + n
               d == s.dirty \ Bytes(e.ptr, n)
    <3>1. m = [s EXCEPT !.footprint = f, !.dirty = d]  BY <2>3 DEF Mapped
    <3>2. f \in Nat /\ d \in SUBSET Nat  BY <1>1, <1>2, <2>5 DEF PageRecord
    <3> HIDE DEF m, f, d
    <3>3. /\ m \in PageRecord /\ m.align = s.align /\ m.entries = s.entries /\ m.cap = s.cap
          /\ m.entries_bytes = s.entries_bytes /\ m.free = s.free /\ m.free_cap = s.free_cap
          /\ m.free_bytes = s.free_bytes /\ m.in_use = s.in_use /\ m.footprint = f /\ m.dirty = d
      BY <3>1, <3>2, <1>1 DEF PageRecord
    <3> QED  BY <3>3 DEF f, d
  <2>7. F \in Nat /\ m.footprint = F + m.entries_bytes  BY <2>5, <2>6, <1>2
  <2> HIDE DEF m, F
  <2>8. /\ ~g.abort /\ k \in 0..Len(s.entries)
        /\ IF g.ptr = NULL THEN g.self = m ELSE LiveAdded(m, g.self, k, e, F)
    <3>1. /\ CapOK(m.cap, m.entries_bytes) /\ Len(m.entries) <= m.cap /\ Ascending(Keys(m.entries)) /\ e \in PageEntry
      BY <2>3, <2>6 DEF PageSound, IsRegion
    <3> QED  BY <3>1, <2>4, <2>6, <2>7, PutLive DEF k
  <2> HIDE DEF k
  <2>9. CASE g.ptr = NULL
    <3> DEFINE t == Unmapped(m, n)
    <3>1. o.self = t /\ o.ptr = NULL /\ ~o.abort  BY <2>4, <2>8, <2>9 DEF Fails, Gives
    <3>2. t = [m EXCEPT !.footprint = s.footprint]
      <4>1. n <= m.footprint /\ m.footprint - n = s.footprint  BY <2>5, <2>6, <1>2
      <4> QED  BY <4>1 DEF Unmapped
    <3> HIDE DEF t
    <3>3. /\ t \in PageRecord /\ t.align = s.align /\ t.entries = s.entries /\ t.cap = s.cap
          /\ t.entries_bytes = s.entries_bytes /\ t.free = s.free /\ t.free_cap = s.free_cap
          /\ t.free_bytes = s.free_bytes /\ t.in_use = s.in_use /\ t.footprint = s.footprint
      BY <3>2, <2>5, <2>6 DEF PageRecord
    <3>4. PageSound(t, H)  BY <3>3, PageSoundSame
    <3> QED  BY <3>1, <3>4
  <2>10. CASE g.ptr # NULL
    <3> DEFINE t == g.self
               v == Charge(t, n)
    <3>1. o.self = v /\ o.ptr = e.ptr /\ ~o.abort  BY <2>4, <2>10 DEF Gives
    <3>2. LiveAdded(m, t, k, e, F)  BY <2>8, <2>10
    <3>3. /\ t \in PageRecord /\ t.entries = Inserted(s.entries, k, e)
          /\ t.align = s.align /\ t.free = s.free /\ t.free_cap = s.free_cap /\ t.free_bytes = s.free_bytes
          /\ t.in_use = s.in_use /\ t.dirty = s.dirty \ Bytes(e.ptr, n)
          /\ CapOK(t.cap, t.entries_bytes) /\ Len(s.entries) + 1 <= t.cap
          /\ t.footprint = F + t.entries_bytes
      BY <3>2, <2>6 DEF LiveAdded
    <3> HIDE DEF t
    <3>4. /\ v \in PageRecord /\ v.entries = t.entries /\ v.cap = t.cap /\ v.entries_bytes = t.entries_bytes
          /\ v.align = t.align /\ v.free = t.free /\ v.free_cap = t.free_cap /\ v.free_bytes = t.free_bytes
          /\ v.dirty = t.dirty /\ v.footprint = t.footprint /\ v.in_use = s.in_use + n
      <4> DEFINE x == s.in_use + n
      <4>1. v = [t EXCEPT !.in_use = x]  BY <3>3 DEF Charge
      <4>2. x \in Nat  BY <2>5, <1>2
      <4> HIDE DEF v, x
      <4>3. /\ v \in PageRecord /\ v.entries = t.entries /\ v.cap = t.cap /\ v.entries_bytes = t.entries_bytes
            /\ v.align = t.align /\ v.free = t.free /\ v.free_cap = t.free_cap /\ v.free_bytes = t.free_bytes
            /\ v.dirty = t.dirty /\ v.footprint = t.footprint /\ v.in_use = x
        BY <4>1, <4>2, <3>3 DEF PageRecord
      <4> QED  BY <4>3 DEF x
    <3> HIDE DEF v
    <3>5. InsertsIn(s.entries, k, e, v.entries)
      BY <2>2, <2>3, <2>8, <3>3, <3>4 DEF InsertsIn, PageSound
    <3>6. v.footprint = T + n + U + v.entries_bytes + v.free_bytes
      <4>1. v.entries_bytes \in Nat /\ v.free_bytes = s.free_bytes  BY <3>3, <3>4 DEF PageRecord
      <4>2. v.footprint = T + U + s.free_bytes + n + v.entries_bytes  BY <3>3, <3>4 DEF F
      <4> QED  BY <4>1, <4>2, <2>5, <1>2
    <3>7. PageAdds(s, H, v, k, e, b)
      <4>1. /\ TableSound(s.free) /\ RegsOf(s.entries) \cap RegsOf(s.free) = {} /\ Ascending(SizesOf(s.free))
            /\ CapOK(s.free_cap, s.free_bytes) /\ Len(s.free) <= s.free_cap
        BY DEF PageSound
      <4>2. RegsOf(v.free) \cap RegsOf(s.entries) = {} /\ RegsOf(v.free) \cap Reg(e) = {} /\ v.free = s.free
        BY <4>1, <2>2, <2>3, <3>3, <3>4
      <4> QED  BY <4>1, <4>2, <3>3, <3>4, <3>5, <3>6, <2>3, <1>2 DEF PageAdds, k, T, U
    <3>8. e.ptr \in Nat \ {0} /\ e.ptr \notin Addrs(H) /\ PageSound(v, H \cup {Block(e.ptr, b)})  BY <3>7, PageAdded
    <3>9. Bytes(e.ptr, b) \cap v.dirty = {}
      <4>1. Bytes(e.ptr, b) \subseteq Bytes(e.ptr, n)  BY <3>8, <1>2 DEF Bytes
      <4> QED  BY <4>1, <3>3, <3>4
    <3> QED  BY <3>1, <3>8, <3>9 DEF NULL
  <2> QED  BY <2>9, <2>10
<1> QED  BY <1>3, <1>4, <1>5

\* A held block has a live entry, found by its address.
LEMMA LiveEntry ==
  ASSUME NEW s, NEW H, PageSound(s, H), NEW x \in H
  PROVE  \E k \in 0..(Len(s.entries) - 1) :
            /\ Found(Keys(s.entries), x.addr) = k /\ k # -1
            /\ s.entries[k + 1].ptr = x.addr /\ x.len <= s.entries[k + 1].bytes
            /\ IsRegion(s.entries[k + 1])
<1> DEFINE t == s.entries
<1>1. TableSound(t) /\ Ascending(Keys(t)) /\ Covers(t, H) /\ Len(t) \in Nat
  BY ColumnsOf DEF PageSound, TableSound
<1> HIDE DEF t
<1>2. PICK i \in 1..Len(t) : t[i].ptr = x.addr /\ x.len <= t[i].bytes  BY <1>1 DEF Covers
<1>3. Found(Keys(t), x.addr) = i - 1  BY <1>1, <1>2, EntryFound
<1>4. IsRegion(t[i])  BY <1>1 DEF TableSound
<1>5. i - 1 \in 0..(Len(t) - 1) /\ i - 1 # -1 /\ (i - 1) + 1 = i  BY <1>1
<1> QED  BY <1>2, <1>3, <1>4, <1>5 DEF t

\* An address that is not held has no live entry.
LEMMA NoEntry ==
  ASSUME NEW s, NEW H, PageSound(s, H), NEW a \in Nat, a \notin Addrs(H)
  PROVE  Found(Keys(s.entries), a) = -1
<1> DEFINE t == s.entries
<1>1. TableSound(t) /\ Ascending(Keys(t)) /\ Covers(t, H)  BY DEF PageSound
<1> HIDE DEF t
<1>2. \A i \in 1..Len(t) : t[i].ptr # a  BY <1>1 DEF Covers
<1> QED  BY <1>1, <1>2, EntryFound DEF t

\* Freeing an address that is not held aborts.
LEMMA PageStaleOK ==
  ASSUME NEW s, NEW H, PageSound(s, H), NEW a \in Nat \ {0}, a \notin Addrs(H),
         NEW o \in page_allocator_deallocate(s, a)
  PROVE  o.abort
<1>1. Found(Keys(s.entries), a) = -1  BY NoEntry
<1>2. o = Aborts(s)  BY <1>1 DEF page_allocator_deallocate, NULL
<1> QED  BY <1>2 DEF Aborts

\* A free puts the region in the retained table, or back to the kernel.
LEMMA PageFreeOK ==
  ASSUME PageTablesAre, NEW s, NEW H, PageSound(s, H), NEW x \in H,
         NEW o \in page_allocator_deallocate(s, x.addr)
  PROVE  ~o.abort /\ PageSound(o.self, H \ {x})
<1>1. PICK k \in 0..(Len(s.entries) - 1) :
         /\ Found(Keys(s.entries), x.addr) = k /\ k # -1
         /\ s.entries[k + 1].ptr = x.addr /\ x.len <= s.entries[k + 1].bytes
         /\ IsRegion(s.entries[k + 1])
  BY LiveEntry
<1> DEFINE e == s.entries[k + 1]
           n == e.bytes
           Drop(r) == Gives(Discharge([r EXCEPT !.entries = Removed(@, k)], n), n)
           T == Total(SizesOf(s.entries))
           U == Total(SizesOf(s.free))
           F == T + U + s.entries_bytes
           j == LowerBound(SizesOf(s.free), n)
           t == s.entries
           w == Removed(t, k)
<1>2. x.addr # NULL /\ e.ptr = x.addr /\ IsRegion(e) /\ e \in PageEntry
  <2>1. x.addr \in Nat \ {0}  BY DEF PageSound, WellHeld
  <2> QED  BY <2>1, <1>1 DEF NULL, IsRegion
<1>3. PICK g \in page_free_insert_sorted(s, e.ptr, e.bytes) :
        o = Drop(IF g.ptr = NULL THEN Unmapped(g.self, n) ELSE g.self)
  BY <1>1, <1>2 DEF page_allocator_deallocate
<1>4. /\ s \in PageRecord /\ s.entries \in PageTable /\ s.free \in PageTable /\ TableSound(t) /\ TableSound(s.free)
      /\ Ascending(SizesOf(s.free)) /\ Len(s.entries) \in Nat /\ Len(s.free) \in Nat
  <2>1. s \in PageRecord /\ Ascending(SizesOf(s.free)) /\ TableSound(t) /\ TableSound(s.free)  BY DEF PageSound
  <2> QED  BY <2>1, ColumnsOf DEF PageRecord
<1>5. /\ T \in Nat /\ U \in Nat /\ s.free_bytes \in Nat /\ s.entries_bytes \in Nat
      /\ s.footprint = T + U + s.entries_bytes + s.free_bytes
      /\ s.footprint \in Nat /\ s.in_use \in Nat /\ s.in_use = T
  BY <1>4, TableTotals DEF PageSound, PageRecord
<1>6. n \in Nat \ {0}  BY <1>2 DEF PageEntry
<1>7. w \in PageTable /\ T = Total(SizesOf(w)) + n /\ Total(SizesOf(w)) \in Nat /\ TableSound(w)
  <2>1. TableSound(w) /\ T = Total(SizesOf(w)) + n /\ Total(SizesOf(w)) \in Nat  BY <1>4, TableRemove
  <2> QED  BY <2>1 DEF TableSound
<1>8. F \in Nat /\ s.footprint = F + s.free_bytes  BY <1>5
<1> HIDE DEF e, F, T, U, w
<1>13. /\ n <= s.in_use /\ s.in_use - n \in Nat /\ (s.in_use - n) + n = s.in_use
       /\ n <= s.footprint /\ s.footprint - n \in Nat /\ (s.footprint - n) + n = s.footprint
  <2> DEFINE W == Total(SizesOf(w))
             a == s.in_use
             b == s.footprint
             c == s.entries_bytes
             d == s.free_bytes
  <2>1. /\ T \in Nat /\ U \in Nat /\ d \in Nat /\ c \in Nat /\ b = T + U + c + d /\ a = T
        /\ n \in Nat /\ W \in Nat /\ T = W + n
    BY <1>5, <1>6, <1>7
  <2> HIDE DEF W, a, b, c, d, n
  <2>2. n <= a /\ a - n \in Nat /\ (a - n) + n = a /\ n <= b /\ b - n \in Nat /\ (b - n) + n = b
    BY <2>1
  <2> QED  BY <2>2 DEF a, b
<1>9. /\ ~g.abort /\ j \in 0..Len(s.free)
      /\ IF g.ptr = NULL THEN g.self = s ELSE FreeAdded(s, g.self, j, e, F)
  <2>1. CapOK(s.free_cap, s.free_bytes) /\ Len(s.free) <= s.free_cap  BY DEF PageSound
  <2> QED  BY <2>1, <1>2, <1>3, <1>4, <1>8, PutFree
\* The end of the call: the entry goes and the counter with it.
<1>10. ASSUME NEW r \in PageRecord, r.entries = s.entries, r.in_use = s.in_use, NEW v, v = Drop(r)
       PROVE  /\ ~v.abort /\ v.self \in PageRecord /\ v.self.entries = w /\ v.self.in_use + n = s.in_use
              /\ v.self.align = r.align /\ v.self.cap = r.cap /\ v.self.entries_bytes = r.entries_bytes
              /\ v.self.free = r.free /\ v.self.free_cap = r.free_cap /\ v.self.free_bytes = r.free_bytes
              /\ v.self.footprint = r.footprint
  <2> DEFINE d == s.in_use - n
             q == v.self
  <2>1. n <= s.in_use /\ d \in Nat /\ d + n = s.in_use  BY <1>13
  <2>2. q = [r EXCEPT !.entries = w, !.in_use = d] /\ ~v.abort
    <3> DEFINE y == [r EXCEPT !.entries = w]
    <3>1. y.in_use = s.in_use /\ y = [r EXCEPT !.entries = Removed(@, k)]  BY <1>10 DEF w, PageRecord
    <3>2. Discharge(y, n) = [y EXCEPT !.in_use = d]  BY <3>1, <2>1 DEF Discharge
    <3> QED  BY <3>1, <3>2, <1>10 DEF Gives
  <2> HIDE DEF q, d
  <2>3. /\ q \in PageRecord /\ q.entries = w /\ q.in_use = d
        /\ q.align = r.align /\ q.cap = r.cap /\ q.entries_bytes = r.entries_bytes
        /\ q.free = r.free /\ q.free_cap = r.free_cap /\ q.free_bytes = r.free_bytes
        /\ q.footprint = r.footprint
    BY <2>1, <2>2, <1>7 DEF PageRecord
  <2> QED  BY <2>1, <2>2, <2>3 DEF q
<1> HIDE DEF Drop, j
<1>11. CASE g.ptr = NULL
  <2> DEFINE r == Unmapped(s, n)
             u == o.self
  <2>1. o = Drop(r)  BY <1>3, <1>9, <1>11
  <2>2. r = [s EXCEPT !.footprint = s.footprint - n]
    <3>1. n <= s.footprint  BY <1>13
    <3> QED  BY <3>1 DEF Unmapped
  <2>3. s.footprint - n \in Nat  BY <1>13
  <2> HIDE DEF r
  <2>4. /\ r \in PageRecord /\ r.entries = s.entries /\ r.in_use = s.in_use /\ r.footprint + n = s.footprint
        /\ r.align = s.align /\ r.cap = s.cap /\ r.entries_bytes = s.entries_bytes
        /\ r.free = s.free /\ r.free_cap = s.free_cap /\ r.free_bytes = s.free_bytes
    <3> DEFINE f == s.footprint - n
    <3>1. f \in Nat /\ f + n = s.footprint  BY <1>13
    <3>2. r = [s EXCEPT !.footprint = f]  BY <2>2
    <3> HIDE DEF f
    <3> QED  BY <3>1, <3>2, <1>4 DEF PageRecord
  <2>5. /\ ~o.abort /\ u \in PageRecord /\ u.entries = w /\ u.in_use + n = s.in_use
        /\ u.align = s.align /\ u.cap = s.cap /\ u.entries_bytes = s.entries_bytes
        /\ u.free = s.free /\ u.free_cap = s.free_cap /\ u.free_bytes = s.free_bytes
        /\ u.footprint + n = s.footprint
    BY <2>1, <2>4, <1>10
  <2> HIDE DEF u
  <2>6. PageDrops(s, H, u, k, x)
    <3>1. CapOK(s.free_cap, s.free_bytes) /\ Len(s.free) <= s.free_cap  BY DEF PageSound
    <3> QED  BY <2>5, <3>1, <1>1, <1>4, <1>5 DEF PageDrops, e, w, T, U
  <2>7. PageSound(u, H \ {x})  BY <2>6, PageDropped
  <2> QED  BY <2>5, <2>7 DEF u
<1>12. CASE g.ptr # NULL
  <2> DEFINE r == g.self
             u == o.self
  <2>1. o = Drop(r) /\ FreeAdded(s, r, j, e, F)  BY <1>3, <1>9, <1>12
  <2> HIDE DEF r
  <2>2. /\ r \in PageRecord /\ r.free = Inserted(s.free, j, e)
        /\ r.align = s.align /\ r.entries = s.entries /\ r.cap = s.cap /\ r.entries_bytes = s.entries_bytes
        /\ r.in_use = s.in_use
        /\ CapOK(r.free_cap, r.free_bytes) /\ Len(s.free) + 1 <= r.free_cap
        /\ r.footprint = F + r.free_bytes
    BY <2>1 DEF FreeAdded
  <2>3. /\ ~o.abort /\ u \in PageRecord /\ u.entries = w /\ u.in_use + n = s.in_use
        /\ u.align = s.align /\ u.cap = s.cap /\ u.entries_bytes = s.entries_bytes
        /\ u.free = r.free /\ u.free_cap = r.free_cap /\ u.free_bytes = r.free_bytes
        /\ u.footprint = r.footprint
    BY <2>1, <2>2, <1>10
  <2> HIDE DEF u
  <2>4. InsertsIn(s.free, j, e, u.free)
    <3>1. Reg(e) \subseteq RegsOf(s.entries)
      <4>1. k + 1 \in 1..Len(s.entries)  BY <1>4
      <4> QED  BY <4>1 DEF RegsOf, e
    <3>2. RegsOf(s.entries) \cap RegsOf(s.free) = {}  BY DEF PageSound
    <3> QED  BY <2>2, <2>3, <3>1, <3>2, <1>2, <1>4, <1>9 DEF InsertsIn
  <2>5. /\ TableSound(u.free) /\ Len(u.free) = Len(s.free) + 1
        /\ RegsOf(u.free) = RegsOf(s.free) \cup Reg(e)
        /\ Total(SizesOf(u.free)) = U + n
    BY <2>4, TableInsert DEF U
  <2>6. Ascending(SizesOf(u.free))
    <3> DEFINE K == SizesOf(s.free)
    <3>1. SizesOf(u.free) = Inserted(K, j, n)  BY <2>2, <2>3, <1>2, <1>4, <1>9, ColumnsInserted
    <3>2. K \in Seq(Int) /\ n \in Int /\ Ascending(K) /\ j = LowerBound(K, n)  BY <1>4, <1>6, ColumnsOf DEF j
    <3> HIDE DEF K, n
    <3> QED  BY <3>1, <3>2, InsertedAscends
  <2>7. u.footprint + n = T + Total(SizesOf(u.free)) + u.entries_bytes + u.free_bytes
    <3>1. u.free_bytes \in Nat /\ u.footprint = T + U + s.entries_bytes + u.free_bytes /\ u.entries_bytes = s.entries_bytes
      BY <2>2, <2>3 DEF F, PageRecord
    <3> QED  BY <3>1, <2>5, <1>5, <1>6
  <2>8. Len(u.free) <= u.free_cap /\ CapOK(u.free_cap, u.free_bytes)  BY <2>2, <2>3, <2>5
  <2>9. PageDrops(s, H, u, k, x)
    BY <2>3, <2>5, <2>6, <2>7, <2>8, <2>2, <1>1 DEF PageDrops, e, w, T
  <2>10. PageSound(u, H \ {x})  BY <2>9, PageDropped
  <2> QED  BY <2>3, <2>10 DEF u
<1> QED  BY <1>11, <1>12

\* What the retained table gives back to a request of the size.
Retained(s, hit, n) ==
    /\ hit \in 0..(Len(s.free) - 1) /\ s.free[hit + 1].bytes = n /\ IsRegion(s.free[hit + 1])
    /\ Reg(s.free[hit + 1]) \subseteq RegsOf(s.free)

\* The retained entry a request of n bytes finds has room for it.
LEMMA SizeFound ==
  ASSUME NEW s, TableSound(s.free), Ascending(SizesOf(s.free)), NEW n \in Nat,
         NEW hit, hit = page_free_find_size_match(s, n), hit # -1
  PROVE  Retained(s, hit, n)
<1> DEFINE K == SizesOf(s.free)
           m == Len(s.free)
<1>1. K \in Seq(Int) /\ Len(K) = m /\ m \in Nat /\ \A i \in 1..m : K[i] = s.free[i].bytes
  BY ColumnsOf DEF TableSound
<1>2. hit = Found(K, n)  BY DEF page_free_find_size_match
<1>3. Ascending(K) /\ n \in Int  OBVIOUS
<1>4. \A i \in 1..m : IsRegion(s.free[i]) /\ Reg(s.free[i]) \subseteq RegsOf(s.free)  BY DEF TableSound, RegsOf
<1> HIDE DEF K, m
<1>5. Found(K, n) \in -1..(Len(K) - 1) /\ (Found(K, n) # -1 => K[Found(K, n) + 1] = n)  BY <1>1, <1>3, FoundIs
<1>6. hit \in -1..(m - 1) /\ K[hit + 1] = n  BY <1>1, <1>2, <1>5
<1>7. hit \in 0..(m - 1) /\ hit + 1 \in 1..m  BY <1>1, <1>6
<1>8. s.free[hit + 1].bytes = n  BY <1>1, <1>6, <1>7
<1> QED  BY <1>4, <1>7, <1>8 DEF Retained, m

\* A retained region that leaves its table.
LEMMA Withdrawn ==
  ASSUME NEW s, TableSound(s.free), Ascending(SizesOf(s.free)), NEW n, NEW hit, Retained(s, hit, n),
         NEW y, y = Removed(s.free, hit)
  PROVE  /\ TableSound(y) /\ y \in PageTable /\ Len(y) = Len(s.free) - 1 /\ Ascending(SizesOf(y))
         /\ RegsOf(y) \subseteq RegsOf(s.free) /\ RegsOf(y) \cap Reg(s.free[hit + 1]) = {}
         /\ Total(SizesOf(s.free)) = Total(SizesOf(y)) + n /\ Total(SizesOf(y)) \in Nat
<1> DEFINE t == s.free
           K == SizesOf(t)
<1>1. TableSound(t) /\ t \in PageTable /\ hit \in 0..(Len(t) - 1) /\ t[hit + 1].bytes = n /\ y = Removed(t, hit) /\ Ascending(K)
  BY DEF Retained, TableSound
<1>2. K \in Seq(Int) /\ Len(K) = Len(t)  BY <1>1, ColumnsOf
<1> HIDE DEF t
<1>3. SizesOf(y) = Removed(K, hit)  BY <1>1, ColumnsRemoved
<1> HIDE DEF K
<1>4. Ascending(SizesOf(y))  BY <1>1, <1>2, <1>3, RemovedAscends
<1>5. /\ TableSound(y) /\ Len(y) = Len(t) - 1
      /\ RegsOf(y) \cup Reg(t[hit + 1]) = RegsOf(t) /\ RegsOf(y) \cap Reg(t[hit + 1]) = {}
      /\ Total(SizesOf(t)) = Total(SizesOf(y)) + n /\ Total(SizesOf(y)) \in Nat
  BY <1>1, TableRemove
<1> QED  BY <1>4, <1>5 DEF t, TableSound

\* An allocation takes a retained region of the size, or asks the kernel.
LEMMA PageAllocOK ==
  ASSUME PageTablesAre, NEW s, NEW H, PageSound(s, H), NEW b \in Nat, NEW z \in BOOLEAN,
         NEW o \in page_allocator_allocate(s, b, z)
  PROVE  /\ ~o.abort
         /\ o.ptr = NULL => PageSound(o.self, H)
         /\ o.ptr # NULL => /\ b # 0 /\ o.ptr \in Nat \ {0} /\ o.ptr \notin Addrs(H)
                            /\ PageSound(o.self, H \cup {Block(o.ptr, b)})
                            /\ z => Bytes(o.ptr, b) \cap o.self.dirty = {}
<1> DEFINE n == page_rounded_size(s, b)
           hit == page_free_find_size_match(s, n)
           e == s.free[hit + 1]
           ptr == e.ptr
           Reuse(g) == Gives(Charge(Zeroed(Unretained(g.self, hit), ptr, n, z), n), ptr)
<1>1. CASE b = 0
  <2>1. o = Fails(s)  BY <1>1 DEF page_allocator_allocate
  <2> QED  BY <2>1 DEF Fails, Gives, NULL
<1>2. CASE b # 0 /\ o \in MapFresh(s, n)
  <2>1. b \in Nat \ {0}  BY <1>2
  <2> HIDE DEF hit, e
  <2>2. o \in MapFresh(s, n) /\ n = page_rounded_size(s, b)  BY <1>2
  <2> HIDE DEF n
  <2> QED  BY <1>2, <2>1, <2>2, MapFreshOK
<1>3. CASE b # 0 /\ hit # -1
  <2>1. PICK g \in page_table_insert_sorted(s, ptr, n) :
           o \in (IF g.ptr = NULL THEN MapFresh(g.self, n) ELSE {Reuse(g)})
    BY <1>3 DEF page_allocator_allocate
  <2>2. /\ s \in PageRecord /\ PageAligns(s.align) /\ TableSound(s.free) /\ TableSound(s.entries)
        /\ Ascending(SizesOf(s.free)) /\ Ascending(Keys(s.entries))
        /\ CapOK(s.cap, s.entries_bytes) /\ Len(s.entries) <= s.cap
        /\ CapOK(s.free_cap, s.free_bytes) /\ Len(s.free) <= s.free_cap
        /\ RegsOf(s.entries) \cap RegsOf(s.free) = {}
    BY DEF PageSound
  <2>3. n \in Nat /\ n # 0 /\ b <= n  BY <1>3, <2>2, PageRounded
  <2> HIDE DEF n
  <2>4. Retained(s, hit, n)  BY <1>3, <2>2, <2>3, SizeFound
  <2> HIDE DEF hit
  <2>5. IsRegion(e) /\ e \in PageEntry /\ e.bytes = n /\ Reg(e) \subseteq RegsOf(s.free)  BY <2>4 DEF Retained, IsRegion
  <2> DEFINE T == Total(SizesOf(s.entries))
             U == Total(SizesOf(s.free))
             F == T + U + s.free_bytes
             k == LowerBound(Keys(s.entries), e.ptr)
             y == Removed(s.free, hit)
             Y == Total(SizesOf(y))
  <2>6. /\ T \in Nat /\ U \in Nat /\ s.free_bytes \in Nat /\ s.entries_bytes \in Nat /\ s.in_use \in Nat
        /\ s.footprint = T + U + s.entries_bytes + s.free_bytes /\ s.in_use = T
    BY <2>2, TableTotals DEF PageSound, PageRecord
  <2>7. /\ TableSound(y) /\ y \in PageTable /\ Len(y) = Len(s.free) - 1 /\ Ascending(SizesOf(y))
        /\ RegsOf(y) \subseteq RegsOf(s.free) /\ RegsOf(y) \cap Reg(e) = {}
        /\ U = Y + n /\ Y \in Nat
    BY <2>2, <2>4, Withdrawn
  <2> HIDE DEF T, U, Y
  <2>8. F \in Nat /\ s.footprint = F + s.entries_bytes  BY <2>6
  <2> HIDE DEF F, e
  <2>9. /\ ~g.abort /\ k \in 0..Len(s.entries)
        /\ IF g.ptr = NULL THEN g.self = s ELSE LiveAdded(s, g.self, k, e, F)
    BY <2>1, <2>2, <2>5, <2>8, PutLive
  <2> HIDE DEF k, y
  <2>10. CASE g.ptr = NULL
    <3>1. o \in MapFresh(s, n)  BY <2>1, <2>9, <2>10
    <3> QED  BY <3>1, <1>2, <1>3
  <2>11. CASE g.ptr # NULL
    <3> DEFINE t == g.self
               w == Unretained(t, hit)
               x == Zeroed(w, ptr, n, z)
               v == Charge(x, n)
               D == IF z THEN t.dirty \ Bytes(e.ptr, n) ELSE t.dirty
    <3>1. o.self = v /\ o.ptr = e.ptr /\ ~o.abort  BY <2>1, <2>11 DEF Gives
    <3>2. LiveAdded(s, t, k, e, F)  BY <2>9, <2>11
    <3>3. /\ t \in PageRecord /\ t.entries = Inserted(s.entries, k, e)
          /\ t.align = s.align /\ t.free = s.free /\ t.free_cap = s.free_cap /\ t.free_bytes = s.free_bytes
          /\ t.in_use = s.in_use
          /\ CapOK(t.cap, t.entries_bytes) /\ Len(s.entries) + 1 <= t.cap
          /\ t.footprint = F + t.entries_bytes
      BY <3>2 DEF LiveAdded
    <3> HIDE DEF t
    <3>4. w = [t EXCEPT !.free = y]  BY <3>3 DEF Unretained, y
    <3>5. D \in SUBSET Nat  BY <3>3 DEF PageRecord
    <3>6. x = [t EXCEPT !.free = y, !.dirty = D]
      <4>1. w.dirty = t.dirty  BY <3>4
      <4>2. z => x = [w EXCEPT !.dirty = D]  BY <4>1 DEF Zeroed, Zero
      <4>3. ~z => x = w /\ D = t.dirty  BY DEF Zeroed
      <4>4. ~z => [t EXCEPT !.free = y, !.dirty = D] = w  BY <3>3, <3>4, <4>3 DEF PageRecord
      <4> QED  BY <3>4, <4>2, <4>3, <4>4
    <3> DEFINE q == s.in_use + n
    <3>7. v = [t EXCEPT !.free = y, !.dirty = D, !.in_use = q] /\ q \in Nat
      <4>1. x.in_use = s.in_use  BY <3>3, <3>6
      <4> HIDE DEF x
      <4>2. v = [x EXCEPT !.in_use = q]  BY <4>1 DEF Charge
      <4>3. q \in Nat  BY <2>3, <2>6
      <4> HIDE DEF q, v
      <4> QED  BY <3>6, <4>2, <4>3
    <3> HIDE DEF v, D, q, x, w
    <3>8. /\ v \in PageRecord /\ v.entries = t.entries /\ v.cap = t.cap /\ v.entries_bytes = t.entries_bytes
          /\ v.align = t.align /\ v.free = y /\ v.free_cap = t.free_cap /\ v.free_bytes = t.free_bytes
          /\ v.dirty = D /\ v.footprint = t.footprint /\ v.in_use = q
      BY <3>3, <3>5, <3>7, <2>7 DEF PageRecord
    <3>9. InsertsIn(s.entries, k, e, v.entries)
      BY <2>2, <2>5, <2>9, <3>3, <3>8 DEF InsertsIn
    <3>10. v.footprint = T + n + Y + v.entries_bytes + v.free_bytes
      <4>1. v.entries_bytes \in Nat /\ v.free_bytes = s.free_bytes  BY <3>3, <3>8 DEF PageRecord
      <4>2. v.footprint = T + U + s.free_bytes + v.entries_bytes  BY <3>3, <3>8 DEF F
      <4> QED  BY <4>1, <4>2, <2>3, <2>6, <2>7
    <3>11. Len(y) <= s.free_cap
      <4>1. Len(s.free) \in Nat /\ s.free_cap \in Nat  BY <2>2, ColumnsOf DEF PageRecord, TableSound
      <4> QED  BY <4>1, <2>2, <2>7
    <3>12. PageAdds(s, H, v, k, e, b)
      <4>1. RegsOf(v.free) \cap RegsOf(s.entries) = {} /\ RegsOf(v.free) \cap Reg(e) = {}
        BY <2>2, <2>7, <3>8
      <4>2. b \in Nat \ {0}  BY <1>3
      <4> QED  BY <4>1, <4>2, <2>2, <2>3, <2>5, <2>7, <3>3, <3>8, <3>9, <3>10, <3>11 DEF PageAdds, k, T, Y, q
    <3>13. e.ptr \in Nat \ {0} /\ e.ptr \notin Addrs(H) /\ PageSound(v, H \cup {Block(e.ptr, b)})  BY <3>12, PageAdded
    <3>14. z => Bytes(e.ptr, b) \cap v.dirty = {}
      <4>1. Bytes(e.ptr, b) \subseteq Bytes(e.ptr, n)  BY <3>13, <2>3 DEF Bytes
      <4> QED  BY <4>1, <3>8 DEF D
    <3> QED  BY <3>1, <3>13, <3>14, <1>3 DEF NULL
  <2> QED  BY <2>10, <2>11
<1>4. hit = -1 /\ b # 0 => o \in MapFresh(s, n)  BY DEF page_allocator_allocate
<1> QED  BY <1>1, <1>2, <1>3, <1>4

\* A block keeps its region when what it is resized to rounds to the region.
LEMMA PageResized ==
  ASSUME NEW s, NEW H, PageSound(s, H), NEW x \in H, NEW n \in Nat \ {0},
         NEW k \in 0..(Len(s.entries) - 1), s.entries[k + 1].ptr = x.addr, n <= s.entries[k + 1].bytes
  PROVE  /\ x.addr \in Nat \ {0} /\ x.addr \notin Addrs(H \ {x})
         /\ PageSound(s, (H \ {x}) \cup {Block(x.addr, n)})
<1> DEFINE t == s.entries
           G == H \ {x}
           y == Block(x.addr, n)
           i == k + 1
<1>1. /\ TableSound(t) /\ WellHeld(H) /\ Covers(t, H) /\ t[i].ptr = x.addr /\ n <= t[i].bytes
      /\ x.addr \in Nat \ {0}
  BY DEF PageSound, WellHeld
<1>2. i \in 1..Len(t)
  <2>1. Len(t) \in Nat  BY <1>1, ColumnsOf DEF TableSound
  <2> QED  BY <2>1
<1>3. WellHeld(G) /\ Addrs(G) = Addrs(H) \ {x.addr}  BY <1>1, HeldLess
<1>4. x.addr \notin Addrs(G)  BY <1>3
<1>5. y.addr = x.addr /\ y.len = n  BY DEF Block
<1> HIDE DEF y, i, t
<1>6. \A b \in G : IsDisjoint(b, y)
  <2> SUFFICES ASSUME NEW b \in G PROVE IsDisjoint(b, y)  OBVIOUS
  <2>1. PICK j \in 1..Len(t) : t[j].ptr = b.addr /\ b.len <= t[j].bytes  BY <1>1 DEF Covers
  <2>2. b.addr # x.addr  BY <1>1, HeldUnique
  <2>3. j # i  BY <1>1, <2>1, <2>2
  <2>4. IsRegion(t[j]) /\ IsRegion(t[i]) /\ Reg(t[j]) \cap Reg(t[i]) = {}  BY <1>1, <1>2, <2>3 DEF TableSound
  <2>5. t[j].ptr + t[j].bytes <= t[i].ptr \/ t[i].ptr + t[i].bytes <= t[j].ptr  BY <2>4, RegionsApart
  <2>6. t[j].ptr \in Nat /\ t[j].bytes \in Nat /\ t[i].ptr \in Nat /\ t[i].bytes \in Nat
    BY <2>4 DEF IsRegion, PageEntry
  <2>7. b.len \in Nat /\ b.addr \in Nat  BY <1>1 DEF WellHeld
  <2> DEFINE p == t[j].ptr
             c == t[j].bytes
             q == t[i].ptr
             d == t[i].bytes
             l == b.len
  <2>8. /\ p \in Nat /\ c \in Nat /\ q \in Nat /\ d \in Nat /\ l \in Nat /\ l <= c /\ n <= d
        /\ p + c <= q \/ q + d <= p
        /\ b.addr = p /\ y.addr = q /\ y.len = n
    BY <2>1, <2>5, <2>6, <2>7, <1>1, <1>5
  <2> HIDE DEF p, c, q, d, l
  <2>9. p + l <= q \/ q + n <= p  BY <2>8
  <2> QED  BY <2>8, <2>9 DEF IsDisjoint, l
<1>7. WellHeld(G \cup {y}) /\ Addrs(G \cup {y}) = Addrs(G) \cup {x.addr}  BY <1>1, <1>3, <1>6, HeldMore DEF y
<1>8. Covers(t, G \cup {y})
  <2>1. \A b \in G \cup {y} : \E j \in 1..Len(t) : t[j].ptr = b.addr /\ b.len <= t[j].bytes
    <3>1. ASSUME NEW b \in G PROVE \E j \in 1..Len(t) : t[j].ptr = b.addr /\ b.len <= t[j].bytes
      BY <1>1 DEF Covers
    <3>2. t[i].ptr = y.addr /\ y.len <= t[i].bytes  BY <1>1, <1>5
    <3> QED  BY <3>1, <3>2, <1>2
  <2>2. Addrs(G \cup {y}) = Addrs(H)
    <3>1. x.addr \in Addrs(H)  BY DEF Addrs
    <3> QED  BY <3>1, <1>3, <1>7
  <2> QED  BY <2>1, <2>2, <1>1 DEF Covers
<1>9. PageSound(s, G \cup {y})  BY <1>7, <1>8 DEF PageSound, t
<1> QED  BY <1>1, <1>4, <1>9 DEF y

\* A resize within the block's pages succeeds and changes no book.
LEMMA PageResizeOK ==
  ASSUME NEW s, NEW H, PageSound(s, H), NEW x \in H, NEW n \in Nat \ {0},
         NEW o \in page_allocator_resize(s, x.addr, n)
  PROVE  /\ ~o.abort /\ o.self = s
         /\ o.ptr # NULL => PageSound(s, (H \ {x}) \cup {Block(x.addr, n)}) /\ x.addr \notin Addrs(H \ {x})
<1>1. PICK k \in 0..(Len(s.entries) - 1) :
         /\ Found(Keys(s.entries), x.addr) = k /\ k # -1
         /\ s.entries[k + 1].ptr = x.addr /\ x.len <= s.entries[k + 1].bytes
         /\ IsRegion(s.entries[k + 1])
  BY LiveEntry
<1> DEFINE r == page_rounded_size(s, n)
<1>2. o = Gives(s, IF s.entries[k + 1].bytes = r THEN 1 ELSE 0)  BY <1>1 DEF page_allocator_resize
<1>3. ~o.abort /\ o.self = s /\ (o.ptr # NULL => s.entries[k + 1].bytes = r)  BY <1>2 DEF Gives, NULL
<1>4. n <= r
  <2>1. PageAligns(s.align) /\ n \in Nat  BY DEF PageSound
  <2> QED  BY <2>1, PageRounded
<1> HIDE DEF r
<1>5. o.ptr # NULL => PageSound(s, (H \ {x}) \cup {Block(x.addr, n)}) /\ x.addr \notin Addrs(H \ {x})
  <2> SUFFICES ASSUME o.ptr # NULL
               PROVE  PageSound(s, (H \ {x}) \cup {Block(x.addr, n)}) /\ x.addr \notin Addrs(H \ {x})
    OBVIOUS
  <2>1. n <= s.entries[k + 1].bytes  BY <1>3, <1>4
  <2> QED  BY <2>1, <1>1, PageResized
<1> QED  BY <1>3, <1>5

\* A remap gives the block room or leaves it where it is.
LEMMA PageRemapOK ==
  ASSUME PageTablesAre, NEW s, NEW H, PageSound(s, H), NEW x \in H, NEW n \in Nat,
         NEW o \in page_allocator_remap(s, x.addr, n)
  PROVE  /\ ~o.abort
         /\ o.ptr = NULL => PageSound(o.self, IF n = 0 THEN H \ {x} ELSE H)
         /\ o.ptr # NULL => /\ n # 0 /\ o.ptr \in Nat \ {0} /\ o.ptr \notin Addrs(H \ {x})
                            /\ PageSound(o.self, (H \ {x}) \cup {Block(o.ptr, n)})
<1> DEFINE G == H \ {x}
<1>1. PICK k \in 0..(Len(s.entries) - 1) :
         /\ Found(Keys(s.entries), x.addr) = k /\ k # -1
         /\ s.entries[k + 1].ptr = x.addr /\ x.len <= s.entries[k + 1].bytes
         /\ IsRegion(s.entries[k + 1])
  BY LiveEntry
<1>2. x.addr \in Nat \ {0} /\ x.addr # NULL  BY DEF PageSound, WellHeld, NULL
<1>3. CASE n = 0
  <2>1. PICK p \in page_allocator_deallocate(s, x.addr) : o = [p EXCEPT !.ptr = NULL]
    BY <1>3 DEF page_allocator_remap
  <2>2. ~p.abort /\ PageSound(p.self, G)  BY PageFreeOK
  <2>3. o.self = p.self /\ o.abort = p.abort /\ o.ptr = NULL
    <3>2. PICK r, m : p = Gives(r, m) \/ p = Aborts(r)
      BY DEF page_allocator_deallocate, Fails
    <3> QED  BY <2>1, <3>2 DEF Gives, Aborts, NULL
  <2> QED  BY <1>3, <2>2, <2>3
<1>4. CASE n # 0 /\ s.entries[k + 1].bytes = page_rounded_size(s, n)
  <2>1. o = Gives(s, x.addr)  BY <1>1, <1>2, <1>4 DEF page_allocator_remap
  <2>2. o.self = s /\ o.ptr = x.addr /\ ~o.abort  BY <2>1 DEF Gives
  <2> DEFINE r == page_rounded_size(s, n)
  <2>3. n <= r
    <3>1. PageAligns(s.align) /\ n \in Nat  BY DEF PageSound
    <3> QED  BY <3>1, PageRounded
  <2>4. n \in Nat \ {0} /\ n <= s.entries[k + 1].bytes  BY <2>3, <1>4
  <2>5. x.addr \notin Addrs(G) /\ PageSound(s, G \cup {Block(x.addr, n)})  BY <1>1, <2>4, PageResized
  <2> QED  BY <2>2, <2>5, <1>2, <1>4
<1>5. CASE n # 0 /\ s.entries[k + 1].bytes # page_rounded_size(s, n)
  <2> DEFINE Move(g) == {IF q.abort THEN q ELSE Gives(q.self, g.ptr) :
                           q \in page_allocator_deallocate(g.self, x.addr)}
  <2>1. PICK g \in page_allocator_allocate(s, n, TRUE) : o \in (IF g.ptr = NULL THEN {g} ELSE Move(g))
    BY <1>1, <1>2, <1>5 DEF page_allocator_remap
  <2>2. /\ ~g.abort
        /\ g.ptr = NULL => PageSound(g.self, H)
        /\ g.ptr # NULL => /\ g.ptr \in Nat \ {0} /\ g.ptr \notin Addrs(H)
                           /\ PageSound(g.self, H \cup {Block(g.ptr, n)})
    BY PageAllocOK
  <2>3. CASE g.ptr = NULL  BY <2>1, <2>2, <2>3, <1>5
  <2>4. CASE g.ptr # NULL
    <3> DEFINE y == Block(g.ptr, n)
               J == H \cup {y}
    <3>1. PICK q \in page_allocator_deallocate(g.self, x.addr) :
             o = IF q.abort THEN q ELSE Gives(q.self, g.ptr)
      BY <2>1, <2>4
    <3>2. y.addr = g.ptr  BY DEF Block
    <3>3. y \notin H /\ x \in J /\ PageSound(g.self, J)  BY <2>2, <2>4, <3>2 DEF Addrs
    <3>4. J \ {x} = G \cup {y}  BY <3>3
    <3> HIDE DEF y, J
    <3>5. ~q.abort /\ PageSound(q.self, J \ {x})  BY <3>1, <3>3, PageFreeOK
    <3>6. o.self = q.self /\ o.ptr = g.ptr /\ ~o.abort  BY <3>1, <3>5 DEF Gives
    <3>7. g.ptr \notin Addrs(G)  BY <2>2, <2>4 DEF Addrs
    <3> QED  BY <3>4, <3>5, <3>6, <3>7, <2>2, <2>4, <1>5 DEF y
  <2> QED  BY <2>3, <2>4
<1> QED  BY <1>3, <1>4, <1>5

\* What the program writes in a block touches no book.
LEMMA PageWriteOK ==
  ASSUME NEW s, NEW H, PageSound(s, H), NEW a \in Nat, NEW n \in Nat,
         NEW t, t = [s EXCEPT !.dirty = s.dirty \cup Bytes(a, n)]
  PROVE  PageSound(t, H)
<1> DEFINE d == s.dirty \cup Bytes(a, n)
<1>1. s \in PageRecord  BY DEF PageSound
<1>2. d \in SUBSET Nat  BY <1>1 DEF PageRecord, Bytes
<1>3. t = [s EXCEPT !.dirty = d]  OBVIOUS
<1> HIDE DEF d
<1>4. /\ t \in PageRecord /\ t.align = s.align /\ t.entries = s.entries /\ t.cap = s.cap
      /\ t.entries_bytes = s.entries_bytes /\ t.free = s.free /\ t.free_cap = s.free_cap
      /\ t.free_bytes = s.free_bytes /\ t.in_use = s.in_use /\ t.footprint = s.footprint
  BY <1>1, <1>2, <1>3 DEF PageRecord
<1> QED  BY <1>4, PageSoundSame

\* A new page allocator holds nothing and its books are sound.
LEMMA PageInitOK ==
  ASSUME PageTablesAre, NEW a, PageAligns(a)
  PROVE  PageSound(PageInit(a), {})
<1> DEFINE s == PageInit(a)
           t == << >>
<1>1. t \in PageTable /\ Len(t) = 0 /\ DOMAIN t = {}  BY DEF PageTable
<1>2. s \in PageRecord  BY <1>1 DEF PageInit, PageRecord, PageAligns
<1>3. /\ s.align = a /\ s.entries = t /\ s.free = t /\ s.cap = 0 /\ s.entries_bytes = 0 /\ s.free_cap = 0
      /\ s.free_bytes = 0 /\ s.in_use = 0 /\ s.footprint = 0
  BY DEF PageInit
<1>4. RegsOf(t) = {}
  <2>1. 1..Len(t) = {}  BY <1>1
  <2> QED  BY <2>1 DEF RegsOf
<1>5. Total(SizesOf(t)) = 0
  <2>1. DOMAIN SizesOf(t) = {}  BY <1>1 DEF SizesOf
  <2>2. CountOf(SizesOf(t)) = 0  BY <2>1, CountEmpty
  <2> QED  BY <2>2 DEF CountOf, Units, Total
<1> HIDE DEF s, t
<1>6. TableSound(t)
  <2>1. IsFiniteSet(RegsOf(t)) /\ Cardinality(RegsOf(t)) = 0  BY <1>4, FS_EmptySet
  <2>2. PageSize * 0 = 0  BY PageNumbers
  <2>3. \A i \in 1..Len(t) : FALSE  BY <1>1
  <2> QED  BY <1>1, <1>5, <2>1, <2>2, <2>3 DEF TableSound
<1>7. Ascending(Keys(t)) /\ Ascending(SizesOf(t))
  <2>1. Len(Keys(t)) = 0 /\ Len(SizesOf(t)) = 0  BY <1>1, ColumnsOf
  <2> QED  BY <2>1 DEF Ascending
<1>8. CapOK(0, 0)  BY PageNumbers DEF CapOK, PageTablesAre
<1>9. WellHeld({}) /\ Covers(t, {})
  <2>1. WellHeld({})  BY FS_EmptySet DEF WellHeld
  <2>2. Covers(t, {})  BY <1>1 DEF Covers
  <2> QED  BY <2>1, <2>2
<1> QED  BY <1>1, <1>2, <1>3, <1>4, <1>5, <1>6, <1>7, <1>8, <1>9 DEF PageSound, s

\* Deinit gives back all that was mapped.
LEMMA PageDeinitOK ==
  ASSUME NEW s, NEW H, PageSound(s, H)
  PROVE  PageAllocatorDeinit(s).footprint = 0
<1>1. s \in PageRecord  BY DEF PageSound
<1>2. PageAllocatorDeinit(s) = Unmapped(s, s.footprint)  BY DEF PageAllocatorDeinit, TotalBytes, PageSound
<1>3. s.footprint \in Nat /\ "footprint" \in DOMAIN s  BY <1>1 DEF PageRecord
<1>4. Unmapped(s, s.footprint) = [s EXCEPT !.footprint = 0]  BY <1>3 DEF Unmapped
<1> QED  BY <1>2, <1>3, <1>4, FootprintTwice

\* A table never holds more entries than its memory has room for.
LEMMA TableFits ==
  ASSUME PageTablesAre, NEW m \in Nat, NEW cap \in Nat, NEW bytes \in Nat, CapOK(cap, bytes), m <= cap
  PROVE  m * PageEntryBytes <= bytes
<1> DEFINE E == PageEntryBytes
<1>1. E \in Nat \ {0}  BY DEF PageTablesAre
<1>2. cap = bytes \div E  BY DEF CapOK
<1> HIDE DEF E
<1>3. E * cap <= bytes /\ E * cap = cap * E /\ cap * E \in Nat /\ m * E \in Nat
  <2>1. E * (bytes \div E) <= bytes  BY <1>1, DivProps
  <2> QED  BY <1>1, <1>2, <2>1
<1>4. m < cap => m * E + E <= cap * E  BY <1>1, NextMultiple
<1>5. m = cap => m * E = cap * E  OBVIOUS
<1> DEFINE P == m * E
           Q == cap * E
<1>6. P <= bytes
  <2>1. P \in Nat /\ Q \in Nat /\ Q <= bytes /\ (m < cap => P + E <= Q) /\ (m = cap => P = Q)
    <3>1. Q <= bytes  BY <1>3, Zenon
    <3> QED  BY <3>1, <1>3, <1>4, <1>5
  <2> HIDE DEF P, Q
  <2> QED  BY <2>1, <1>1
<1> QED  BY <1>6 DEF E

\* The books of the page allocator are right while it is sound.
LEMMA PageBooksOK ==
  ASSUME PageTablesAre, NEW s, NEW H, PageSound(s, H)
  PROVE  PageInv(s, Addrs(H)) /\ \A b \in H : b.len <= PageRoom(s, b.addr)
<1> DEFINE t == s.entries
           f == s.free
<1>1. /\ s \in PageRecord /\ TableSound(t) /\ TableSound(f) /\ RegsOf(t) \cap RegsOf(f) = {}
      /\ Ascending(Keys(t)) /\ Ascending(SizesOf(f)) /\ Covers(t, H)
      /\ CapOK(s.cap, s.entries_bytes) /\ Len(t) <= s.cap
      /\ CapOK(s.free_cap, s.free_bytes) /\ Len(f) <= s.free_cap
  BY DEF PageSound
<1>2. /\ t \in PageTable /\ f \in PageTable /\ Len(t) \in Nat /\ Len(f) \in Nat
      /\ DOMAIN t = 1..Len(t) /\ DOMAIN f = 1..Len(f)
      /\ s.cap \in Nat /\ s.free_cap \in Nat /\ s.entries_bytes \in Nat /\ s.free_bytes \in Nat
  <2>1. t \in PageTable /\ f \in PageTable  BY <1>1 DEF TableSound
  <2> QED  BY <1>1, <2>1, ColumnsOf DEF PageRecord
<1> HIDE DEF t, f
<1>3. \A i \in DOMAIN t : Found(Keys(t), t[i].ptr) = i - 1  BY <1>1, <1>2, EntryFound
<1>4. \A i \in DOMAIN f : Found(SizesOf(f), f[i].bytes) # -1
  <2> SUFFICES ASSUME NEW i \in DOMAIN f, Found(SizesOf(f), f[i].bytes) = -1 PROVE FALSE  OBVIOUS
  <2> DEFINE K == SizesOf(f)
             x == f[i].bytes
  <2>1. i \in 1..Len(f) /\ K \in Seq(Int) /\ Len(K) = Len(f) /\ K[i] = x  BY <1>2, ColumnsOf
  <2>2. x \in Int /\ Ascending(K) /\ Found(K, x) = -1 /\ i \in 1..Len(K)
    <3>1. f[i] \in PageEntry  BY <2>1, <1>2, ColumnsOf
    <3> QED  BY <3>1, <2>1, <1>1 DEF PageEntry
  <2> HIDE DEF K, x
  <2>3. \A k \in 1..Len(K) : K[k] # x  BY <2>1, <2>2, FoundIs
  <2> QED  BY <2>1, <2>2, <2>3
<1>5. PageSize * Cardinality(Taken(s)) = Total(SizesOf(t)) + Total(SizesOf(f))
  <2> DEFINE A == RegsOf(t)
             B == RegsOf(f)
             a == Cardinality(A)
             b == Cardinality(B)
  <2>1. /\ IsFiniteSet(A) /\ IsFiniteSet(B) /\ A \cap B = {}
        /\ PageSize * a = Total(SizesOf(t)) /\ PageSize * b = Total(SizesOf(f))
    BY <1>1 DEF TableSound
  <2>2. Taken(s) = A \cup B  BY <1>2, TakenIs DEF t, f
  <2> HIDE DEF A, B
  <2>3. Cardinality(A \cup B) = Cardinality(A) + Cardinality(B) - Cardinality(A \cap B)  BY <2>1, FS_Union
  <2>4. Cardinality(A \cap B) = 0  BY <2>1, FS_EmptySet
  <2>5. a \in Nat /\ b \in Nat /\ PageSize \in Nat  BY <2>1, FS_CardinalityType, PageNumbers
  <2>6. Cardinality(Taken(s)) = a + b - 0  BY <2>2, <2>3, <2>4, Zenon DEF a, b
  <2> HIDE DEF a, b
  <2>7. Cardinality(Taken(s)) = a + b  BY <2>5, <2>6
  <2>8. PageSize * (a + b) = PageSize * a + PageSize * b  BY <2>5
  <2> QED  BY <2>1, <2>7, <2>8
<1>6. {t[i].ptr : i \in DOMAIN t} = Addrs(H)
  <2>1. \A i \in DOMAIN t : t[i].ptr \in Addrs(H)  BY <1>1, <1>2 DEF Covers
  <2>2. ASSUME NEW c \in Addrs(H) PROVE c \in {t[i].ptr : i \in DOMAIN t}
    <3>1. PICK b \in H : c = b.addr  BY DEF Addrs
    <3>2. PICK i \in 1..Len(t) : t[i].ptr = b.addr  BY <1>1 DEF Covers
    <3> QED  BY <3>1, <3>2, <1>2
  <2> QED  BY <2>1, <2>2
<1>7. Len(t) * PageEntryBytes <= s.entries_bytes /\ Len(f) * PageEntryBytes <= s.free_bytes
  <2> DEFINE m == Len(t)
             n == Len(f)
  <2>1. m \in Nat /\ n \in Nat /\ m <= s.cap /\ n <= s.free_cap  BY <1>1, <1>2
  <2> HIDE DEF m, n
  <2>2. m * PageEntryBytes <= s.entries_bytes /\ n * PageEntryBytes <= s.free_bytes
    BY <2>1, <1>1, <1>2, TableFits
  <2> QED  BY <2>2 DEF m, n
<1>8. PageInv(s, Addrs(H))
  <2>1. /\ s.in_use = Total(SizesOf(t))
        /\ s.footprint = Total(SizesOf(t)) + Total(SizesOf(f)) + s.entries_bytes + s.free_bytes
    BY DEF PageSound, t, f
  <2> QED  BY <2>1, <1>3, <1>4, <1>5, <1>6, <1>7 DEF PageInv, t, f, TotalBytes, page_free_find_size_match
<1>9. \A b \in H : b.len <= PageRoom(s, b.addr)
  <2> SUFFICES ASSUME NEW b \in H PROVE b.len <= PageRoom(s, b.addr)  OBVIOUS
  <2>1. PICK k \in 0..(Len(s.entries) - 1) :
          Found(Keys(s.entries), b.addr) = k /\ b.len <= s.entries[k + 1].bytes
    BY LiveEntry
  <2> QED  BY <2>1 DEF PageRoom
<1> QED  BY <1>8, <1>9

Chunk == [page : Nat \ {0}, base : Nat \ {0}, capacity : Nat, used : Nat, raw_size : Nat]
ChunkSeq == Seq(Chunk)
ArenaRecord ==
    [align : Nat \ {0}, chunks : ChunkSeq, last_ptr : Nat, last_size : Nat,
     footprint : Nat, dirty : SUBSET Nat]

\* The constants that the arena reads.
ArenaConstants == ChunkDefault \in Nat /\ ChunkHeader \in Nat

\* The chunks as a table of regions.
ChunkEntry(c) == [ptr |-> c.page * PageSize, bytes |-> c.raw_size]
ChunkTable(t) == [i \in 1..Len(t) |-> ChunkEntry(t[i])]

\* A chunk is the region behind its header, filled no further than its end.
IsChunk(c) ==
    /\ c \in Chunk /\ Region(c.page, c.raw_size) \subseteq Pages
    /\ c.base = c.page * PageSize + ChunkHeader /\ c.capacity + ChunkHeader = c.raw_size
    /\ c.used <= c.capacity

\* Chunks on disjoint pages, each filled within its capacity.
ChunksSound(t) ==
    /\ t \in ChunkSeq /\ TableSound(ChunkTable(t))
    /\ \A i \in 1..Len(t) : IsChunk(t[i])

\* A block below the fill of a chunk.
Lies(b, c) == c.base <= b.addr /\ b.addr + b.len <= c.base + c.used

\* The most recent block ends at the fill of the last chunk, and every other
\* block there ends before it.
LastSound(s, H) ==
    LET c == s.chunks[Len(s.chunks)]
    IN  /\ (s.last_ptr = NULL) <=> (s.last_size = 0)
        /\ s.last_ptr # NULL =>
              /\ Len(s.chunks) # 0 /\ c.base <= s.last_ptr /\ s.last_ptr + s.last_size = c.base + c.used
              /\ s.last_ptr % s.align = 0
              /\ \A b \in H : IF b.addr = s.last_ptr THEN b.len <= s.last_size
                              ELSE Lies(b, c) => b.addr + b.len <= s.last_ptr

LiesSound(s, H) ==
    \A b \in H : b.addr % s.align = 0 /\ \E i \in 1..Len(s.chunks) : Lies(b, s.chunks[i])

ArenaKeeps(s, H) ==
    /\ s \in ArenaRecord /\ ChunksSound(s.chunks)
    /\ s.footprint = Total(SizesOf(ChunkTable(s.chunks)))
    /\ WellHeld(H) /\ LiesSound(s, H)

\* The inductive invariant of the arena.
ArenaSound(s, H) == ArenaKeeps(s, H) /\ LastSound(s, H)

\* Chunks are counted from 1.
LEMMA ChunksOf ==
  ASSUME NEW t \in ChunkSeq
  PROVE  Len(t) \in Nat /\ DOMAIN t = 1..Len(t) /\ \A i \in 1..Len(t) : t[i] \in Chunk
  BY DEF ChunkSeq

\* Fewer blocks than a sound arena's callers hold.
LEMMA ArenaFewer ==
  ASSUME NEW s, NEW H, ArenaKeeps(s, H), NEW G, G \subseteq H
  PROVE  ArenaKeeps(s, G) /\ (ArenaSound(s, H) => ArenaSound(s, G))
<1>1. WellHeld(G)
  <2>1. WellHeld(H)  BY DEF ArenaKeeps
  <2>2. IsFiniteSet(G)  BY <2>1, FS_Subset DEF WellHeld
  <2> QED  BY <2>1, <2>2 DEF WellHeld
<1>2. LiesSound(s, G)  BY DEF ArenaKeeps, LiesSound
<1>3. ArenaKeeps(s, G)  BY <1>1, <1>2 DEF ArenaKeeps
<1>4. LastSound(s, H) => LastSound(s, G)  BY DEF LastSound
<1> QED  BY <1>3, <1>4 DEF ArenaSound

\* Chunks do not overlap.
LEMMA ChunksApart ==
  ASSUME ArenaConstants, NEW t, ChunksSound(t), NEW i \in 1..Len(t), NEW j \in 1..Len(t), i # j
  PROVE  t[i].base + t[i].capacity <= t[j].base \/ t[j].base + t[j].capacity <= t[i].base
<1> DEFINE T == ChunkTable(t)
<1>1. t \in ChunkSeq /\ TableSound(T) /\ IsChunk(t[i]) /\ IsChunk(t[j])  BY DEF ChunksSound
<1>2. Len(t) \in Nat /\ Len(T) = Len(t)
  <2>1. Len(t) \in Nat  BY <1>1, ChunksOf
  <2>2. DOMAIN T = 1..Len(t)  BY DEF ChunkTable
  <2>3. Len(T) \in Nat /\ DOMAIN T = 1..Len(T)  BY <1>1, ColumnsOf DEF TableSound
  <2> HIDE DEF T
  <2> QED  BY <2>1, <2>2, <2>3
<1>3. T[i] = ChunkEntry(t[i]) /\ T[j] = ChunkEntry(t[j])  BY DEF ChunkTable
<1> DEFINE c == t[i]
           d == t[j]
           e == T[i]
           f == T[j]
<1>4. IsRegion(e) /\ IsRegion(f) /\ Reg(e) \cap Reg(f) = {}  BY <1>1, <1>2 DEF TableSound
<1>5. e.ptr + e.bytes <= f.ptr \/ f.ptr + f.bytes <= e.ptr  BY <1>4, RegionsApart
<1>6. /\ e.ptr + ChunkHeader = c.base /\ e.bytes = c.capacity + ChunkHeader /\ e.ptr \in Nat /\ e.bytes \in Nat
      /\ f.ptr + ChunkHeader = d.base /\ f.bytes = d.capacity + ChunkHeader /\ f.ptr \in Nat /\ f.bytes \in Nat
      /\ c.capacity \in Nat /\ d.capacity \in Nat /\ ChunkHeader \in Nat
  BY <1>1, <1>3, <1>4 DEF IsChunk, Chunk, ChunkEntry, IsRegion, PageEntry, ArenaConstants
<1> DEFINE a1 == e.ptr
           a2 == f.ptr
           n1 == e.bytes
           n2 == f.bytes
           k1 == c.capacity
           k2 == d.capacity
           b1 == c.base
           b2 == d.base
           h == ChunkHeader
<1>7. /\ a1 + n1 <= a2 \/ a2 + n2 <= a1
      /\ a1 + h = b1 /\ n1 = k1 + h /\ a2 + h = b2 /\ n2 = k2 + h
      /\ a1 \in Nat /\ a2 \in Nat /\ k1 \in Nat /\ k2 \in Nat /\ h \in Nat
  BY <1>5, <1>6
<1> HIDE DEF a1, a2, n1, n2, k1, k2, b1, b2, h
<1>8. b1 + k1 <= b2 \/ b2 + k2 <= b1  BY <1>7
<1> QED  BY <1>8 DEF b1, b2, k1, k2

\* One field of one chunk.
Refilled(t, k, u, w) ==
    /\ ChunksSound(t) /\ k \in 1..Len(t) /\ u \in Nat /\ u <= t[k].capacity
    /\ w = [t EXCEPT ![k] = [t[k] EXCEPT !.used = u]]

\* Moving the fill mark of one chunk leaves the others.
LEMMA RefilledIs ==
  ASSUME NEW t, NEW k, NEW u, NEW w, Refilled(t, k, u, w)
  PROVE  /\ ChunksSound(w) /\ Len(w) = Len(t) /\ Len(t) \in Nat /\ ChunkTable(w) = ChunkTable(t)
         /\ \A i \in 1..Len(t) : i # k => w[i] = t[i]
         /\ w[k].base = t[k].base /\ w[k].capacity = t[k].capacity /\ w[k].used = u
<1> DEFINE c == [t[k] EXCEPT !.used = u]
<1>1. t \in ChunkSeq /\ k \in 1..Len(t) /\ Len(t) \in Nat /\ IsChunk(t[k]) /\ t[k] \in Chunk
  BY ChunksOf DEF Refilled, ChunksSound, IsChunk
<1>2. /\ c \in Chunk /\ c.page = t[k].page /\ c.base = t[k].base /\ c.capacity = t[k].capacity
      /\ c.used = u /\ c.raw_size = t[k].raw_size
  BY <1>1 DEF Refilled, Chunk
<1>3. w = [t EXCEPT ![k] = c]  BY DEF Refilled
<1> HIDE DEF c
<1>4. w \in ChunkSeq /\ Len(w) = Len(t)
  <2>1. t \in Seq(Chunk)  BY <1>1 DEF ChunkSeq
  <2>2. w \in Seq(Chunk) /\ Len(w) = Len(t)  BY <2>1, <1>1, <1>2, <1>3, SeqExcept
  <2> QED  BY <2>2 DEF ChunkSeq
<1>5. w[k] = c /\ \A i \in 1..Len(t) : i # k => w[i] = t[i]
  <2>1. DOMAIN t = 1..Len(t)  BY <1>1, ChunksOf
  <2> QED  BY <2>1, <1>1, <1>3
<1>6. IsChunk(c)  BY <1>1, <1>2 DEF IsChunk, Refilled
<1>7. \A i \in 1..Len(w) : IsChunk(w[i])  BY <1>4, <1>5, <1>6 DEF Refilled, ChunksSound
<1>8. ChunkTable(w) = ChunkTable(t)
  <2> DEFINE A == ChunkTable(w)
             B == ChunkTable(t)
             n == Len(t)
  <2>1. \A i \in 1..n : ChunkEntry(w[i]) = ChunkEntry(t[i])
    BY <1>2, <1>5 DEF ChunkEntry
  <2>2. A = [i \in 1..n |-> ChunkEntry(w[i])] /\ B = [i \in 1..n |-> ChunkEntry(t[i])]  BY <1>4 DEF ChunkTable
  <2> HIDE DEF A, B, n
  <2>3. A = B  BY <2>1, <2>2
  <2> QED  BY <2>3 DEF A, B
<1>9. ChunksSound(w)  BY <1>4, <1>7, <1>8 DEF ChunksSound, Refilled
<1> QED  BY <1>1, <1>2, <1>4, <1>5, <1>8, <1>9

\* The most recent block of t: n of the m units at p, the last of the last
\* chunk; G are the blocks the callers keep.
Placed(s, H, G, t, u, p, n, m) ==
    /\ ArenaKeeps(s, H) /\ G \subseteq H
    /\ t \in ArenaRecord /\ t.align = s.align /\ t.footprint = s.footprint
    /\ Len(s.chunks) # 0 /\ Refilled(s.chunks, Len(s.chunks), u, t.chunks)
    /\ t.last_ptr = p /\ t.last_size = m /\ n \in Nat \ {0} /\ n <= m
    /\ s.chunks[Len(s.chunks)].base <= p /\ p + m = s.chunks[Len(s.chunks)].base + u /\ p % s.align = 0
    /\ \A b \in G : Lies(b, s.chunks[Len(s.chunks)]) => b.addr + b.len <= p

\* A block placed above the fill mark is held beside the others.
LEMMA PlacedOK ==
  ASSUME ArenaConstants, NEW s, NEW H, NEW G, NEW t, NEW u, NEW p, NEW n, NEW m,
         Placed(s, H, G, t, u, p, n, m)
  PROVE  p \in Nat \ {0} /\ p \notin Addrs(G) /\ ArenaSound(t, G \cup {Block(p, n)})
<1> DEFINE k == Len(s.chunks)
           c == s.chunks[k]
           y == Block(p, n)
<1>1. /\ ArenaKeeps(s, G) /\ ChunksSound(s.chunks) /\ Refilled(s.chunks, k, u, t.chunks) /\ u \in Nat
      /\ k \in 1..k /\ k \in Nat /\ IsChunk(c) /\ c \in Chunk /\ u <= c.capacity
  <2>1. ArenaKeeps(s, G)  BY ArenaFewer DEF Placed
  <2>2. ChunksSound(s.chunks) /\ k # 0 /\ Refilled(s.chunks, k, u, t.chunks)  BY <2>1 DEF ArenaKeeps, Placed
  <2>3. k \in Nat  BY <2>2, ChunksOf DEF ChunksSound
  <2>4. k \in 1..k  BY <2>2, <2>3
  <2> QED  BY <2>1, <2>2, <2>3, <2>4 DEF ChunksSound, IsChunk, Refilled
<1>2. /\ p \in Nat /\ m \in Nat /\ p = t.last_ptr /\ m = t.last_size /\ n \in Nat \ {0} /\ n <= m
      /\ c.base <= p /\ p + m = c.base + u /\ p % s.align = 0 /\ c.base \in Nat \ {0} /\ c.capacity \in Nat
  BY <1>1 DEF Placed, ArenaRecord, Chunk
<1>3. p \in Nat \ {0}  BY <1>2
<1>4. WellHeld(G) /\ LiesSound(s, G)  BY <1>1 DEF ArenaKeeps
<1>5. y.addr = p /\ y.len = n  BY DEF Block
<1> HIDE DEF y
\* Nothing that is kept reaches into the block.
<1>6. ASSUME NEW b \in G PROVE IsDisjoint(b, y)
  <2>1. PICK i \in 1..k : Lies(b, s.chunks[i])  BY <1>4 DEF LiesSound
  <2>2. b.addr \in Nat /\ b.len \in Nat  BY <1>4 DEF WellHeld
  <2>3. CASE i = k
    <3>1. b.addr + b.len <= p  BY <2>1, <2>3 DEF Placed
    <3> QED  BY <3>1, <1>5 DEF IsDisjoint
  <2>4. CASE i # k
    <3> DEFINE d == s.chunks[i]
               db == d.base
               dc == d.capacity
               du == d.used
               cb == c.base
               cc == c.capacity
               a == b.addr
               l == b.len
    <3>1. db + dc <= cb \/ cb + cc <= db  BY <1>1, <2>4, ChunksApart
    <3>2. db \in Nat /\ dc \in Nat /\ du \in Nat /\ du <= dc
      <4>1. IsChunk(d)  BY <1>1 DEF ChunksSound
      <4> QED  BY <4>1 DEF IsChunk, Chunk
    <3>3. db <= a /\ a + l <= db + du  BY <2>1 DEF Lies
    <3>4. cb \in Nat /\ cc \in Nat /\ cb <= p /\ p + m = cb + u /\ u <= cc  BY <1>1, <1>2
    <3> HIDE DEF d, db, dc, du, cb, cc, a, l, k, c
    <3>5. a \in Nat /\ l \in Nat  BY <2>2 DEF a, l
    <3>6. a + l <= p \/ p + n <= a  BY <3>1, <3>2, <3>3, <3>4, <3>5, <1>1, <1>2
    <3> QED  BY <3>6, <1>5 DEF IsDisjoint, a, l
  <2> QED  BY <2>3, <2>4
<1>7. WellHeld(G \cup {y})  BY <1>2, <1>3, <1>4, <1>6, HeldMore DEF y
<1>8. \A b \in G : b.addr # p
  <2> SUFFICES ASSUME NEW b \in G, b.addr = p PROVE FALSE  OBVIOUS
  <2>1. IsDisjoint(b, y) /\ b.len \in Nat \ {0}  BY <1>4, <1>6 DEF WellHeld
  <2> QED  BY <2>1, <1>2, <1>3, <1>5 DEF IsDisjoint
<1> DEFINE w == t.chunks
<1>9. /\ ChunksSound(w) /\ Len(w) = k /\ ChunkTable(w) = ChunkTable(s.chunks)
      /\ \A i \in 1..k : i # k => w[i] = s.chunks[i]
      /\ w[k].base = c.base /\ w[k].capacity = c.capacity /\ w[k].used = u
  BY <1>1, RefilledIs
<1>10. LiesSound(t, G \cup {y})
  <2>1. ASSUME NEW b \in G PROVE b.addr % t.align = 0 /\ \E i \in 1..k : Lies(b, w[i])
    <3>1. PICK i \in 1..k : Lies(b, s.chunks[i])  BY <1>4 DEF LiesSound
    <3>2. b.addr % t.align = 0  BY <1>4 DEF LiesSound, Placed
    <3>3. CASE i # k  BY <3>1, <3>2, <3>3, <1>9
    <3>4. CASE i = k
      <4>1. b.addr + b.len <= p /\ c.base <= b.addr  BY <3>1, <3>4 DEF Placed, Lies
      <4>2. b.addr \in Nat /\ b.len \in Nat  BY <1>4 DEF WellHeld
      <4>3. b.addr + b.len <= c.base + u
        <5> DEFINE e == b.addr + b.len
                   cb == c.base
        <5>1. e \in Nat /\ e <= p /\ cb \in Nat /\ p + m = cb + u  BY <4>1, <4>2, <1>2
        <5> HIDE DEF e, cb
        <5>2. e <= cb + u  BY <5>1, <1>1, <1>2
        <5> QED  BY <5>2 DEF e, cb
      <4>4. Lies(b, w[k])  BY <4>1, <4>3, <1>9 DEF Lies
      <4> QED  BY <4>4, <3>2, <1>1
    <3> QED  BY <3>3, <3>4
  <2>2. y.addr % t.align = 0 /\ Lies(y, w[k])
    <3> DEFINE cb == c.base
    <3>1. cb <= p /\ p + m = cb + u /\ cb \in Nat  BY <1>2
    <3> HIDE DEF cb
    <3>2. p + n <= cb + u  BY <3>1, <1>1, <1>2
    <3> QED  BY <3>1, <3>2, <1>2, <1>5, <1>9 DEF Lies, cb, Placed
  <2> QED  BY <2>1, <2>2, <1>1, <1>9 DEF LiesSound
<1>11. LastSound(t, G \cup {y})
  <2>1. p # NULL /\ m # 0  BY <1>2, <1>3 DEF NULL
  <2>2. \A b \in G : b.addr # p /\ (Lies(b, w[k]) => b.addr + b.len <= p)
    <3> SUFFICES ASSUME NEW b \in G, Lies(b, w[k]) PROVE b.addr + b.len <= p  BY <1>8
    <3>1. IsDisjoint(b, y) /\ b.addr \in Nat /\ b.len \in Nat \ {0}  BY <1>4, <1>6 DEF WellHeld
    <3>2. CASE Lies(b, c)  BY <3>2 DEF Placed
    <3>3. CASE ~Lies(b, c)
      <4>1. PICK i \in 1..k : Lies(b, s.chunks[i])  BY <1>4 DEF LiesSound
      <4>2. i # k  BY <4>1, <3>3
      <4> DEFINE d == s.chunks[i]
                 db == d.base
                 dc == d.capacity
                 du == d.used
                 cb == c.base
                 cc == c.capacity
                 a == b.addr
                 l == b.len
      <4>3. db + dc <= cb \/ cb + cc <= db  BY <1>1, <4>2, ChunksApart
      <4>4. db \in Nat /\ dc \in Nat /\ du \in Nat /\ du <= dc
        <5>1. IsChunk(d)  BY <1>1 DEF ChunksSound
        <5> QED  BY <5>1 DEF IsChunk, Chunk
      <4>5. db <= a /\ a + l <= db + du /\ cb <= a /\ a + l <= cb + u  BY <4>1, <1>9 DEF Lies
      <4>6. cb \in Nat /\ cc \in Nat /\ u <= cc  BY <1>1, <1>2
      <4>7. a \in Nat /\ l \in Nat \ {0}  BY <3>1
      <4> HIDE DEF d, db, dc, du, cb, cc, a, l, k, c
      <4>8. FALSE  BY <4>3, <4>4, <4>5, <4>6, <4>7, <1>1
      <4> QED  BY <4>8
    <3> QED  BY <3>2, <3>3
  <2>3. Len(w) # 0 /\ w[Len(w)] = w[k] /\ Len(w) = k  BY <1>1, <1>9
  <2>4. t.last_ptr % t.align = 0  BY <1>2 DEF Placed
  <2> HIDE DEF w, k, c
  <2>5. w[k].base <= p /\ p + m = w[k].base + w[k].used  BY <1>2, <1>9
  <2>6. \A b \in G \cup {y} : IF b.addr = p THEN b.len <= m ELSE Lies(b, w[k]) => b.addr + b.len <= p
    BY <2>2, <1>2, <1>5
  <2> QED  BY <2>1, <2>3, <2>4, <2>5, <2>6, <1>2 DEF LastSound, w
<1>12. t \in ArenaRecord /\ t.footprint = Total(SizesOf(ChunkTable(w)))
  BY <1>1, <1>9 DEF Placed, ArenaKeeps
<1>13. ArenaSound(t, G \cup {y})  BY <1>7, <1>9, <1>10, <1>11, <1>12 DEF ArenaSound, ArenaKeeps
<1> QED  BY <1>3, <1>8, <1>13 DEF Addrs, y

\* The struct with one chunk filled anew, and another most recent block.
ArenaChanged(s, k, u, p, m, d, t) ==
    /\ s \in ArenaRecord /\ Refilled(s.chunks, k, u, t.chunks)
    /\ t \in ArenaRecord /\ t.align = s.align /\ t.footprint = s.footprint
    /\ t.last_ptr = p /\ t.last_size = m /\ t.dirty = d

\* What a write to one chunk's fill mark and to the last block changes.
LEMMA ArenaChangedIs ==
  ASSUME NEW s \in ArenaRecord, ChunksSound(s.chunks), NEW k \in 1..Len(s.chunks),
         NEW u \in Nat, u <= s.chunks[k].capacity, NEW p \in Nat, NEW m \in Nat,
         NEW t, t = [s EXCEPT !.chunks[k].used = u, !.last_ptr = p, !.last_size = m]
  PROVE  ArenaChanged(s, k, u, p, m, s.dirty, t)
<1> DEFINE q == [s.chunks EXCEPT ![k] = [s.chunks[k] EXCEPT !.used = u]]
<1>1. Refilled(s.chunks, k, u, q)  BY DEF Refilled
<1>2. q \in ChunkSeq  BY <1>1, RefilledIs DEF ChunksSound
<1>3. t = [s EXCEPT !.chunks = q, !.last_ptr = p, !.last_size = m]  OBVIOUS
<1> HIDE DEF q
<1>4. /\ t \in ArenaRecord /\ t.align = s.align /\ t.footprint = s.footprint /\ t.chunks = q
      /\ t.last_ptr = p /\ t.last_size = m /\ t.dirty = s.dirty
  BY <1>2, <1>3 DEF ArenaRecord
<1> QED  BY <1>1, <1>4 DEF ArenaChanged

\* The next aligned address of a chunk.
LEMMA AlignedAddress ==
  ASSUME NEW s \in ArenaRecord, NEW c \in Chunk, NEW off, off = AlignedUsed(s, c)
  PROVE  /\ off \in Nat /\ c.used <= off /\ (c.base + off) % s.align = 0
         /\ c.used = 0 => off <= s.align
<1> DEFINE a == c.base + c.used
           r == RoundUp(a, s.align)
           b == c.base
           v == c.used
           g == s.align
<1>1. a \in Nat /\ g \in Nat \ {0} /\ b \in Nat /\ v \in Nat  BY DEF ArenaRecord, Chunk
<1>2. r \in Nat /\ r % g = 0 /\ a <= r /\ r <= a + g - 1
  <2> HIDE DEF a, g
  <2> QED  BY <1>1, RoundUpProps DEF g
<1>3. off = r - b /\ a = b + v  BY DEF AlignedUsed
<1> HIDE DEF a, r, b, v, g
<1>4. off \in Nat /\ v <= off /\ b + off = r /\ (v = 0 => off <= g)  BY <1>1, <1>2, <1>3
<1> QED  BY <1>2, <1>4 DEF b, v, g

\* Bumping the fill mark gives a block inside the last chunk that no other block meets.
LEMMA BumpOK ==
  ASSUME ArenaConstants, NEW s, NEW H, ArenaKeeps(s, H), NEW n \in Nat \ {0}, NEW m \in Nat, n <= m,
         Len(s.chunks) # 0,
         AlignedUsed(s, s.chunks[Len(s.chunks)]) + m <= s.chunks[Len(s.chunks)].capacity,
         NEW t, t = Bump(s, m)
  PROVE  /\ t.last_ptr \in Nat \ {0} /\ t.last_ptr \notin Addrs(H)
         /\ ArenaSound(t, H \cup {Block(t.last_ptr, n)}) /\ t.dirty = s.dirty
         /\ s.chunks[Len(s.chunks)].base <= t.last_ptr
         /\ t.last_ptr + m <= s.chunks[Len(s.chunks)].base + s.chunks[Len(s.chunks)].capacity
<1> DEFINE k == Len(s.chunks)
           c == s.chunks[k]
           off == AlignedUsed(s, c)
           u == off + m
           p == c.base + off
<1>1. s \in ArenaRecord /\ ChunksSound(s.chunks) /\ k \in 1..Len(s.chunks) /\ c \in Chunk /\ IsChunk(c)
      /\ WellHeld(H)
  <2>1. s \in ArenaRecord /\ ChunksSound(s.chunks) /\ WellHeld(H)  BY DEF ArenaKeeps
  <2>2. k \in Nat  BY <2>1, ChunksOf DEF ChunksSound
  <2>3. k \in 1..k  BY <2>2
  <2> QED  BY <2>1, <2>3 DEF ChunksSound, IsChunk
<1>2. off \in Nat /\ c.used <= off /\ (c.base + off) % s.align = 0  BY <1>1, AlignedAddress
<1>3. off + m <= c.capacity  OBVIOUS
<1>4. t = [s EXCEPT !.chunks[k].used = off + m, !.last_size = m, !.last_ptr = c.base + off]
  BY DEF Bump, Tail1
<1>5. c.base \in Nat /\ c.used \in Nat /\ c.capacity \in Nat  BY <1>1 DEF Chunk
<1> HIDE DEF off
<1>6. u \in Nat /\ p \in Nat /\ u <= c.capacity /\ p + m = c.base + u /\ c.base <= p /\ p % s.align = 0
      /\ c.base + c.used <= p /\ p + m <= c.base + c.capacity
  <2> DEFINE b == c.base
             v == c.used
             K == c.capacity
  <2>1. off \in Nat /\ v <= off /\ off + m <= K /\ b \in Nat /\ v \in Nat /\ K \in Nat  BY <1>2, <1>3, <1>5
  <2>2. p = b + off /\ u = off + m /\ p % s.align = 0  BY <1>2
  <2> HIDE DEF b, v, K, p, u, c
  <2>3. u \in Nat /\ p \in Nat /\ u <= K /\ p + m = b + u /\ b <= p /\ b + v <= p /\ p + m <= b + K
    BY <2>1, <2>2
  <2> QED  BY <2>2, <2>3 DEF b, v, K
<1>7. t = [s EXCEPT !.chunks[k].used = u, !.last_ptr = p, !.last_size = m]  BY <1>4
<1> HIDE DEF u, p, c, k
<1>8. ArenaChanged(s, k, u, p, m, s.dirty, t)  BY <1>1, <1>6, <1>7, ArenaChangedIs DEF c
<1>9. \A b \in H : Lies(b, c) => b.addr + b.len <= p
  <2> SUFFICES ASSUME NEW b \in H, Lies(b, c) PROVE b.addr + b.len <= p  OBVIOUS
  <2> DEFINE e == b.addr + b.len
             f == c.base + c.used
  <2>3. b.addr \in Nat /\ b.len \in Nat  BY <1>1 DEF WellHeld
  <2>4. e <= f /\ f <= p  BY <1>6 DEF Lies
  <2>1. e \in Nat /\ f \in Nat /\ e <= f /\ f <= p  BY <2>3, <2>4, <1>5
  <2> HIDE DEF e, f
  <2>2. e <= p  BY <2>1, <1>6
  <2> QED  BY <2>2 DEF e
<1>10. Placed(s, H, H, t, u, p, n, m)
  BY <1>6, <1>8, <1>9 DEF Placed, ArenaChanged, c, k
<1>11. p \in Nat \ {0} /\ p \notin Addrs(H) /\ ArenaSound(t, H \cup {Block(p, n)})  BY <1>10, PlacedOK
<1>12. t.last_ptr = p /\ t.dirty = s.dirty  BY <1>8 DEF ArenaChanged
<1> QED  BY <1>6, <1>11, <1>12 DEF c, k

\* Append adds one entry at the end.
LEMMA Appended ==
  ASSUME NEW S, NEW t \in Seq(S), NEW c \in S, NEW w, w = Append(t, c)
  PROVE  /\ w \in Seq(S) /\ Len(w) = Len(t) + 1 /\ w[Len(t) + 1] = c
         /\ \A i \in 1..Len(t) : w[i] = t[i]
  OBVIOUS

\* The pages of the chunks are the regions of their table.
LEMMA ChunkPagesAre ==
  ASSUME NEW s, ChunksSound(s.chunks)
  PROVE  ChunkPages(s) = RegsOf(ChunkTable(s.chunks))
<1> DEFINE t == s.chunks
           n == Len(t)
           T == ChunkTable(t)
<1>1. t \in ChunkSeq /\ DOMAIN t = 1..n /\ n \in Nat /\ \A i \in 1..n : t[i] \in Chunk
  BY ChunksOf DEF ChunksSound
<1>2. Len(T) = n
  <2>1. DOMAIN T = 1..n  BY DEF ChunkTable
  <2>2. Len(T) \in Nat /\ DOMAIN T = 1..Len(T)  BY ColumnsOf DEF TableSound, ChunksSound
  <2> HIDE DEF T, n
  <2> QED  BY <2>1, <2>2, <1>1
<1>3. ASSUME NEW i \in 1..n PROVE Reg(T[i]) = Region(t[i].page, t[i].raw_size)
  <2> DEFINE p == t[i].page
             r == t[i].raw_size
             e == T[i]
  <2>1. e = [ptr |-> p * PageSize, bytes |-> r]  BY DEF ChunkTable, ChunkEntry
  <2>2. p \in Nat  BY <1>1 DEF Chunk
  <2> HIDE DEF p, r, e
  <2>3. (p * PageSize) \div PageSize = p
    <3>1. PageSize \in Nat \ {0} /\ 0 \in 0..(PageSize - 1) /\ p * PageSize + 0 = p * PageSize
      BY <2>2, PageNumbers
    <3> QED  BY <3>1, <2>2, AddressParts
  <2>4. Reg(e) = Region(p, r)  BY <2>1, <2>3 DEF Reg
  <2> QED  BY <2>4 DEF e, p, r
<1>4. RegsOf(T) = UNION {Reg(T[i]) : i \in 1..n}  BY <1>2 DEF RegsOf
<1>5. ChunkPages(s) = UNION {Region(t[i].page, t[i].raw_size) : i \in 1..n}  BY <1>1 DEF ChunkPages
<1> HIDE DEF T, t, n
<1>6. UNION {Reg(T[i]) : i \in 1..n} = UNION {Region(t[i].page, t[i].raw_size) : i \in 1..n}  BY <1>3
<1> QED  BY <1>4, <1>5, <1>6 DEF T, t

\* A chunk more in the table.
AddsChunk(t, c, w) ==
    /\ ChunksSound(t) /\ IsChunk(c) /\ IsRegion(ChunkEntry(c))
    /\ Reg(ChunkEntry(c)) \cap RegsOf(ChunkTable(t)) = {} /\ w = Append(t, c)

\* A chunk on pages no other chunk has can be appended.
LEMMA ChunkAppended ==
  ASSUME NEW t, NEW c, NEW w, AddsChunk(t, c, w)
  PROVE  /\ ChunksSound(w) /\ Len(w) = Len(t) + 1 /\ w[Len(t) + 1] = c /\ Len(t) \in Nat
         /\ \A i \in 1..Len(t) : w[i] = t[i]
         /\ Total(SizesOf(ChunkTable(w))) = Total(SizesOf(ChunkTable(t))) + c.raw_size
<1> DEFINE n == Len(t)
           T == ChunkTable(t)
           e == ChunkEntry(c)
           U == Inserted(T, n, e)
           W == ChunkTable(w)
<1>1. t \in ChunkSeq /\ t \in Seq(Chunk) /\ n \in Nat /\ c \in Chunk /\ TableSound(T) /\ T \in PageTable
  BY ChunksOf DEF AddsChunk, ChunksSound, IsChunk, ChunkSeq, TableSound
<1>2. w \in Seq(Chunk) /\ Len(w) = n + 1 /\ w[n + 1] = c /\ \A i \in 1..n : w[i] = t[i]
  BY <1>1, Appended DEF AddsChunk
<1>3. Len(T) = n
  <2>1. DOMAIN T = 1..n  BY DEF ChunkTable
  <2>2. Len(T) \in Nat /\ DOMAIN T = 1..Len(T)  BY <1>1, ColumnsOf
  <2> HIDE DEF T, n
  <2> QED  BY <2>1, <2>2, <1>1
<1>4. InsertsIn(T, n, e, U)
  <2>1. n \in 0..Len(T)  BY <1>1, <1>3
  <2> QED  BY <2>1, <1>1 DEF InsertsIn, AddsChunk
<1>5. TableSound(U) /\ Len(U) = n + 1 /\ U[n + 1] = e /\ Total(SizesOf(U)) = Total(SizesOf(T)) + e.bytes
      /\ \A j \in 1..n : Up(n, j) \in 1..Len(U) /\ U[Up(n, j)] = T[j]
  BY <1>3, <1>4, TableInsert
<1>6. W = U
  <2>1. DOMAIN U = 1..(n + 1) /\ U \in PageTable
    <3>1. U \in PageTable  BY <1>5 DEF TableSound
    <3> QED  BY <3>1, <1>5, ColumnsOf
  <2>2. W = [i \in 1..(n + 1) |-> ChunkEntry(w[i])]  BY <1>2 DEF ChunkTable
  <2>3. ASSUME NEW i \in 1..(n + 1) PROVE U[i] = ChunkEntry(w[i])
    <3>1. CASE i = n + 1  BY <3>1, <1>2, <1>5
    <3>2. CASE i # n + 1
      <4>1. i \in 1..n /\ Up(n, i) = i  BY <3>2, <1>1 DEF Up
      <4>2. U[i] = T[i]  BY <4>1, <1>5
      <4>3. T[i] = ChunkEntry(t[i])  BY <4>1 DEF ChunkTable
      <4> QED  BY <4>1, <4>2, <4>3, <1>2
    <3> QED  BY <3>1, <3>2
  <2>4. U = [i \in 1..(n + 1) |-> U[i]]
    <3>1. U \in Seq(PageEntry)  BY <2>1 DEF PageTable
    <3> HIDE DEF U
    <3> QED  BY <3>1, <2>1
  <2> HIDE DEF U, W, n
  <2> QED  BY <2>2, <2>3, <2>4
<1>7. e.bytes = c.raw_size  BY DEF ChunkEntry
<1>8. \A i \in 1..Len(w) : IsChunk(w[i])
  <2> SUFFICES ASSUME NEW i \in 1..Len(w) PROVE IsChunk(w[i])  OBVIOUS
  <2>1. i = n + 1 \/ i \in 1..n
    <3> HIDE DEF n
    <3> QED  BY <1>1, <1>2
  <2>2. \A j \in 1..n : IsChunk(t[j])  BY DEF ChunksSound, AddsChunk
  <2> QED  BY <2>1, <2>2, <1>2 DEF AddsChunk
<1>9. ChunksSound(w)  BY <1>2, <1>5, <1>6, <1>8 DEF ChunksSound, ChunkSeq
<1> HIDE DEF U, W
<1> QED  BY <1>1, <1>2, <1>5, <1>6, <1>7, <1>9 DEF W

\* What the kernel is asked for, and the room it leaves.
LEMMA ChunkSize ==
  ASSUME ArenaConstants, NEW need \in Nat, NEW raw, raw = arena_chunk_size_for(need + ChunkHeader)
  PROVE  /\ raw \in Nat /\ need + ChunkHeader <= raw /\ raw = PageSize * PageCount(raw)
         /\ need # 0 => PageCount(raw) \in Nat \ {0}
<1> DEFINE x == IF need + ChunkHeader > ChunkDefault THEN need + ChunkHeader ELSE ChunkDefault
           q == PageCount(x)
<1>1. x \in Nat /\ need + ChunkHeader <= x /\ (need # 0 => x > 0)  BY DEF ArenaConstants
<1>2. raw = os_page_round_up(x)  BY DEF arena_chunk_size_for
<1> HIDE DEF x
<1>3. raw \in Nat /\ x <= raw /\ q \in Nat /\ q * PageSize = raw /\ PageSize * q = raw /\ (x > 0 => q > 0)
  BY <1>1, <1>2, PageRounding
<1> HIDE DEF q
<1>4. PageCount(raw) = q
  <2>1. PageCount(q * PageSize) = q  BY <1>3, PageMultiple
  <2> QED  BY <2>1, <1>3
<1>5. need + ChunkHeader <= raw
  <2> DEFINE y == need + ChunkHeader
  <2>1. y \in Nat /\ y <= x  BY <1>1 DEF ArenaConstants
  <2> HIDE DEF y
  <2>2. y <= raw  BY <2>1, <1>1, <1>3
  <2> QED  BY <2>2 DEF y
<1> QED  BY <1>1, <1>3, <1>4, <1>5

NewChunk(s, r, H, need) ==
    /\ ArenaKeeps(r, H) /\ r.align = s.align /\ Len(r.chunks) # 0
    /\ LET c == r.chunks[Len(r.chunks)]
       IN  c.used = 0 /\ need <= c.capacity /\ Bytes(c.base, c.capacity) \cap r.dirty = {}

\* arena_new_chunk appends an empty chunk with room for the request, or changes nothing.
LEMMA NewChunkOK ==
  ASSUME ArenaConstants, NEW s, NEW H, ArenaKeeps(s, H), NEW need \in Nat \ {0},
         NEW g \in arena_new_chunk(s, need)
  PROVE  ~g.abort /\ IF g.ptr = NULL THEN g.self = s ELSE NewChunk(s, g.self, H, need)
<1> DEFINE raw == arena_chunk_size_for(need + ChunkHeader)
           Chk(p) == [page |-> p, base |-> p * PageSize + ChunkHeader,
                      capacity |-> raw - ChunkHeader, used |-> 0, raw_size |-> raw]
           t == s.chunks
<1>1. CASE g = Fails(s)  BY <1>1 DEF Fails, Gives, NULL
<1>2. CASE \E p \in Places(ChunkPages(s), raw) : g = Gives([Mapped(s, p, raw) EXCEPT !.chunks = Append(@, Chk(p))], 1)
  <2>1. PICK p \in Places(ChunkPages(s), raw) :
           g = Gives([Mapped(s, p, raw) EXCEPT !.chunks = Append(@, Chk(p))], 1)
    BY <1>2
  <2>2. raw \in Nat /\ need + ChunkHeader <= raw /\ raw = PageSize * PageCount(raw) /\ PageCount(raw) \in Nat \ {0}
    BY ChunkSize
  <2>3. s \in ArenaRecord /\ ChunksSound(t) /\ s.footprint = Total(SizesOf(ChunkTable(t))) /\ s.footprint \in Nat
        /\ WellHeld(H) /\ LiesSound(s, H) /\ t \in ChunkSeq
    BY DEF ArenaKeeps, ArenaRecord
  <2> HIDE DEF raw
  <2>4. p \in Pages /\ p \in Nat \ {0} /\ Region(p, raw) \subseteq Pages /\ Region(p, raw) \cap RegsOf(ChunkTable(t)) = {}
    <3>1. p \in Pages /\ Region(p, raw) \subseteq Pages \ ChunkPages(s)  BY DEF Places
    <3>2. ChunkPages(s) = RegsOf(ChunkTable(t))  BY <2>3, ChunkPagesAre
    <3> QED  BY <3>1, <3>2, PageNumbers
  <2> DEFINE c == Chk(p)
             e == ChunkEntry(c)
             a == p * PageSize
  <2>5. IsRegion(e) /\ Reg(e) = Region(p, raw)
    <3>1. e = [ptr |-> p * PageSize, bytes |-> raw]  BY DEF ChunkEntry
    <3>2. FreshEntry(p, raw, e)  BY <3>1, <2>2, <2>4 DEF FreshEntry
    <3> HIDE DEF e
    <3> QED  BY <3>2, FreshRegion
  <2>6. a \in Nat /\ a # 0
    <3>1. e.ptr = a /\ e \in PageEntry  BY <2>5 DEF ChunkEntry, IsRegion
    <3> QED  BY <3>1 DEF PageEntry
  <2>7. /\ c.page = p /\ c.base = a + ChunkHeader /\ c.capacity = raw - ChunkHeader /\ c.used = 0 /\ c.raw_size = raw
        /\ c = [page |-> p, base |-> a + ChunkHeader, capacity |-> raw - ChunkHeader, used |-> 0, raw_size |-> raw]
    OBVIOUS
  <2> DEFINE b == a + ChunkHeader
             v == raw - ChunkHeader
  <2>8. b \in Nat \ {0} /\ v \in Nat /\ v + ChunkHeader = raw /\ need <= v
    <3> HIDE DEF a
    <3> QED  BY <2>2, <2>6 DEF ArenaConstants
  <2>9. c = [page |-> p, base |-> b, capacity |-> v, used |-> 0, raw_size |-> raw]  BY <2>7
  <2> HIDE DEF c, e, a, b, v
  <2>10. c \in Chunk /\ c.page = p /\ c.base = b /\ c.capacity = v /\ c.used = 0 /\ c.raw_size = raw
    BY <2>2, <2>4, <2>8, <2>9 DEF Chunk
  <2>11. IsChunk(c)  BY <2>4, <2>8, <2>10 DEF IsChunk, b, a
  <2> DEFINE w == Append(t, c)
             r == g.self
             D == s.dirty \ Bytes(a, raw)
             f == s.footprint + raw
  <2>12. /\ ChunksSound(w) /\ Len(w) = Len(t) + 1 /\ w[Len(t) + 1] = c /\ Len(t) \in Nat
         /\ \A i \in 1..Len(t) : w[i] = t[i]
         /\ Total(SizesOf(ChunkTable(w))) = Total(SizesOf(ChunkTable(t))) + raw
    <3>1. Reg(e) \cap RegsOf(ChunkTable(t)) = {}  BY <2>4, <2>5
    <3>2. IsRegion(ChunkEntry(c)) /\ Reg(ChunkEntry(c)) \cap RegsOf(ChunkTable(t)) = {}  BY <3>1, <2>5 DEF e
    <3>3. AddsChunk(t, c, w)  BY <3>2, <2>3, <2>11 DEF AddsChunk
    <3> HIDE DEF w, t
    <3>4. /\ ChunksSound(w) /\ Len(w) = Len(t) + 1 /\ w[Len(t) + 1] = c /\ Len(t) \in Nat
          /\ \A i \in 1..Len(t) : w[i] = t[i]
          /\ Total(SizesOf(ChunkTable(w))) = Total(SizesOf(ChunkTable(t))) + c.raw_size
      BY <3>3, ChunkAppended
    <3> QED  BY <3>4, <2>10
  <2>13. r = [s EXCEPT !.chunks = w, !.footprint = f, !.dirty = D] /\ ~g.abort /\ g.ptr # NULL
    <3>1. Mapped(s, p, raw) = [s EXCEPT !.footprint = f, !.dirty = D]  BY DEF Mapped, a
    <3>2. g = Gives([Mapped(s, p, raw) EXCEPT !.chunks = Append(@, c)], 1)  BY <2>1 DEF c
    <3> DEFINE M == Mapped(s, p, raw)
               R == [M EXCEPT !.chunks = Append(@, c)]
    <3>3. g.self = R /\ ~g.abort /\ g.ptr # NULL  BY <3>2 DEF Gives, NULL
    <3>4. M = [s EXCEPT !.footprint = f, !.dirty = D]  BY <3>1
    <3> HIDE DEF M, f, D
    <3>5. M.chunks = t  BY <3>4, <2>3 DEF ArenaRecord
    <3>6. R = [M EXCEPT !.chunks = w]  BY <3>5
    <3> HIDE DEF R, w
    <3>7. R = [s EXCEPT !.chunks = w, !.footprint = f, !.dirty = D]  BY <3>4, <3>6
    <3> QED  BY <3>3, <3>7
  <2>14. w \in ChunkSeq /\ f \in Nat /\ D \in SUBSET Nat  BY <2>2, <2>3, <2>12 DEF ChunksSound, ArenaRecord
  <2> HIDE DEF r, w, D, f
  <2>15. /\ r \in ArenaRecord /\ r.align = s.align /\ r.chunks = w /\ r.footprint = f /\ r.dirty = D
    BY <2>3, <2>13, <2>14 DEF ArenaRecord
  <2>16. LiesSound(r, H)
    <3> SUFFICES ASSUME NEW x \in H
                 PROVE  x.addr % r.align = 0 /\ \E i \in 1..Len(r.chunks) : Lies(x, r.chunks[i])
      BY DEF LiesSound
    <3>1. PICK i \in 1..Len(t) : Lies(x, t[i])  BY <2>3 DEF LiesSound
    <3>2. x.addr % s.align = 0  BY <2>3 DEF LiesSound
    <3>3. i \in 1..Len(w) /\ w[i] = t[i]
      <4> HIDE DEF t
      <4> QED  BY <2>12
    <3> QED  BY <3>1, <3>2, <3>3, <2>15
  <2>17. r.footprint = Total(SizesOf(ChunkTable(w)))  BY <2>3, <2>12, <2>15 DEF f
  <2>18. ArenaKeeps(r, H)  BY <2>3, <2>12, <2>15, <2>16, <2>17 DEF ArenaKeeps
  <2>19. Len(w) # 0 /\ w[Len(w)] = c
    <3> HIDE DEF t
    <3> QED  BY <2>12
  <2>20. Bytes(b, v) \cap D = {}
    <3>1. Bytes(b, v) \subseteq Bytes(a, raw)
      <4>1. a \in Nat /\ b = a + ChunkHeader /\ v + ChunkHeader = raw /\ ChunkHeader \in Nat /\ raw \in Nat /\ v \in Nat
        BY <2>2, <2>6, <2>8 DEF ArenaConstants, b
      <4> HIDE DEF b
      <4> QED  BY <4>1 DEF Bytes
    <3> QED  BY <3>1 DEF D
  <2>21. NewChunk(s, r, H, need)  BY <2>8, <2>10, <2>15, <2>18, <2>19, <2>20 DEF NewChunk
  <2> QED  BY <2>13, <2>21 DEF r
<1>3. g = Fails(s) \/ \E p \in Places(ChunkPages(s), raw) : g = Gives([Mapped(s, p, raw) EXCEPT !.chunks = Append(@, Chk(p))], 1)
  BY DEF arena_new_chunk
<1> QED  BY <1>1, <1>2, <1>3

\* What was written, or zeroed, is no part of the books.
LEMMA ArenaDirtied ==
  ASSUME NEW s, NEW H, ArenaSound(s, H), NEW d \in SUBSET Nat, NEW t, t = [s EXCEPT !.dirty = d]
  PROVE  ArenaSound(t, H) /\ t.dirty = d /\ t.last_ptr = s.last_ptr
<1>1. s \in ArenaRecord  BY DEF ArenaSound, ArenaKeeps
<1>2. /\ t \in ArenaRecord /\ t.align = s.align /\ t.footprint = s.footprint /\ t.chunks = s.chunks
      /\ t.last_ptr = s.last_ptr /\ t.last_size = s.last_size /\ t.dirty = d
  BY <1>1 DEF ArenaRecord
<1> QED  BY <1>2 DEF ArenaSound, ArenaKeeps, LiesSound, LastSound

\* An allocation bumps the last chunk, or a fresh one.
LEMMA ArenaAllocOK ==
  ASSUME ArenaConstants, NEW s, NEW H, ArenaSound(s, H), NEW n \in Nat, NEW z \in BOOLEAN,
         NEW o \in arena_allocator_allocate(s, n, z)
  PROVE  /\ ~o.abort
         /\ o.ptr = NULL => ArenaSound(o.self, H)
         /\ o.ptr # NULL => /\ n # 0 /\ o.ptr \in Nat \ {0} /\ o.ptr \notin Addrs(H)
                            /\ ArenaSound(o.self, H \cup {Block(o.ptr, n)})
                            /\ z => Bytes(o.ptr, n) \cap o.self.dirty = {}
<1> DEFINE m == RoundUp(n, s.align)
           k == Len(s.chunks)
           fits == k # 0 /\ AlignedUsed(s, s.chunks[k]) + m <= s.chunks[k].capacity
           t == Bump(s, m)
<1>1. s \in ArenaRecord /\ s.align \in Nat \ {0} /\ ArenaKeeps(s, H)  BY DEF ArenaSound, ArenaKeeps, ArenaRecord
<1>2. m \in Nat /\ n <= m  BY <1>1, RoundUpProps
<1> HIDE DEF m
<1>3. CASE n = 0
  <2>1. o = Fails(s)  BY <1>3 DEF arena_allocator_allocate
  <2> QED  BY <2>1 DEF Fails, Gives, NULL
<1>4. CASE n # 0 /\ fits
  <2>1. o = Gives(IF z THEN Zero(t, t.last_ptr, m) ELSE t, t.last_ptr)
    BY <1>4 DEF arena_allocator_allocate, Tail1, m
  <2> DEFINE G == H \cup {Block(t.last_ptr, n)}
             D == t.dirty \ Bytes(t.last_ptr, m)
  <2>2. n \in Nat \ {0}  BY <1>4
  <2> HIDE DEF t
  <2>3. t.last_ptr \in Nat \ {0} /\ t.last_ptr \notin Addrs(H) /\ ArenaSound(t, G)
    BY <1>1, <1>2, <1>4, <2>2, BumpOK DEF t
  <2>4. D \in SUBSET Nat  BY <2>3 DEF ArenaSound, ArenaKeeps, ArenaRecord
  <2>5. Zero(t, t.last_ptr, m) = [t EXCEPT !.dirty = D]  BY DEF Zero
  <2>6. Bytes(t.last_ptr, n) \cap D = {}
    <3>1. Bytes(t.last_ptr, n) \subseteq Bytes(t.last_ptr, m)  BY <1>2, <2>3 DEF Bytes
    <3> QED  BY <3>1
  <2> HIDE DEF G, D
  <2>7. CASE z
    <3>1. ~o.abort /\ o.self = [t EXCEPT !.dirty = D] /\ o.ptr = t.last_ptr  BY <2>1, <2>5, <2>7 DEF Gives
    <3>2. ArenaSound(o.self, G) /\ o.self.dirty = D  BY <3>1, <2>3, <2>4, ArenaDirtied
    <3> QED  BY <3>1, <3>2, <2>3, <2>6, <1>4 DEF G, NULL
  <2>8. CASE ~z
    <3>1. ~o.abort /\ o.self = t /\ o.ptr = t.last_ptr  BY <2>1, <2>8 DEF Gives
    <3> QED  BY <3>1, <2>3, <2>8, <1>4 DEF G, NULL
  <2> QED  BY <2>7, <2>8
<1>5. CASE n # 0 /\ ~fits
  <2> DEFINE need == m + s.align
  <2>1. PICK g \in arena_new_chunk(s, need) :
           o = IF g.ptr = NULL THEN g ELSE Gives(Bump(g.self, m), Bump(g.self, m).last_ptr)
    BY <1>5 DEF arena_allocator_allocate, Tail1, m
  <2>2. need \in Nat \ {0}  BY <1>1, <1>2
  <2>3. ~g.abort /\ IF g.ptr = NULL THEN g.self = s ELSE NewChunk(s, g.self, H, need)
    <3> HIDE DEF need
    <3> QED  BY <1>1, <2>1, <2>2, NewChunkOK
  <2>4. CASE g.ptr = NULL  BY <2>1, <2>3, <2>4
  <2>5. CASE g.ptr # NULL
    <3> DEFINE r == g.self
               c == r.chunks[Len(r.chunks)]
               u == Bump(r, m)
               off == AlignedUsed(r, c)
    <3>1. NewChunk(s, r, H, need)  BY <2>3, <2>5
    <3>2. ~o.abort /\ o.self = u /\ o.ptr = u.last_ptr  BY <2>1, <2>5 DEF Gives
    <3>3. /\ ArenaKeeps(r, H) /\ r.align = s.align /\ Len(r.chunks) # 0 /\ c.used = 0 /\ need <= c.capacity
          /\ Bytes(c.base, c.capacity) \cap r.dirty = {}
      BY <3>1 DEF NewChunk
    <3>4. c \in Chunk /\ c.capacity \in Nat /\ c.base \in Nat /\ r \in ArenaRecord
      <4>1. r.chunks \in ChunkSeq /\ r \in ArenaRecord  BY <3>3 DEF ArenaKeeps, ChunksSound
      <4>2. Len(r.chunks) \in 1..Len(r.chunks)
        <5> DEFINE l == Len(r.chunks)
        <5>1. l \in Nat /\ l # 0  BY <4>1, <3>3, ChunksOf
        <5> HIDE DEF l
        <5>2. l \in 1..l  BY <5>1
        <5> QED  BY <5>2 DEF l
      <4>3. c \in Chunk  BY <4>1, <4>2, ChunksOf
      <4> QED  BY <4>1, <4>3 DEF Chunk
    <3>5. off \in Nat /\ off <= s.align  BY <3>3, <3>4, AlignedAddress
    <3>6. off + m <= c.capacity
      <4> DEFINE v == c.capacity
                 a == s.align
      <4>1. v \in Nat /\ a \in Nat /\ m + a <= v /\ off <= a /\ off \in Nat  BY <3>3, <3>4, <3>5, <1>1
      <4> HIDE DEF v, a, off
      <4>2. off + m <= v  BY <4>1, <1>2
      <4> QED  BY <4>2 DEF v
    <3> HIDE DEF r, u
    <3>7. n \in Nat \ {0}  BY <1>5
    <3>8. /\ u.last_ptr \in Nat \ {0} /\ u.last_ptr \notin Addrs(H)
          /\ ArenaSound(u, H \cup {Block(u.last_ptr, n)}) /\ u.dirty = r.dirty
          /\ c.base <= u.last_ptr /\ u.last_ptr + m <= c.base + c.capacity
      BY <3>3, <3>6, <3>7, <1>2, BumpOK DEF u
    <3>9. Bytes(u.last_ptr, n) \subseteq Bytes(c.base, c.capacity)
      <4> DEFINE p == u.last_ptr
                 b == c.base
                 v == c.capacity
      <4>1. p \in Nat /\ b \in Nat /\ v \in Nat /\ b <= p /\ p + m <= b + v  BY <3>4, <3>8
      <4> HIDE DEF p, b, v
      <4>2. Bytes(p, n) \subseteq Bytes(b, v)  BY <4>1, <1>2 DEF Bytes
      <4> QED  BY <4>2 DEF p, b, v
    <3>10. Bytes(u.last_ptr, n) \cap u.dirty = {}  BY <3>3, <3>8, <3>9
    <3> QED  BY <3>2, <3>8, <3>10, <1>5 DEF NULL
  <2> QED  BY <2>4, <2>5
<1> QED  BY <1>3, <1>4, <1>5

\* The most recent block is taken back; any other block of a chunk stays where
\* it is, and a pointer into no chunk is refused.
LEMMA ArenaFreeOK ==
  ASSUME ArenaConstants, NEW s, NEW H, ArenaSound(s, H), NEW a \in Nat \ {0},
         NEW o \in arena_allocator_deallocate(s, a)
  PROVE  IF o.abort THEN a \notin Addrs(H) ELSE ArenaSound(o.self, {b \in H : b.addr # a})
<1> DEFINE G == {b \in H : b.addr # a}
           k == Len(s.chunks)
           c == s.chunks[k]
           l == s.last_size
<1>1. /\ s \in ArenaRecord /\ ArenaKeeps(s, H) /\ ChunksSound(s.chunks) /\ WellHeld(H) /\ LiesSound(s, H)
      /\ LastSound(s, H) /\ k \in Nat /\ s.chunks \in ChunkSeq
  <2>1. ArenaKeeps(s, H) /\ LastSound(s, H)  BY DEF ArenaSound
  <2>2. s \in ArenaRecord /\ ChunksSound(s.chunks) /\ WellHeld(H) /\ LiesSound(s, H)  BY <2>1 DEF ArenaKeeps
  <2> QED  BY <2>1, <2>2, ChunksOf DEF ChunksSound
<1>2. ArenaSound(s, G) /\ ArenaKeeps(s, G)  BY <1>1, ArenaFewer
<1>3. CASE IsLast(s, a)
  <2> DEFINE Back(v) == IF v >= l THEN v - l ELSE v
             t == [s EXCEPT !.chunks[k].used = Back(@), !.last_ptr = NULL, !.last_size = 0]
             u == c.used - l
  <2>1. o = Gives(t, l)  BY <1>3 DEF arena_allocator_deallocate, Tail1, NULL
  <2>2. o.self = t /\ ~o.abort  BY <2>1 DEF Gives
  <2>3. a = s.last_ptr /\ k # 0 /\ k \in 1..k  BY <1>1, <1>3 DEF IsLast, Tail1
  <2>4. IsChunk(c) /\ c \in Chunk  BY <1>1, <2>3 DEF ChunksSound, IsChunk
  <2>5. /\ c.base \in Nat /\ c.used \in Nat /\ c.capacity \in Nat /\ c.used <= c.capacity /\ l \in Nat
    BY <1>1, <2>4 DEF IsChunk, Chunk, ArenaRecord
  <2>6. c.base <= a /\ a + l = c.base + c.used
        /\ \A b \in H : b.addr # a => (Lies(b, c) => b.addr + b.len <= a)
    BY <1>1, <2>3 DEF LastSound, NULL
  <2>7. c.used >= l /\ u \in Nat /\ u <= c.capacity /\ c.base + u = a
    <3> DEFINE f == c.base
               v == c.used
               w == c.capacity
    <3>1. f \in Nat /\ v \in Nat /\ w \in Nat /\ v <= w /\ l \in Nat /\ f <= a /\ a + l = f + v  BY <2>5, <2>6
    <3>2. u = v - l  OBVIOUS
    <3> HIDE DEF f, v, w, l, u
    <3>3. v >= l /\ u \in Nat /\ u <= w /\ f + u = a  BY <3>1, <3>2
    <3> QED  BY <3>3 DEF f, v, w
  <2>8. Back(c.used) = u  BY <2>7
  <2>9. t = [s EXCEPT !.chunks[k].used = u, !.last_ptr = 0, !.last_size = 0]  BY <2>8 DEF NULL
  <2> HIDE DEF t, u, l
  <2>10. ArenaChanged(s, k, u, 0, 0, s.dirty, t)  BY <1>1, <2>3, <2>7, <2>9, ArenaChangedIs
  <2>11. /\ t \in ArenaRecord /\ t.align = s.align /\ t.footprint = s.footprint /\ t.last_ptr = 0 /\ t.last_size = 0
         /\ Refilled(s.chunks, k, u, t.chunks)
    BY <2>10 DEF ArenaChanged
  <2>12. /\ ChunksSound(t.chunks) /\ Len(t.chunks) = k /\ ChunkTable(t.chunks) = ChunkTable(s.chunks)
         /\ \A i \in 1..k : i # k => t.chunks[i] = s.chunks[i]
         /\ t.chunks[k].base = c.base /\ t.chunks[k].used = u
    BY <2>11, RefilledIs
  <2>13. LiesSound(t, G)
    <3> SUFFICES ASSUME NEW b \in G
                 PROVE  b.addr % t.align = 0 /\ \E i \in 1..k : Lies(b, t.chunks[i])
      BY <2>12 DEF LiesSound
    <3>1. PICK i \in 1..k : Lies(b, s.chunks[i])  BY <1>1 DEF LiesSound
    <3>2. b.addr % t.align = 0  BY <1>1, <2>11 DEF LiesSound
    <3>3. CASE i # k  BY <3>1, <3>2, <3>3, <2>12
    <3>4. CASE i = k
      <4>1. b.addr + b.len <= a /\ c.base <= b.addr  BY <3>1, <3>4, <2>6 DEF Lies
      <4>2. Lies(b, t.chunks[k])  BY <4>1, <2>7, <2>12 DEF Lies
      <4> QED  BY <4>2, <3>2, <2>3
    <3> QED  BY <3>3, <3>4
  <2>14. LastSound(t, G)  BY <2>11 DEF LastSound, NULL
  <2>15. ArenaSound(t, G)  BY <1>2, <2>11, <2>12, <2>13, <2>14 DEF ArenaSound, ArenaKeeps
  <2> QED  BY <2>2, <2>15
<1>4. CASE ~IsLast(s, a) /\ arena_owns_pointer(s, a)
  <2>1. o = Fails(s)  BY <1>4 DEF arena_allocator_deallocate, NULL
  <2> QED  BY <2>1, <1>2 DEF Fails, Gives
<1>5. CASE ~IsLast(s, a) /\ ~arena_owns_pointer(s, a)
  <2>1. o.abort
    <3>1. o = Aborts(s)  BY <1>5 DEF arena_allocator_deallocate, NULL
    <3> QED  BY <3>1 DEF Aborts
  <2>2. ASSUME NEW b \in H, b.addr = a PROVE FALSE
    <3>1. PICK i \in 1..k : Lies(b, s.chunks[i])  BY <1>1 DEF LiesSound
    <3> DEFINE d == s.chunks[i]
    <3>2. IsChunk(d) /\ i \in DOMAIN s.chunks  BY <1>1, ChunksOf DEF ChunksSound
    <3>3. a \in Bytes(d.base, d.capacity)
      <4> DEFINE f == d.base
                 v == d.used
                 w == d.capacity
                 e == b.len
      <4>1. f \in Nat /\ v \in Nat /\ w \in Nat /\ v <= w /\ e \in Nat \ {0} /\ f <= a /\ a + e <= f + v
        BY <1>1, <2>2, <3>1, <3>2 DEF IsChunk, Chunk, Lies, WellHeld
      <4> HIDE DEF f, v, w, e
      <4>2. a \in Bytes(f, w)  BY <4>1 DEF Bytes
      <4> QED  BY <4>2 DEF f, w
    <3> QED  BY <3>2, <3>3, <1>5 DEF arena_owns_pointer
  <2> QED  BY <2>1, <2>2 DEF Addrs
<1> QED  BY <1>3, <1>4, <1>5

\* Only the most recent block is resized, up to the end of its chunk.
LEMMA ArenaResizeOK ==
  ASSUME ArenaConstants, NEW s, NEW H, ArenaSound(s, H), NEW x \in H, NEW n \in Nat \ {0},
         NEW o \in arena_allocator_resize(s, x.addr, n)
  PROVE  /\ ~o.abort /\ (o.ptr = NULL => o.self = s) /\ (o.ptr # NULL => o.ptr = 1)
         /\ o.ptr # NULL => /\ x.addr \in Nat \ {0} /\ x.addr \notin Addrs(H \ {x})
                            /\ ArenaSound(o.self, (H \ {x}) \cup {Block(x.addr, n)})
<1> DEFINE a == x.addr
           G == H \ {x}
           k == Len(s.chunks)
           c == s.chunks[k]
           m == RoundUp(n, s.align)
           off == a - c.base
           u == off + m
           t == [s EXCEPT !.chunks[k].used = u, !.last_size = m]
<1>1. /\ s \in ArenaRecord /\ ArenaKeeps(s, H) /\ ChunksSound(s.chunks) /\ WellHeld(H) /\ s.align \in Nat \ {0}
      /\ LastSound(s, H) /\ k \in Nat /\ s.chunks \in ChunkSeq
  <2>1. ArenaKeeps(s, H) /\ LastSound(s, H)  BY DEF ArenaSound
  <2>2. s \in ArenaRecord /\ ChunksSound(s.chunks) /\ WellHeld(H)  BY <2>1 DEF ArenaKeeps
  <2> QED  BY <2>1, <2>2, ChunksOf DEF ChunksSound, ArenaRecord
<1>2. a \in Nat \ {0}  BY <1>1 DEF WellHeld
<1>3. CASE ~IsLast(s, a) \/ off + m > c.capacity
  <2>1. o = Fails(s)  BY <1>3 DEF arena_allocator_resize, Tail1
  <2> QED  BY <2>1 DEF Fails, Gives, NULL
<1>4. CASE IsLast(s, a) /\ ~(off + m > c.capacity)
  <2>1. o = Gives(t, 1)  BY <1>4 DEF arena_allocator_resize, Tail1
  <2>2. o.self = t /\ ~o.abort /\ o.ptr = 1 /\ o.ptr # NULL  BY <2>1 DEF Gives, NULL
  <2>3. a = s.last_ptr /\ k # 0 /\ k \in 1..k  BY <1>1, <1>4 DEF IsLast, Tail1
  <2>4. IsChunk(c) /\ c \in Chunk  BY <1>1, <2>3 DEF ChunksSound, IsChunk
  <2>5. /\ c.base \in Nat /\ c.capacity \in Nat  BY <2>4 DEF Chunk
  <2>6. /\ c.base <= a /\ a % s.align = 0
        /\ \A b \in H : b.addr # a => (Lies(b, c) => b.addr + b.len <= a)
    BY <1>1, <1>2, <2>3 DEF LastSound, NULL
  <2>7. m \in Nat /\ n <= m  BY <1>1, RoundUpProps
  <2> HIDE DEF m
  <2>8. u \in Nat /\ u <= c.capacity /\ a + m = c.base + u
    <3> DEFINE f == c.base
               w == c.capacity
    <3>1. f \in Nat /\ w \in Nat /\ f <= a /\ u = (a - f) + m /\ ~(u > w)  BY <1>4, <2>5, <2>6
    <3> HIDE DEF f, w, u
    <3>2. u \in Nat /\ u <= w /\ a + m = f + u  BY <3>1, <2>7, <1>2
    <3> QED  BY <3>2 DEF f, w
  <2> HIDE DEF u
  <2>10. ArenaChanged(s, k, u, a, m, s.dirty, t)
    <3> DEFINE q == [s.chunks EXCEPT ![k] = [s.chunks[k] EXCEPT !.used = u]]
    <3>1. Refilled(s.chunks, k, u, q)  BY <1>1, <2>3, <2>8 DEF Refilled
    <3>2. q \in ChunkSeq  BY <3>1, RefilledIs DEF ChunksSound
    <3>3. t = [s EXCEPT !.chunks = q, !.last_size = m]  OBVIOUS
    <3> HIDE DEF q, t
    <3>4. /\ t \in ArenaRecord /\ t.align = s.align /\ t.footprint = s.footprint /\ t.chunks = q
          /\ t.last_ptr = s.last_ptr /\ t.last_size = m /\ t.dirty = s.dirty
      BY <1>1, <2>7, <3>2, <3>3 DEF ArenaRecord
    <3> QED  BY <1>1, <2>3, <3>1, <3>4 DEF ArenaChanged
  <2> HIDE DEF t
  <2>11. \A b \in G : Lies(b, c) => b.addr + b.len <= a
    <3> SUFFICES ASSUME NEW b \in G PROVE b.addr # a  BY <2>6
    <3> QED  BY <1>1, HeldUnique
  <2>12. Placed(s, H, G, t, u, a, n, m)
    BY <1>1, <2>3, <2>6, <2>7, <2>8, <2>10, <2>11 DEF Placed, ArenaChanged
  <2> HIDE DEF G
  <2>13. a \notin Addrs(G) /\ ArenaSound(t, G \cup {Block(a, n)})  BY <2>12, PlacedOK
  <2> QED  BY <1>2, <2>2, <2>13 DEF G
<1> QED  BY <1>3, <1>4

\* A remap resizes in place or bumps a fresh block; a block that is not the
\* most recent aborts.
LEMMA ArenaRemapOK ==
  ASSUME ArenaConstants, NEW s, NEW H, ArenaSound(s, H), NEW x \in H, NEW n \in Nat,
         NEW o \in arena_allocator_remap(s, x.addr, n), ~o.abort
  PROVE  /\ o.ptr = NULL => ArenaSound(o.self, IF n = 0 THEN H \ {x} ELSE H)
         /\ o.ptr # NULL => /\ n # 0 /\ o.ptr \in Nat \ {0} /\ o.ptr \notin Addrs(H \ {x})
                            /\ ArenaSound(o.self, (H \ {x}) \cup {Block(o.ptr, n)})
<1> DEFINE a == x.addr
           G == H \ {x}
           r == CHOOSE q \in arena_allocator_resize(s, a, n) : TRUE
<1>1. a \in Nat \ {0}  BY DEF ArenaSound, ArenaKeeps, WellHeld
<1>2. CASE n = 0
  <2>1. o = Fails(s)  BY <1>2 DEF arena_allocator_remap
  <2>2. G \subseteq H  OBVIOUS
  <2>3. ArenaSound(s, G)  BY <2>2, ArenaFewer DEF ArenaSound
  <2> QED  BY <2>1, <2>3, <1>2 DEF Fails, Gives
<1>3. CASE n # 0 /\ r.ptr = 1
  <2>1. o = [r EXCEPT !.ptr = a]  BY <1>1, <1>3 DEF arena_allocator_remap, NULL
  <2>2. r \in arena_allocator_resize(s, a, n)
    <3>1. \E q : q \in arena_allocator_resize(s, a, n)  BY DEF arena_allocator_resize
    <3> QED  BY <3>1
  <2>3. \E q, p : r = Gives(q, p)  BY <2>2 DEF arena_allocator_resize, Fails
  <2> HIDE DEF r
  <2>4. o.self = r.self /\ o.ptr = a /\ r.ptr # NULL  BY <2>1, <2>3, <1>3 DEF Gives, NULL
  <2>5. a \notin Addrs(G) /\ ArenaSound(r.self, G \cup {Block(a, n)})  BY <1>3, <2>2, <2>4, ArenaResizeOK
  <2> QED  BY <2>4, <2>5, <1>1, <1>3 DEF NULL
<1>4. CASE n # 0 /\ r.ptr # 1
  <2>1. o \in (IF s.last_ptr # a THEN {Aborts(s)} ELSE arena_allocator_allocate(s, n, TRUE))
    BY <1>1, <1>4 DEF arena_allocator_remap, NULL
  <2>2. o \in arena_allocator_allocate(s, n, TRUE)
    <3>1. CASE s.last_ptr # a
      <4>1. o = Aborts(s)  BY <2>1, <3>1
      <4> QED  BY <4>1 DEF Aborts
    <3>2. CASE s.last_ptr = a  BY <2>1, <3>2
    <3> QED  BY <3>1, <3>2
  <2>3. /\ o.ptr = NULL => ArenaSound(o.self, H)
        /\ o.ptr # NULL => /\ o.ptr \in Nat \ {0} /\ o.ptr \notin Addrs(H)
                           /\ ArenaSound(o.self, H \cup {Block(o.ptr, n)})
    BY <2>2, ArenaAllocOK
  <2> DEFINE K == H \cup {Block(o.ptr, n)}
             L == G \cup {Block(o.ptr, n)}
  <2>4. L \subseteq K /\ (o.ptr \notin Addrs(H) => o.ptr \notin Addrs(G))  BY DEF Addrs
  <2>5. o.ptr # NULL => ArenaSound(o.self, L)
    <3> HIDE DEF K, L
    <3> SUFFICES ASSUME o.ptr # NULL PROVE ArenaSound(o.self, L)  OBVIOUS
    <3>1. ArenaSound(o.self, K)  BY <2>3 DEF K
    <3> QED  BY <3>1, <2>4, ArenaFewer DEF ArenaSound
  <2> QED  BY <2>3, <2>4, <2>5, <1>4
<1> QED  BY <1>2, <1>3, <1>4

\* What the program writes in a block touches no book.
LEMMA ArenaWriteOK ==
  ASSUME NEW s, NEW H, ArenaSound(s, H), NEW a \in Nat, NEW n \in Nat,
         NEW t, t = [s EXCEPT !.dirty = s.dirty \cup Bytes(a, n)]
  PROVE  ArenaSound(t, H)
<1> DEFINE d == s.dirty \cup Bytes(a, n)
<1>1. d \in SUBSET Nat  BY DEF ArenaSound, ArenaKeeps, ArenaRecord, Bytes
<1>2. t = [s EXCEPT !.dirty = d]  OBVIOUS
<1> HIDE DEF d
<1> QED  BY <1>1, <1>2, ArenaDirtied

\* At the start no block is held.
LEMMA NoneHeld == WellHeld({}) /\ Addrs({}) = {}
  BY FS_EmptySet DEF WellHeld, Addrs

\* A reset empties the chunks and keeps them.
LEMMA ArenaResetOK ==
  ASSUME NEW s, NEW H, ArenaSound(s, H)
  PROVE  ArenaSound(ArenaAllocatorReset(s), {})
<1> DEFINE t == s.chunks
           w == [i \in DOMAIN t |-> [t[i] EXCEPT !.used = 0]]
           r == ArenaAllocatorReset(s)
           n == Len(t)
<1>1. /\ s \in ArenaRecord /\ ChunksSound(t) /\ s.footprint = Total(SizesOf(ChunkTable(t)))
      /\ t \in ChunkSeq /\ n \in Nat /\ DOMAIN t = 1..n /\ \A i \in 1..n : IsChunk(t[i])
  <2>1. s \in ArenaRecord /\ ChunksSound(t) /\ s.footprint = Total(SizesOf(ChunkTable(t)))
    BY DEF ArenaSound, ArenaKeeps
  <2> QED  BY <2>1, ChunksOf DEF ChunksSound
<1> HIDE DEF n
<1>2. w = [i \in 1..n |-> [t[i] EXCEPT !.used = 0]]  BY <1>1
<1>3. \A i \in 1..n : /\ IsChunk(w[i]) /\ w[i] \in Chunk /\ w[i].page = t[i].page /\ w[i].raw_size = t[i].raw_size
  <2> SUFFICES ASSUME NEW i \in 1..n
               PROVE  IsChunk(w[i]) /\ w[i] \in Chunk /\ w[i].page = t[i].page /\ w[i].raw_size = t[i].raw_size
    OBVIOUS
  <2> DEFINE c == t[i]
             d == w[i]
  <2>1. d = [c EXCEPT !.used = 0] /\ IsChunk(c) /\ c \in Chunk  BY <1>1, <1>2 DEF IsChunk
  <2> HIDE DEF c, d
  <2>2. d \in Chunk /\ d.page = c.page /\ d.raw_size = c.raw_size /\ d.base = c.base /\ d.capacity = c.capacity /\ d.used = 0
    BY <2>1 DEF Chunk
  <2>3. IsChunk(d)  BY <2>1, <2>2 DEF IsChunk, Chunk
  <2> QED  BY <2>2, <2>3 DEF c, d
<1> HIDE DEF w
<1>4. w \in ChunkSeq /\ Len(w) = n
  <2>1. w \in [1..n -> Chunk] /\ DOMAIN w = 1..n  BY <1>2, <1>3
  <2>2. w \in Seq(Chunk) /\ Len(w) = n  BY <2>1, <1>1
  <2> QED  BY <2>2 DEF ChunkSeq
<1>5. ChunkTable(w) = ChunkTable(t)
  <2>1. \A i \in 1..n : ChunkEntry(w[i]) = ChunkEntry(t[i])  BY <1>3 DEF ChunkEntry
  <2>2. ChunkTable(w) = [i \in 1..n |-> ChunkEntry(w[i])] /\ ChunkTable(t) = [i \in 1..n |-> ChunkEntry(t[i])]
    BY <1>4 DEF ChunkTable, n
  <2> QED  BY <2>1, <2>2
<1>6. ChunksSound(w)  BY <1>1, <1>3, <1>4, <1>5 DEF ChunksSound
<1>7. r = [s EXCEPT !.chunks = w, !.last_ptr = 0, !.last_size = 0]  BY DEF ArenaAllocatorReset, NULL, w
<1> HIDE DEF r
<1>8. r \in ArenaRecord /\ r.chunks = w /\ r.last_ptr = 0 /\ r.last_size = 0 /\ r.footprint = s.footprint
  BY <1>1, <1>4, <1>7 DEF ArenaRecord
<1>9. LiesSound(r, {}) /\ LastSound(r, {})  BY <1>8 DEF LiesSound, LastSound, NULL
<1>10. ArenaSound(r, {})  BY <1>1, <1>5, <1>6, <1>8, <1>9, NoneHeld DEF ArenaSound, ArenaKeeps
<1> QED  BY <1>10 DEF r

\* A new arena holds nothing and its books are sound.
LEMMA ArenaInitOK ==
  ASSUME NEW a \in Nat \ {0}
  PROVE  ArenaSound(ArenaInit(a), {})
<1> DEFINE s == ArenaInit(a)
           t == << >>
<1>1. t \in ChunkSeq /\ Len(t) = 0 /\ t \in PageTable  BY DEF ChunkSeq, PageTable
<1>2. s \in ArenaRecord  BY <1>1 DEF ArenaInit, ArenaRecord, NULL
<1>3. s.chunks = t /\ s.last_ptr = 0 /\ s.last_size = 0 /\ s.footprint = 0  BY DEF ArenaInit, NULL
<1>4. ChunkTable(t) = t  BY <1>1 DEF ChunkTable
<1> HIDE DEF s, t
<1>5. PageSize * Cardinality({}) = 0 /\ IsFiniteSet({})
  <2>1. Cardinality({}) = 0 /\ IsFiniteSet({})  BY FS_EmptySet
  <2>2. PageSize * 0 = 0  BY PageNumbers
  <2> QED  BY <2>1, <2>2
<1>6. RegsOf(t) = {}
  <2>1. 1..Len(t) = {}  BY <1>1
  <2> QED  BY <2>1 DEF RegsOf
<1>7. Total(SizesOf(t)) = 0
  <2>1. DOMAIN SizesOf(t) = {}
    <3>1. DOMAIN t = 1..Len(t) /\ 1..Len(t) = {}  BY <1>1, ColumnsOf
    <3> QED  BY <3>1 DEF SizesOf
  <2>2. CountOf(SizesOf(t)) = 0  BY <2>1, CountEmpty
  <2> QED  BY <2>2 DEF CountOf, Units, Total
<1>8. TableSound(t)
  <2>1. \A i \in 1..Len(t) : FALSE  BY <1>1
  <2> QED  BY <1>1, <1>5, <1>6, <1>7, <2>1 DEF TableSound
<1>9. ChunksSound(t)
  <2>1. \A i \in 1..Len(t) : FALSE  BY <1>1
  <2> QED  BY <1>1, <1>4, <1>8, <2>1 DEF ChunksSound
<1>10. LiesSound(s, {}) /\ LastSound(s, {})  BY <1>3 DEF LiesSound, LastSound, NULL
<1>11. ArenaSound(s, {})  BY <1>2, <1>3, <1>4, <1>7, <1>9, <1>10, NoneHeld DEF ArenaSound, ArenaKeeps
<1> QED  BY <1>11 DEF s

\* The chunks' raw sizes are the sizes of their table.
LEMMA RawSizesAre ==
  ASSUME NEW s, s.chunks \in ChunkSeq
  PROVE  RawSizes(s) = SizesOf(ChunkTable(s.chunks))
<1> DEFINE t == s.chunks
           n == Len(t)
           T == ChunkTable(t)
<1>1. DOMAIN t = 1..n  BY ChunksOf
<1>2. DOMAIN T = 1..n /\ \A i \in 1..n : T[i].bytes = t[i].raw_size  BY DEF ChunkTable, ChunkEntry
<1> HIDE DEF t, n, T
<1>3. SizesOf(T) = [i \in 1..n |-> t[i].raw_size]  BY <1>2 DEF SizesOf
<1>4. RawSizes(s) = [i \in 1..n |-> t[i].raw_size]  BY <1>1 DEF RawSizes, t
<1> QED  BY <1>3, <1>4 DEF T, t

\* Deinit unmaps every chunk.
LEMMA ArenaDeinitOK ==
  ASSUME NEW s, NEW H, ArenaSound(s, H)
  PROVE  ArenaAllocatorDeinit(s).footprint = 0
<1>1. s \in ArenaRecord /\ s.chunks \in ChunkSeq /\ s.footprint = Total(SizesOf(ChunkTable(s.chunks)))
  BY DEF ArenaSound, ArenaKeeps, ChunksSound
<1>2. ArenaAllocatorDeinit(s) = Unmapped(s, s.footprint)  BY <1>1, RawSizesAre DEF ArenaAllocatorDeinit
<1>3. s.footprint \in Nat /\ "footprint" \in DOMAIN s  BY <1>1 DEF ArenaRecord
<1>4. Unmapped(s, s.footprint) = [s EXCEPT !.footprint = 0]  BY <1>3 DEF Unmapped
<1> QED  BY <1>2, <1>3, <1>4, FootprintTwice

\* A chunk is no larger than what the kernel has.
LEMMA ChunkInPages ==
  ASSUME ArenaConstants, NEW t, ChunksSound(t), NEW i \in 1..Len(t)
  PROVE  t[i].used <= PageSize * Cardinality(Pages)
<1> DEFINE c == t[i]
           T == ChunkTable(t)
           n == Len(t)
           r == c.raw_size
           v == c.used
           w == c.capacity
           q == PageCount(r)
           N == Cardinality(Pages)
           R == Region(c.page, r)
<1>1. IsChunk(c) /\ c \in Chunk /\ TableSound(T) /\ n \in Nat  BY ChunksOf DEF ChunksSound, IsChunk
<1>2. Len(T) = n
  <2>1. DOMAIN T = 1..n  BY DEF ChunkTable
  <2>2. Len(T) \in Nat /\ DOMAIN T = 1..Len(T)  BY <1>1, ColumnsOf DEF TableSound
  <2> HIDE DEF T, n
  <2> QED  BY <2>1, <2>2, <1>1
<1>3. IsRegion(T[i]) /\ T[i] = ChunkEntry(c)  BY <1>1, <1>2 DEF TableSound, ChunkTable
<1>4. q \in Nat /\ r = PageSize * q  BY <1>3 DEF IsRegion, ChunkEntry
<1>5. /\ v \in Nat /\ w \in Nat /\ r \in Nat /\ c.page \in Nat /\ v <= w /\ w + ChunkHeader = r /\ ChunkHeader \in Nat
      /\ R \subseteq Pages
  BY <1>1 DEF IsChunk, Chunk, ArenaConstants
<1>6. q <= N /\ N \in Nat
  <2>1. IsFiniteSet(Pages)  BY PageNumbers
  <2>2. Cardinality(R) = q  BY <1>5, RegionSize
  <2> HIDE DEF R, q
  <2>3. Cardinality(R) <= Cardinality(Pages)  BY <2>1, <1>5, FS_Subset
  <2>4. Cardinality(Pages) \in Nat  BY <2>1, FS_CardinalityType
  <2> QED  BY <2>2, <2>3, <2>4
<1>7. v <= r
  <2> HIDE DEF v, w, r, c
  <2> QED  BY <1>5
<1> HIDE DEF q, N, r, v
<1>8. PageSize * q <= PageSize * N
  <2>1. PageSize \in Nat  BY PageNumbers
  <2>2. PICK d \in Nat : N = q + d
    <3>1. N - q \in Nat /\ N = q + (N - q)  BY <1>4, <1>6
    <3> QED  BY <3>1
  <2> DEFINE P == PageSize * q
             Q == PageSize * d
  <2>3. PageSize * N = P + Q /\ P \in Nat /\ Q \in Nat  BY <2>1, <2>2, <1>4
  <2> HIDE DEF P, Q
  <2>4. P <= P + Q  BY <2>3
  <2> QED  BY <2>3, <2>4 DEF P
<1> DEFINE P == PageSize * q
           Q == PageSize * N
<1>9. P \in Nat /\ Q \in Nat /\ P <= Q /\ r = P  BY <1>4, <1>6, <1>8, PageNumbers
<1> HIDE DEF P, Q
<1>10. v <= Q  BY <1>5, <1>7, <1>9 DEF v, c
<1> QED  BY <1>10 DEF Q, N, v

\* Sound arena books state the invariant, and every block has the room it asked for.
LEMMA ArenaBooksOK ==
  ASSUME ArenaConstants, NEW s, NEW H, ArenaSound(s, H)
  PROVE  ArenaInv(s, H) /\ \A b \in H : b.len <= ArenaRoom(s, b.addr)
<1> DEFINE t == s.chunks
           n == Len(t)
<1>1. /\ s \in ArenaRecord /\ ChunksSound(t) /\ t \in ChunkSeq /\ n \in Nat /\ DOMAIN t = 1..n
      /\ WellHeld(H) /\ LiesSound(s, H) /\ LastSound(s, H) /\ s.footprint = Total(SizesOf(ChunkTable(t)))
      /\ \A i \in 1..n : IsChunk(t[i])
  <2>1. /\ s \in ArenaRecord /\ ChunksSound(t) /\ WellHeld(H) /\ LiesSound(s, H) /\ LastSound(s, H)
        /\ s.footprint = Total(SizesOf(ChunkTable(t)))
    BY DEF ArenaSound, ArenaKeeps
  <2> QED  BY <2>1, ChunksOf DEF ChunksSound
<1> HIDE DEF n
<1>2. \A i \in DOMAIN t : t[i].used <= t[i].capacity  BY <1>1 DEF IsChunk
<1>3. ASSUME NEW b \in H PROVE
        /\ b.addr % s.align = 0
        /\ \E i \in DOMAIN t : Bytes(b.addr, b.len) \subseteq Bytes(t[i].base, t[i].used) /\ b.len <= t[i].used
  <2>1. b.addr % s.align = 0 /\ \E i \in 1..n : Lies(b, t[i])  BY <1>1 DEF LiesSound, n
  <2>2. PICK i \in 1..n : Lies(b, t[i])  BY <2>1
  <2> DEFINE a == b.addr
             l == b.len
             f == t[i].base
             v == t[i].used
  <2>3. a \in Nat /\ l \in Nat /\ f \in Nat /\ v \in Nat /\ f <= a /\ a + l <= f + v
    BY <2>2, <1>1 DEF Lies, IsChunk, Chunk, WellHeld
  <2> HIDE DEF a, l, f, v
  <2>4. Bytes(a, l) \subseteq Bytes(f, v) /\ l <= v  BY <2>3 DEF Bytes
  <2> QED  BY <2>1, <2>4, <1>1 DEF a, l, f, v
<1>4. /\ (s.last_ptr = NULL) <=> (s.last_size = 0)
      /\ s.last_ptr # NULL => s.last_ptr + s.last_size = t[n].base + t[n].used
  BY <1>1 DEF LastSound, n
<1>5. s.footprint = Total(RawSizes(s))  BY <1>1, RawSizesAre
<1>6. PageSize * Cardinality(ChunkPages(s)) = s.footprint
  <2>1. ChunkPages(s) = RegsOf(ChunkTable(t))  BY <1>1, ChunkPagesAre
  <2>2. TableSound(ChunkTable(t))  BY <1>1 DEF ChunksSound
  <2> QED  BY <2>1, <2>2, <1>1 DEF TableSound
<1>7. ArenaInv(s, H)  BY <1>2, <1>3, <1>4, <1>5, <1>6 DEF ArenaInv, Tail1, n
<1>8. ASSUME NEW b \in H PROVE b.len <= ArenaRoom(s, b.addr)
  <2>1. CASE b.addr = s.last_ptr
    <3>1. b.addr # NULL  BY <1>1 DEF WellHeld, NULL
    <3>2. b.len <= s.last_size  BY <3>1, <2>1, <1>1 DEF LastSound
    <3> QED  BY <3>2, <2>1 DEF ArenaRoom
  <2>2. CASE b.addr # s.last_ptr
    <3>1. PICK i \in 1..n : b.len <= t[i].used  BY <1>1, <1>3
    <3>2. t[i].used <= PageSize * Cardinality(Pages)  BY <1>1, ChunkInPages DEF n
    <3> DEFINE l == b.len
               v == t[i].used
               P == PageSize * Cardinality(Pages)
    <3>3. l \in Nat /\ v \in Nat /\ P \in Nat
      <4>1. l \in Nat /\ v \in Nat  BY <1>1 DEF WellHeld, IsChunk, Chunk
      <4>2. Cardinality(Pages) \in Nat /\ PageSize \in Nat  BY PageNumbers, FS_CardinalityType
      <4> QED  BY <4>1, <4>2
    <3> HIDE DEF l, v, P
    <3>4. l <= P  BY <3>1, <3>2, <3>3 DEF l, v, P
    <3> QED  BY <3>4, <2>2 DEF ArenaRoom, l, P
  <2> QED  BY <2>1, <2>2
<1> QED  BY <1>7, <1>8

-----------------------------------------------------------------------------
(* The debug allocator and the dispatcher. *)

LiveRecord == [ptr : Nat \ {0}, requested : Nat \ {0}, padded : Nat \ {0}]
Blocks == [addr : Nat \ {0}, len : Nat \ {0}]
DebugRecord ==
    [config : DebugConfigs, live : SUBSET LiveRecord, freed : SUBSET Nat, overflows : Nat,
     smashed : SUBSET Nat, overruns : Nat, backing : SUBSET Blocks, protected : SUBSET Nat,
     bytes_in_use : Nat, in_use : Nat, footprint : {0}, dirty : {{}}]

\* The constants that the debug allocator reads.
DebugConstants == CanaryBytes \in Nat

\* The whole pages of a block of the backing.
Whole(b) == [ptr |-> b.addr, bytes |-> PageSize * PageCount(b.len)]

\* The backing's blocks are on pages of their own.
BackingSound(B) ==
    /\ IsFiniteSet(B) /\ B \subseteq Blocks
    /\ \A b \in B : IsRegion(Whole(b))
    /\ \A a, b \in B : a # b => Reg(Whole(a)) \cap Reg(Whole(b)) = {}

\* One record for each live block, and a block of the backing under it.
LiveSound(L, B, canary) ==
    /\ IsFiniteSet(L) /\ L \subseteq LiveRecord
    /\ \A q, r \in L : q.ptr = r.ptr => q = r
    /\ \A r \in L : r.padded = r.requested + canary /\ Block(r.ptr, r.padded) \in B

LivePtrs(L) == {r.ptr : r \in L}
HeldOf(L) == {Block(r.ptr, r.requested) : r \in L}
Requested(L) == [r \in L |-> r.requested]

\* The inductive invariant of the debug allocator: the records are the blocks held,
\* each on a backing block of its own, and the overruns noticed or still to be noticed.
DebugSound(s, H) ==
    /\ s \in DebugRecord /\ BackingSound(s.backing) /\ LiveSound(s.live, s.backing, Canary(s))
    /\ ~s.config.force_page_backing =>
          s.protected = {} /\ s.backing = {Block(r.ptr, r.padded) : r \in s.live}
    /\ \A a \in s.protected \cap s.freed : a \notin LivePtrs(s.live) /\ \E b \in s.backing : b.addr = a
    /\ IsFiniteSet(s.smashed) /\ s.smashed \subseteq LivePtrs(s.live)
    /\ s.config.detect_overflow => s.overruns = s.overflows + Cardinality(s.smashed)
    /\ s.bytes_in_use = Total(Requested(s.live)) /\ s.in_use = s.bytes_in_use
    /\ H = HeldOf(s.live) /\ WellHeld(H)

\* The canary has a size.
LEMMA CanaryIs ==
  ASSUME DebugConstants, NEW s
  PROVE  Canary(s) \in Nat
  BY DEF Canary, DebugConstants

\* Whole pages: no more of them than the block's own.
LEMMA WholeIs ==
  ASSUME NEW b \in Blocks
  PROVE  /\ Whole(b).ptr = b.addr /\ b.len <= Whole(b).bytes /\ Whole(b).bytes \in Nat
         /\ Reg(Whole(b)) = Region(b.addr \div PageSize, b.len)
<1> DEFINE c == PageCount(b.len)
           m == PageSize * c
<1>1. b.len \in Nat  BY DEF Blocks
<1>2. c \in Nat /\ c * PageSize = os_page_round_up(b.len) /\ m = os_page_round_up(b.len) /\ b.len <= m /\ m \in Nat
  BY <1>1, PageRounding
<1>3. PageCount(m) = c
  <2>1. m = c * PageSize  BY <1>2
  <2> HIDE DEF m, c
  <2>2. PageCount(c * PageSize) = c  BY <1>2, PageMultiple
  <2> QED  BY <2>1, <2>2
<1>4. Whole(b).ptr = b.addr /\ Whole(b).bytes = m  BY DEF Whole
<1> HIDE DEF m
<1>5. Reg(Whole(b)) = Region(b.addr \div PageSize, b.len)  BY <1>3, <1>4 DEF Reg, Region
<1> QED  BY <1>2, <1>4, <1>5

\* Blocks of the backing do not overlap.
LEMMA BackingApart ==
  ASSUME NEW B, BackingSound(B), NEW a \in B, NEW b \in B, a # b
  PROVE  (a.addr + a.len <= b.addr \/ b.addr + b.len <= a.addr) /\ a.addr # b.addr
<1> DEFINE e == Whole(a)
           f == Whole(b)
<1>1. a \in Blocks /\ b \in Blocks /\ IsRegion(e) /\ IsRegion(f) /\ Reg(e) \cap Reg(f) = {}
  BY DEF BackingSound
<1>2. e.ptr + e.bytes <= f.ptr \/ f.ptr + f.bytes <= e.ptr
  <2> HIDE DEF e, f
  <2> QED  BY <1>1, RegionsApart
<1>3. /\ e.ptr = a.addr /\ a.len <= e.bytes /\ e.bytes \in Nat /\ f.ptr = b.addr /\ b.len <= f.bytes /\ f.bytes \in Nat
      /\ a.addr \in Nat /\ b.addr \in Nat /\ a.len \in Nat \ {0} /\ b.len \in Nat \ {0}
  BY <1>1, WholeIs DEF Blocks
<1> DEFINE x == a.addr
           y == b.addr
           k == a.len
           l == b.len
           m == e.bytes
           n == f.bytes
<1>4. /\ x + m <= y \/ y + n <= x
      /\ x \in Nat /\ y \in Nat /\ k \in Nat \ {0} /\ l \in Nat \ {0} /\ m \in Nat /\ n \in Nat /\ k <= m /\ l <= n
  BY <1>2, <1>3
<1> HIDE DEF x, y, k, l, m, n
<1>5. (x + k <= y \/ y + l <= x) /\ x # y  BY <1>4
<1> QED  BY <1>5 DEF x, y, k, l

\* A block y of m bytes on pages that the backing has not handed out.
FreshBlock(B, q, m, y) ==
    /\ BackingSound(B) /\ q \in Nat \ {0} /\ m \in Nat \ {0} /\ y = Block(q * PageSize, m)
    /\ \A b \in B : Region(b.addr \div PageSize, b.len) \cap Region(q, m) = {}

\* A block on fresh pages joins the backing blocks.
LEMMA BackingMore ==
  ASSUME NEW B, NEW q, NEW m, NEW y, FreshBlock(B, q, m, y)
  PROVE  BackingSound(B \cup {y}) /\ y \notin B /\ y \in Blocks /\ q * PageSize \notin Addrs(B)
<1> DEFINE p == q * PageSize
           c == PageCount(m)
           e == Whole(y)
           k == PageSize * c
<1>0. /\ BackingSound(B) /\ q \in Nat \ {0} /\ m \in Nat \ {0} /\ y = Block(q * PageSize, m)
      /\ \A b \in B : Region(b.addr \div PageSize, b.len) \cap Region(q, m) = {}
  BY DEF FreshBlock
<1>1. c \in Nat \ {0} /\ PageSize * c \in Nat /\ m <= PageSize * c
  BY <1>0, PageRounding
<1>2. y.addr = p /\ y.len = m  BY <1>0 DEF Block
<1>3. e = [ptr |-> q * PageSize, bytes |-> k]  BY <1>2 DEF Whole
<1>4. PageCount(k) = c
  <2>1. k = c * PageSize  BY <1>1, PageNumbers
  <2> HIDE DEF k, c
  <2>2. PageCount(c * PageSize) = c  BY <1>1, PageMultiple
  <2> QED  BY <2>1, <2>2
<1>5. k = PageSize * PageCount(k)  BY <1>4
<1> HIDE DEF k, c, e
<1>6. FreshEntry(q, k, e)  BY <1>0, <1>1, <1>3, <1>4, <1>5 DEF FreshEntry
<1>7. IsRegion(e) /\ Reg(e) = Region(q, k) /\ e.ptr = q * PageSize  BY <1>6, FreshRegion
<1>8. p \in Nat \ {0}  BY <1>7 DEF IsRegion, PageEntry
<1> HIDE DEF p
<1>9. y \in Blocks  BY <1>0, <1>8 DEF Block, Blocks, p
<1>10. Reg(e) = Region(q, m)  BY <1>4, <1>7 DEF Region, c
<1>11. ASSUME NEW b \in B PROVE Reg(Whole(b)) \cap Reg(e) = {} /\ b # y
  <2>1. b \in Blocks /\ IsRegion(Whole(b))  BY <1>0 DEF BackingSound
  <2>2. Reg(Whole(b)) \cap Reg(e) = {}  BY <2>1, <1>0, <1>10, WholeIs
  <2>3. Whole(b).ptr \div PageSize \in Reg(Whole(b))
    <3> DEFINE d == Whole(b)
    <3> HIDE DEF d
    <3> QED  BY <2>1, FirstPage DEF d
  <2> QED  BY <2>2, <2>3 DEF e
<1>12. BackingSound(B \cup {y})
  <2>1. IsFiniteSet(B \cup {y})  BY <1>0, FS_AddElement DEF BackingSound
  <2> QED  BY <2>1, <1>0, <1>7, <1>9, <1>11 DEF BackingSound, e
<1>13. \A b \in B : b.addr # y.addr
  <2> SUFFICES ASSUME NEW b \in B PROVE b.addr # y.addr  OBVIOUS
  <2> DEFINE C == B \cup {y}
  <2>1. b \in C /\ y \in C /\ b # y  BY <1>11
  <2> HIDE DEF C
  <2> QED  BY <2>1, <1>12, BackingApart DEF C
<1> QED  BY <1>2, <1>9, <1>11, <1>12, <1>13 DEF p, Addrs

\* The total requested of the live records is a natural number.
LEMMA LiveTotals ==
  ASSUME NEW L, IsFiniteSet(L), L \subseteq LiveRecord
  PROVE  Requested(L) \in [L -> Nat] /\ Total(Requested(L)) \in Nat /\ Total(Requested(L)) = CountOf(Requested(L))
<1>1. Requested(L) \in [L -> Nat]  BY DEF Requested, LiveRecord
<1>2. CountOf(Requested(L)) \in Nat
  <2> DEFINE f == Requested(L)
  <2>1. f \in [L -> Nat]  BY <1>1
  <2> HIDE DEF f
  <2>2. CountOf(f) \in Nat  BY <2>1, CountType
  <2> QED  BY <2>2 DEF f
<1>3. Total(Requested(L)) = CountOf(Requested(L))  BY DEF Total, CountOf, Units
<1> QED  BY <1>1, <1>2, <1>3

\* Adding a record adds its block, its pointer and its bytes.
LEMMA LiveMore ==
  ASSUME NEW L, NEW B, NEW k, LiveSound(L, B, k), NEW C, B \subseteq C, NEW r \in LiveRecord,
         r.padded = r.requested + k, Block(r.ptr, r.padded) \in C, r.ptr \notin LivePtrs(L)
  PROVE  /\ LiveSound(L \cup {r}, C, k)
         /\ Total(Requested(L \cup {r})) = Total(Requested(L)) + r.requested
         /\ HeldOf(L \cup {r}) = HeldOf(L) \cup {Block(r.ptr, r.requested)}
         /\ LivePtrs(L \cup {r}) = LivePtrs(L) \cup {r.ptr}
<1> DEFINE M == L \cup {r}
           f == Requested(L)
           g == Requested(M)
<1>1. IsFiniteSet(L) /\ L \subseteq LiveRecord /\ IsFiniteSet(M) /\ M \subseteq LiveRecord /\ r \notin L
  BY FS_AddElement DEF LiveSound, LivePtrs
<1>2. LiveSound(M, C, k)  BY <1>1 DEF LiveSound, LivePtrs
<1>3. f \in [L -> Nat] /\ g \in [M -> Nat] /\ Total(f) = CountOf(f) /\ Total(g) = CountOf(g)
  BY <1>1, LiveTotals
<1>4. g[r] = r.requested /\ \A y \in L : g[y] = f[y]  BY DEF Requested
<1>5. g \in [L \cup {r} -> Nat]  BY <1>3
<1> HIDE DEF f, g
<1>6. CountOf(g) = CountOf(f) + g[r]  BY <1>1, <1>3, <1>4, <1>5, CountAdd
<1>7. Total(g) = Total(f) + r.requested  BY <1>3, <1>4, <1>6
<1>8. HeldOf(M) = HeldOf(L) \cup {Block(r.ptr, r.requested)} /\ LivePtrs(M) = LivePtrs(L) \cup {r.ptr}
  BY DEF HeldOf, LivePtrs
<1> QED  BY <1>2, <1>7, <1>8 DEF f, g

\* Removing a record removes its block, its pointer and its bytes.
LEMMA LiveLess ==
  ASSUME NEW L, NEW B, NEW k, LiveSound(L, B, k), NEW r \in L, NEW C,
         \A q \in L : q.ptr # r.ptr => Block(q.ptr, q.padded) \in C
  PROVE  /\ LiveSound(L \ {r}, C, k)
         /\ Total(Requested(L \ {r})) = Total(Requested(L)) - r.requested
         /\ r.requested <= Total(Requested(L)) /\ Total(Requested(L)) \in Nat /\ r.requested \in Nat
         /\ HeldOf(L \ {r}) = HeldOf(L) \ {Block(r.ptr, r.requested)}
         /\ LivePtrs(L \ {r}) = LivePtrs(L) \ {r.ptr}
<1> DEFINE M == L \ {r}
           f == Requested(L)
           g == Requested(M)
<1>1. IsFiniteSet(L) /\ L \subseteq LiveRecord /\ IsFiniteSet(M) /\ M \subseteq LiveRecord
      /\ \A q \in M : q.ptr # r.ptr
  BY FS_RemoveElement DEF LiveSound
<1>2. LiveSound(M, C, k)  BY <1>1 DEF LiveSound
<1>3. f \in [L -> Nat] /\ g \in [M -> Nat] /\ Total(f) = CountOf(f) /\ Total(g) = CountOf(g) /\ Total(f) \in Nat
  BY <1>1, LiveTotals
<1>4. f[r] = r.requested /\ \A y \in M : g[y] = f[y]  BY DEF Requested
<1>5. r.requested \in Nat  BY <1>1 DEF LiveRecord
<1>6. CountOf(g) = CountOf(f) - f[r] /\ f[r] <= CountOf(f)
  <2>1. L = M \cup {r} /\ r \notin M  OBVIOUS
  <2>2. f \in [M \cup {r} -> Nat] /\ (\A y \in M : f[y] = g[y]) /\ f[r] \in Nat  BY <2>1, <1>3, <1>4, <1>5
  <2> HIDE DEF f, g, M
  <2>3. CountOf(f) = CountOf(g) + f[r]  BY <2>1, <2>2, <1>1, <1>3, CountAdd
  <2>4. CountOf(g) \in Nat  BY <1>1, <1>3, CountType
  <2> QED  BY <2>2, <2>3, <2>4
<1> HIDE DEF f, g
<1>7. Total(g) = Total(f) - r.requested /\ r.requested <= Total(f)  BY <1>3, <1>4, <1>6
<1>8. LivePtrs(M) = LivePtrs(L) \ {r.ptr}  BY <1>1 DEF LivePtrs
<1>9. HeldOf(M) = HeldOf(L) \ {Block(r.ptr, r.requested)}
  <2>1. \A q \in M : Block(q.ptr, q.requested) # Block(r.ptr, r.requested)  BY <1>1 DEF Block
  <2> QED  BY <2>1 DEF HeldOf
<1> QED  BY <1>2, <1>3, <1>5, <1>7, <1>8, <1>9 DEF f, g

\* A block more: m bytes of the backing, of which the caller has n.
DebugAdds(s, H, t, q, n, m) ==
    /\ DebugSound(s, H) /\ q \in Nat \ {0} /\ n \in Nat \ {0} /\ m = n + Canary(s)
    /\ \A b \in s.backing : Region(b.addr \div PageSize, b.len) \cap Region(q, m) = {}
    /\ t.config = s.config /\ t.live = s.live \cup {[ptr |-> q * PageSize, requested |-> n, padded |-> m]}
    /\ t.freed = s.freed /\ t.overflows = s.overflows /\ t.smashed = s.smashed /\ t.overruns = s.overruns
    /\ t.backing = s.backing \cup {Block(q * PageSize, m)} /\ t.protected = s.protected
    /\ t.bytes_in_use = s.bytes_in_use + n /\ t.in_use = s.in_use + n
    /\ t = [config |-> t.config, live |-> t.live, freed |-> t.freed, overflows |-> t.overflows,
            smashed |-> t.smashed, overruns |-> t.overruns, backing |-> t.backing,
            protected |-> t.protected, bytes_in_use |-> t.bytes_in_use, in_use |-> t.in_use,
            footprint |-> 0, dirty |-> {}]

\* Books to which a record and its backing block were added are sound.
LEMMA DebugAdded ==
  ASSUME DebugConstants, NEW s, NEW H, NEW t, NEW q, NEW n, NEW m, DebugAdds(s, H, t, q, n, m)
  PROVE  /\ q * PageSize \in Nat \ {0} /\ q * PageSize \notin Addrs(H)
         /\ DebugSound(t, H \cup {Block(q * PageSize, n)})
<1> DEFINE p == q * PageSize
           y == Block(p, m)
           x == Block(p, n)
           r == [ptr |-> p, requested |-> n, padded |-> m]
           B == s.backing
           L == s.live
           k == Canary(s)
<1>1. /\ BackingSound(B) /\ LiveSound(L, B, k) /\ WellHeld(H) /\ s \in DebugRecord /\ H = HeldOf(L)
      /\ q \in Nat \ {0} /\ n \in Nat \ {0} /\ m = n + k
  BY DEF DebugAdds, DebugSound
<1>2. k \in Nat /\ m \in Nat \ {0} /\ n <= m
  <2>1. k \in Nat  BY CanaryIs
  <2> HIDE DEF k
  <2> QED  BY <2>1, <1>1
<1> HIDE DEF k
<1>3. BackingSound(B \cup {y}) /\ y \notin B /\ y \in Blocks /\ y.addr = p /\ y.len = m /\ \A b \in B : b.addr # p
  <2>1. \A b \in B : Region(b.addr \div PageSize, b.len) \cap Region(q, m) = {}  BY DEF DebugAdds
  <2>2. FreshBlock(B, q, m, y)  BY <1>1, <1>2, <2>1 DEF FreshBlock
  <2> HIDE DEF y, B
  <2>3. BackingSound(B \cup {y}) /\ y \notin B /\ y \in Blocks /\ p \notin Addrs(B)  BY <2>2, BackingMore
  <2> QED  BY <2>3 DEF Block, Addrs, y
<1>4. p \in Nat \ {0}  BY <1>3 DEF Blocks
<1> HIDE DEF p
<1>5. r \in LiveRecord /\ r.ptr = p /\ r.requested = n /\ r.padded = m  BY <1>1, <1>2, <1>4 DEF LiveRecord
<1>6. p \notin LivePtrs(L)
  <2> SUFFICES ASSUME NEW v \in L, v.ptr = p PROVE FALSE  BY DEF LivePtrs
  <2>1. Block(v.ptr, v.padded) \in B  BY <1>1 DEF LiveSound
  <2> QED  BY <2>1, <1>3 DEF Block
<1> HIDE DEF r
<1>7. /\ LiveSound(L \cup {r}, B \cup {y}, k)
      /\ Total(Requested(L \cup {r})) = Total(Requested(L)) + n
      /\ HeldOf(L \cup {r}) = HeldOf(L) \cup {x}
      /\ LivePtrs(L \cup {r}) = LivePtrs(L) \cup {p}
  BY <1>1, <1>5, <1>6, LiveMore
\* What is new lies on pages of its own, and so apart from what is held.
<1>8. ASSUME NEW b \in H PROVE IsDisjoint(b, x) /\ b.addr # p
  <2>1. PICK v \in L : b = Block(v.ptr, v.requested)  BY <1>1 DEF HeldOf
  <2> DEFINE w == Block(v.ptr, v.padded)
             C == B \cup {y}
  <2>2. w \in B /\ v.padded = v.requested + k /\ v \in LiveRecord  BY <1>1 DEF LiveSound
  <2>3. w \in C /\ y \in C /\ w # y  BY <2>2, <1>3
  <2> HIDE DEF C
  <2>4. (w.addr + w.len <= y.addr \/ y.addr + y.len <= w.addr) /\ w.addr # y.addr
    <3> HIDE DEF w, y
    <3> QED  BY <2>3, <1>3, BackingApart DEF C
  <2>5. w.addr = v.ptr /\ w.len = v.padded /\ b.addr = v.ptr /\ b.len = v.requested  BY <2>1 DEF Block
  <2>6. x.addr = p /\ x.len = n  BY DEF Block
  <2> DEFINE a == v.ptr
             l == v.requested
             h == v.padded
  <2>7. a \in Nat /\ l \in Nat /\ h = l + k  BY <2>2 DEF LiveRecord
  <2>8. (a + h <= p \/ p + m <= a) /\ a # p  BY <2>4, <2>5, <1>3
  <2> HIDE DEF a, l, h
  <2>9. a + l <= p \/ p + n <= a  BY <2>7, <2>8, <1>1, <1>2, <1>4
  <2> QED  BY <2>5, <2>6, <2>8, <2>9 DEF IsDisjoint, a, l
<1>9. WellHeld(H \cup {x})  BY <1>1, <1>4, <1>8, HeldMore
<1>10. t \in DebugRecord
  <2>1. t.live \in SUBSET LiveRecord /\ t.backing \in SUBSET Blocks
    BY <1>3, <1>7 DEF DebugAdds, LiveSound, BackingSound, r, p
  <2>2. /\ t.config \in DebugConfigs /\ t.freed \in SUBSET Nat /\ t.overflows \in Nat /\ t.smashed \in SUBSET Nat
        /\ t.overruns \in Nat /\ t.protected \in SUBSET Nat
    BY <1>1 DEF DebugAdds, DebugRecord
  <2>3. t.bytes_in_use \in Nat /\ t.in_use \in Nat
    <3>1. s.bytes_in_use \in Nat /\ s.in_use \in Nat  BY <1>1 DEF DebugRecord
    <3> QED  BY <3>1, <1>1 DEF DebugAdds
  <2> QED  BY <2>1, <2>2, <2>3 DEF DebugAdds, DebugRecord
<1>11. Canary(t) = k /\ t.live = L \cup {r} /\ t.backing = B \cup {y}
  BY DEF DebugAdds, Canary, k, r, p
<1>12. ~t.config.force_page_backing =>
          t.protected = {} /\ t.backing = {Block(v.ptr, v.padded) : v \in t.live}
  <2> SUFFICES ASSUME ~t.config.force_page_backing
               PROVE  t.protected = {} /\ t.backing = {Block(v.ptr, v.padded) : v \in t.live}
    OBVIOUS
  <2>1. t.protected = {} /\ B = {Block(v.ptr, v.padded) : v \in L}  BY DEF DebugAdds, DebugSound
  <2>2. y = Block(r.ptr, r.padded)  BY <1>5
  <2> HIDE DEF B, L, y
  <2> QED  BY <2>1, <2>2, <1>11
<1>13. \A a \in t.protected \cap t.freed : a \notin LivePtrs(t.live) /\ \E b \in t.backing : b.addr = a
  <2> SUFFICES ASSUME NEW a \in s.protected \cap s.freed
               PROVE  a \notin LivePtrs(t.live) /\ \E b \in t.backing : b.addr = a
    BY DEF DebugAdds
  <2>1. a \notin LivePtrs(L) /\ \E b \in B : b.addr = a  BY DEF DebugAdds, DebugSound
  <2> QED  BY <2>1, <1>3, <1>7, <1>11
<1>14. /\ IsFiniteSet(t.smashed) /\ t.smashed \subseteq LivePtrs(t.live)
       /\ t.config.detect_overflow => t.overruns = t.overflows + Cardinality(t.smashed)
  BY <1>7, <1>11 DEF DebugAdds, DebugSound
<1>15. t.bytes_in_use = Total(Requested(t.live)) /\ t.in_use = t.bytes_in_use
  BY <1>7, <1>11 DEF DebugAdds, DebugSound
<1>16. BackingSound(t.backing) /\ LiveSound(t.live, t.backing, Canary(t)) /\ H \cup {x} = HeldOf(t.live)
  BY <1>1, <1>3, <1>7, <1>11
<1>17. DebugSound(t, H \cup {x})
  BY <1>9, <1>10, <1>12, <1>13, <1>14, <1>15, <1>16 DEF DebugSound
<1> QED  BY <1>4, <1>8, <1>17 DEF Addrs, p

\* A block taken from the backing and given back is as if it had not been.
LEMMA BackingUndone ==
  ASSUME NEW s, NEW H, DebugSound(s, H), NEW p, NEW m, \A b \in s.backing : b.addr # p
  PROVE  ToBacking(FromBacking(s, p, m), p) = s
<1> DEFINE B == s.backing
           C == B \cup {[addr |-> p, len |-> m]}
           t == [s EXCEPT !.backing = C]
<1>1. s \in DebugRecord  BY DEF DebugSound
<1>2. FromBacking(s, p, m) = t  BY DEF FromBacking
<1>3. t.backing = C  BY <1>1 DEF DebugRecord
<1>4. C \ {b \in C : b.addr = p} = B  OBVIOUS
<1> HIDE DEF C
<1>5. ToBacking(t, p) = [t EXCEPT !.backing = B]  BY <1>3, <1>4 DEF ToBacking, BackingBlock
<1>6. [t EXCEPT !.backing = B] = s  BY <1>1 DEF DebugRecord
<1> QED  BY <1>2, <1>5, <1>6

\* Recording a backing block, and charging the statistics, adds one record.
LEMMA DebugRecordedIs ==
  ASSUME DebugConstants, NEW s, NEW H, DebugSound(s, H), NEW n \in Nat \ {0}, NEW q \in Nat \ {0},
         NEW m, m = n + Canary(s),
         \A b \in s.backing : Region(b.addr \div PageSize, b.len) \cap Region(q, m) = {}, NEW t,
         t = Charge([FromBacking(s, q * PageSize, m) EXCEPT
                       !.live = @ \cup {[ptr |-> q * PageSize, requested |-> n, padded |-> m]},
                       !.bytes_in_use = @ + n], n)
  PROVE  DebugAdds(s, H, t, q, n, m) /\ t.dirty = {}
<1> DEFINE y == Block(q * PageSize, m)
           r == [ptr |-> q * PageSize, requested |-> n, padded |-> m]
           L == s.live \cup {r}
           B == s.backing \cup {y}
           u == s.bytes_in_use + n
           v == s.in_use + n
<1>1. s \in DebugRecord  BY DEF DebugSound
<1>2. FromBacking(s, q * PageSize, m) = [s EXCEPT !.backing = B]  BY DEF FromBacking, Block
<1>3. t = [s EXCEPT !.backing = B, !.live = L, !.bytes_in_use = u, !.in_use = v]
  <2> HIDE DEF B, y
  <2>1. [s EXCEPT !.backing = B].live = s.live /\ [s EXCEPT !.backing = B].bytes_in_use = s.bytes_in_use
    BY <1>1 DEF DebugRecord
  <2>2. t = Charge([[s EXCEPT !.backing = B] EXCEPT !.live = L, !.bytes_in_use = u], n)  BY <1>2, <2>1
  <2> HIDE DEF L, r, u
  <2>3. [[s EXCEPT !.backing = B] EXCEPT !.live = L, !.bytes_in_use = u]
          = [s EXCEPT !.backing = B, !.live = L, !.bytes_in_use = u]
    BY <1>1 DEF DebugRecord
  <2> DEFINE w == [s EXCEPT !.backing = B, !.live = L, !.bytes_in_use = u]
  <2>4. w.in_use = s.in_use  BY <1>1 DEF DebugRecord
  <2>5. t = [w EXCEPT !.in_use = v]  BY <2>2, <2>3, <2>4 DEF Charge
  <2> HIDE DEF v
  <2> QED  BY <2>5, <1>1 DEF DebugRecord
<1> HIDE DEF L, B, u, v
<1>4. /\ t.config = s.config /\ t.live = L /\ t.freed = s.freed /\ t.overflows = s.overflows /\ t.smashed = s.smashed
      /\ t.overruns = s.overruns /\ t.backing = B /\ t.protected = s.protected
      /\ t.bytes_in_use = u /\ t.in_use = v /\ t.dirty = {}
      /\ t = [config |-> t.config, live |-> t.live, freed |-> t.freed, overflows |-> t.overflows,
              smashed |-> t.smashed, overruns |-> t.overruns, backing |-> t.backing,
              protected |-> t.protected, bytes_in_use |-> t.bytes_in_use, in_use |-> t.in_use,
              footprint |-> 0, dirty |-> {}]
  BY <1>1, <1>3 DEF DebugRecord
<1> QED  BY <1>4 DEF DebugAdds, L, B, u, v

\* An allocation gives a clean block no other block meets, or leaves the books as they were.
LEMMA DebugAllocOK ==
  ASSUME DebugConstants, NEW s, NEW H, DebugSound(s, H), NEW n \in Nat, NEW z,
         NEW o \in debug_allocator_allocate(s, n, z)
  PROVE  /\ ~o.abort
         /\ o.ptr = NULL => DebugSound(o.self, H)
         /\ o.ptr # NULL => /\ n # 0 /\ o.ptr \in Nat \ {0} /\ o.ptr \notin Addrs(H)
                            /\ DebugSound(o.self, H \cup {Block(o.ptr, n)})
                            /\ o.self.config = s.config /\ o.self.dirty = {}
<1> DEFINE m == n + Canary(s)
<1>1. CASE o = Fails(s)
  BY <1>1 DEF Fails, Gives, NULL
<1>2. CASE o # Fails(s)
  <2> DEFINE At(p) == {Fails(ToBacking(FromBacking(s, p, m), p)),
                       Gives(Charge([FromBacking(s, p, m) EXCEPT
                                       !.live = @ \cup {[ptr |-> p, requested |-> n, padded |-> m]},
                                       !.bytes_in_use = @ + n], n), p)}
  <2>1. n # 0 /\ \E p \in BackingPlaces(s, m) : o \in At(p)
    BY <1>2 DEF debug_allocator_allocate
  <2>2. PICK p \in BackingPlaces(s, m) : o \in At(p)  BY <2>1
  <2>3. PICK q \in Pages : /\ p = q * PageSize
                           /\ \A b \in s.backing : Region(b.addr \div PageSize, b.len) \cap Region(q, m) = {}
    BY DEF BackingPlaces, Places
  <2>4. q \in Nat \ {0}  BY BaseAssumption
  <2>5. BackingSound(s.backing) /\ m \in Nat \ {0}
    <3>1. Canary(s) \in Nat  BY CanaryIs
    <3> QED  BY <2>1, <3>1 DEF DebugSound
  <2> HIDE DEF m
  <2>6. \A b \in s.backing : b.addr # p
    <3> DEFINE B == s.backing
               y == Block(q * PageSize, m)
    <3>1. FreshBlock(B, q, m, y)  BY <2>3, <2>4, <2>5 DEF FreshBlock
    <3> HIDE DEF B, y
    <3>2. q * PageSize \notin Addrs(B)  BY <3>1, BackingMore
    <3> QED  BY <2>3, <3>2 DEF B, Addrs
  <2>7. ToBacking(FromBacking(s, p, m), p) = s  BY <2>6, BackingUndone
  <2> DEFINE t == Charge([FromBacking(s, p, m) EXCEPT
                            !.live = @ \cup {[ptr |-> p, requested |-> n, padded |-> m]},
                            !.bytes_in_use = @ + n], n)
  <2>8. o = Gives(t, p)  BY <1>2, <2>2, <2>7
  <2>9. DebugAdds(s, H, t, q, n, m) /\ t.dirty = {}
    <3>1. t = Charge([FromBacking(s, q * PageSize, m) EXCEPT
                       !.live = @ \cup {[ptr |-> q * PageSize, requested |-> n, padded |-> m]},
                       !.bytes_in_use = @ + n], n)
      BY <2>3
    <3>2. m = n + Canary(s) /\ n \in Nat \ {0}  BY <2>1 DEF m
    <3> HIDE DEF t
    <3> QED  BY <3>1, <3>2, <2>3, <2>4, DebugRecordedIs
  <2> HIDE DEF t
  <2>10. p \in Nat \ {0} /\ p \notin Addrs(H) /\ DebugSound(t, H \cup {Block(p, n)})
    BY <2>3, <2>9, DebugAdded
  <2>11. t.config = s.config  BY <2>9 DEF DebugAdds
  <2>12. o.ptr = p /\ o.self = t /\ ~o.abort  BY <2>8 DEF Gives
  <2> QED  BY <2>1, <2>9, <2>10, <2>11, <2>12 DEF NULL
<1> QED  BY <1>1, <1>2

\* The live records are the blocks held.
LEMMA LiveAreHeld ==
  ASSUME NEW s, NEW H, DebugSound(s, H)
  PROVE  /\ LivePtrs(s.live) = Addrs(H)
         /\ \A p : IsLive(s, p) <=> p \in Addrs(H)
         /\ \A r \in s.live : Record(s, r.ptr) = r
<1>1. H = HeldOf(s.live) /\ \A q, r \in s.live : q.ptr = r.ptr => q = r  BY DEF DebugSound, LiveSound
<1>2. LivePtrs(s.live) = Addrs(H)
  <2> DEFINE L == s.live
             b(r) == Block(r.ptr, r.requested)
  <2>1. \A r \in L : b(r).addr = r.ptr /\ b(r) \in H  BY <1>1 DEF Block, HeldOf
  <2>2. \A y \in H : \E r \in L : y = b(r)  BY <1>1 DEF HeldOf
  <2> HIDE DEF L, b
  <2>3. \A a : a \in {r.ptr : r \in L} <=> a \in {y.addr : y \in H}  BY <2>1, <2>2
  <2> QED  BY <2>3 DEF LivePtrs, Addrs, L
<1>3. \A p : IsLive(s, p) <=> p \in LivePtrs(s.live)  BY DEF IsLive, LivePtrs
<1>4. \A r \in s.live : Record(s, r.ptr) = r
  <2> SUFFICES ASSUME NEW r \in s.live PROVE Record(s, r.ptr) = r  OBVIOUS
  <2>1. \A q \in s.live : q.ptr = r.ptr <=> q = r  BY <1>1
  <2> QED  BY <2>1 DEF Record
<1> QED  BY <1>2, <1>3, <1>4

\* Part of a sound backing is sound.
LEMMA BackingLess ==
  ASSUME NEW B, BackingSound(B), NEW C, C \subseteq B
  PROVE  BackingSound(C)
<1>1. IsFiniteSet(C)  BY FS_Subset DEF BackingSound
<1> QED  BY <1>1 DEF BackingSound

\* A block less: that of the record r, kept as a trap or given back.
DebugDrops(s, H, r, u) ==
    /\ DebugSound(s, H) /\ r \in s.live
    /\ u.config = s.config /\ u.live = s.live \ {r} /\ u.freed \subseteq s.freed \cup {r.ptr}
    /\ u.smashed = s.smashed \ {r.ptr} /\ u.overruns = s.overruns
    /\ s.config.detect_overflow /\ r.ptr \in s.smashed => u.overflows = s.overflows + 1
    /\ ~(s.config.detect_overflow /\ r.ptr \in s.smashed) => u.overflows = s.overflows
    /\ s.config.force_page_backing => u.backing = s.backing /\ u.protected = s.protected \cup {r.ptr}
    /\ ~s.config.force_page_backing => u.backing = s.backing \ BackingBlock(s, r.ptr) /\ u.protected = s.protected
    /\ u.bytes_in_use = s.bytes_in_use - r.requested /\ u.in_use = s.in_use - r.requested
    /\ u = [config |-> u.config, live |-> u.live, freed |-> u.freed, overflows |-> u.overflows,
            smashed |-> u.smashed, overruns |-> u.overruns, backing |-> u.backing,
            protected |-> u.protected, bytes_in_use |-> u.bytes_in_use, in_use |-> u.in_use,
            footprint |-> 0, dirty |-> {}]

\* Books from which a record was dropped are sound, whatever became of its pages.
LEMMA DebugDropped ==
  ASSUME DebugConstants, NEW s, NEW H, NEW r, NEW u, DebugDrops(s, H, r, u)
  PROVE  DebugSound(u, H \ {Block(r.ptr, r.requested)})
<1> DEFINE p == r.ptr
           n == r.requested
           x == Block(r.ptr, r.requested)
           B == s.backing
           L == s.live
           M == s.live \ {r}
           C == u.backing
           k == Canary(s)
<1>1. /\ s \in DebugRecord /\ BackingSound(B) /\ LiveSound(L, B, k) /\ WellHeld(H) /\ H = HeldOf(L) /\ r \in L
      /\ \A q \in L : q.ptr = r.ptr => q = r
      /\ r \in LiveRecord /\ L \subseteq LiveRecord
  BY DEF DebugDrops, DebugSound, LiveSound
<1>2. /\ C \subseteq B
      /\ \A b \in B : b.addr # r.ptr => b \in C
      /\ s.config.force_page_backing => C = B
  BY DEF DebugDrops, BackingBlock
<1>3. BackingSound(C)
  <2> HIDE DEF B, C
  <2> QED  BY <1>1, <1>2, BackingLess
<1>4. \A q \in L : q.ptr # r.ptr => Block(q.ptr, q.padded) \in C
  <2> SUFFICES ASSUME NEW q \in L, q.ptr # r.ptr PROVE Block(q.ptr, q.padded) \in C  OBVIOUS
  <2>1. Block(q.ptr, q.padded) \in B  BY <1>1 DEF LiveSound
  <2> QED  BY <2>1, <1>2 DEF Block
<1>5. /\ LiveSound(M, C, k)
      /\ Total(Requested(M)) = Total(Requested(L)) - n
      /\ n <= Total(Requested(L)) /\ Total(Requested(L)) \in Nat /\ n \in Nat
      /\ HeldOf(M) = HeldOf(L) \ {x}
      /\ LivePtrs(M) = LivePtrs(L) \ {p}
  <2> HIDE DEF B, C, L, k
  <2> QED  BY <1>1, <1>4, LiveLess DEF L
<1>6. x \in H  BY <1>1 DEF HeldOf
<1>7. WellHeld(H \ {x})  BY <1>1, <1>6, HeldLess
<1>8. u.live = M /\ Canary(u) = k  BY DEF DebugDrops, Canary
<1>9. IsFiniteSet(s.smashed) /\ s.smashed \subseteq LivePtrs(L)
      /\ (s.config.detect_overflow => s.overruns = s.overflows + Cardinality(s.smashed))
      /\ s.bytes_in_use = Total(Requested(L)) /\ s.in_use = s.bytes_in_use
  BY DEF DebugDrops, DebugSound
<1>10. /\ s.config \in DebugConfigs /\ s.freed \subseteq Nat /\ s.overflows \in Nat /\ s.smashed \subseteq Nat
       /\ s.overruns \in Nat /\ s.protected \subseteq Nat
  BY <1>1 DEF DebugRecord
<1>11. p \in Nat  BY <1>1 DEF LiveRecord
<1>12. u.bytes_in_use \in Nat /\ u.in_use = u.bytes_in_use /\ u.bytes_in_use = Total(Requested(M))
  <2>1. u.bytes_in_use = s.bytes_in_use - n /\ u.in_use = s.in_use - n  BY DEF DebugDrops
  <2> DEFINE T == Total(Requested(L))
  <2> HIDE DEF T, n
  <2> QED  BY <2>1, <1>5, <1>9 DEF T
<1>13. u.overflows \in Nat  BY <1>10 DEF DebugDrops
<1>14. u \in DebugRecord
  <2>1. u.live \in SUBSET LiveRecord /\ u.backing \in SUBSET Blocks
    BY <1>1, <1>3, <1>8 DEF BackingSound
  <2>2. u.freed \in SUBSET Nat /\ u.smashed \in SUBSET Nat /\ u.protected \in SUBSET Nat
    BY <1>10, <1>11 DEF DebugDrops
  <2>3. u.config \in DebugConfigs /\ u.overruns \in Nat /\ u.in_use \in Nat
    BY <1>10, <1>12 DEF DebugDrops
  <2> QED  BY <2>1, <2>2, <2>3, <1>12, <1>13 DEF DebugDrops, DebugRecord
<1>15. ~u.config.force_page_backing =>
          u.protected = {} /\ u.backing = {Block(v.ptr, v.padded) : v \in u.live}
  <2> SUFFICES ASSUME ~s.config.force_page_backing
               PROVE  u.protected = {} /\ C = {Block(v.ptr, v.padded) : v \in M}
    BY <1>8 DEF DebugDrops
  <2>1. u.protected = {} /\ B = {Block(v.ptr, v.padded) : v \in L}  BY DEF DebugDrops, DebugSound
  <2>2. C = {b \in B : b.addr # p}  BY DEF DebugDrops, BackingBlock
  <2>3. \A v \in L : Block(v.ptr, v.padded).addr = v.ptr  BY DEF Block
  <2>4. \A v \in L : v \in M <=> v.ptr # p  BY <1>1
  <2> HIDE DEF B, C, L, M, p
  <2>5. C \subseteq {Block(v.ptr, v.padded) : v \in M}  BY <2>1, <2>2, <2>3, <2>4
  <2>6. {Block(v.ptr, v.padded) : v \in M} \subseteq C  BY <2>1, <2>2, <2>3, <2>4 DEF M, L
  <2> QED  BY <2>1, <2>5, <2>6
<1>16. \A a \in u.protected \cap u.freed : a \notin LivePtrs(u.live) /\ \E b \in u.backing : b.addr = a
  <2> SUFFICES ASSUME NEW a \in u.protected \cap u.freed
               PROVE  a \notin LivePtrs(M) /\ \E b \in C : b.addr = a
    BY <1>8
  <2>1. CASE a = p
    <3>1. u.protected # {}  OBVIOUS
    <3>2. C = B  BY <3>1, <1>2, <1>15 DEF DebugDrops
    <3>3. Block(r.ptr, r.padded) \in B /\ Block(r.ptr, r.padded).addr = r.ptr  BY <1>1 DEF LiveSound, Block
    <3> QED  BY <2>1, <3>2, <3>3, <1>5
  <2>2. CASE a # p
    <3>1. a \in s.protected \cap s.freed  BY <2>2 DEF DebugDrops
    <3>2. a \notin LivePtrs(L) /\ \E b \in B : b.addr = a  BY <3>1 DEF DebugDrops, DebugSound
    <3> QED  BY <3>2, <2>2, <1>2, <1>5
  <2> QED  BY <2>1, <2>2
<1>17. /\ IsFiniteSet(u.smashed) /\ u.smashed \subseteq LivePtrs(M)
       /\ u.config.detect_overflow => u.overruns = u.overflows + Cardinality(u.smashed)
  <2> DEFINE S == s.smashed
             c == Cardinality(S)
             d == Cardinality(S \ {p})
  <2>1. u.smashed = S \ {p} /\ u.config = s.config /\ u.overruns = s.overruns  BY DEF DebugDrops
  <2>2. IsFiniteSet(S \ {p}) /\ c \in Nat /\ d = (IF p \in S THEN c - 1 ELSE c)
    BY <1>9, FS_RemoveElement, FS_CardinalityType
  <2>3. S \ {p} \subseteq LivePtrs(M)  BY <1>5, <1>9
  <2>4. s.config.detect_overflow => u.overflows = (IF p \in S THEN s.overflows + 1 ELSE s.overflows)
    BY DEF DebugDrops
  <2> HIDE DEF S, c, d
  <2>5. s.config.detect_overflow => s.overruns = s.overflows + c  BY <1>9 DEF c, S
  <2>6. s.config.detect_overflow => s.overruns = u.overflows + d
    BY <2>2, <2>4, <2>5, <1>10
  <2> QED  BY <2>1, <2>2, <2>3, <2>6 DEF d
<1>18. H \ {x} = HeldOf(u.live)  BY <1>1, <1>5, <1>8
<1>19. LiveSound(u.live, u.backing, Canary(u)) /\ BackingSound(u.backing)  BY <1>3, <1>5, <1>8
<1> QED
  BY <1>7, <1>8, <1>12, <1>14, <1>15, <1>16, <1>17, <1>18, <1>19 DEF DebugSound

\* The steps of a free of a live block, as one.
LEMMA DebugFreedIs ==
  ASSUME NEW s, NEW H, DebugSound(s, H), NEW r \in s.live,
         NEW c, c = OverflowCheck(s, r.ptr), NEW t \in Historied(c, r.ptr),
         NEW u, u = Retired(Discharge([t EXCEPT !.live = @ \ {r}, !.bytes_in_use = @ - r.requested],
                                      r.requested), r.ptr)
  PROVE  DebugDrops(s, H, r, u)
<1> DEFINE p == r.ptr
           n == r.requested
           S == s.smashed \ {p}
           O == IF s.config.detect_overflow /\ p \in s.smashed THEN s.overflows + 1 ELSE s.overflows
           M == s.live \ {r}
           v == s.bytes_in_use - n
           B == BackingBlock(s, p)
<1>1. s \in DebugRecord /\ r \in LiveRecord /\ s.in_use = s.bytes_in_use /\ s.bytes_in_use = Total(Requested(s.live))
  BY DEF DebugSound, LiveSound
<1>2. n <= s.in_use
  <2> DEFINE L == s.live
             k == Canary(s)
             C == s.backing
  <2>1. LiveSound(L, C, k) /\ \A q \in L : Block(q.ptr, q.padded) \in C  BY DEF DebugSound, LiveSound
  <2>2. s.in_use = Total(Requested(L))  BY <1>1
  <2>3. r \in L  OBVIOUS
  <2> HIDE DEF L, k, C
  <2>4. r.requested <= Total(Requested(L))  BY <2>1, <2>3, LiveLess
  <2> QED  BY <2>2, <2>4
<1>3. c = [s EXCEPT !.smashed = S, !.overflows = O]
  <2>1. [s EXCEPT !.smashed = S].overflows = s.overflows  BY <1>1 DEF DebugRecord
  <2> HIDE DEF S
  <2>2. [s EXCEPT !.smashed = S] = [s EXCEPT !.smashed = S, !.overflows = s.overflows]
    BY <1>1 DEF DebugRecord
  <2> QED  BY <2>1, <2>2 DEF OverflowCheck, debug_check_canary, S
<1> HIDE DEF S, O
<1>4. PICK F : F \subseteq s.freed \cup {p} /\ t = [s EXCEPT !.smashed = S, !.overflows = O, !.freed = F]
  <2>1. c.freed = s.freed /\ c = [s EXCEPT !.smashed = S, !.overflows = O, !.freed = s.freed]
    BY <1>1, <1>3 DEF DebugRecord
  <2>2. t = c \/ t = [c EXCEPT !.freed = s.freed \cup {p}]
    BY <2>1 DEF Historied
  <2>3. [c EXCEPT !.freed = s.freed \cup {p}] = [s EXCEPT !.smashed = S, !.overflows = O, !.freed = s.freed \cup {p}]
    BY <1>3
  <2> QED  BY <2>1, <2>2, <2>3
<1>5. t.live = s.live /\ t.bytes_in_use = s.bytes_in_use /\ t.in_use = s.in_use
  BY <1>1, <1>4 DEF DebugRecord
<1> DEFINE d == Discharge([t EXCEPT !.live = @ \ {r}, !.bytes_in_use = @ - r.requested], r.requested)
           w == s.in_use - n
<1>6. d = [s EXCEPT !.smashed = S, !.overflows = O, !.freed = F, !.live = M, !.bytes_in_use = v, !.in_use = w]
  <2>1. [t EXCEPT !.live = @ \ {r}, !.bytes_in_use = @ - r.requested] = [t EXCEPT !.live = M, !.bytes_in_use = v]
    BY <1>5
  <2> HIDE DEF M, v
  <2>2. [t EXCEPT !.live = M, !.bytes_in_use = v].in_use = s.in_use  BY <1>5
  <2>3. d = [[t EXCEPT !.live = M, !.bytes_in_use = v] EXCEPT !.in_use = w]
    BY <2>1, <2>2, <1>2 DEF Discharge
  <2> HIDE DEF w, d
  <2>4. d = [t EXCEPT !.live = M, !.bytes_in_use = v, !.in_use = w]  BY <2>3
  <2> QED  BY <2>4, <1>1, <1>4 DEF DebugRecord
<1>7. u = Retired(d, p)  OBVIOUS
<1> HIDE DEF d, M, v, w, p
<1>8. d.config = s.config /\ d.protected = s.protected /\ d.backing = s.backing  BY <1>1, <1>6 DEF DebugRecord
<1>9. CASE s.config.force_page_backing
  <2> DEFINE P == s.protected \cup {p}
  <2>1. u = [d EXCEPT !.protected = P]  BY <1>7, <1>8, <1>9 DEF Retired
  <2> HIDE DEF P
  <2>2. /\ u.config = s.config /\ u.live = M /\ u.freed = F /\ u.overflows = O /\ u.smashed = S
        /\ u.overruns = s.overruns /\ u.backing = s.backing /\ u.protected = P
        /\ u.bytes_in_use = v /\ u.in_use = w
        /\ u = [config |-> u.config, live |-> u.live, freed |-> u.freed, overflows |-> u.overflows,
                smashed |-> u.smashed, overruns |-> u.overruns, backing |-> u.backing,
                protected |-> u.protected, bytes_in_use |-> u.bytes_in_use, in_use |-> u.in_use,
                footprint |-> 0, dirty |-> {}]
    BY <2>1, <1>1, <1>6 DEF DebugRecord
  <2> QED  BY <2>2, <1>4, <1>9 DEF DebugDrops, P, M, S, O, v, w, p
<1>10. CASE ~s.config.force_page_backing
  <2> DEFINE C == s.backing \ B
  <2>1. BackingBlock(d, p) = B  BY <1>8 DEF BackingBlock
  <2>2. u = [d EXCEPT !.backing = C]  BY <2>1, <1>7, <1>8, <1>10 DEF Retired, ToBacking
  <2> HIDE DEF C
  <2>3. /\ u.config = s.config /\ u.live = M /\ u.freed = F /\ u.overflows = O /\ u.smashed = S
        /\ u.overruns = s.overruns /\ u.backing = C /\ u.protected = s.protected
        /\ u.bytes_in_use = v /\ u.in_use = w
        /\ u = [config |-> u.config, live |-> u.live, freed |-> u.freed, overflows |-> u.overflows,
                smashed |-> u.smashed, overruns |-> u.overruns, backing |-> u.backing,
                protected |-> u.protected, bytes_in_use |-> u.bytes_in_use, in_use |-> u.in_use,
                footprint |-> 0, dirty |-> {}]
    BY <2>2, <1>1, <1>6 DEF DebugRecord
  <2> QED  BY <2>3, <1>4, <1>10 DEF DebugDrops, C, B, M, S, O, v, w, p
<1> QED  BY <1>9, <1>10

\* Freeing a held block never aborts and gives back that block only.
LEMMA DebugFreeOK ==
  ASSUME DebugConstants, NEW s, NEW H, DebugSound(s, H), NEW x \in H,
         NEW o \in debug_allocator_deallocate(s, x.addr)
  PROVE  ~o.abort /\ o.self.dirty = {} /\ DebugSound(o.self, H \ {x})
<1>1. PICK r \in s.live : x = Block(r.ptr, r.requested)  BY DEF DebugSound, HeldOf
<1>2. x.addr = r.ptr /\ x.addr \in Addrs(H)  BY <1>1 DEF Block, Addrs
<1>3. Record(s, r.ptr) = r /\ IsLive(s, r.ptr)  BY <1>2, LiveAreHeld
<1>4. r.ptr # NULL  BY DEF DebugSound, LiveSound, LiveRecord, NULL
<1> DEFINE c == OverflowCheck(s, r.ptr)
           Final(t) == Retired(Discharge([t EXCEPT !.live = @ \ {r}, !.bytes_in_use = @ - r.requested],
                                         r.requested), r.ptr)
<1>5. \E t \in Historied(c, r.ptr) : o = Gives(Final(t), r.requested)
  BY <1>2, <1>3, <1>4 DEF debug_allocator_deallocate
<1>6. PICK t \in Historied(c, r.ptr) : o = Gives(Final(t), r.requested)  BY <1>5
<1> DEFINE u == Final(t)
<1>7. u = Retired(Discharge([t EXCEPT !.live = @ \ {r}, !.bytes_in_use = @ - r.requested], r.requested), r.ptr)
  OBVIOUS
<1>8. o.self = u /\ ~o.abort  BY <1>6 DEF Gives
<1> HIDE DEF c, u
<1>9. DebugDrops(s, H, r, u)
  <2>1. c = OverflowCheck(s, r.ptr)  BY DEF c
  <2> QED  BY <2>1, <1>7, DebugFreedIs
<1>10. u.dirty = {}  BY <1>9 DEF DebugDrops
<1>11. DebugSound(u, H \ {Block(r.ptr, r.requested)})  BY <1>9, DebugDropped
<1> QED  BY <1>1, <1>8, <1>10, <1>11

\* A pointer that is not held ends the program, or is a protected block whose
\* free the history did not take, which goes back to the pages.
LEMMA DebugStaleOK ==
  ASSUME DebugConstants, NEW s, NEW H, DebugSound(s, H), NEW a \in Nat \ {0}, a \notin Addrs(H),
         NEW o \in debug_allocator_deallocate(s, a), ~o.abort
  PROVE  DebugSound(o.self, H)
<1> DEFINE B == s.backing
           L == s.live
           C == B \ BackingBlock(s, a)
           u == ToBacking(s, a)
<1>1. ~IsLive(s, a) /\ a \notin LivePtrs(L)  BY LiveAreHeld
<1>2. o \in NotLive(s, a)  BY <1>1 DEF debug_allocator_deallocate, NULL
<1>3. a \notin s.freed /\ BackingBlock(s, a) # {} /\ o = Fails(u)
  BY <1>2 DEF NotLive, Aborts
<1>4. o.self = u  BY <1>3 DEF Fails, Gives
<1>5. /\ s \in DebugRecord /\ BackingSound(B) /\ LiveSound(L, B, Canary(s)) /\ WellHeld(H) /\ H = HeldOf(L)
      /\ IsFiniteSet(s.smashed) /\ s.smashed \subseteq LivePtrs(L)
      /\ s.config.detect_overflow => s.overruns = s.overflows + Cardinality(s.smashed)
      /\ s.bytes_in_use = Total(Requested(L)) /\ s.in_use = s.bytes_in_use
      /\ \A f \in s.protected \cap s.freed : f \notin LivePtrs(L) /\ \E b \in B : b.addr = f
      /\ ~s.config.force_page_backing => B = {Block(r.ptr, r.padded) : r \in L}
  BY DEF DebugSound
<1>6. s.config.force_page_backing
  <2> SUFFICES ASSUME ~s.config.force_page_backing PROVE FALSE  OBVIOUS
  <2>1. PICK b \in B : b.addr = a  BY <1>3 DEF BackingBlock
  <2>2. PICK r \in L : b = Block(r.ptr, r.padded)  BY <1>5, <2>1
  <2> QED  BY <2>1, <2>2, <1>1 DEF Block, LivePtrs
<1>7. C \subseteq B /\ \A b \in B : b.addr # a => b \in C  BY DEF BackingBlock
<1>8. u = [s EXCEPT !.backing = C]  BY DEF ToBacking
<1> HIDE DEF C, u, B, L
<1>9. BackingSound(C)  BY <1>5, <1>7, BackingLess
<1>10. LiveSound(L, C, Canary(s))
  <2>1. \A r \in L : Block(r.ptr, r.padded) \in C
    <3> SUFFICES ASSUME NEW r \in L PROVE Block(r.ptr, r.padded) \in C  OBVIOUS
    <3>1. r.ptr # a /\ Block(r.ptr, r.padded) \in B  BY <1>1, <1>5 DEF LivePtrs, LiveSound
    <3> QED  BY <3>1, <1>7 DEF Block
  <2> QED  BY <2>1, <1>5 DEF LiveSound
<1>11. u \in DebugRecord
  <2>1. C \in SUBSET Blocks  BY <1>9 DEF BackingSound
  <2> QED  BY <2>1, <1>5, <1>8 DEF DebugRecord
<1>12. /\ u.config = s.config /\ u.live = L /\ u.freed = s.freed /\ u.overflows = s.overflows /\ u.smashed = s.smashed
       /\ u.overruns = s.overruns /\ u.backing = C /\ u.protected = s.protected
       /\ u.bytes_in_use = s.bytes_in_use /\ u.in_use = s.in_use
  BY <1>5, <1>8 DEF DebugRecord, L
<1>13. Canary(u) = Canary(s)  BY <1>12 DEF Canary
<1>14. \A f \in s.protected \cap s.freed : f \notin LivePtrs(L) /\ \E b \in C : b.addr = f
  BY <1>3, <1>5, <1>7
<1> QED  BY <1>4, <1>5, <1>6, <1>9, <1>10, <1>11, <1>12, <1>13, <1>14 DEF DebugSound

\* A remap moves the block to one of the new size, or keeps it.
LEMMA DebugRemapOK ==
  ASSUME DebugConstants, NEW s, NEW H, DebugSound(s, H), NEW x \in H, NEW n \in Nat,
         NEW o \in debug_allocator_remap(s, x.addr, n)
  PROVE  /\ ~o.abort
         /\ o.ptr = NULL => DebugSound(o.self, IF n = 0 THEN H \ {x} ELSE H)
         /\ o.ptr # NULL => /\ n # 0 /\ o.ptr \in Nat \ {0} /\ o.ptr \notin Addrs(H \ {x})
                            /\ DebugSound(o.self, (H \ {x}) \cup {Block(o.ptr, n)})
<1> DEFINE a == x.addr
<1>1. a \in Nat \ {0} /\ IsLive(s, a) /\ WellHeld(H)
  BY LiveAreHeld DEF DebugSound, WellHeld, Addrs
<1>2. CASE n = 0
  <2>1. PICK f \in debug_allocator_deallocate(s, a) : o = [f EXCEPT !.ptr = NULL]
    BY <1>2 DEF debug_allocator_remap
  <2>2. ~f.abort /\ DebugSound(f.self, H \ {x})  BY <2>1, DebugFreeOK
  <2>3. \E w, p, b : f = [self |-> w, ptr |-> p, abort |-> b]
    BY <1>1, <2>1 DEF debug_allocator_deallocate, Gives, Fails, Aborts, NotLive
  <2>4. o.ptr = NULL /\ o.self = f.self /\ o.abort = f.abort  BY <2>1, <2>3
  <2> QED  BY <1>2, <2>2, <2>4
<1>3. CASE n # 0
  <2>1. \E g \in debug_allocator_allocate(s, n, FALSE) :
           IF g.ptr = NULL THEN o = g
           ELSE \E f \in debug_allocator_deallocate(g.self, a) : o = Gives(f.self, g.ptr)
    BY <1>1, <1>3 DEF debug_allocator_remap, NULL
  <2>2. PICK g \in debug_allocator_allocate(s, n, FALSE) :
           IF g.ptr = NULL THEN o = g
           ELSE \E f \in debug_allocator_deallocate(g.self, a) : o = Gives(f.self, g.ptr)
    BY <2>1
  <2> DEFINE p == g.ptr
             y == Block(g.ptr, n)
             K == H \cup {y}
  <2>3. /\ ~g.abort
        /\ g.ptr = NULL => DebugSound(g.self, H)
        /\ g.ptr # NULL => /\ p \in Nat \ {0} /\ p \notin Addrs(H) /\ DebugSound(g.self, K)
    BY DebugAllocOK
  <2>4. CASE g.ptr = NULL
    BY <2>2, <2>3, <2>4, <1>3
  <2>5. CASE g.ptr # NULL
    <3>1. PICK f \in debug_allocator_deallocate(g.self, a) : o = Gives(f.self, g.ptr)  BY <2>2, <2>5
    <3>2. DebugSound(g.self, K) /\ x \in K /\ p \notin Addrs(H)  BY <2>3, <2>5
    <3>3. DebugSound(f.self, K \ {x})
      <4> HIDE DEF K
      <4> QED  BY <3>1, <3>2, DebugFreeOK
    <3>4. y # x /\ y.addr = p  BY <3>2 DEF Block, Addrs
    <3>5. K \ {x} = (H \ {x}) \cup {y}  BY <3>4
    <3>6. o.self = f.self /\ o.ptr = p /\ ~o.abort  BY <3>1 DEF Gives
    <3>7. p \notin Addrs(H \ {x})  BY <3>2 DEF Addrs
    <3> QED  BY <1>3, <2>3, <2>5, <3>3, <3>5, <3>6, <3>7
  <2> QED  BY <2>4, <2>5
<1> QED  BY <1>2, <1>3

\* An overrun of a block smashes its canary and touches no book.
LEMMA DebugOverrunOK ==
  ASSUME NEW s, NEW H, DebugSound(s, H), NEW x \in H, x.addr \notin s.smashed
  PROVE  DebugSound(Overrun(s, x.addr), H)
<1> DEFINE a == x.addr
           S == s.smashed \cup {a}
           n == s.overruns + 1
           u == Overrun(s, a)
<1>1. s \in DebugRecord /\ IsFiniteSet(s.smashed) /\ s.smashed \subseteq LivePtrs(s.live) /\ WellHeld(H)
      /\ (s.config.detect_overflow => s.overruns = s.overflows + Cardinality(s.smashed))
  BY DEF DebugSound
<1>2. a \in LivePtrs(s.live) /\ a \in Nat  BY <1>1, LiveAreHeld DEF Addrs, WellHeld
<1>3. u = [s EXCEPT !.smashed = S, !.overruns = n]  BY DEF Overrun
<1>4. S \subseteq Nat /\ n \in Nat /\ s.overflows \in Nat /\ s.overruns \in Nat  BY <1>1, <1>2 DEF DebugRecord
<1>5. IsFiniteSet(S) /\ Cardinality(S) = Cardinality(s.smashed) + 1 /\ Cardinality(s.smashed) \in Nat
  BY <1>1, FS_AddElement, FS_CardinalityType
<1>6. S \subseteq LivePtrs(s.live)  BY <1>1, <1>2
<1>7. s.config.detect_overflow => n = s.overflows + Cardinality(S)
  <2> SUFFICES ASSUME s.config.detect_overflow PROVE n = s.overflows + Cardinality(S)  OBVIOUS
  <2> DEFINE c == Cardinality(s.smashed)
             d == Cardinality(S)
             v == s.overflows
             w == s.overruns
  <2>1. w = v + c /\ d = c + 1 /\ n = w + 1 /\ c \in Nat /\ v \in Nat /\ w \in Nat  BY <1>1, <1>4, <1>5
  <2> HIDE DEF c, d, v, w, n
  <2>2. n = v + d  BY <2>1
  <2> QED  BY <2>2 DEF v, d
<1> HIDE DEF S, n, u
<1>8. u \in DebugRecord /\ u.config = s.config /\ u.live = s.live /\ u.freed = s.freed
      /\ u.overflows = s.overflows /\ u.smashed = S /\ u.overruns = n /\ u.backing = s.backing
      /\ u.protected = s.protected /\ u.bytes_in_use = s.bytes_in_use /\ u.in_use = s.in_use
  BY <1>1, <1>3, <1>4 DEF DebugRecord
<1>9. Canary(u) = Canary(s)  BY <1>8 DEF Canary
<1>10. DebugSound(u, H)  BY <1>5, <1>6, <1>7, <1>8, <1>9 DEF DebugSound
<1> QED  BY <1>10 DEF u

\* A new debug allocator holds nothing and its books are sound.
LEMMA DebugInitOK ==
  ASSUME NEW config \in DebugConfigs
  PROVE  DebugSound(DebugInit(config), {})
<1> DEFINE s == DebugInit(config)
<1>1. s \in DebugRecord  BY DEF DebugInit, DebugRecord
<1>2. IsFiniteSet({}) /\ Cardinality({}) = 0  BY FS_EmptySet
<1>3. /\ s.config = config /\ s.live = {} /\ s.freed = {} /\ s.smashed = {} /\ s.backing = {} /\ s.protected = {}
      /\ s.overflows = 0 /\ s.overruns = 0 /\ s.bytes_in_use = 0 /\ s.in_use = 0
  BY DEF DebugInit
<1>4. Total(Requested({})) = 0
  <2>1. UNION {{x} \X (1..Requested({})[x]) : x \in DOMAIN Requested({})} = {}  BY DEF Requested
  <2> QED  BY <2>1, <1>2 DEF Total
<1>5. HeldOf({}) = {} /\ LivePtrs({}) = {}  BY DEF HeldOf, LivePtrs
<1> HIDE DEF s
<1>6. BackingSound(s.backing) /\ LiveSound(s.live, s.backing, Canary(s))  BY <1>2, <1>3 DEF BackingSound, LiveSound
<1>7. s.overruns = s.overflows + Cardinality(s.smashed)  BY <1>2, <1>3
<1>8. DebugSound(s, {})
  BY <1>1, <1>2, <1>3, <1>4, <1>5, <1>6, <1>7, NoneHeld DEF DebugSound
<1> QED  BY <1>8 DEF s

\* Deinit unmaps every page.
LEMMA DebugDeinitOK ==
  ASSUME NEW s, NEW H, DebugSound(s, H)
  PROVE  DebugAllocatorDeinit(s).footprint = 0
BY DEF DebugSound, DebugRecord, DebugAllocatorDeinit

\* Sound debug books state the invariant, and every block has the room it asked for.
LEMMA DebugBooksOK ==
  ASSUME NEW s, NEW H, DebugSound(s, H)
  PROVE  DebugInv(s, H) /\ \A b \in H : b.len <= DebugRoom(s, b.addr)
<1> DEFINE L == s.live
           B == s.backing
<1>1. /\ s \in DebugRecord /\ LiveSound(L, B, Canary(s)) /\ H = HeldOf(L) /\ WellHeld(H)
      /\ s.bytes_in_use = Total(Requested(L)) /\ s.in_use = s.bytes_in_use
      /\ (s.config.detect_overflow => s.overruns = s.overflows + Cardinality(s.smashed))
      /\ (\A a \in s.protected \cap s.freed : a \notin LivePtrs(L))
      /\ (~s.config.force_page_backing => B = {Block(r.ptr, r.padded) : r \in L})
      /\ IsFiniteSet(s.smashed)
  BY DEF DebugSound
<1>2. {[addr |-> r.ptr, len |-> r.requested] : r \in L} = H  BY <1>1 DEF HeldOf, Block
<1>3. \A r \in L : [addr |-> r.ptr, len |-> r.padded] \in B  BY <1>1 DEF LiveSound, Block
<1>4. ~s.config.force_page_backing => Cardinality(B) = Cardinality(L)
  <2> SUFFICES ASSUME B = {Block(r.ptr, r.padded) : r \in L} PROVE Cardinality(B) = Cardinality(L)
    BY <1>1
  <2> DEFINE f == [r \in L |-> Block(r.ptr, r.padded)]
  <2>1. \A q, r \in L : Block(q.ptr, q.padded) = Block(r.ptr, r.padded) => q = r
    BY <1>1 DEF LiveSound, Block
  <2>2. f \in Bijection(L, B)
    <3> HIDE DEF L, B
    <3> QED  BY <2>1 DEF Bijection, Injection, Surjection, IsInjective, B
  <2> HIDE DEF f
  <2>3. IsFiniteSet(L)  BY <1>1 DEF LiveSound
  <2> QED  BY <2>2, <2>3, FS_Bijection DEF ExistsBijection
<1>5. s.bytes_in_use = Total([r \in L |-> r.requested])  BY <1>1 DEF Requested
<1>6. s.config.detect_overflow => s.overflows = s.overruns - Cardinality(s.smashed)
  <2> DEFINE c == Cardinality(s.smashed)
             v == s.overflows
             w == s.overruns
  <2>1. c \in Nat /\ v \in Nat /\ w \in Nat  BY <1>1, FS_CardinalityType DEF DebugRecord
  <2> HIDE DEF c, v, w
  <2>2. w = v + c => v = w - c  BY <2>1
  <2> QED  BY <2>2, <1>1 DEF c, v, w
<1>7. \A r \in L : r.ptr \in s.protected => r.ptr \notin s.freed  BY <1>1 DEF LivePtrs
<1>8. DebugInv(s, H)  BY <1>1, <1>2, <1>3, <1>4, <1>5, <1>6, <1>7 DEF DebugInv
<1>9. ASSUME NEW b \in H PROVE b.len <= DebugRoom(s, b.addr)
  <2>1. PICK r \in L : b = Block(r.ptr, r.requested)  BY <1>1 DEF HeldOf
  <2>2. b.addr = r.ptr /\ b.len = r.requested  BY <2>1 DEF Block
  <2>3. Record(s, r.ptr) = r  BY LiveAreHeld
  <2>4. r.requested \in Nat  BY <1>1 DEF LiveSound, LiveRecord
  <2> QED  BY <2>2, <2>3, <2>4 DEF DebugRoom
<1> QED  BY <1>8, <1>9

\* The struct s of an allocator of kind k is sound for the blocks H.
Sound(k, s, H) ==
    /\ k \in {"slab", "page", "arena", "debug"}
    /\ k = "slab" => SlabSound(s, H)
    /\ k = "page" => PageSound(s, H)
    /\ k = "arena" => ArenaSound(s, H)
    /\ k = "debug" => DebugSound(s, H)

\* The constants suit each of the allocators.
LEMMA ConstantsAre ==
  SlabConstants /\ PageTablesAre /\ ArenaConstants /\ DebugConstants /\ ChunkHeader \in Nat
BY DispatchAssumption DEF SlabConstants, PageTablesAre, ArenaConstants, DebugConstants

\* Blocks of any sound allocator are apart.
LEMMA SoundHeld ==
  ASSUME NEW k, NEW s, NEW H, Sound(k, s, H)
  PROVE  WellHeld(H)
<1>1. CASE k = "slab"  BY <1>1 DEF Sound, SlabSound
<1>2. CASE k = "page"  BY <1>2 DEF Sound, PageSound
<1>3. CASE k = "arena"  BY <1>3 DEF Sound, ArenaSound, ArenaKeeps
<1>4. CASE k = "debug"  BY <1>4 DEF Sound, DebugSound
<1> QED  BY <1>1, <1>2, <1>3, <1>4 DEF Sound

\* What the callers write touches no struct.
LEMMA WrittenOK ==
  ASSUME NEW s, NEW H, Sound(kind, s, H), NEW a \in Nat, NEW n \in Nat
  PROVE  Sound(kind, Written(s, a, n), H)
<1> DEFINE D == s.dirty \cup Bytes(a, n)
           t == [s EXCEPT !.dirty = D]
<1>1. CASE kind = "debug"  BY <1>1 DEF Written, Sound
<1>2. CASE kind # "debug"
  <2>1. Written(s, a, n) = t  BY <1>2 DEF Written
  <2>2. CASE kind = "slab"  BY <2>1, <2>2, SlabWriteOK DEF Sound
  <2> HIDE DEF t
  <2>3. t = [s EXCEPT !.dirty = s.dirty \cup Bytes(a, n)]  BY DEF t
  <2>4. CASE kind = "page"
    <3>1. PageSound(s, H)  BY <2>4 DEF Sound
    <3>2. PageSound(t, H)  BY <2>3, <3>1, PageWriteOK
    <3> QED  BY <2>1, <2>4, <3>2 DEF Sound
  <2>5. CASE kind = "arena"
    <3>1. ArenaSound(s, H)  BY <2>5 DEF Sound
    <3>2. ArenaSound(t, H)  BY <2>3, <3>1, ArenaWriteOK
    <3> QED  BY <2>1, <2>5, <3>2 DEF Sound
  <2> QED  BY <1>2, <2>2, <2>4, <2>5 DEF Sound
<1> QED  BY <1>1, <1>2

\* An attempt at an allocation gives a block of its own, or nothing.
LEMMA AllocateOK ==
  ASSUME NEW H, Sound(kind, self, H), NEW n \in Nat, NEW z \in BOOLEAN, NEW o \in allocate(n, z)
  PROVE  /\ ~o.abort
         /\ o.ptr = NULL => Sound(kind, o.self, H)
         /\ o.ptr # NULL => /\ n # 0 /\ o.ptr \in Nat \ {0} /\ o.ptr \notin Addrs(H)
                            /\ Sound(kind, o.self, H \cup {Block(o.ptr, n)})
                            /\ z => Bytes(o.ptr, n) \cap o.self.dirty = {}
<1>1. CASE kind = "slab"
  <2>1. SlabSound(self, H) /\ o \in slab_allocator_allocate(self, n, z)  BY <1>1 DEF Sound, allocate
  <2> QED  BY <2>1, <1>1, ConstantsAre, SlabAllocOK DEF Sound
<1>2. CASE kind = "page"
  <2>1. PageSound(self, H) /\ o \in page_allocator_allocate(self, n, z)  BY <1>2 DEF Sound, allocate
  <2> QED  BY <2>1, <1>2, ConstantsAre, PageAllocOK DEF Sound
<1>3. CASE kind = "arena"
  <2>1. ArenaSound(self, H) /\ o \in arena_allocator_allocate(self, n, z)  BY <1>3 DEF Sound, allocate
  <2> QED  BY <2>1, <1>3, ConstantsAre, ArenaAllocOK DEF Sound
<1>4. CASE kind = "debug"
  <2>1. DebugSound(self, H) /\ o \in debug_allocator_allocate(self, n, z)  BY <1>4 DEF Sound, allocate
  <2> QED  BY <2>1, <1>4, ConstantsAre, DebugAllocOK DEF Sound
<1> QED  BY <1>1, <1>2, <1>3, <1>4 DEF Sound

\* A remap of a block that is held replaces it, frees it, or leaves it; only
\* the arena's may end the program.
LEMMA RemapOK ==
  ASSUME NEW H, Sound(kind, self, H), NEW x \in H, NEW n \in Nat, NEW o \in remap(x.addr, n)
  PROVE  /\ kind # "arena" => ~o.abort
         /\ ~o.abort /\ o.ptr = NULL => Sound(kind, o.self, IF n = 0 THEN H \ {x} ELSE H)
         /\ ~o.abort /\ o.ptr # NULL =>
               /\ n # 0 /\ o.ptr \in Nat \ {0} /\ o.ptr \notin Addrs(H \ {x})
               /\ Sound(kind, o.self, (H \ {x}) \cup {Block(o.ptr, n)})
<1>1. CASE kind = "slab"
  <2>1. SlabSound(self, H) /\ o \in slab_allocator_remap(self, x.addr, n)  BY <1>1 DEF Sound, remap
  <2> QED  BY <2>1, <1>1, ConstantsAre, SlabRemapOK DEF Sound
<1>2. CASE kind = "page"
  <2>1. PageSound(self, H) /\ o \in page_allocator_remap(self, x.addr, n)  BY <1>2 DEF Sound, remap
  <2> QED  BY <2>1, <1>2, ConstantsAre, PageRemapOK DEF Sound
<1>3. CASE kind = "arena"
  <2>1. ArenaSound(self, H) /\ o \in arena_allocator_remap(self, x.addr, n)  BY <1>3 DEF Sound, remap
  <2> QED  BY <2>1, <1>3, ConstantsAre, ArenaRemapOK DEF Sound
<1>4. CASE kind = "debug"
  <2>1. DebugSound(self, H) /\ o \in debug_allocator_remap(self, x.addr, n)  BY <1>4 DEF Sound, remap
  <2> QED  BY <2>1, <1>4, ConstantsAre, DebugRemapOK DEF Sound
<1> QED  BY <1>1, <1>2, <1>3, <1>4 DEF Sound

\* A resize that succeeds changes the length of the block and nothing else.
LEMMA ResizeOK ==
  ASSUME NEW H, Sound(kind, self, H), NEW x \in H, NEW n \in Nat \ {0}, NEW o \in resize(x.addr, n), o.ptr # NULL
  PROVE  x.addr \notin Addrs(H \ {x}) /\ Sound(kind, o.self, (H \ {x}) \cup {Block(x.addr, n)})
<1>5. x.addr \notin Addrs(H \ {x})
  <2>1. WellHeld(H)  BY SoundHeld
  <2> QED  BY <2>1, HeldLess
<1>1. CASE kind = "slab"
  <2>1. SlabSound(self, H) /\ o \in slab_allocator_resize(self, x.addr, n)  BY <1>1 DEF Sound, resize
  <2> QED  BY <2>1, <1>1, ConstantsAre, SlabResizeOK DEF Sound
<1>2. CASE kind = "page"
  <2>1. PageSound(self, H) /\ o \in page_allocator_resize(self, x.addr, n)  BY <1>2 DEF Sound, resize
  <2> DEFINE K == (H \ {x}) \cup {Block(x.addr, n)}
  <2>2. o.self = self  BY <2>1 DEF page_allocator_resize, Gives
  <2>3. PageSound(self, K)  BY <2>1, PageResizeOK
  <2> HIDE DEF K
  <2>4. Sound(kind, o.self, K)  BY <2>2, <2>3, <1>2 DEF Sound
  <2> QED  BY <2>4, <1>5 DEF K
<1>3. CASE kind = "arena"
  <2>1. ArenaSound(self, H) /\ o \in arena_allocator_resize(self, x.addr, n)  BY <1>3 DEF Sound, resize
  <2> DEFINE K == (H \ {x}) \cup {Block(x.addr, n)}
  <2>2. ArenaSound(o.self, K)  BY <2>1, ConstantsAre, ArenaResizeOK
  <2> HIDE DEF K
  <2>3. Sound(kind, o.self, K)  BY <2>2, <1>3 DEF Sound
  <2> QED  BY <2>3, <1>5 DEF K
<1>4. CASE kind = "debug"
  <2>1. o \in debug_allocator_resize(self, x.addr, n)  BY <1>4 DEF resize
  <2> QED  BY <2>1 DEF debug_allocator_resize, Fails, Gives
<1> QED  BY <1>1, <1>2, <1>3, <1>4 DEF Sound

\* A free of a block that is held takes it away.
LEMMA FreeOK ==
  ASSUME NEW H, Sound(kind, self, H), NEW x \in H, NEW o \in deallocate(x.addr)
  PROVE  ~o.abort /\ Sound(kind, o.self, H \ {x})
<1>1. CASE kind = "slab"
  <2>1. SlabSound(self, H) /\ o \in slab_allocator_deallocate(self, x.addr)  BY <1>1 DEF Sound, deallocate
  <2> QED  BY <2>1, <1>1, ConstantsAre, SlabFreeOK DEF Sound
<1>2. CASE kind = "page"
  <2>1. PageSound(self, H) /\ o \in page_allocator_deallocate(self, x.addr)  BY <1>2 DEF Sound, deallocate
  <2> QED  BY <2>1, <1>2, ConstantsAre, PageFreeOK DEF Sound
<1>3. CASE kind = "arena"
  <2>1. ArenaSound(self, H) /\ o \in arena_allocator_deallocate(self, x.addr)  BY <1>3 DEF Sound, deallocate
  <2>2. WellHeld(H)  BY SoundHeld
  <2>3. x.addr \in Nat \ {0} /\ x.addr \in Addrs(H)  BY <2>2 DEF WellHeld, Addrs
  <2>4. ~o.abort /\ ArenaSound(o.self, {b \in H : b.addr # x.addr})  BY <2>1, <2>3, ConstantsAre, ArenaFreeOK
  <2>5. {b \in H : b.addr # x.addr} = H \ {x}  BY <2>2, HeldUnique
  <2> QED  BY <2>4, <2>5, <1>3 DEF Sound
<1>4. CASE kind = "debug"
  <2>1. DebugSound(self, H) /\ o \in debug_allocator_deallocate(self, x.addr)  BY <1>4 DEF Sound, deallocate
  <2> QED  BY <2>1, <1>4, ConstantsAre, DebugFreeOK DEF Sound
<1> QED  BY <1>1, <1>2, <1>3, <1>4 DEF Sound

\* A free of anything else ends the program or takes nothing away.
LEMMA StaleOK ==
  ASSUME NEW H, Sound(kind, self, H), NEW a \in Nat \ {0}, a \notin Addrs(H), NEW o \in deallocate(a), ~o.abort
  PROVE  Sound(kind, o.self, H)
<1>1. CASE kind = "slab"
  <2>1. SlabSound(self, H) /\ o \in slab_allocator_deallocate(self, a)  BY <1>1 DEF Sound, deallocate
  <2> QED  BY <2>1, ConstantsAre, SlabStaleOK
<1>2. CASE kind = "page"
  <2>1. PageSound(self, H) /\ o \in page_allocator_deallocate(self, a)  BY <1>2 DEF Sound, deallocate
  <2> QED  BY <2>1, PageStaleOK
<1>3. CASE kind = "arena"
  <2>1. ArenaSound(self, H) /\ o \in arena_allocator_deallocate(self, a)  BY <1>3 DEF Sound, deallocate
  <2>2. ArenaSound(o.self, {b \in H : b.addr # a})  BY <2>1, ConstantsAre, ArenaFreeOK
  <2>3. {b \in H : b.addr # a} = H  BY DEF Addrs
  <2> QED  BY <2>2, <2>3, <1>3 DEF Sound
<1>4. CASE kind = "debug"
  <2>1. DebugSound(self, H) /\ o \in debug_allocator_deallocate(self, a)  BY <1>4 DEF Sound, deallocate
  <2> QED  BY <2>1, <1>4, ConstantsAre, DebugStaleOK DEF Sound
<1> QED  BY <1>1, <1>2, <1>3, <1>4 DEF Sound

\* A call under way: an allocation, or a remap of a block that is held.
AllocCalls == [op : {"alloc"}, n : Nat, zeroed : BOOLEAN, left : Nat \ {0}]
RemapCalls(H) == [op : {"remap"}, block : H, n : Nat, left : Nat \ {0}]

\* The inductive invariant: the call under way is one of the callers' and the books
\* are sound between its attempts.
DispatchInv ==
    /\ \E a \in Allocators : kind = a.kind
    /\ effort \in Efforts[kind]
    /\ call = Idle \/ call \in AllocCalls \/ call \in RemapCalls(held)
    /\ ended \in {"open", "deinit", "misuse"}
    /\ stale = FALSE
    /\ Open => Sound(kind, self, held)
    /\ ended = "deinit" => self.footprint = 0

\* The attempts a call is given are a number.
LEMMA AttemptLimit ==
  ASSUME NEW e, e.retry_limit \in Nat
  PROVE  allocator_attempt_limit(e) \in Nat
<1> DEFINE n == e.retry_limit
<1>1. n + 1 \in Nat /\ U32 \in Nat \ {0}  BY DispatchAssumption
<1>2. (n + 1) % U32 \in Nat  BY <1>1, DivProps
<1> QED  BY <1>2 DEF allocator_attempt_limit, n

\* What the call is after an attempt that failed.
LEMMA NextTryOK ==
  ASSUME call \in AllocCalls \/ call \in RemapCalls(held)
  PROVE  NextTry = Idle \/ NextTry \in AllocCalls \/ NextTry \in RemapCalls(held)
<1> DEFINE m == call.left - 1
<1>1. call.left \in Nat \ {0}  BY DEF AllocCalls, RemapCalls
<1>2. call.left # 1 => m \in Nat \ {0}  BY <1>1
<1> HIDE DEF m
<1>3. CASE call.left = 1  BY <1>3 DEF NextTry
<1>4. CASE call.left # 1
  <2>1. NextTry = [call EXCEPT !.left = m]  BY <1>4 DEF NextTry, m
  <2> QED  BY <2>1, <1>2, <1>4 DEF AllocCalls, RemapCalls
<1> QED  BY <1>3, <1>4

\* A call in flight is told from none, and its kind from its fields.
LEMMA OpsApart ==
  /\ Idle \notin AllocCalls /\ \A H : Idle \notin RemapCalls(H)
  /\ \A c \in AllocCalls : c.op = "alloc" /\ c.n \in Nat /\ c.zeroed \in BOOLEAN
  /\ \A H : \A c \in RemapCalls(H) : c.op = "remap" /\ c.n \in Nat /\ c.block \in H
  /\ Idle.op = "none"
BY DEF AllocCalls, RemapCalls, Idle

\* Any allocator a caller makes starts sound, with nothing held.
LEMMA DispatchStarts == DispatchInit => DispatchInv
<1> SUFFICES ASSUME DispatchInit PROVE DispatchInv  OBVIOUS
<1>1. PICK a \in Allocators : kind = a.kind /\ self = a.self  BY DEF DispatchInit
<1>2. effort \in Efforts[kind] /\ held = {} /\ call = Idle /\ ended = "open" /\ stale = FALSE
  BY DEF DispatchInit
<1>3. \/ a.kind = "slab" /\ SlotFits(a.self.slot_size) /\ a.self = SlabInit(a.self.slot_size)
      \/ a.kind = "page" /\ PageAligns(a.self.align) /\ a.self = PageInit(a.self.align)
      \/ a.kind = "arena" /\ a.self.align \in Nat \ {0} /\ a.self = ArenaInit(a.self.align)
      \/ a.kind = "debug" /\ a.self.config \in DebugConfigs /\ a.self = DebugInit(a.self.config)
  BY DispatchAssumption
<1>4. Sound(kind, self, held)
  <2>1. CASE a.kind = "slab"
    <3>1. SlotFits(a.self.slot_size) /\ self = SlabInit(a.self.slot_size)  BY <1>1, <1>3, <2>1
    <3>2. SlabSound(self, {})  BY <3>1, SlabInitOK
    <3> QED  BY <3>2, <2>1, <1>1, <1>2 DEF Sound
  <2>2. CASE a.kind = "page"
    <3>1. PageAligns(a.self.align) /\ self = PageInit(a.self.align)  BY <1>1, <1>3, <2>2
    <3>2. PageSound(self, {})  BY <3>1, PageInitOK, ConstantsAre
    <3> QED  BY <3>2, <2>2, <1>1, <1>2 DEF Sound
  <2>3. CASE a.kind = "arena"
    <3>1. a.self.align \in Nat \ {0} /\ self = ArenaInit(a.self.align)  BY <1>1, <1>3, <2>3
    <3>2. ArenaSound(self, {})  BY <3>1, ArenaInitOK
    <3> QED  BY <3>2, <2>3, <1>1, <1>2 DEF Sound
  <2>4. CASE a.kind = "debug"
    <3>1. a.self.config \in DebugConfigs /\ self = DebugInit(a.self.config)  BY <1>1, <1>3, <2>4
    <3>2. DebugSound(self, {})  BY <3>1, DebugInitOK
    <3> QED  BY <3>2, <2>4, <1>1, <1>2 DEF Sound
  <2> QED  BY <1>3, <2>1, <2>2, <2>3, <2>4
<1> QED  BY <1>1, <1>2, <1>4 DEF DispatchInv, Open

\* Deinit gives back all that is mapped.
LEMMA DeinitOK ==
  ASSUME NEW H, Sound(kind, self, H)
  PROVE  (CASE kind = "slab" -> SlabAllocatorDeinit(self)
            [] kind = "page" -> PageAllocatorDeinit(self)
            [] kind = "arena" -> ArenaAllocatorDeinit(self)
            [] kind = "debug" -> DebugAllocatorDeinit(self)).footprint = 0
<1>1. CASE kind = "slab"  BY <1>1, SlabDeinitOK DEF Sound
<1>2. CASE kind = "page"  BY <1>2, PageDeinitOK DEF Sound
<1>3. CASE kind = "arena"  BY <1>3, ArenaDeinitOK DEF Sound
<1>4. CASE kind = "debug"  BY <1>4, DebugDeinitOK DEF Sound
<1> QED  BY <1>1, <1>2, <1>3, <1>4 DEF Sound

\* Every call keeps the struct sound for the callers' blocks, and the blocks
\* change as the contract says.
LEMMA DispatchSteps ==
  DispatchInv /\ [DispatchNext]_dispatch => DispatchInv' /\ [Dispatched!ContractNext]_held
<1> SUFFICES ASSUME DispatchInv, [DispatchNext]_dispatch
             PROVE  DispatchInv' /\ [Dispatched!ContractNext]_held
  OBVIOUS
<1>1. /\ \E a \in Allocators : kind = a.kind
      /\ effort \in Efforts[kind]
      /\ call = Idle \/ call \in AllocCalls \/ call \in RemapCalls(held)
      /\ ended \in {"open", "deinit", "misuse"}
      /\ stale = FALSE
      /\ Open => Sound(kind, self, held)
      /\ ended = "deinit" => self.footprint = 0
  BY DEF DispatchInv
<1>2. Requests[kind] \subseteq Nat /\ effort.retry_limit \in Nat
  <2>1. Requests[kind] \subseteq Nat /\ effort.retry_limit \in 0..U32 - 1  BY <1>1, DispatchAssumption
  <2> QED  BY <2>1
<1>3. allocator_attempt_limit(effort) \in Nat  BY <1>2, AttemptLimit
\* What is common to the steps.
<1>4. ASSUME kind' = kind, effort' = effort, stale' = FALSE, ended' = ended, ended = "open",
             call' = Idle \/ call' \in AllocCalls \/ call' \in RemapCalls(held'),
             Sound(kind, self', held')
      PROVE  DispatchInv'
  BY <1>1, <1>4 DEF DispatchInv, Open
\* A block more, and a block instead of another.
<1>5. ASSUME NEW p \in Nat \ {0}, NEW n \in Nat \ {0}, p \notin Addrs(held), held' = held \cup {Block(p, n)},
             WellHeld(held')
      PROVE  Dispatched!ContractNext
  <2> DEFINE d == Block(p, n)
  <2>1. d.addr = p /\ d.len = n  BY DEF Block
  <2>2. d \in held' \ held  BY <1>5, <2>1 DEF Addrs
  <2>3. n > 0  OBVIOUS
  <2>4. \A x \in held : x # d /\ x \in held'  BY <1>5, <2>2
  <2>5. \A x \in held : IsDisjoint(d, x)  BY <2>2, <2>4, <1>5 DEF WellHeld
  <2>6. Dispatched!Fits(d, held)  BY <2>1, <2>3, <2>5 DEF Dispatched!Fits, Dispatched!Disjoint, IsDisjoint
  <2>7. Dispatched!Alloc  BY <1>5, <2>2, <2>6 DEF Dispatched!Alloc
  <2> QED  BY <2>7 DEF Dispatched!ContractNext
<1>6. ASSUME NEW b \in held, NEW p \in Nat \ {0}, NEW n \in Nat \ {0}, p \notin Addrs(held \ {b}),
             held' = (held \ {b}) \cup {Block(p, n)}, WellHeld(held')
      PROVE  [Dispatched!ContractNext]_held
  <2> DEFINE d == Block(p, n)
  <2>1. d.addr = p /\ d.len = n  BY DEF Block
  <2>2. CASE d = b  BY <2>2, <1>6
  <2>3. CASE d # b
    <3>1. d \notin held \ {b} /\ d \in held' \ held  BY <1>6, <2>1, <2>3 DEF Addrs
    <3>2. n > 0  OBVIOUS
    <3>3. \A x \in held \ {b} : x # d /\ x \in held'  BY <1>6, <3>1
    <3>4. \A x \in held \ {b} : IsDisjoint(d, x)  BY <3>1, <3>3, <1>6 DEF WellHeld
    <3>5. Dispatched!Fits(d, held \ {b})
      BY <2>1, <3>2, <3>4 DEF Dispatched!Fits, Dispatched!Disjoint, IsDisjoint
    <3>6. Dispatched!Remap  BY <1>6, <3>1, <3>5 DEF Dispatched!Remap
    <3> QED  BY <3>6 DEF Dispatched!ContractNext
  <2> QED  BY <2>2, <2>3
<1>7. CASE AllocatorAlloc_dyn
  <2>1. /\ Open /\ ended = "open"
        /\ \E n \in Requests[kind], z \in BOOLEAN :
              call' = Begun([op |-> "alloc", n |-> n, zeroed |-> z,
                             left |-> allocator_attempt_limit(effort)])
        /\ UNCHANGED <<kind, self, effort, held, ended, stale>>
    BY <1>7 DEF AllocatorAlloc_dyn, Ready, Open
  <2>2. call' = Idle \/ call' \in AllocCalls  BY <2>1, <1>2, <1>3 DEF AllocCalls, Begun
  <2> QED  BY <1>1, <1>4, <2>1, <2>2
<1>8. CASE AllocatorRemap_dyn
  <2>1. /\ Open /\ ended = "open"
        /\ \E b \in held, n \in Requests[kind] \cup {0} :
              call' = Begun([op |-> "remap", block |-> b, n |-> n,
                             left |-> allocator_attempt_limit(effort)])
        /\ UNCHANGED <<kind, self, effort, held, ended, stale>>
    BY <1>8 DEF AllocatorRemap_dyn, Ready, Open
  <2>2. call' = Idle \/ call' \in RemapCalls(held')  BY <2>1, <1>2, <1>3 DEF RemapCalls, Begun
  <2> QED  BY <1>1, <1>4, <2>1, <2>2
<1>9. CASE AllocAttempt
  <2>1. /\ Open /\ ended = "open" /\ call.op = "alloc"
        /\ UNCHANGED <<kind, effort, ended>>
    BY <1>9 DEF AllocAttempt, Open
  <2>2. PICK o \in allocate(call.n, call.zeroed) :
          IF o.ptr = NULL
          THEN self' = o.self /\ call' = NextTry /\ UNCHANGED <<held, stale>>
          ELSE /\ self' = Written(o.self, o.ptr, call.n)
               /\ stale' = (call.zeroed /\ Bytes(o.ptr, call.n) \cap o.self.dirty # {})
               /\ held' = held \cup {[addr |-> o.ptr, len |-> call.n]}
               /\ call' = Idle
    BY <1>9 DEF AllocAttempt
  <2>3. call \in AllocCalls /\ call.n \in Nat /\ call.zeroed \in BOOLEAN  BY <1>1, <2>1, OpsApart
  <2>4. /\ ~o.abort
        /\ o.ptr = NULL => Sound(kind, o.self, held)
        /\ o.ptr # NULL => /\ call.n # 0 /\ o.ptr \in Nat \ {0} /\ o.ptr \notin Addrs(held)
                           /\ Sound(kind, o.self, held \cup {Block(o.ptr, call.n)})
                           /\ call.zeroed => Bytes(o.ptr, call.n) \cap o.self.dirty = {}
    BY <1>1, <2>1, <2>3, AllocateOK
  <2>5. CASE o.ptr = NULL
    <3>1. self' = o.self /\ call' = NextTry /\ UNCHANGED <<held, stale>>  BY <2>2, <2>5
    <3>2. NextTry = Idle \/ NextTry \in AllocCalls \/ NextTry \in RemapCalls(held')
      BY <2>3, <3>1, NextTryOK
    <3> QED  BY <1>1, <1>4, <2>1, <2>4, <2>5, <3>1, <3>2
  <2>6. CASE o.ptr # NULL
    <3>1. /\ self' = Written(o.self, o.ptr, call.n) /\ call' = Idle
          /\ held' = held \cup {Block(o.ptr, call.n)} /\ stale' = FALSE
      BY <2>2, <2>4, <2>6 DEF Block
    <3>2. Sound(kind, o.self, held') /\ o.ptr \in Nat \ {0} /\ o.ptr \notin Addrs(held) /\ call.n \in Nat \ {0}
      BY <2>3, <2>4, <2>6, <3>1
    <3>3. Sound(kind, self', held')  BY <3>1, <3>2, WrittenOK
    <3>4. WellHeld(held')  BY <3>2, SoundHeld
    <3>5. Dispatched!ContractNext  BY <1>5, <3>1, <3>2, <3>4
    <3> QED  BY <1>4, <2>1, <3>1, <3>3, <3>5
  <2> QED  BY <2>5, <2>6
<1>10. CASE RemapAttempt
  <2> DEFINE b == call.block
             n == call.n
  <2>1. /\ Open /\ ended = "open" /\ call.op = "remap"
        /\ UNCHANGED <<kind, effort, stale>>
    BY <1>10 DEF RemapAttempt, Open
  <2>2. PICK o \in remap(b.addr, n) :
          IF o.abort
          THEN /\ ended' = IF kind = "arena" THEN "misuse" ELSE "fatal"
               /\ UNCHANGED <<self, held, call>>
          ELSE /\ UNCHANGED ended
               /\ self' = IF o.ptr = NULL THEN o.self ELSE Written(o.self, o.ptr, n)
               /\ held' = IF o.ptr = NULL
                          THEN IF n = 0 THEN held \ {b} ELSE held
                          ELSE (held \ {b}) \cup {[addr |-> o.ptr, len |-> n]}
               /\ call' = IF RemapBreaks(o, n) THEN Idle ELSE NextTry
    BY <1>10 DEF RemapAttempt
  <2>3. call \in RemapCalls(held) /\ n \in Nat /\ b \in held  BY <1>1, <2>1, OpsApart
  <2>4. /\ kind # "arena" => ~o.abort
        /\ ~o.abort /\ o.ptr = NULL => Sound(kind, o.self, IF n = 0 THEN held \ {b} ELSE held)
        /\ ~o.abort /\ o.ptr # NULL =>
              /\ n # 0 /\ o.ptr \in Nat \ {0} /\ o.ptr \notin Addrs(held \ {b})
              /\ Sound(kind, o.self, (held \ {b}) \cup {Block(o.ptr, n)})
    <3>1. Sound(kind, self, held)  BY <1>1, <2>1
    <3> HIDE DEF b, n
    <3> QED  BY <2>2, <2>3, <3>1, RemapOK
  <2>5. CASE o.abort
    <3>1. ended' = "misuse" /\ UNCHANGED <<self, held, call>>  BY <2>2, <2>4, <2>5
    <3> QED  BY <1>1, <2>1, <3>1 DEF DispatchInv, Open
  <2>6. CASE ~o.abort /\ o.ptr = NULL /\ n = 0
    <3>1. ended' = ended /\ self' = o.self /\ held' = held \ {b} /\ call' = Idle
      BY <2>2, <2>6 DEF RemapBreaks
    <3>2. Dispatched!Free  BY <2>3, <3>1 DEF Dispatched!Free
    <3> QED  BY <1>1, <1>4, <2>1, <2>4, <2>6, <3>1, <3>2 DEF Dispatched!ContractNext
  <2>7. CASE ~o.abort /\ o.ptr = NULL /\ n # 0
    <3>1. ended' = ended /\ self' = o.self /\ held' = held /\ call' = NextTry
      BY <2>2, <2>7 DEF RemapBreaks
    <3>2. NextTry = Idle \/ NextTry \in AllocCalls \/ NextTry \in RemapCalls(held')
      BY <2>3, <3>1, NextTryOK
    <3> QED  BY <1>1, <1>4, <2>1, <2>4, <2>7, <3>1, <3>2
  <2>8. CASE ~o.abort /\ o.ptr # NULL
    <3>1. /\ ended' = ended /\ self' = Written(o.self, o.ptr, n) /\ call' = Idle
          /\ held' = (held \ {b}) \cup {Block(o.ptr, n)}
      BY <2>2, <2>8 DEF RemapBreaks, Block
    <3>2. Sound(kind, o.self, held') /\ o.ptr \in Nat \ {0} /\ o.ptr \notin Addrs(held \ {b}) /\ n \in Nat \ {0}
      BY <2>3, <2>4, <2>8, <3>1
    <3> HIDE DEF b, n
    <3>3. Sound(kind, self', held')  BY <3>1, <3>2, WrittenOK
    <3>4. WellHeld(held')  BY <3>2, SoundHeld
    <3>5. [Dispatched!ContractNext]_held  BY <1>6, <2>3, <3>1, <3>2, <3>4
    <3> QED  BY <1>1, <1>4, <2>1, <3>1, <3>3, <3>5
  <2> QED  BY <2>5, <2>6, <2>7, <2>8
<1>11. CASE AllocatorResize_dyn
  <2>1. /\ Open /\ ended = "open" /\ call = Idle
        /\ UNCHANGED <<kind, effort, call, ended, stale>>
    BY <1>11 DEF AllocatorResize_dyn, Ready, Open
  <2>2. PICK b \in held, n \in Requests[kind] \ {0} : \E o \in resize(b.addr, n) :
          IF o.ptr = NULL THEN UNCHANGED <<self, held>>
          ELSE /\ self' = Written(o.self, b.addr, n)
               /\ held' = (held \ {b}) \cup {[addr |-> b.addr, len |-> n]}
    BY <1>11 DEF AllocatorResize_dyn
  <2>3. PICK o \in resize(b.addr, n) :
          IF o.ptr = NULL THEN UNCHANGED <<self, held>>
          ELSE /\ self' = Written(o.self, b.addr, n)
               /\ held' = (held \ {b}) \cup {[addr |-> b.addr, len |-> n]}
    BY <2>2
  <2>4. n \in Nat \ {0} /\ Sound(kind, self, held)  BY <1>1, <1>2, <2>1
  <2>5. CASE o.ptr = NULL
    BY <1>1, <1>4, <2>1, <2>3, <2>4, <2>5
  <2>6. CASE o.ptr # NULL
    <3>1. self' = Written(o.self, b.addr, n) /\ held' = (held \ {b}) \cup {Block(b.addr, n)}
      BY <2>3, <2>6 DEF Block
    <3>2. b.addr \notin Addrs(held \ {b})  BY <2>4, SoundHeld, HeldLess
    <3>3. Sound(kind, o.self, (held \ {b}) \cup {Block(b.addr, n)})  BY <2>4, <2>6, ResizeOK
    <3>4. b.addr \in Nat \ {0}  BY <2>4, SoundHeld DEF WellHeld
    <3>5. Sound(kind, self', held')  BY <3>1, <3>3, <3>4, <2>4, WrittenOK
    <3>6. WellHeld(held')  BY <3>5, SoundHeld
    <3>7. [Dispatched!ContractNext]_held  BY <1>6, <2>4, <3>1, <3>2, <3>4, <3>6
    <3> QED  BY <1>1, <1>4, <2>1, <3>5, <3>7
  <2> QED  BY <2>5, <2>6
<1>12. CASE AllocatorFree_dyn
  <2>1. /\ Open /\ ended = "open" /\ call = Idle
        /\ UNCHANGED <<kind, effort, call, stale>>
    BY <1>12 DEF AllocatorFree_dyn, Ready, Open
  <2>2. PICK b \in held : \E o \in deallocate(b.addr) :
          IF o.abort THEN ended' = "fatal" /\ UNCHANGED <<self, held>>
          ELSE self' = o.self /\ held' = held \ {b} /\ UNCHANGED ended
    BY <1>12 DEF AllocatorFree_dyn
  <2>3. PICK o \in deallocate(b.addr) :
          IF o.abort THEN ended' = "fatal" /\ UNCHANGED <<self, held>>
          ELSE self' = o.self /\ held' = held \ {b} /\ UNCHANGED ended
    BY <2>2
  <2>4. ~o.abort /\ Sound(kind, o.self, held \ {b})  BY <1>1, <2>1, FreeOK
  <2>5. self' = o.self /\ held' = held \ {b} /\ ended' = ended  BY <2>3, <2>4
  <2>6. Dispatched!Free  BY <2>5 DEF Dispatched!Free
  <2> QED  BY <1>1, <1>4, <2>1, <2>4, <2>5, <2>6 DEF Dispatched!ContractNext
<1>13. CASE FreeStale
  <2>1. /\ Open /\ ended = "open" /\ call = Idle
        /\ UNCHANGED <<kind, effort, held, call, stale>>
    BY <1>13 DEF FreeStale, Ready, Open
  <2>2. PICK page \in Pages, d \in 0..ChunkHeader :
          /\ page * PageSize + d \notin HeldAddrs
          /\ \E o \in deallocate(page * PageSize + d) :
                self' = o.self /\ ended' = IF o.abort THEN "misuse" ELSE ended
    BY <1>13 DEF FreeStale
  <2> DEFINE a == page * PageSize + d
  <2>3. PICK o \in deallocate(a) : self' = o.self /\ ended' = IF o.abort THEN "misuse" ELSE ended
    BY <2>2
  <2>4. a \in Nat \ {0}
    <3> DEFINE q == page * PageSize
    <3>1. q \in Nat \ {0} /\ d \in Nat
      <4>1. page \in Nat \ {0} /\ PageSize \in Nat \ {0}  BY BaseAssumption
      <4>2. page * PageSize \in Nat /\ page * PageSize # 0  BY <4>1
      <4> QED  BY <4>2, ConstantsAre
    <3> HIDE DEF q
    <3>2. q + d \in Nat \ {0}  BY <3>1
    <3> QED  BY <3>2 DEF q
  <2>5. a \notin Addrs(held)  BY <2>2 DEF HeldAddrs, Addrs
  <2> HIDE DEF a
  <2>6. CASE o.abort
    <3>1. ended' = "misuse"  BY <2>3, <2>6
    <3> QED  BY <1>1, <2>1, <3>1 DEF DispatchInv, Open
  <2>7. CASE ~o.abort
    <3>1. Sound(kind, o.self, held)  BY <1>1, <2>1, <2>3, <2>4, <2>5, <2>7, StaleOK
    <3>2. self' = o.self /\ ended' = ended  BY <2>3, <2>7
    <3> QED  BY <1>1, <1>4, <2>1, <3>1, <3>2
  <2> QED  BY <2>6, <2>7
<1>14. CASE CallerOverruns
  <2>1. /\ Open /\ ended = "open" /\ call = Idle /\ kind = "debug"
        /\ UNCHANGED <<kind, effort, held, call, ended, stale>>
    BY <1>14 DEF CallerOverruns, Ready, Open
  <2>2. PICK b \in held : b.addr \notin self.smashed /\ self' = Overrun(self, b.addr)
    BY <1>14 DEF CallerOverruns
  <2>3. DebugSound(self, held)  BY <1>1, <2>1 DEF Sound
  <2>4. DebugSound(self', held)  BY <2>2, <2>3, DebugOverrunOK
  <2>5. Sound(kind, self', held')  BY <2>1, <2>4 DEF Sound
  <2> QED  BY <1>1, <1>4, <2>1, <2>5
<1>15. CASE ArenaReset
  <2>1. /\ Open /\ ended = "open" /\ call = Idle /\ kind = "arena"
        /\ self' = ArenaAllocatorReset(self) /\ held' = {}
        /\ UNCHANGED <<kind, effort, call, ended, stale>>
    BY <1>15 DEF ArenaReset, Ready, Open
  <2>2. ArenaSound(self, held)  BY <1>1, <2>1 DEF Sound
  <2>3. Sound(kind, self', held')  BY <2>1, <2>2, ArenaResetOK DEF Sound
  <2>4. Dispatched!FreeAll  BY <2>1 DEF Dispatched!FreeAll
  <2> QED  BY <1>1, <1>4, <2>1, <2>3, <2>4 DEF Dispatched!ContractNext
<1>16. CASE Deinit
  <2>1. /\ Open /\ ended = "open" /\ call = Idle /\ held' = {} /\ ended' = "deinit"
        /\ UNCHANGED <<kind, effort, call, stale>>
    BY <1>16 DEF Deinit, Ready, Open
  <2>2. self'.footprint = 0
    <3>1. Sound(kind, self, held)  BY <1>1, <2>1
    <3>2. self' = CASE kind = "slab" -> SlabAllocatorDeinit(self)
                    [] kind = "page" -> PageAllocatorDeinit(self)
                    [] kind = "arena" -> ArenaAllocatorDeinit(self)
                    [] kind = "debug" -> DebugAllocatorDeinit(self)
      BY <1>16 DEF Deinit
    <3> QED  BY <3>1, <3>2, DeinitOK
  <2>3. Dispatched!FreeAll  BY <2>1 DEF Dispatched!FreeAll
  <2> QED  BY <1>1, <2>1, <2>2, <2>3 DEF DispatchInv, Open, Dispatched!ContractNext
<1>17. CASE UNCHANGED dispatch
  BY <1>1, <1>17 DEF dispatch, DispatchInv, Open
<1> QED
  BY <1>7, <1>8, <1>9, <1>10, <1>11, <1>12, <1>13, <1>14, <1>15, <1>16, <1>17 DEF DispatchNext

\* The books of a sound struct are right.
LEMMA BooksHold == DispatchInv => AllocatorBooksExact /\ ZeroedMeansZero
<1> SUFFICES ASSUME DispatchInv PROVE AllocatorBooksExact /\ ZeroedMeansZero  OBVIOUS
<1>1. ended \in {"open", "deinit", "misuse"} /\ stale = FALSE /\ (ended = "deinit" => self.footprint = 0)
  BY DEF DispatchInv
<1>2. HeldAddrs = Addrs(held)  BY DEF HeldAddrs, Addrs
<1>3. ASSUME Open
      PROVE /\ CASE kind = "slab" -> SlabInv(self, HeldAddrs)
                 [] kind = "page" -> PageInv(self, HeldAddrs)
                 [] kind = "arena" -> ArenaInv(self, held)
                 [] kind = "debug" -> DebugInv(self, held)
            /\ \A b \in held : b.len <= Room(b.addr)
  <2>1. Sound(kind, self, held)  BY <1>3 DEF DispatchInv
  <2>2. CASE kind = "slab"
    <3>1. SlabInv(self, Addrs(held)) /\ \A b \in held : b.len <= SlabRoom(self, b.addr)
      BY <2>1, <2>2, SlabBooksOK, ConstantsAre DEF Sound
    <3> QED  BY <3>1, <2>2, <1>2 DEF Room
  <2>3. CASE kind = "page"
    <3>1. PageInv(self, Addrs(held)) /\ \A b \in held : b.len <= PageRoom(self, b.addr)
      BY <2>1, <2>3, PageBooksOK, ConstantsAre DEF Sound
    <3> QED  BY <3>1, <2>3, <1>2 DEF Room
  <2>4. CASE kind = "arena"
    <3>1. ArenaInv(self, held) /\ \A b \in held : b.len <= ArenaRoom(self, b.addr)
      BY <2>1, <2>4, ArenaBooksOK, ConstantsAre DEF Sound
    <3> QED  BY <3>1, <2>4 DEF Room
  <2>5. CASE kind = "debug"
    <3>1. DebugInv(self, held) /\ \A b \in held : b.len <= DebugRoom(self, b.addr)
      BY <2>1, <2>5, DebugBooksOK DEF Sound
    <3> QED  BY <3>1, <2>5 DEF Room
  <2> QED  BY <2>1, <2>2, <2>3, <2>4, <2>5 DEF Sound
<1> QED  BY <1>1, <1>3 DEF AllocatorBooksExact, ZeroedMeansZero

\* Whatever the kernel refuses and however often a call is retried, the books
\* of every typed allocator are its callers' blocks (Std/Allocator/Slab.c,
\* Page.c, Arena.c, Debug.c behind Std/Allocator.c).
THEOREM AllocatorBooks == DispatchSpec => []AllocatorBooksExact
<1>1. DispatchSpec => []DispatchInv  BY DispatchStarts, DispatchSteps, PTL DEF DispatchSpec
<1>2. DispatchInv => AllocatorBooksExact  BY BooksHold
<1> QED  BY <1>1, <1>2, PTL

\* A zeroed block has no bytes of an earlier tenant, by whichever path it came.
THEOREM ZeroedBlocks == DispatchSpec => []ZeroedMeansZero
<1>1. DispatchSpec => []DispatchInv  BY DispatchStarts, DispatchSteps, PTL DEF DispatchSpec
<1>2. DispatchInv => ZeroedMeansZero  BY BooksHold
<1> QED  BY <1>1, <1>2, PTL

\* The typed allocators implement the contract of Allocator.h.
THEOREM AllocatorsKeepContract == DispatchSpec => AllocatorsImplementContract
<1>1. DispatchInit => Dispatched!ContractInit  BY DEF DispatchInit, Dispatched!ContractInit
<1>2. DispatchSpec => []DispatchInv  BY DispatchStarts, DispatchSteps, PTL DEF DispatchSpec
<1>3. DispatchInv /\ [DispatchNext]_dispatch => [Dispatched!ContractNext]_held  BY DispatchSteps
<1> QED  BY <1>1, <1>2, <1>3, PTL DEF DispatchSpec, AllocatorsImplementContract, Dispatched!ContractSpec

------------------------------------------------------------------------------
\* The budget allocator.

------------------------------------------------------------------------------
\* Its arithmetic.

\* ALIGN_UP rounds up to a multiple, by less than the alignment.
LEMMA AlignUp ==
  ASSUME NEW x \in Nat, NEW a \in Nat \ {0}
  PROVE  /\ ALIGN_UP(x, a) \in Nat /\ ALIGN_UP(x, a) % a = 0
         /\ x <= ALIGN_UP(x, a) /\ ALIGN_UP(x, a) <= x + a - 1
<1> DEFINE n == x + a - 1
           q == n \div a
<1>1. n \in Nat  OBVIOUS
<1>2. q \in Nat /\ a * q <= n /\ n < a * q + a  BY <1>1, DivProps
<1>3. ALIGN_UP(x, a) = q * a /\ q * a = a * q  BY <1>2 DEF ALIGN_UP
<1>4. q * a \in Nat /\ (q * a) % a = 0  BY <1>2, ModOfMultiple
<1> HIDE DEF q
<1>5. x <= a * q /\ a * q <= x + a - 1  BY <1>2
<1> QED  BY <1>3, <1>4, <1>5

\* CEIL_DIV is enough, and no more than one too many.
LEMMA CeilDiv ==
  ASSUME NEW x \in Nat, NEW d \in Nat \ {0}
  PROVE  /\ CEIL_DIV(x, d) \in Nat /\ x <= CEIL_DIV(x, d) * d
         /\ CEIL_DIV(x, d) * d <= x + d - 1
<1> DEFINE n == x + d - 1
           q == n \div d
<1>1. n \in Nat  OBVIOUS
<1>2. q \in Nat /\ d * q <= n /\ n < d * q + d  BY <1>1, DivProps
<1>3. CEIL_DIV(x, d) = q /\ q * d = d * q  BY <1>2 DEF CEIL_DIV
<1> HIDE DEF q
<1> QED  BY <1>2, <1>3

------------------------------------------------------------------------------
\* Its layout.

PoolType == [bitmap : Nat, bitmap_words : Nat, slots : Nat, slot_size : Nat,
             slot_count : Nat, alignment : Nat, end : Nat]

\* What PoolInsideBuffer says, of any layout.
WellFormed(p) ==
    /\ p \in PoolType /\ p.slot_size > 0 /\ p.alignment > 0
    /\ p.slot_count > 0 /\ p.bitmap_words * WordBits >= p.slot_count
    /\ p.bitmap % WordBytes = 0 /\ p.bitmap + p.bitmap_words * WordBytes <= p.slots
    /\ p.slots + p.slot_count * p.slot_size <= p.end
    /\ p.slots % p.alignment = 0 /\ p.slot_size % p.alignment = 0

\* The bitmap of a buffer of room for q slots takes fewer bytes than q - 1
\* slots, so that padding and a slot fit behind it: W words of B bits cover
\* the q slots, and a word is no larger than a slot.
LEMMA BitmapFits ==
  ASSUME NEW q \in Nat, NEW W \in Nat, NEW s \in Nat \ {0}, NEW A \in Nat,
         NEW al \in Nat \ {0}, al <= s, WordBytes <= s,
         W * WordBits <= q + WordBits - 1, s * q <= A,
         A >= WordBytes + s + al - 1
  PROVE  W * WordBytes + al - 1 + s <= A
<1> USE BudgetAssumption
<1>0. W * WordBytes \in Nat /\ W * WordBits \in Nat  OBVIOUS
<1>1. CASE W <= 1
  <2>1. W = 0 \/ W = 1  BY <1>1
  <2>2. W * WordBytes <= WordBytes  BY <2>1
  <2> QED  BY <2>2, <1>0
<1>2. CASE W >= 2
  <2>1. W * 4 <= W * WordBits
    <3>1. PICK k \in Nat : WordBits = 4 + k
      <4>1. WordBits - 4 \in Nat  OBVIOUS
      <4> QED  BY <4>1
    <3>2. W * WordBits = W * 4 + W * k /\ W * k \in Nat  BY <3>1
    <3> QED  BY <3>2
  <2>2. (W - 1) * WordBits <= q - 1
    <3>1. (W - 1) * WordBits = W * WordBits - WordBits  OBVIOUS
    <3> QED  BY <3>1, <1>0
  <2>3. (W - 1) * 4 <= (W - 1) * WordBits
    <3>1. PICK k \in Nat : WordBits = 4 + k
      <4>1. WordBits - 4 \in Nat  OBVIOUS
      <4> QED  BY <4>1
    <3>2. W - 1 \in Nat  BY <1>2
    <3>3. (W - 1) * WordBits = (W - 1) * 4 + (W - 1) * k /\ (W - 1) * k \in Nat  BY <3>1, <3>2
    <3> QED  BY <3>3
  <2>4. W + 1 < q  BY <2>2, <2>3, <1>2, (W - 1) * 4 = 4 * W - 4, (W - 1) * WordBits \in Int
  <2>5. (W + 1) * s + s <= q * s  BY <2>4, NextMultiple
  <2>6. W * WordBytes <= W * s
    <3>1. PICK k \in Nat : s = WordBytes + k
      <4>1. s - WordBytes \in Nat  OBVIOUS
      <4> QED  BY <4>1
    <3>2. W * s = W * WordBytes + W * k /\ W * k \in Nat  BY <3>1
    <3> QED  BY <3>2, <1>0
  <2>7. (W + 1) * s = W * s + s /\ q * s = s * q  OBVIOUS
  <2>8. W * s \in Nat /\ s * q \in Nat  OBVIOUS
  <2> QED  BY <2>5, <2>6, <2>7, <2>8, <1>0
<1> QED  BY <1>1, <1>2

\* Every layout Init makes of a buffer it accepts is well formed.
LEMMA InitWellFormed == \A p \in Pools : WellFormed(p)
<1> SUFFICES ASSUME NEW b \in Buffers, BigEnough(b)
             PROVE  WellFormed(BudgetAllocatorInit(b))
  BY DEF Pools
<1> DEFINE Bm == Base(b)
           al == b.alignment
           s == SlotBytes(b)
           A == Avail(b)
           q == A \div s
           W == Words(b)
           Sl == Slots(b)
           En == b.addr + b.bytes
           n == ((b.addr + b.bytes) - Slots(b)) \div SlotBytes(b)
           p == BudgetAllocatorInit(b)
<1>17. /\ p.bitmap = Bm /\ p.bitmap_words = W /\ p.slots = Sl /\ p.slot_size = s
       /\ p.slot_count = n /\ p.alignment = al /\ p.end = En
  <2>1. p.bitmap = Bm /\ p.bitmap_words = W /\ p.slots = Sl  BY DEF BudgetAllocatorInit
  <2>2. p.slot_size = s /\ p.alignment = al  BY DEF BudgetAllocatorInit
  <2>3. p.slot_count = n  BY DEF BudgetAllocatorInit
  <2>4. p.end = En  BY DEF BudgetAllocatorInit
  <2> QED  BY <2>1, <2>2, <2>3, <2>4
<1> HIDE DEF p
<1>1. /\ b.addr \in Nat /\ b.bytes \in Nat /\ b.slot_size \in Nat \ {0} /\ al \in Nat \ {0}
      /\ al >= WordBytes /\ WordBytes \in Nat \ {0} /\ WordBits \in Nat \ {0}
  BY BudgetAssumption DEF BufferType
<1>2. Bm \in Nat /\ Bm % WordBytes = 0 /\ b.addr <= Bm
  BY <1>1, AlignUp DEF Base
<1>3. s \in Nat \ {0} /\ s % al = 0 /\ al <= s
  <2>1. s \in Nat /\ s % al = 0 /\ b.slot_size <= s  BY <1>1, AlignUp DEF SlotBytes
  <2>2. ~(s < al)
    <3> SUFFICES ASSUME s < al PROVE FALSE  OBVIOUS
    <3>1. s % al = s  BY <1>1, <2>1, SMT
    <3> QED  BY <3>1, <2>1, <1>1
  <2> HIDE DEF s
  <2> QED  BY <2>1, <2>2, <1>1
<1>4. A = En - Bm /\ A >= WordBytes + s + al - 1
  BY <1>1, <1>2 DEF Avail, Base, BigEnough
<1> HIDE DEF Bm, s
<1>5. A \in Nat /\ En \in Nat  BY <1>1, <1>2, <1>3, <1>4
<1> HIDE DEF A, En
<1>6. q \in Nat /\ s * q <= A /\ A < s * q + s  BY <1>3, <1>5, DivProps
<1> HIDE DEF q
<1>7. W \in Nat /\ q <= W * WordBits /\ W * WordBits <= q + WordBits - 1
  BY <1>1, <1>6, CeilDiv DEF Words, q, A, s
<1> HIDE DEF W
<1>8. W * WordBytes \in Nat /\ Bm + W * WordBytes \in Nat  BY <1>1, <1>2, <1>7
<1>9. /\ Sl \in Nat /\ Sl % al = 0 /\ Bm + W * WordBytes <= Sl
      /\ Sl <= Bm + W * WordBytes + al - 1
  BY <1>1, <1>8, AlignUp DEF Slots, Bm, W
<1> HIDE DEF Sl
<1> HIDE DEF al
<1>10. W * WordBytes + al - 1 + s <= A
  <2>1. WordBytes <= s  BY <1>1, <1>3
  <2>2. W * WordBits <= q + WordBits - 1 /\ s * q <= A  BY <1>6, <1>7
  <2> QED  BY <2>1, <2>2, <1>1, <1>3, <1>4, <1>5, <1>6, <1>7, BitmapFits
<1>11. En - Sl \in Nat /\ s <= En - Sl /\ En - Sl <= A
  BY <1>1, <1>2, <1>3, <1>4, <1>5, <1>8, <1>9, <1>10
<1>12. n \in Nat /\ s * n <= En - Sl /\ En - Sl < s * n + s
  <2>1. (En - Sl) \div s \in Nat /\ s * ((En - Sl) \div s) <= En - Sl
        /\ En - Sl < s * ((En - Sl) \div s) + s
    BY <1>3, <1>11, DivProps
  <2>2. n = (En - Sl) \div s  BY DEF En, Sl, s
  <2> QED  BY <2>1, <2>2
<1> HIDE DEF n
<1>13. n > 0
  <2>1. n = 0 => s * n = 0  BY <1>3, <1>12
  <2> QED  BY <2>1, <1>3, <1>11, <1>12
<1>14. n <= q
  <2> SUFFICES ASSUME q < n PROVE FALSE  BY <1>6, <1>12
  <2>1. q * s + s <= n * s  BY <1>3, <1>6, <1>12, NextMultiple
  <2>2. q * s = s * q /\ n * s = s * n /\ s * q \in Nat /\ s * n \in Nat  BY <1>3, <1>6, <1>12
  <2> QED  BY <2>1, <2>2, <1>3, <1>5, <1>6, <1>11, <1>12
<1>15. n <= W * WordBits  BY <1>1, <1>6, <1>7, <1>12, <1>14
<1>16. Sl + n * s <= En
  <2>1. n * s = s * n /\ s * n \in Nat  BY <1>3, <1>12
  <2> QED  BY <2>1, <1>5, <1>9, <1>12
<1>18. p \in PoolType
  BY <1>1, <1>2, <1>3, <1>5, <1>7, <1>9, <1>12, <1>17 DEF PoolType, p, BudgetAllocatorInit, Bm, W, Sl, s, n, al, En
<1> QED
  BY <1>1, <1>2, <1>3, <1>7, <1>9, <1>13, <1>15, <1>16, <1>17, <1>18 DEF WellFormed, p

------------------------------------------------------------------------------
\* The inductive invariant: the layout, which bounds the addresses of the
\* slots, and the agreement of bits and blocks, without which a free could
\* take a block whose bit stays set.

BudgetInv ==
    /\ WellFormed(pool)
    /\ bitmap \subseteq Bits /\ live \subseteq [addr : Nat, len : Nat]
    /\ stats \in [bytes_in_use : Nat, peak_bytes_in_use : Nat] /\ fatal \in BOOLEAN
    /\ BitsAreBlocks

\* The pool of a state that satisfies the invariant.
LEMMA PoolFacts ==
  ASSUME WellFormed(pool)
  PROVE  /\ pool.slot_size \in Nat \ {0} /\ pool.slots \in Nat /\ pool.slot_count \in Nat
         /\ pool.bitmap_words \in Nat /\ pool.bitmap_words * WordBits \in Nat
         /\ Bits \subseteq Nat /\ \A i \in Nat : SlotAddr(i) \in Nat
  BY BudgetAssumption DEF WellFormed, PoolType, Bits, SlotAddr

\* Slots do not overlap.
LEMMA PoolSlotsApart ==
  ASSUME WellFormed(pool), NEW i \in Nat, NEW j \in Nat, i < j
  PROVE  SlotAddr(i) + pool.slot_size <= SlotAddr(j)
<1> DEFINE s == pool.slot_size
<1>1. s \in Nat /\ pool.slots \in Nat  BY PoolFacts
<1>2. i * s + s <= j * s  BY <1>1, NextMultiple
<1>3. i * s \in Nat /\ j * s \in Nat  BY <1>1
<1>4. pool.slots + i * s + s <= pool.slots + j * s  BY <1>1, <1>2, <1>3
<1> QED  BY <1>4 DEF SlotAddr

\* Different slots have different addresses.
LEMMA SlotsDiffer ==
  ASSUME WellFormed(pool), NEW i \in Nat, NEW j \in Nat, SlotAddr(i) = SlotAddr(j)
  PROVE  i = j
  BY PoolFacts, PoolSlotsApart

\* The index a free computes is that of the slot at the address.
LEMMA IndexOfSlot ==
  ASSUME WellFormed(pool), NEW ptr \in Int, Owned(ptr)
  PROVE  IndexOf(ptr) \in bitmap /\ IndexOf(ptr) \in Nat /\ SlotAddr(IndexOf(ptr)) = ptr
<1> DEFINE off == ptr - pool.slots
           s == pool.slot_size
<1>1. s \in Nat \ {0} /\ pool.slots \in Nat  BY PoolFacts
<1>2. off \in Nat /\ off % s = 0  BY <1>1 DEF Owned
<1>3. off \div s \in Nat /\ off = s * (off \div s) + (off % s)  BY <1>1, <1>2, DivProps
<1>4. IndexOf(ptr) = off \div s  BY DEF IndexOf
<1> HIDE DEF off, s
<1>5. IndexOf(ptr) * s = off  BY <1>1, <1>2, <1>3, <1>4
<1>6. SlotAddr(IndexOf(ptr)) = pool.slots + off  BY <1>5 DEF SlotAddr, s
<1>7. pool.slots + off = ptr  BY <1>1 DEF off
<1> QED  BY <1>3, <1>4, <1>6, <1>7 DEF Owned

\* A new pool satisfies it.
LEMMA InitBudgetInv == Init => BudgetInv
<1> SUFFICES ASSUME Init PROVE BudgetInv
  OBVIOUS
<1>1. WellFormed(pool)  BY InitWellFormed DEF Init
<1>2. bitmap = {} /\ live = {} /\ fatal = FALSE  BY DEF Init
<1>3. stats \in [bytes_in_use : Nat, peak_bytes_in_use : Nat]  BY DEF Init, NoStats
<1> QED  BY <1>1, <1>2, <1>3 DEF BudgetInv, BitsAreBlocks

\* A slot handed out.
LEMMA AllocateBudgetInv ==
  ASSUME BudgetInv, NEW n \in Sizes, budget_allocator_allocate(n)
  PROVE  BudgetInv'
<1>1. PICK i \in Bits :
        /\ n \in 1..pool.slot_size /\ FirstFree(i)
        /\ bitmap' = bitmap \cup {i}
        /\ live' = live \cup {[addr |-> SlotAddr(i), len |-> n]}
        /\ stats' = Raised(stats.bytes_in_use + pool.slot_size)
        /\ UNCHANGED <<pool, fatal>>
  BY DEF budget_allocator_allocate
<1>2. WellFormed(pool)  BY DEF BudgetInv
<1>3. /\ pool.slot_size \in Nat \ {0} /\ Bits \subseteq Nat /\ bitmap \subseteq Nat
      /\ SlotAddr(i) \in Nat /\ i < pool.slot_count /\ i \notin bitmap
  BY <1>1, <1>2, PoolFacts DEF BudgetInv, FirstFree
<1>4. \A b \in live : b.addr # SlotAddr(i)
  BY <1>2, <1>3, SlotsDiffer DEF BudgetInv, BitsAreBlocks
<1>5. Bits' = Bits /\ \A j : SlotAddr(j)' = SlotAddr(j)  BY <1>1 DEF Bits, SlotAddr
<1>6. BitsAreBlocks'
  <2> DEFINE new == [addr |-> SlotAddr(i), len |-> n]
  <2>1. new.addr = SlotAddr(i) /\ new.len = n  OBVIOUS
  <2>2. live' = live \cup {new} /\ pool' = pool /\ BitsAreBlocks  BY <1>1 DEF BudgetInv
  <2> HIDE DEF new
  <2>3. ASSUME NEW b \in live'
        PROVE  \E j \in bitmap' : b.addr = SlotAddr(j) /\ b.len \in 1..pool.slot_size
    BY <1>1, <2>1, <2>2 DEF BitsAreBlocks
  <2>4. ASSUME NEW j \in bitmap'
        PROVE  j < pool.slot_count /\ \E b \in live' : b.addr = SlotAddr(j)
    BY <1>1, <1>3, <2>1, <2>2 DEF BitsAreBlocks
  <2>5. ASSUME NEW a \in live', NEW b \in live', a.addr = b.addr PROVE a = b
    BY <1>4, <2>1, <2>2, <2>5 DEF BitsAreBlocks
  <2> QED  BY <1>5, <2>2, <2>3, <2>4, <2>5 DEF BitsAreBlocks
<1>7. stats' \in [bytes_in_use : Nat, peak_bytes_in_use : Nat]
  BY <1>1, <1>3 DEF BudgetInv, Raised
<1>8. live' \subseteq [addr : Nat, len : Nat]  BY <1>1, <1>3 DEF BudgetInv
<1> QED  BY <1>1, <1>2, <1>5, <1>6, <1>7, <1>8 DEF BudgetInv, WellFormed

\* A slot given back, or a bad free.
LEMMA DeallocateBudgetInv ==
  ASSUME BudgetInv, NEW ptr \in Int, budget_allocator_deallocate(ptr)
  PROVE  BudgetInv'
<1>1. WellFormed(pool)  BY DEF BudgetInv
<1>2. CASE Owned(ptr)
  <2>1. /\ bitmap' = bitmap \ {IndexOf(ptr)} /\ live' = {b \in live : b.addr # ptr}
        /\ stats' = Lowered(stats.bytes_in_use) /\ UNCHANGED <<pool, fatal>>
    BY <1>2 DEF budget_allocator_deallocate
  <2>2. IndexOf(ptr) \in bitmap /\ IndexOf(ptr) \in Nat /\ SlotAddr(IndexOf(ptr)) = ptr
    BY <1>1, <1>2, IndexOfSlot
  <2>3. Bits' = Bits /\ \A j : SlotAddr(j)' = SlotAddr(j)  BY <2>1 DEF Bits, SlotAddr
  <2>4. bitmap \subseteq Nat /\ pool.slot_size \in Nat  BY <1>1, PoolFacts DEF BudgetInv
  <2>5. \A i \in bitmap' : SlotAddr(i) # ptr  BY <1>1, <2>1, <2>2, <2>4, SlotsDiffer
  <2>6. BitsAreBlocks'
    BY <2>1, <2>2, <2>3, <2>4, <2>5 DEF BudgetInv, BitsAreBlocks
  <2>7. stats' \in [bytes_in_use : Nat, peak_bytes_in_use : Nat]
    BY <2>1, <2>4 DEF BudgetInv, Lowered
  <2> QED  BY <1>1, <2>1, <2>3, <2>6, <2>7 DEF BudgetInv, WellFormed
<1>3. CASE ~Owned(ptr)
  <2>1. fatal' = TRUE /\ UNCHANGED <<pool, bitmap, stats, live>>
    BY <1>3 DEF budget_allocator_deallocate
  <2> QED  BY <2>1 DEF BudgetInv, WellFormed, BitsAreBlocks, Bits, SlotAddr
<1> QED  BY <1>2, <1>3

\* A block that changes its length in its slot.
LEMMA RefitBudgetInv ==
  ASSUME BudgetInv, NEW b \in live, NEW n \in Sizes, Refit(b, n)
  PROVE  BudgetInv'
<1>1. /\ n \in 1..pool.slot_size /\ live' = (live \ {b}) \cup {[b EXCEPT !.len = n]}
      /\ UNCHANGED <<pool, bitmap, stats, fatal>>
  BY DEF Refit
<1>2. pool.slot_size \in Nat /\ b \in [addr : Nat, len : Nat]  BY PoolFacts DEF BudgetInv
<1>3. [b EXCEPT !.len = n] \in [addr : Nat, len : Nat]
      /\ [b EXCEPT !.len = n].addr = b.addr /\ [b EXCEPT !.len = n].len = n
  BY <1>1, <1>2
<1>4. Bits' = Bits /\ \A j : SlotAddr(j)' = SlotAddr(j)  BY <1>1 DEF Bits, SlotAddr
<1>5. BitsAreBlocks'
  BY <1>1, <1>3, <1>4 DEF BudgetInv, BitsAreBlocks
<1> QED  BY <1>1, <1>3, <1>4, <1>5 DEF BudgetInv, WellFormed

\* Every step.
LEMMA StepBudgetInv == BudgetInv /\ [Next]_vars => BudgetInv'
<1> SUFFICES ASSUME BudgetInv, [Next]_vars PROVE BudgetInv'
  OBVIOUS
<1>1. CASE UNCHANGED vars
  BY <1>1 DEF vars, BudgetInv, WellFormed, BitsAreBlocks, Bits, SlotAddr
<1>2. ASSUME NEW n \in Sizes, budget_allocator_allocate(n) PROVE BudgetInv'
  BY <1>2, AllocateBudgetInv
<1>3. ASSUME NEW ptr \in Pointers, budget_allocator_deallocate(ptr) PROVE BudgetInv'
  <2>1. ptr \in Int  BY DEF BudgetInv, WellFormed, PoolType, Pointers
  <2> QED  BY <1>3, <2>1, DeallocateBudgetInv
<1>4. ASSUME NEW b \in live, NEW n \in Sizes,
             budget_allocator_resize(b, n) \/ budget_allocator_remap(b, n)
      PROVE  BudgetInv'
  <2>1. b.addr \in Int  BY DEF BudgetInv
  <2> QED
    BY <1>4, <2>1, RefitBudgetInv, DeallocateBudgetInv DEF budget_allocator_resize, budget_allocator_remap
<1>5. CASE AllocatorResetStats
  BY <1>5 DEF AllocatorResetStats, BudgetInv, WellFormed, BitsAreBlocks, Bits, SlotAddr
<1>6. CASE BudgetAllocatorDeinit
  <2>1. WellFormed(pool')  BY <1>6, InitWellFormed DEF BudgetAllocatorDeinit
  <2> QED  BY <1>6, <2>1 DEF BudgetAllocatorDeinit, NoStats, BudgetInv, WellFormed, BitsAreBlocks
<1> QED  BY <1>1, <1>2, <1>3, <1>4, <1>5, <1>6 DEF Next

\* The invariant holds throughout.
LEMMA BudgetInductive == Spec => []BudgetInv
  BY InitBudgetInv, StepBudgetInv, PTL DEF Spec

\* The layout, the bits, the blocks and the counters keep their types.
THEOREM BudgetTypeCorrect == Spec => []BudgetTypeOK
<1>1. BudgetInv => BudgetTypeOK
  BY DEF BudgetInv, WellFormed, PoolType, BudgetTypeOK
<1> QED  BY <1>1, BudgetInductive, PTL

\* Whatever the buffer's address, length, slot size and alignment, what Init
\* works out fits it, with a slot to serve and a bit for every slot.
THEOREM BudgetLayoutFits == Spec => []PoolInsideBuffer
<1>1. BudgetInv => PoolInsideBuffer
  BY DEF BudgetInv, WellFormed, PoolInsideBuffer
<1> QED  BY <1>1, BudgetInductive, PTL

\* Bits and blocks agree in every reachable state, bad frees included.
THEOREM BudgetBlocksTracked == Spec => []BitsAreBlocks
<1>1. BudgetInv => BitsAreBlocks
  BY DEF BudgetInv
<1> QED  BY <1>1, BudgetInductive, PTL

------------------------------------------------------------------------------
\* The counters.

\* The bits can be counted.
LEMMA BitmapFinite == BudgetInv => IsFiniteSet(bitmap) /\ Cardinality(bitmap) \in Nat
<1> SUFFICES ASSUME BudgetInv PROVE IsFiniteSet(bitmap) /\ Cardinality(bitmap) \in Nat
  OBVIOUS
<1>1. pool.bitmap_words * WordBits - 1 \in Int  BY PoolFacts DEF BudgetInv
<1>2. IsFiniteSet(Bits)  BY <1>1, FS_Interval DEF Bits
<1>3. IsFiniteSet(bitmap)  BY <1>2, FS_Subset DEF BudgetInv
<1> QED  BY <1>3, FS_CardinalityType

\* A slot handed out is counted.
LEMMA AllocateStats ==
  ASSUME BudgetInv, StatsExact, NEW n \in Sizes, budget_allocator_allocate(n)
  PROVE  StatsExact'
<1> DEFINE s == pool.slot_size
           c == Cardinality(bitmap)
           u == stats.bytes_in_use
           k == stats.peak_bytes_in_use
<1>1. PICK i \in Bits : /\ i \notin bitmap /\ bitmap' = bitmap \cup {i} /\ pool' = pool
                        /\ stats' = Raised(u + s)
  BY DEF budget_allocator_allocate, FirstFree
<1>2. s \in Nat /\ c \in Nat /\ u \in Nat /\ k \in Nat  BY PoolFacts, BitmapFinite DEF BudgetInv
<1>3. Cardinality(bitmap') = c + 1  BY <1>1, BitmapFinite, FS_AddElement
<1>4. u = c * s  BY DEF StatsExact
<1>5. stats'.bytes_in_use = u + s /\ stats'.peak_bytes_in_use >= u + s
  <2>1. stats' = [bytes_in_use |-> u + s, peak_bytes_in_use |-> IF u + s > k THEN u + s ELSE k]
    BY <1>1 DEF Raised
  <2> HIDE DEF u, s, k
  <2> QED  BY <2>1, <1>2
<1>6. (c + 1) * s = c * s + s  BY <1>2
<1> QED  BY <1>1, <1>3, <1>4, <1>5, <1>6 DEF StatsExact

\* A slot given back is counted.
LEMMA DeallocateStats ==
  ASSUME BudgetInv, StatsExact, NEW ptr \in Int, budget_allocator_deallocate(ptr)
  PROVE  StatsExact'
<1> DEFINE s == pool.slot_size
           c == Cardinality(bitmap)
           u == stats.bytes_in_use
           k == stats.peak_bytes_in_use
<1>1. CASE Owned(ptr)
  <2>1. /\ bitmap' = bitmap \ {IndexOf(ptr)} /\ pool' = pool
        /\ stats' = [stats EXCEPT !.bytes_in_use = IF s <= u THEN u - s ELSE 0]
    BY <1>1 DEF budget_allocator_deallocate, Lowered
  <2>2. IndexOf(ptr) \in bitmap  BY <1>1 DEF Owned
  <2>3. s \in Nat /\ c \in Nat /\ u \in Nat /\ k \in Nat
        /\ stats \in [bytes_in_use : Nat, peak_bytes_in_use : Nat]
    BY PoolFacts, BitmapFinite DEF BudgetInv
  <2>4. Cardinality(bitmap') = c - 1  BY <2>1, <2>2, BitmapFinite, FS_RemoveElement
  <2>5. c > 0  BY <2>2, <2>3, BitmapFinite, FS_EmptySet
  <2>6. u = c * s /\ k >= u  BY DEF StatsExact
  <2>7. (c - 1) * s = c * s - s /\ (c - 1) * s \in Nat  BY <2>3, <2>5
  <2>8. s <= u /\ u - s = (c - 1) * s /\ u - s <= k
    <3> HIDE DEF c, s, u, k
    <3> QED  BY <2>3, <2>6, <2>7
  <2>9. stats'.bytes_in_use = u - s /\ stats'.peak_bytes_in_use = k
    BY <2>1, <2>3, <2>8
  <2> QED
    BY <2>1, <2>4, <2>8, <2>9 DEF StatsExact
<1>2. CASE ~Owned(ptr)
  BY <1>2 DEF budget_allocator_deallocate, StatsExact
<1> QED  BY <1>1, <1>2

\* bytes_in_use is the bytes of the slots in use, across every sequence of
\* calls, and never past its peak.
THEOREM BudgetStatsCorrect == Spec => []StatsExact
<1>1. Init => StatsExact
  <2> SUFFICES ASSUME Init PROVE StatsExact
    OBVIOUS
  <2>1. Cardinality(bitmap) = 0  BY FS_EmptySet DEF Init
  <2>2. pool.slot_size \in Nat  BY InitWellFormed, PoolFacts DEF Init
  <2> QED  BY <2>1, <2>2 DEF Init, NoStats, StatsExact
<1>2. BudgetInv /\ BudgetInv' /\ StatsExact /\ [Next]_vars => StatsExact'
  <2> SUFFICES ASSUME BudgetInv, BudgetInv', StatsExact, [Next]_vars PROVE StatsExact'
    OBVIOUS
  <2>1. CASE UNCHANGED vars  BY <2>1 DEF vars, StatsExact
  <2>2. ASSUME NEW n \in Sizes, budget_allocator_allocate(n) PROVE StatsExact'
    BY <2>2, AllocateStats
  <2>3. ASSUME NEW ptr \in Pointers, budget_allocator_deallocate(ptr) PROVE StatsExact'
    <3>1. ptr \in Int  BY DEF BudgetInv, WellFormed, PoolType, Pointers
    <3> QED  BY <2>3, <3>1, DeallocateStats
  <2>4. ASSUME NEW b \in live, NEW n \in Sizes,
               budget_allocator_resize(b, n) \/ budget_allocator_remap(b, n)
        PROVE  StatsExact'
    <3>1. b.addr \in Int  BY DEF BudgetInv
    <3>2. CASE Refit(b, n)  BY <3>2 DEF Refit, StatsExact
    <3>3. CASE budget_allocator_deallocate(b.addr)  BY <3>1, <3>3, DeallocateStats
    <3> QED  BY <2>4, <3>2, <3>3 DEF budget_allocator_resize, budget_allocator_remap
  <2>5. CASE AllocatorResetStats
    <3>1. stats'.bytes_in_use = stats.bytes_in_use
          /\ stats'.peak_bytes_in_use = stats.bytes_in_use /\ stats.bytes_in_use \in Nat
      BY <2>5 DEF AllocatorResetStats, BudgetInv
    <3> QED  BY <2>5, <3>1 DEF AllocatorResetStats, StatsExact
  <2>6. CASE BudgetAllocatorDeinit
    <3>1. Cardinality(bitmap') = 0  BY <2>6, FS_EmptySet DEF BudgetAllocatorDeinit
    <3>2. pool'.slot_size \in Nat  BY DEF BudgetInv, WellFormed, PoolType
    <3> QED  BY <2>6, <3>1, <3>2 DEF BudgetAllocatorDeinit, NoStats, StatsExact
  <2> QED  BY <2>1, <2>2, <2>3, <2>4, <2>5, <2>6 DEF Next
<1> QED  BY <1>1, <1>2, BudgetInductive, PTL DEF Spec

------------------------------------------------------------------------------
\* The refinement.

\* Blocks in different slots are disjoint, whatever their lengths.
LEMMA BlocksDisjoint ==
  ASSUME WellFormed(pool), NEW i \in Nat, NEW j \in Nat, i # j,
         NEW m \in 1..pool.slot_size, NEW l \in 1..pool.slot_size
  PROVE  SlotAddr(i) + m <= SlotAddr(j) \/ SlotAddr(j) + l <= SlotAddr(i)
<1>1. SlotAddr(i) \in Nat /\ SlotAddr(j) \in Nat /\ pool.slot_size \in Nat  BY PoolFacts
<1>2. CASE i < j  BY <1>1, <1>2, PoolSlotsApart
<1>3. CASE j < i  BY <1>1, <1>3, PoolSlotsApart
<1> QED  BY <1>2, <1>3

\* Allocation is that of the contract.
LEMMA AllocateRefines ==
  ASSUME BudgetInv, NEW n \in Sizes, budget_allocator_allocate(n)
  PROVE  Contract!Alloc
<1>1. PICK i \in Bits : /\ n \in 1..pool.slot_size /\ i \notin bitmap
                        /\ live' = live \cup {[addr |-> SlotAddr(i), len |-> n]}
  BY DEF budget_allocator_allocate, FirstFree
<1> DEFINE new == [addr |-> SlotAddr(i), len |-> n]
<1>2. WellFormed(pool) /\ i \in Nat /\ bitmap \subseteq Nat  BY <1>1, PoolFacts DEF BudgetInv
<1>3. ASSUME NEW x \in live
      PROVE  x # new /\ Contract!Disjoint(new, x)
  <2>1. PICK j \in bitmap : x.addr = SlotAddr(j) /\ x.len \in 1..pool.slot_size
    BY DEF BudgetInv, BitsAreBlocks
  <2>2. j \in Nat /\ i # j  BY <1>1, <1>2, <2>1
  <2>3. SlotAddr(i) # SlotAddr(j)  BY <1>2, <2>2, SlotsDiffer
  <2>4. SlotAddr(i) + n <= SlotAddr(j) \/ SlotAddr(j) + x.len <= SlotAddr(i)
    BY <1>1, <1>2, <2>1, <2>2, BlocksDisjoint
  <2> QED  BY <2>1, <2>3, <2>4 DEF Contract!Disjoint
<1>4. new.len > 0  BY <1>1, <1>2, PoolFacts
<1> QED  BY <1>1, <1>3, <1>4 DEF Contract!Alloc, Contract!Fits

\* So is a free.
LEMMA DeallocateRefines ==
  ASSUME BudgetInv, NEW ptr \in Int, budget_allocator_deallocate(ptr)
  PROVE  Contract!Free \/ UNCHANGED live
<1>1. CASE Owned(ptr)
  <2>1. live' = {b \in live : b.addr # ptr}  BY <1>1 DEF budget_allocator_deallocate
  <2>2. PICK b \in live : b.addr = ptr
    <3>1. IndexOf(ptr) \in bitmap /\ SlotAddr(IndexOf(ptr)) = ptr
      BY <1>1, IndexOfSlot DEF BudgetInv
    <3> QED  BY <3>1 DEF BudgetInv, BitsAreBlocks
  <2>3. live' = live \ {b}  BY <2>1, <2>2 DEF BudgetInv, BitsAreBlocks
  <2> QED  BY <2>3 DEF Contract!Free
<1>2. CASE ~Owned(ptr)  BY <1>2 DEF budget_allocator_deallocate
<1> QED  BY <1>1, <1>2

\* And a resize.
LEMMA RefitRefines ==
  ASSUME BudgetInv, NEW b \in live, NEW n \in Sizes, Refit(b, n)
  PROVE  Contract!Remap \/ UNCHANGED live
<1> DEFINE d == [b EXCEPT !.len = n]
<1>1. n \in 1..pool.slot_size /\ live' = (live \ {b}) \cup {d}  BY DEF Refit
<1>2. b \in [addr : Nat, len : Nat] /\ WellFormed(pool) /\ bitmap \subseteq Nat
  BY PoolFacts DEF BudgetInv
<1>3. d.addr = b.addr /\ d.len = n /\ n > 0  BY <1>1, <1>2, PoolFacts
<1>4. CASE d = b  BY <1>1, <1>4
<1>5. CASE d # b
  <2>1. d \notin live  BY <1>3, <1>5 DEF BudgetInv, BitsAreBlocks
  <2>2. ASSUME NEW x \in live \ {b} PROVE Contract!Disjoint(d, x)
    <3>1. PICK i \in bitmap : b.addr = SlotAddr(i)  BY DEF BudgetInv, BitsAreBlocks
    <3>2. PICK j \in bitmap : x.addr = SlotAddr(j) /\ x.len \in 1..pool.slot_size
      BY DEF BudgetInv, BitsAreBlocks
    <3>3. i # j  BY <2>2, <3>1, <3>2 DEF BudgetInv, BitsAreBlocks
    <3>4. SlotAddr(i) + n <= SlotAddr(j) \/ SlotAddr(j) + x.len <= SlotAddr(i)
      BY <1>1, <1>2, <3>2, <3>3, BlocksDisjoint
    <3> QED  BY <1>3, <3>1, <3>2, <3>4 DEF Contract!Disjoint
  <2>3. d.len > 0 /\ d \in live' \ live  BY <1>1, <1>3, <2>1
  <2>4. Contract!Fits(d, live \ {b})
    <3> HIDE DEF d
    <3> QED  BY <2>2, <2>3 DEF Contract!Fits
  <2> HIDE DEF d
  <2> QED  BY <1>1, <2>3, <2>4 DEF Contract!Remap
<1> QED  BY <1>4, <1>5

\* Every behaviour of the pool is one of the allocator contract: blocks never
\* overlap, and each call adds, takes or refits one of them, all, or none.
THEOREM BudgetKeepsContract == Spec => ImplementsContract
<1>1. Init => Contract!ContractInit
  BY DEF Init, Contract!ContractInit
<1>2. BudgetInv /\ [Next]_vars => [Contract!ContractNext]_live
  <2> SUFFICES ASSUME BudgetInv, [Next]_vars
               PROVE  Contract!ContractNext \/ UNCHANGED live
    OBVIOUS
  <2>1. CASE UNCHANGED vars  BY <2>1 DEF vars
  <2>2. ASSUME NEW n \in Sizes, budget_allocator_allocate(n) PROVE Contract!ContractNext
    BY <2>2, AllocateRefines DEF Contract!ContractNext
  <2>3. ASSUME NEW ptr \in Pointers, budget_allocator_deallocate(ptr)
        PROVE  Contract!ContractNext \/ UNCHANGED live
    <3>1. ptr \in Int  BY DEF BudgetInv, WellFormed, PoolType, Pointers
    <3> QED  BY <2>3, <3>1, DeallocateRefines DEF Contract!ContractNext
  <2>4. ASSUME NEW b \in live, NEW n \in Sizes,
               budget_allocator_resize(b, n) \/ budget_allocator_remap(b, n)
        PROVE  Contract!ContractNext \/ UNCHANGED live
    <3>1. b.addr \in Int  BY DEF BudgetInv
    <3> QED
      BY <2>4, <3>1, RefitRefines, DeallocateRefines
      DEF budget_allocator_resize, budget_allocator_remap, Contract!ContractNext
  <2>5. CASE AllocatorResetStats  BY <2>5 DEF AllocatorResetStats
  <2>6. CASE BudgetAllocatorDeinit
    BY <2>6 DEF BudgetAllocatorDeinit, Contract!ContractNext, Contract!FreeAll
  <2> QED  BY <2>1, <2>2, <2>3, <2>4, <2>5, <2>6 DEF Next
<1> QED  BY <1>1, <1>2, BudgetInductive, PTL DEF Spec, ImplementsContract, Contract!ContractSpec
=============================================================================
