------------------------------- MODULE Lemmas -------------------------------
(***************************************************************************)
(* Facts the proofs of several components rest on: division and alignment, *)
(* induction over the natural numbers in a form that needs no operator     *)
(* parameter, sums as the number of the units they count, the sizes of     *)
(* sets, and sequences as the lists and stacks the allocators keep.        *)
(***************************************************************************)
EXTENDS Integers, SequenceTheorems, FiniteSetTheorems, TLAPS

------------------------------------------------------------------------------
\* Arithmetic.

\* Division with remainder.
LEMMA DivProps ==
  ASSUME NEW n \in Nat, NEW d \in Nat \ {0}
  PROVE  /\ n \div d \in Nat /\ (n % d) \in 0..(d - 1)
         /\ n = d * (n \div d) + (n % d)
         /\ d * (n \div d) <= n /\ n < d * (n \div d) + d
  BY SMT

\* The next multiple after i * s is s further on.
LEMMA NextMultiple ==
  ASSUME NEW s \in Nat, NEW i \in Nat, NEW j \in Nat, i < j
  PROVE  i * s + s <= j * s
<1>1. PICK k \in Nat : j = i + 1 + k
  <2>1. j - i - 1 \in Nat  OBVIOUS
  <2> QED  BY <2>1
<1>2. j * s = i * s + s + k * s  BY <1>1
<1>3. k * s \in Nat  OBVIOUS
<1> QED  BY <1>2, <1>3

\* A sum has the remainder of the sum of remainders.
LEMMA ModSum ==
  ASSUME NEW cap \in Nat \ {0}, NEW n \in Nat, NEW k \in Nat
  PROVE  (n + k) % cap = ((n % cap) + k) % cap
<1> DEFINE q == n \div cap
           r == n % cap
           e == (n + k) % cap
           m == r + k
<1>1. q \in Nat /\ r \in 0..(cap - 1) /\ n = cap * q + r  BY DivProps
<1>2. m \in Nat /\ n + k \in Nat  BY <1>1
<1>3. PICK u \in Nat : u = (n + k) \div cap /\ n + k = cap * u + e /\ e \in 0..(cap - 1)
  BY <1>2, DivProps
<1>4. PICK v \in Nat : v = m \div cap /\ m = cap * v + (m % cap) /\ (m % cap) \in 0..(cap - 1)
  BY <1>2, DivProps
<1> DEFINE z == m % cap
<1> HIDE DEF q, r, e, z
<1>5. cap * q + r + k = cap * u + e /\ r + k = cap * v + z
  BY <1>1, <1>3, <1>4 DEF z
<1>6. cap * u + e = cap * q + cap * v + z
  <2>1. cap * q \in Int /\ cap * u \in Int /\ cap * v \in Int  BY <1>1, <1>3, <1>4
  <2>2. e \in Int /\ z \in Int /\ r \in Int  BY <1>1, <1>3, <1>4 DEF z
  <2> QED  BY <2>1, <2>2, <1>5
<1>7. cap * (q + v) = cap * q + cap * v  BY <1>1, <1>4
<1>8. u = q + v
  <2> DEFINE w == q + v
  <2>1. w \in Nat /\ cap * u + e = cap * w + z /\ e \in 0..(cap - 1) /\ z \in 0..(cap - 1)
    BY <1>1, <1>3, <1>4, <1>6, <1>7 DEF z
  <2> HIDE DEF w
  <2>2. u = w
    <3>1. CASE u < w
      <4>1. u * cap + cap <= w * cap  BY <3>1, <2>1, <1>3, NextMultiple
      <4> QED  BY <4>1, <2>1, <1>3
    <3>2. CASE w < u
      <4>1. w * cap + cap <= u * cap  BY <3>2, <2>1, <1>3, NextMultiple
      <4> QED  BY <4>1, <2>1, <1>3
    <3> QED  BY <3>1, <3>2, <2>1, <1>3
  <2> QED  BY <2>2 DEF w
<1>9. e = z  BY <1>1, <1>3, <1>4, <1>6, <1>7, <1>8 DEF z
<1> QED  BY <1>9 DEF e, z, r

\* Sizes that differ by that many pages.
LEMMA PagesMore ==
  ASSUME NEW n \in Nat, NEW m \in Nat, NEW z \in Nat, NEW c \in Nat
  PROVE  c - n * z + m * z = c + (m - n) * z
<1>1. (m - n) * z = m * z - n * z  OBVIOUS
<1>2. n * z \in Nat /\ m * z \in Nat  OBVIOUS
<1> DEFINE u == n * z
           v == m * z
<1> HIDE DEF u, v
<1>3. u \in Nat /\ v \in Nat /\ c - u + v = c + (v - u)  BY <1>2 DEF u, v
<1> QED  BY <1>1, <1>3 DEF u, v

\* A multiple leaves no remainder.
LEMMA ModOfMultiple ==
  ASSUME NEW q \in Nat, NEW d \in Nat \ {0}
  PROVE  (q * d) % d = 0
<1> DEFINE n == q * d
           p == n \div d
<1>1. n \in Nat  OBVIOUS
<1>2. p \in Nat /\ d * p <= n /\ n < d * p + d /\ n = d * p + (n % d) /\ (n % d) \in 0..(d - 1)
  BY <1>1, DivProps
<1>3. p * d = d * p  BY <1>2
<1>4. ~(p < q)  BY <1>2, <1>3, NextMultiple
<1>5. ~(q < p)  BY <1>2, <1>3, NextMultiple
<1>6. p = q  BY <1>2, <1>4, <1>5
<1> QED  BY <1>1, <1>2, <1>6

------------------------------------------------------------------------------
\* Induction.

\* A set of numbers with 0 and every successor has them all.
LEMMA SetInduction ==
  ASSUME NEW S, 0 \in S, \A n \in Nat : n \in S => n + 1 \in S
  PROVE  Nat \subseteq S
<1> DEFINE R == OpToRel(<, Nat)
           T == {n \in Nat : n \notin S}
<1> SUFFICES ASSUME T # {} PROVE FALSE  OBVIOUS
<1>1. IsWellFoundedOn(R, Nat)  BY NatLessThanWellFounded
<1>2. \E x \in T : \A y \in T : ~ (<<y, x>> \in R)
  <2> HIDE DEF R
  <2> QED  BY <1>1, WFMin
<1>3. PICK x \in T : \A y \in T : ~ (<<y, x>> \in R)  BY <1>2
<1>4. x # 0 /\ x - 1 \in Nat  BY SMT
<1>5. x - 1 \notin S  BY <1>4
<1>6. <<x - 1, x>> \in R  BY <1>4 DEF OpToRel
<1> QED  BY <1>3, <1>4, <1>5, <1>6

\* What holds at the start and is handed on holds all the way.
LEMMA AllTheWay ==
  ASSUME NEW f, NEW S, NEW n \in Nat, f[0] \in S,
         \A k \in 1..n : f[k - 1] \in S => f[k] \in S
  PROVE  \A k \in 0..n : f[k] \in S
<1> DEFINE T == {k \in Nat : k <= n => f[k] \in S}
<1>1. 0 \in T  OBVIOUS
<1>2. ASSUME NEW k \in Nat, k \in T PROVE k + 1 \in T
  <2>1. k + 1 <= n => k + 1 \in 1..n /\ f[(k + 1) - 1] = f[k]  OBVIOUS
  <2> QED  BY <1>2, <2>1
<1> HIDE DEF T
<1>3. Nat \subseteq T  BY <1>1, <1>2, SetInduction
<1>4. \A k \in 0..n : k \in T /\ k <= n  BY <1>3
<1> QED  BY <1>4 DEF T

\* A loop of n rounds that starts with a and has F[k] for its k-th, and a run of it.
Loop(S, a, F, n) == a \in S /\ F \in [Nat -> [S -> S]] /\ n \in Nat
RunOf(S, a, F, n, f) == f \in [0..n -> S] /\ f[0] = a /\ \A k \in 1..n : f[k] = F[k][f[k - 1]]

\* Every loop has a run: a recursive function of the rounds exists.
LEMMA LoopRuns ==
  ASSUME NEW S, NEW a, NEW F, NEW n, Loop(S, a, F, n)
  PROVE  \E f : RunOf(S, a, F, n, f)
<1> SUFFICES ASSUME a \in S, F \in [Nat -> [S -> S]], n \in Nat
             PROVE  \E f \in [0..n -> S] : f[0] = a /\ \A k \in 1..n : f[k] = F[k][f[k - 1]]
  BY DEF Loop, RunOf
<1> DEFINE Run(m, f) == f[0] = a /\ \A k \in 1..m : f[k] = F[k][f[k - 1]]
           T == {m \in Nat : \E f \in [0..m -> S] : Run(m, f)}
<1>1. 0 \in T
  <2>1. [k \in 0..0 |-> a] \in [0..0 -> S] /\ Run(0, [k \in 0..0 |-> a])  OBVIOUS
  <2> QED  BY <2>1
<1>2. ASSUME NEW m \in Nat, m \in T PROVE m + 1 \in T
  <2>1. PICK f \in [0..m -> S] : Run(m, f)  BY <1>2
  <2> DEFINE g == [k \in 0..(m + 1) |-> IF k <= m THEN f[k] ELSE F[m + 1][f[m]]]
  <2>2. f[m] \in S /\ F[m + 1][f[m]] \in S  OBVIOUS
  <2>3. g \in [0..(m + 1) -> S]  BY <2>2
  <2>4. g[0] = a  BY <2>1
  <2>5. ASSUME NEW k \in 1..(m + 1) PROVE g[k] = F[k][g[k - 1]]
    <3>1. CASE k <= m
      <4>1. k \in 1..m /\ k - 1 \in 0..(m + 1) /\ k - 1 <= m  BY <3>1
      <4>2. g[k - 1] = f[k - 1] /\ g[k] = f[k]  BY <3>1, <4>1
      <4> QED  BY <2>1, <4>1, <4>2
    <3>2. CASE k = m + 1
      <4>1. k - 1 = m /\ m \in 0..(m + 1)  BY <3>2
      <4>2. g[k - 1] = f[m] /\ g[k] = F[m + 1][f[m]]  BY <3>2, <4>1
      <4> QED  BY <3>2, <4>2
    <3> QED  BY <3>1, <3>2
  <2> HIDE DEF g
  <2>6. Run(m + 1, g)  BY <2>4, <2>5
  <2> HIDE DEF Run
  <2>7. \E h \in [0..(m + 1) -> S] : Run(m + 1, h)  BY <2>3, <2>6
  <2> QED  BY <2>7
<1> HIDE DEF T
<1>3. Nat \subseteq T  BY <1>1, <1>2, SetInduction
<1> QED  BY <1>3 DEF T

\* The same, of a loop whose parts are given.
LEMMA RunExists ==
  ASSUME NEW S, NEW a \in S, NEW F \in [Nat -> [S -> S]], NEW n \in Nat
  PROVE  \E f \in [0..n -> S] : f[0] = a /\ \A k \in 1..n : f[k] = F[k][f[k - 1]]
<1>1. Loop(S, a, F, n)  BY DEF Loop
<1>2. \E f : RunOf(S, a, F, n, f)  BY <1>1, LoopRuns
<1> QED  BY <1>2 DEF RunOf

------------------------------------------------------------------------------
\* Sums.

\* One unit for everything that the values of f count.
Units(f) == UNION {{x} \X (1..f[x]) : x \in DOMAIN f}
CountOf(f) == Cardinality(Units(f))

\* The units of a function without points.
LEMMA CountEmpty ==
  ASSUME NEW f, DOMAIN f = {}
  PROVE  Units(f) = {} /\ CountOf(f) = 0
<1>1. Units(f) = {}  BY DEF Units
<1> QED  BY <1>1, FS_EmptySet DEF CountOf

\* The units at one point are as many as its value.
LEMMA PointUnits ==
  ASSUME NEW x, NEW n \in Nat
  PROVE  IsFiniteSet({x} \X (1..n)) /\ Cardinality({x} \X (1..n)) = n
<1>1. IsFiniteSet({x}) /\ Cardinality({x}) = 1  BY FS_Singleton
<1>2. IsFiniteSet(1..n) /\ Cardinality(1..n) = n  BY FS_Interval
<1> DEFINE A == {x}
           B == 1..n
<1> HIDE DEF A, B
<1>3. IsFiniteSet(A \X B) /\ Cardinality(A \X B) = Cardinality(A) * Cardinality(B)
  BY <1>1, <1>2, FS_Product DEF A, B
<1>4. Cardinality(A) = 1 /\ Cardinality(B) = n  BY <1>1, <1>2 DEF A, B
<1> QED  BY <1>3, <1>4 DEF A, B

\* The sum of naturals over a finite set is a natural.
LEMMA CountType ==
  ASSUME NEW S, IsFiniteSet(S), NEW f \in [S -> Nat]
  PROVE  IsFiniteSet(Units(f)) /\ CountOf(f) \in Nat
<1> DEFINE g == [x \in S |-> {x} \X (1..f[x])]
           T == {{x} \X (1..f[x]) : x \in S}
<1>1. g \in Surjection(S, T)  BY DEF Surjection
<1> HIDE DEF g
<1>2. IsFiniteSet(T)  BY <1>1, FS_Surjection
<1>3. \A U \in T : IsFiniteSet(U)
  <2> SUFFICES ASSUME NEW x \in S PROVE IsFiniteSet({x} \X (1..f[x]))  OBVIOUS
  <2>1. f[x] \in Nat  OBVIOUS
  <2> QED  BY <2>1, PointUnits
<1>4. IsFiniteSet(UNION T)  BY <1>2, <1>3, FS_UNION
<1>5. Units(f) = UNION T  BY DEF Units
<1> QED  BY <1>4, <1>5, FS_CardinalityType DEF CountOf

\* One more point adds its value.
LEMMA CountAdd ==
  ASSUME NEW S, IsFiniteSet(S), NEW f \in [S -> Nat], NEW x, x \notin S,
         NEW g \in [S \cup {x} -> Nat], \A y \in S : g[y] = f[y]
  PROVE  CountOf(g) = CountOf(f) + g[x]
<1> DEFINE P == {x} \X (1..g[x])
<1>1. g[x] \in Nat  OBVIOUS
<1>2. IsFiniteSet(P) /\ Cardinality(P) = g[x]  BY <1>1, PointUnits
<1>3. Units(g) = Units(f) \cup P  BY DEF Units
<1>4. Units(f) \cap P = {}  BY DEF Units
<1>5. IsFiniteSet(Units(f)) /\ Cardinality(Units(f)) \in Nat  BY CountType DEF CountOf
<1>6. Cardinality(Units(f) \cup P) = Cardinality(Units(f)) + Cardinality(P) - Cardinality(Units(f) \cap P)
  BY <1>2, <1>5, FS_Union
<1>7. Cardinality(Units(f) \cap P) = 0  BY <1>4, FS_EmptySet
<1> QED  BY <1>1, <1>2, <1>3, <1>5, <1>6, <1>7 DEF CountOf

\* A point less takes its value away.
LEMMA CountRemove ==
  ASSUME NEW S, IsFiniteSet(S), NEW f \in [S -> Nat], NEW x \in S,
         NEW g \in [S \ {x} -> Nat], \A y \in S \ {x} : g[y] = f[y]
  PROVE  CountOf(g) = CountOf(f) - f[x] /\ f[x] <= CountOf(f)
<1> DEFINE U == S \ {x}
<1>1. IsFiniteSet(U)  BY FS_RemoveElement
<1>2. S = U \cup {x} /\ x \notin U  OBVIOUS
<1> HIDE DEF U
<1>3. CountOf(f) = CountOf(g) + f[x]
  <2>1. g \in [U -> Nat] /\ f \in [U \cup {x} -> Nat] /\ \A y \in U : f[y] = g[y]  BY <1>2 DEF U
  <2> QED  BY <1>1, <1>2, <2>1, CountAdd
<1>4. CountOf(g) \in Nat /\ f[x] \in Nat
  <2>1. g \in [U -> Nat]  BY DEF U
  <2> QED  BY <1>1, <2>1, CountType
<1> QED  BY <1>3, <1>4

\* A value that changes changes the sum by as much.
LEMMA CountChange ==
  ASSUME NEW S, IsFiniteSet(S), NEW f \in [S -> Nat], NEW x \in S,
         NEW g \in [S -> Nat], \A y \in S \ {x} : g[y] = f[y]
  PROVE  CountOf(g) = CountOf(f) - f[x] + g[x]
<1> DEFINE h == [y \in S \ {x} |-> f[y]]
<1>1. h \in [S \ {x} -> Nat] /\ \A y \in S \ {x} : h[y] = f[y] /\ h[y] = g[y]  OBVIOUS
<1> HIDE DEF h
<1>2. CountOf(h) = CountOf(f) - f[x] /\ CountOf(h) = CountOf(g) - g[x]  BY <1>1, CountRemove
<1>3. CountOf(f) \in Nat /\ CountOf(g) \in Nat  BY CountType
<1> QED  BY <1>2, <1>3

\* The sum does not depend on how the points are named.
LEMMA CountRenamed ==
  ASSUME NEW S, IsFiniteSet(S), NEW f \in [S -> Nat],
         NEW T, NEW h \in Bijection(T, S), NEW g \in [T -> Nat], \A y \in T : g[y] = f[h[y]]
  PROVE  CountOf(g) = CountOf(f)
<1> DEFINE k == [u \in Units(g) |-> <<h[u[1]], u[2]>>]
<1>1. /\ h \in [T -> S] /\ \A a, b \in T : h[a] = h[b] => a = b
      /\ \A s \in S : \E t \in T : h[t] = s
  BY DEF Bijection, Injection, Surjection, IsInjective
<1>2. \A u \in Units(g) : u = <<u[1], u[2]>> /\ u[1] \in T /\ u[2] \in 1..g[u[1]]  BY DEF Units
<1>3. \A y \in T : \A n \in 1..g[y] : <<y, n>> \in Units(g)  BY DEF Units
<1>4. \A y \in S : \A n \in 1..f[y] : <<y, n>> \in Units(f)  BY DEF Units
<1>5. \A u \in Units(f) : u = <<u[1], u[2]>> /\ u[1] \in S /\ u[2] \in 1..f[u[1]]  BY DEF Units
<1>6. k \in [Units(g) -> Units(f)]  BY <1>1, <1>2, <1>4
<1>7. \A u, v \in Units(g) : k[u] = k[v] => u = v
  <2> SUFFICES ASSUME NEW u \in Units(g), NEW v \in Units(g), k[u] = k[v] PROVE u = v  OBVIOUS
  <2>1. h[u[1]] = h[v[1]] /\ u[2] = v[2]  OBVIOUS
  <2> QED  BY <2>1, <1>1, <1>2
<1>8. \A v \in Units(f) : \E u \in Units(g) : k[u] = v
  <2> SUFFICES ASSUME NEW v \in Units(f) PROVE \E u \in Units(g) : k[u] = v  OBVIOUS
  <2>1. PICK t \in T : h[t] = v[1]  BY <1>1, <1>5
  <2>2. <<t, v[2]>> \in Units(g)  BY <2>1, <1>3, <1>5
  <2>3. k[<<t, v[2]>>] = <<h[t], v[2]>>  BY <2>2
  <2>4. k[<<t, v[2]>>] = v  BY <2>3, <2>1, <1>5
  <2> QED  BY <2>2, <2>4
<1> HIDE DEF k
<1>9. k \in Bijection(Units(g), Units(f))
  BY <1>6, <1>7, <1>8 DEF Bijection, Injection, Surjection, IsInjective
<1>10. IsFiniteSet(T)
  <2>1. h \in Injection(T, S)  BY DEF Bijection
  <2> QED  BY <2>1, FS_Injection
<1>11. IsFiniteSet(Units(g))  BY <1>10, CountType
<1>12. ExistsBijection(Units(g), Units(f))  BY <1>9 DEF ExistsBijection
<1> QED  BY <1>11, <1>12, FS_Bijection DEF CountOf

\* M has one point more than N, and h renames the others.
OneMore(N, M, z, h, u, w) ==
    /\ IsFiniteSet(N) /\ IsFiniteSet(M) /\ z \in M
    /\ h \in [N -> M \ {z}]
    /\ \A j, k \in N : h[j] = h[k] => j = k
    /\ \A j \in M \ {z} : \E k \in N : h[k] = j
    /\ u \in [N -> Nat] /\ w \in [M -> Nat]
    /\ \A k \in N : w[h[k]] = u[k]

\* Counting over one element more adds the count of that element.
LEMMA CountOneMore ==
  ASSUME NEW N, NEW M, NEW z, NEW h, NEW u, NEW w, OneMore(N, M, z, h, u, w)
  PROVE  CountOf(w) = CountOf(u) + w[z] /\ CountOf(u) \in Nat /\ CountOf(w) \in Nat
<1> DEFINE S == M \ {z}
           g == [j \in S |-> w[j]]
<1> USE DEF OneMore
<1>1. IsFiniteSet(S)  BY FS_RemoveElement
<1>2. z \notin S /\ M = S \cup {z} /\ g \in [S -> Nat] /\ \A j \in S : w[j] = g[j]  OBVIOUS
<1>3. h \in Bijection(N, S)  BY DEF Bijection, Injection, Surjection, IsInjective
<1>4. \A k \in N : u[k] = g[h[k]]  OBVIOUS
<1> HIDE DEF S, g
<1>5. CountOf(u) = CountOf(g)
  <2>1. u \in [N -> Nat] /\ g \in [S -> Nat]  BY <1>2
  <2> HIDE DEF OneMore
  <2> QED  BY <1>1, <1>3, <1>4, <2>1, CountRenamed
<1>6. CountOf(w) = CountOf(g) + w[z]
  <2>1. w \in [S \cup {z} -> Nat] /\ g \in [S -> Nat]  BY <1>2
  <2> HIDE DEF OneMore
  <2> QED  BY <1>1, <1>2, <2>1, CountAdd
<1>7. CountOf(u) \in Nat /\ CountOf(w) \in Nat
  <2>1. u \in [N -> Nat] /\ w \in [M -> Nat] /\ IsFiniteSet(N) /\ IsFiniteSet(M)  OBVIOUS
  <2> HIDE DEF OneMore
  <2> QED  BY <2>1, CountType
<1> QED  BY <1>5, <1>6, <1>7

------------------------------------------------------------------------------
\* Sizes of sets.

\* The size of a set with more, and with fewer, members.
LEMMA CardPlus ==
  ASSUME NEW A, NEW B, IsFiniteSet(A), IsFiniteSet(B), A \cap B = {}
  PROVE  IsFiniteSet(A \cup B) /\ Cardinality(A \cup B) = Cardinality(A) + Cardinality(B)
<1>1. Cardinality(A \cap B) = 0 /\ Cardinality(A) \in Nat /\ Cardinality(B) \in Nat
  BY FS_EmptySet, FS_CardinalityType
<1>2. IsFiniteSet(A \cup B) /\ Cardinality(A \cup B) = Cardinality(A) + Cardinality(B) - Cardinality(A \cap B)
  BY FS_Union
<1> QED  BY <1>1, <1>2

\* Without a part of it.
LEMMA CardMinus ==
  ASSUME NEW A, NEW B, IsFiniteSet(A), B \subseteq A
  PROVE  /\ IsFiniteSet(A \ B) /\ Cardinality(A \ B) = Cardinality(A) - Cardinality(B)
         /\ Cardinality(A) \in Nat /\ Cardinality(B) \in Nat /\ Cardinality(B) <= Cardinality(A)
         /\ IsFiniteSet(B)
<1>1. A \cap B = B  OBVIOUS
<1>2. IsFiniteSet(A \ B) /\ Cardinality(A \ B) = Cardinality(A) - Cardinality(A \cap B)
  BY FS_Difference
<1>3. IsFiniteSet(B) /\ Cardinality(B) <= Cardinality(A)  BY FS_Subset
<1> QED  BY <1>1, <1>2, <1>3, FS_CardinalityType

\* Names that are all different are as many as what they name.
LEMMA AsMany ==
  ASSUME NEW S, IsFiniteSet(S), NEW f, \A x, y \in S : f[x] = f[y] => x = y,
         NEW T, T = {f[x] : x \in S}
  PROVE  IsFiniteSet(T) /\ Cardinality(T) = Cardinality(S)
<1> DEFINE g == [x \in S |-> f[x]]
<1>1. g \in Bijection(S, T)
  <2>1. g \in [S -> T]  OBVIOUS
  <2>2. \A x, y \in S : g[x] = g[y] => x = y  OBVIOUS
  <2>3. \A t \in T : \E x \in S : g[x] = t  OBVIOUS
  <2> HIDE DEF g
  <2> QED  BY <2>1, <2>2, <2>3 DEF Bijection, Injection, Surjection, IsInjective
<1>2. ExistsBijection(S, T)  BY <1>1 DEF ExistsBijection
<1> QED  BY <1>2, FS_Bijection

------------------------------------------------------------------------------
\* Sequences as lists: members that come and go.

\* The members of a sequence.
Listed(s) == {s[k] : k \in 1..Len(s)}

Onto(p, s) == [k \in 1..(Len(s) + 1) |-> IF k = 1 THEN p ELSE s[k - 1]]
Cut(s, i) == [k \in 1..(Len(s) - 1) |-> IF k < i THEN s[k] ELSE s[k + 1]]

\* A sequence with a new head.
LEMMA OntoProps ==
  ASSUME NEW D, NEW s \in Seq(D), NEW p \in D
  PROVE  /\ Onto(p, s) \in Seq(D) /\ Len(Onto(p, s)) = Len(s) + 1 /\ Onto(p, s)[1] = p
         /\ \A k \in 2..(Len(s) + 1) : Onto(p, s)[k] = s[k - 1]
         /\ Listed(Onto(p, s)) = Listed(s) \cup {p}
<1> DEFINE n == Len(s) + 1
           t == Onto(p, s)
<1>1. n \in Nat /\ Len(s) \in Nat  OBVIOUS
<1>2. \A k \in 1..n : (IF k = 1 THEN p ELSE s[k - 1]) \in D
  <2> SUFFICES ASSUME NEW k \in 1..n, k # 1 PROVE s[k - 1] \in D  OBVIOUS
  <2>1. k - 1 \in 1..Len(s)  BY <1>1
  <2> QED  BY <2>1, ElementOfSeq
<1>3. t \in Seq(D) /\ Len(t) = n
  <2>1. t = [k \in 1..n |-> IF k = 1 THEN p ELSE s[k - 1]]  BY DEF Onto
  <2>2. t \in [1..n -> D]  BY <1>2, <2>1
  <2> HIDE DEF t
  <2> QED  BY <1>1, <2>1, <2>2
<1>4. t[1] = p /\ \A k \in 2..n : t[k] = s[k - 1]  BY <1>1 DEF Onto
<1> HIDE DEF t
<1>5. Listed(t) \subseteq Listed(s) \cup {p}
  <2> SUFFICES ASSUME NEW k \in 1..n PROVE t[k] \in Listed(s) \cup {p}  BY <1>3 DEF Listed
  <2>1. CASE k = 1  BY <2>1, <1>4
  <2>2. CASE k # 1
    <3>1. k \in 2..n /\ k - 1 \in 1..Len(s)  BY <2>2, <1>1
    <3> QED  BY <3>1, <1>4 DEF Listed
  <2> QED  BY <2>1, <2>2
<1>6. Listed(s) \cup {p} \subseteq Listed(t)
  <2>1. p \in Listed(t)
    <3>1. 1 \in 1..Len(t)  BY <1>1, <1>3
    <3> QED  BY <3>1, <1>4 DEF Listed
  <2>2. ASSUME NEW k \in 1..Len(s) PROVE s[k] \in Listed(t)
    <3>1. k + 1 \in 2..n /\ (k + 1) - 1 = k /\ k + 1 \in 1..Len(t)  BY <1>1, <1>3
    <3>2. t[k + 1] = s[k]  BY <3>1, <1>4
    <3> QED  BY <3>1, <3>2 DEF Listed
  <2> QED  BY <2>1, <2>2 DEF Listed
<1> QED  BY <1>3, <1>4, <1>5, <1>6 DEF t

\* A sequence without its i-th member.
LEMMA CutProps ==
  ASSUME NEW D, NEW s \in Seq(D), NEW i \in 1..Len(s), \A j, k \in 1..Len(s) : s[j] = s[k] => j = k
  PROVE  /\ Cut(s, i) \in Seq(D) /\ Len(Cut(s, i)) = Len(s) - 1
         /\ \A k \in 1..(Len(s) - 1) : Cut(s, i)[k] = IF k < i THEN s[k] ELSE s[k + 1]
         /\ Listed(Cut(s, i)) = Listed(s) \ {s[i]}
<1> DEFINE n == Len(s) - 1
           t == Cut(s, i)
<1>1. n \in Nat /\ Len(s) \in Nat /\ n + 1 = Len(s) /\ i \in Nat
  <2>1. Len(s) \in Nat  OBVIOUS
  <2> QED  BY <2>1
<1>2. \A k \in 1..n : (IF k < i THEN s[k] ELSE s[k + 1]) \in D
  <2> SUFFICES ASSUME NEW k \in 1..n PROVE s[k] \in D /\ s[k + 1] \in D  OBVIOUS
  <2>1. k \in 1..Len(s) /\ k + 1 \in 1..Len(s)  BY <1>1
  <2> QED  BY <2>1, ElementOfSeq
<1>3. t \in Seq(D) /\ Len(t) = n
  <2>1. t = [k \in 1..n |-> IF k < i THEN s[k] ELSE s[k + 1]]  BY DEF Cut
  <2>2. t \in [1..n -> D]  BY <1>2, <2>1
  <2> HIDE DEF t, n
  <2> QED  BY <1>1, <2>1, <2>2
<1>4. \A k \in 1..n : t[k] = IF k < i THEN s[k] ELSE s[k + 1]  BY DEF Cut
<1> HIDE DEF t
<1>5. ASSUME NEW k \in 1..n PROVE t[k] \in Listed(s) \ {s[i]}
  <2>1. k \in 1..Len(s) /\ k + 1 \in 1..Len(s)  BY <1>1
  <2>2. CASE k < i
    <3>1. k # i  BY <2>2, <1>1
    <3>2. s[k] # s[i]  BY <2>1, <3>1
    <3> QED  BY <2>1, <2>2, <3>2, <1>4 DEF Listed
  <2>3. CASE ~(k < i)
    <3>1. k + 1 # i  BY <2>3, <1>1
    <3>2. s[k + 1] # s[i]  BY <2>1, <3>1
    <3> QED  BY <2>1, <2>3, <3>2, <1>4 DEF Listed
  <2> QED  BY <2>2, <2>3
<1>6. ASSUME NEW k \in 1..Len(s), s[k] # s[i] PROVE s[k] \in Listed(t)
  <2>1. k # i  BY <1>6
  <2>2. CASE k < i
    <3>1. k \in 1..n  BY <2>2, <1>1
    <3>2. t[k] = s[k]  BY <2>2, <3>1, <1>4
    <3> QED  BY <3>1, <3>2, <1>3 DEF Listed
  <2>3. CASE ~(k < i)
    <3>1. k - 1 \in 1..n /\ ~(k - 1 < i) /\ (k - 1) + 1 = k  BY <2>1, <2>3, <1>1
    <3>2. t[k - 1] = s[k]  BY <3>1, <1>4
    <3> QED  BY <3>1, <3>2, <1>3 DEF Listed
  <2> QED  BY <2>2, <2>3
<1>7. Listed(t) \subseteq Listed(s) \ {s[i]}
  <2> SUFFICES ASSUME NEW x \in Listed(t) PROVE x \in Listed(s) \ {s[i]}  OBVIOUS
  <2>1. PICK k \in 1..n : x = t[k]  BY <1>3 DEF Listed
  <2> QED  BY <2>1, <1>5
<1>8. Listed(s) \ {s[i]} \subseteq Listed(t)
  <2> SUFFICES ASSUME NEW x \in Listed(s), x # s[i] PROVE x \in Listed(t)  OBVIOUS
  <2>1. PICK k \in 1..Len(s) : x = s[k]  BY DEF Listed
  <2> QED  BY <2>1, <1>6
<1> QED  BY <1>3, <1>4, <1>7, <1>8 DEF t

\* t is s without its i-th member, in whatever order.
Sans(s, i, t) ==
    \E f : /\ f \in [1..(Len(s) - 1) -> 1..Len(s)]
           /\ \A j, k \in 1..(Len(s) - 1) : f[j] = f[k] => j = k
           /\ \A k \in 1..(Len(s) - 1) : f[k] # i
           /\ \A j \in 1..Len(s) : j # i => \E k \in 1..(Len(s) - 1) : f[k] = j
           /\ t = [k \in 1..(Len(s) - 1) |-> s[f[k]]]

IsSans(S, s, i, t) == s \in Seq(S) /\ i \in 1..Len(s) /\ Sans(s, i, t)

\* Such a sequence.
LEMMA SansSeq ==
  ASSUME NEW S, NEW s, NEW i, NEW t, IsSans(S, s, i, t)
  PROVE  t \in Seq(S) /\ Len(t) = Len(s) - 1 /\ Len(s) \in Nat /\ Len(s) > 0
<1> USE DEF IsSans
<1> DEFINE n == Len(s) - 1
<1>1. n \in Nat /\ Len(s) \in Nat /\ Len(s) > 0
  <2>1. Len(s) \in Nat  OBVIOUS
  <2> QED  BY <2>1
<1>2. PICK f : f \in [1..n -> 1..Len(s)] /\ t = [k \in 1..n |-> s[f[k]]]  BY DEF Sans
<1>3. \A k \in 1..n : s[f[k]] \in S  BY <1>2, ElementOfSeq
<1>4. t \in [1..n -> S]  BY <1>2, <1>3
<1> HIDE DEF n
<1>5. t \in Seq(S) /\ Len(t) = n  BY <1>1, <1>4
<1> QED  BY <1>1, <1>5 DEF n

\* Every other member is still there, once.
LEMMA SansMembers ==
  ASSUME NEW S, NEW s, NEW i, NEW t, IsSans(S, s, i, t)
  PROVE  \E f : /\ f \in [1..Len(t) -> 1..Len(s)]
                /\ \A j, k \in 1..Len(t) : f[j] = f[k] => j = k
                /\ \A k \in 1..Len(t) : f[k] # i /\ t[k] = s[f[k]]
                /\ \A j \in 1..Len(s) : j # i => \E k \in 1..Len(t) : f[k] = j
<1> DEFINE n == Len(s) - 1
<1>1. n = Len(t)  BY SansSeq
<1> HIDE DEF n
<1>2. PICK f : /\ f \in [1..n -> 1..Len(s)]
               /\ \A j, k \in 1..n : f[j] = f[k] => j = k
               /\ \A k \in 1..n : f[k] # i
               /\ \A j \in 1..Len(s) : j # i => \E k \in 1..n : f[k] = j
               /\ t = [k \in 1..n |-> s[f[k]]]
  BY DEF Sans, IsSans, n
<1>3. \A k \in 1..n : t[k] = s[f[k]]  BY <1>2
<1> QED  BY <1>1, <1>2, <1>3

\* A sequence of members of S that are all different.
Once(S, s) == s \in Seq(S) /\ \A j, k \in 1..Len(s) : s[j] = s[k] => j = k

\* A member removed.
LEMMA OnceSans ==
  ASSUME NEW S, NEW s, NEW i, NEW t, IsSans(S, s, i, t), Once(S, s)
  PROVE  /\ Once(S, t) /\ Len(t) = Len(s) - 1 /\ Len(s) \in Nat /\ Len(s) > 0
         /\ s[i] \in Listed(s) /\ Listed(t) = Listed(s) \ {s[i]}
<1>1. s \in Seq(S) /\ \A j, k \in 1..Len(s) : s[j] = s[k] => j = k  BY DEF Once
<1>2. i \in 1..Len(s)  BY DEF IsSans
<1>3. t \in Seq(S) /\ Len(t) = Len(s) - 1 /\ Len(s) \in Nat /\ Len(s) > 0  BY SansSeq
<1>4. PICK f : /\ f \in [1..Len(t) -> 1..Len(s)]
               /\ \A j, k \in 1..Len(t) : f[j] = f[k] => j = k
               /\ \A k \in 1..Len(t) : f[k] # i /\ t[k] = s[f[k]]
               /\ \A j \in 1..Len(s) : j # i => \E k \in 1..Len(t) : f[k] = j
  BY SansMembers
<1>5. Once(S, t)
  <2>1. \A j, k \in 1..Len(t) : t[j] = t[k] => j = k  BY <1>1, <1>4
  <2> QED  BY <2>1, <1>3 DEF Once
<1>6. Listed(t) = Listed(s) \ {s[i]}
  <2>1. \A k \in 1..Len(t) : t[k] \in Listed(s) \ {s[i]}  BY <1>1, <1>2, <1>4 DEF Listed
  <2>2. \A j \in 1..Len(s) : s[j] # s[i] => s[j] \in Listed(t)
    <3> SUFFICES ASSUME NEW j \in 1..Len(s), s[j] # s[i] PROVE s[j] \in Listed(t)  OBVIOUS
    <3>1. PICK k \in 1..Len(t) : f[k] = j  BY <1>4
    <3> QED  BY <3>1, <1>4 DEF Listed
  <2> QED  BY <2>1, <2>2 DEF Listed
<1>7. s[i] \in Listed(s)  BY <1>2 DEF Listed
<1> QED  BY <1>3, <1>5, <1>6, <1>7

\* A member appended.
LEMMA OncePush ==
  ASSUME NEW S, NEW s, Once(S, s), NEW p \in S, p \notin Listed(s)
  PROVE  /\ Once(S, Append(s, p)) /\ Len(Append(s, p)) = Len(s) + 1 /\ Len(s) \in Nat
         /\ Listed(Append(s, p)) = Listed(s) \cup {p}
<1> DEFINE t == Append(s, p)
           n == Len(s)
<1>1. s \in Seq(S) /\ \A j, k \in 1..n : s[j] = s[k] => j = k  BY DEF Once
<1>2. n \in Nat  BY <1>1
<1>3. t \in Seq(S) /\ Len(t) = n + 1 /\ t[n + 1] = p /\ \A k \in 1..n : t[k] = s[k]
  BY <1>1, AppendProperties
<1>4. \A k \in 1..n : s[k] # p  BY DEF Listed
<1> HIDE DEF t, n
<1>5. \A k \in 1..(n + 1) : k \in 1..n \/ k = n + 1  BY <1>2
<1>6. Once(S, t)
  <2>1. \A j, k \in 1..Len(t) : t[j] = t[k] => j = k  BY <1>1, <1>3, <1>4, <1>5
  <2> QED  BY <2>1, <1>3 DEF Once
<1>7. Listed(t) = Listed(s) \cup {p}
  <2>1. \A k \in 1..n : k \in 1..(n + 1)  BY <1>2
  <2>2. n + 1 \in 1..(n + 1)  BY <1>2
  <2> QED  BY <2>1, <2>2, <1>3, <1>5 DEF Listed, n
<1> QED  BY <1>2, <1>3, <1>6, <1>7 DEF t, n

\* A member replaced.
Swapped(s, i, x) == [s EXCEPT ![i] = x]

\* The others are still different from each other and from it.
LEMMA OnceSwap ==
  ASSUME NEW S, NEW s, Once(S, s), NEW i \in 1..Len(s), NEW x \in S, x \notin Listed(s) \ {s[i]},
         NEW t, t = Swapped(s, i, x)
  PROVE  /\ Once(S, t) /\ Len(t) = Len(s) /\ Len(s) \in Nat
         /\ s[i] \in Listed(s) /\ Listed(t) = (Listed(s) \ {s[i]}) \cup {x}
<1>1. s \in Seq(S) /\ \A j, k \in 1..Len(s) : s[j] = s[k] => j = k  BY DEF Once
<1>2. Len(s) \in Nat  BY <1>1
<1>3. t \in Seq(S) /\ Len(t) = Len(s)
  BY <1>1, ExceptSeq DEF Swapped
<1>4. \A k \in 1..Len(s) : t[k] = IF k = i THEN x ELSE s[k]
  <2>1. DOMAIN s = 1..Len(s)  BY <1>1
  <2> QED  BY <2>1 DEF Swapped
<1>5. \A j \in 1..Len(s) : j # i => s[j] # x /\ s[j] # s[i]  BY <1>1 DEF Listed
<1>6. Once(S, t)
  <2>1. \A j, k \in 1..Len(t) : t[j] = t[k] => j = k
    <3> SUFFICES ASSUME NEW j \in 1..Len(s), NEW k \in 1..Len(s), t[j] = t[k] PROVE j = k  BY <1>3
    <3>1. t[j] = IF j = i THEN x ELSE s[j]  BY <1>4
    <3>2. t[k] = IF k = i THEN x ELSE s[k]  BY <1>4
    <3> QED  BY <3>1, <3>2, <1>1, <1>5
  <2> QED  BY <2>1, <1>3 DEF Once
<1>7. Listed(t) = (Listed(s) \ {s[i]}) \cup {x}
  <2>1. \A k \in 1..Len(s) : t[k] \in (Listed(s) \ {s[i]}) \cup {x}  BY <1>4, <1>5 DEF Listed
  <2>2. t[i] = x /\ \A k \in 1..Len(s) : k # i => t[k] = s[k]  BY <1>4
  <2>3. \A k \in 1..Len(s) : s[k] # s[i] => s[k] \in Listed(t)
    <3> SUFFICES ASSUME NEW k \in 1..Len(s), s[k] # s[i] PROVE s[k] \in Listed(t)  OBVIOUS
    <3>1. k # i  OBVIOUS
    <3> QED  BY <3>1, <2>2, <1>3 DEF Listed
  <2>4. x \in Listed(t)  BY <2>2, <1>3 DEF Listed
  <2>5. \A y \in Listed(s) : y # s[i] => y \in Listed(t)  BY <2>3 DEF Listed
  <2>6. \A y \in Listed(t) : y \in (Listed(s) \ {s[i]}) \cup {x}  BY <2>1, <1>3 DEF Listed
  <2> QED  BY <2>4, <2>5, <2>6
<1>8. s[i] \in Listed(s)  BY DEF Listed
<1> QED  BY <1>2, <1>3, <1>6, <1>7, <1>8
=============================================================================
