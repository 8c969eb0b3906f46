---- MODULE MapProofs ----
(***************************************************************************)
(* The map's theorems: the table stays sound (its counters exact, every    *)
(* entry within reach of its key's probe, never full), so that cursors     *)
(* visit every entry once, and every call is one of the multimap.          *)
(***************************************************************************)
EXTENDS Map, Lemmas

------------------------------------------------------------------------------
\* The sizes of tables.

\* The powers of two are what their recursion says.
LEMMA PowerRuns ==
  ASSUME WordBits \in Nat
  PROVE  Power = [i \in 0..WordBits |-> IF i = 0 THEN 1 ELSE 2 * Power[i - 1]]
<1> DEFINE n == WordBits
           S == Nat \ {0}
           one == 1
           F == [k \in Nat |-> [m \in S |-> 2 * m]]
           Is(f) == f = [i \in 0..WordBits |-> IF i = 0 THEN 1 ELSE 2 * f[i - 1]]
<1>1. F \in [Nat -> [S -> S]] /\ one \in S /\ n \in Nat  OBVIOUS
<1>2. \A k \in Nat, m \in S : F[k][m] = 2 * m  OBVIOUS
<1> HIDE DEF F, S, one, n
<1>3. PICK f \in [0..WordBits -> S] : f[0] = one /\ \A k \in 1..WordBits : f[k] = F[k][f[k - 1]]
  <2>1. \E f \in [0..n -> S] : f[0] = one /\ \A k \in 1..n : f[k] = F[k][f[k - 1]]
    BY <1>1, RunExists
  <2> QED  BY <2>1 DEF n
<1>4. \A k \in 1..WordBits : f[k] = 2 * f[k - 1]
  <2> SUFFICES ASSUME NEW k \in 1..WordBits PROVE f[k] = 2 * f[k - 1]  OBVIOUS
  <2>1. k - 1 \in 0..WordBits /\ k \in Nat  OBVIOUS
  <2>2. f[k - 1] \in S  BY <1>3, <2>1
  <2> QED  BY <1>2, <1>3, <2>1, <2>2
<1>5. Is(f)
  <2>1. f[0] = 1  BY <1>3 DEF one
  <2>2. \A i \in 0..WordBits : i # 0 => i \in 1..WordBits  OBVIOUS
  <2> QED  BY <1>4, <2>1, <2>2
<1>6. Is(CHOOSE g : Is(g))  BY <1>5
<1>7. Power = CHOOSE g : Is(g)  BY DEF Power
<1> QED  BY <1>6, <1>7

\* Each is twice the one before.
LEMMA PowerProps ==
  ASSUME WordBits \in Nat
  PROVE  /\ Power[0] = 1
         /\ \A i \in 0..WordBits : Power[i] \in Nat \ {0}
         /\ \A i \in 1..WordBits : Power[i] = 2 * Power[i - 1]
<1> DEFINE S == Nat \ {0}
<1>1. Power[0] = 1  BY PowerRuns
<1>2. ASSUME NEW i \in 1..WordBits PROVE Power[i] = 2 * Power[i - 1]
  <2>1. i \in 0..WordBits /\ i # 0  OBVIOUS
  <2> QED  BY <2>1, PowerRuns
<1>3. Power[0] \in S  BY <1>1
<1>4. \A i \in 1..WordBits : Power[i - 1] \in S => Power[i] \in S  BY <1>2
<1> HIDE DEF S
<1>5. \A i \in 0..WordBits : Power[i] \in S  BY <1>3, <1>4, AllTheWay
<1> QED  BY <1>1, <1>2, <1>5 DEF S

\* A later power is at least the double of an earlier one.
LEMMA PowerGrows ==
  ASSUME WordBits \in Nat, NEW i \in 0..WordBits, NEW j \in 0..WordBits, i < j
  PROVE  2 * Power[i] <= Power[j]
<1> DEFINE S == {n \in Nat : 2 * Power[i] <= n}
           f == [d \in 0..(j - i - 1) |-> Power[i + 1 + d]]
<1>1. j - i - 1 \in Nat  OBVIOUS
<1>2. f[0] \in S
  <2>1. i + 1 \in 1..WordBits /\ (i + 1) - 1 = i /\ f[0] = Power[i + 1]  BY <1>1
  <2> QED  BY <2>1, PowerProps
<1>3. ASSUME NEW k \in 1..(j - i - 1), f[k - 1] \in S PROVE f[k] \in S
  <2>1. i + 1 + k \in 1..WordBits /\ (i + 1 + k) - 1 = i + 1 + (k - 1) /\ k - 1 \in 0..(j - i - 1)  OBVIOUS
  <2>2. f[k] = Power[i + 1 + k] /\ f[k - 1] = Power[(i + 1 + k) - 1]  BY <2>1
  <2>3. f[k] = 2 * f[k - 1]  BY <2>1, <2>2, PowerProps
  <2>4. Power[i] \in Nat  BY PowerProps
  <2> QED  BY <1>3, <2>3, <2>4
<1> HIDE DEF S, f
<1>4. f[j - i - 1] \in S
  <2>1. \A k \in 0..(j - i - 1) : f[k] \in S  BY <1>1, <1>2, <1>3, AllTheWay
  <2> QED  BY <1>1, <2>1
<1>5. f[j - i - 1] = Power[j]
  <2>1. i + 1 + (j - i - 1) = j /\ j - i - 1 \in 0..(j - i - 1)  BY <1>1
  <2> QED  BY <2>1 DEF f
<1> QED  BY <1>4, <1>5 DEF S

\* What an odd number times b is a multiple of, if it is a power of two, b
\* is a multiple of.
LEMMA OddFactor ==
  ASSUME WordBits \in Nat, NEW i \in 0..WordBits, NEW a \in Nat, NEW b \in Nat, NEW k \in Nat,
         a % 2 = 1, a * b = Power[i] * k
  PROVE  \E n \in Nat : b = Power[i] * n
<1> DEFINE Divides(c, x) == \E n \in Nat : x = c * n
           T == {j \in Nat : j <= WordBits => \A x \in Nat : Divides(Power[j], a * x) => Divides(Power[j], x)}
<1>1. 0 \in T  BY PowerProps
<1>2. ASSUME NEW j \in Nat, j \in T PROVE j + 1 \in T
  <2> SUFFICES ASSUME j + 1 <= WordBits, NEW x \in Nat, NEW n \in Nat, a * x = Power[j + 1] * n
               PROVE  Divides(Power[j + 1], x)
    OBVIOUS
  <2>1. j \in 0..WordBits /\ j + 1 \in 1..WordBits /\ (j + 1) - 1 = j  OBVIOUS
  <2> DEFINE c == Power[j]
  <2>2. c \in Nat \ {0} /\ Power[j + 1] = 2 * c  BY <2>1, PowerProps
  <2>3. \A y \in Nat : Divides(c, a * y) => Divides(c, y)  BY <1>2, <2>1
  <2> HIDE DEF c, T
  <2>4. a * x = 2 * (c * n) /\ c * n \in Nat  BY <2>2
  <2>5. PICK e \in Nat : a = 2 * e + 1
    <3>1. a = 2 * (a \div 2) + (a % 2) /\ a \div 2 \in Nat  BY DivProps
    <3> QED  BY <3>1
  <2>6. PICK y \in Nat : x = 2 * y
    <3>1. x = 2 * (x \div 2) + (x % 2) /\ x \div 2 \in Nat /\ x % 2 \in 0..1  BY DivProps
    <3>2. CASE x % 2 = 1
      <4> DEFINE h == x \div 2
                 ex == e * x
                 cn == c * n
      <4>1. x = 2 * h + 1  BY <3>1, <3>2
      <4>2. a * x = 2 * ex + x /\ ex \in Nat  BY <2>5
      <4>3. a * x = 2 * cn /\ cn \in Nat /\ h \in Nat  BY <2>4, <3>1
      <4> HIDE DEF h, ex, cn
      <4> QED  BY <4>1, <4>2, <4>3
    <3> QED  BY <3>1, <3>2
  <2>7. a * y = c * n
    <3>1. a * x = 2 * (a * y) /\ a * y \in Nat  BY <2>6
    <3> QED  BY <2>4, <3>1
  <2>8. PICK m \in Nat : y = c * m  BY <2>3, <2>7
  <2>9. x = (2 * c) * m  BY <2>2, <2>6, <2>8
  <2> QED  BY <2>2, <2>9
<1> HIDE DEF T
<1>3. Nat \subseteq T  BY <1>1, <1>2, SetInduction
<1> QED  BY <1>3 DEF T

\* A set of naturals with a member has a least one.
LEMMA MinProps ==
  ASSUME NEW S, S \subseteq Nat, S # {}
  PROVE  Min(S) \in S /\ \A x \in S : Min(S) <= x
<1> DEFINE Below(n) == \A x \in S : n <= x
           T == {n \in Nat : Below(n)}
<1>1. SUFFICES \E n \in S : Below(n)  BY DEF Min
<1>2. SUFFICES ASSUME \A n \in S : ~Below(n) PROVE FALSE  OBVIOUS
<1>3. 0 \in T  OBVIOUS
<1>4. ASSUME NEW n \in Nat, n \in T PROVE n + 1 \in T
  <2>1. n \notin S  BY <1>2, <1>4
  <2>2. \A x \in S : n <= x /\ x # n /\ x \in Nat  BY <1>4, <2>1
  <2> QED  BY <2>2
<1> HIDE DEF T
<1>5. Nat \subseteq T  BY <1>3, <1>4, SetInduction
<1>6. PICK x \in S : TRUE  OBVIOUS
<1>7. x + 1 \in T /\ x \in Nat  BY <1>5
<1> QED  BY <1>7 DEF T

\* The tables' sizes are powers of two, each at least twice any smaller one.
LEMMA TableProps ==
  ASSUME MapAssumption
  PROVE  /\ Tables \subseteq Nat \ {0}
         /\ \A c \in Tables : \E i \in 0..(WordBits - 1) : c = Power[i]
         /\ \A c, d \in Tables : c < d => 2 * c <= d
<1>1. WordBits \in Nat /\ WordBits - 1 \in Nat  BY DEF MapAssumption
<1>2. \A c \in Tables : \E i \in 0..(WordBits - 1) : c = Power[i]  BY DEF Tables
<1>3. \A i \in 0..(WordBits - 1) : i \in 0..WordBits  BY <1>1
<1>4. Tables \subseteq Nat \ {0}  BY <1>1, <1>2, <1>3, PowerProps
<1>5. ASSUME NEW c \in Tables, NEW d \in Tables, c < d PROVE 2 * c <= d
  <2>1. PICK i \in 0..WordBits : c = Power[i]  BY <1>2, <1>3
  <2>2. PICK j \in 0..WordBits : d = Power[j]  BY <1>2, <1>3
  <2>3. CASE i < j  BY <1>1, <2>1, <2>2, <2>3, PowerGrows
  <2>4. CASE j < i
    <3>1. 2 * d <= c  BY <1>1, <2>1, <2>2, <2>4, PowerGrows
    <3> QED  BY <1>4, <1>5, <3>1
  <2>5. i # j  BY <1>4, <1>5, <2>1, <2>2
  <2>6. i \in Int /\ j \in Int  BY <1>1
  <2> QED  BY <2>3, <2>4, <2>5, <2>6
<1> QED  BY <1>2, <1>4, <1>5

\* The largest table is well below the width of a word.
LEMMA BoundProps ==
  ASSUME MapAssumption, BoundsAssumption
  PROVE  /\ MinCapacity \in Tables /\ MaxCapacity \in Tables /\ WordSize \in Nat \ {0}
         /\ 4 * (MaxCapacity + 1) < WordSize /\ \A n \in Requests : n \in Nat /\ 4 * n < WordSize
         /\ \E c \in Tables : WordSize = 2 * c
<1>1. WordBits \in 1..WordBits /\ WordBits \in 0..WordBits /\ WordBits \in Nat /\ WordBits - 1 \in 0..(WordBits - 1)
      /\ WordBits - 1 \in 0..WordBits
  BY DEF MapAssumption
<1>2. WordSize = 2 * Power[WordBits - 1] /\ WordSize \in Nat \ {0}  BY <1>1, PowerProps DEF WordSize
<1>3. MinCapacity \in Tables /\ MaxCapacity \in Tables /\ Requests \subseteq Nat  BY DEF MapAssumption
<1>4. 4 * (MaxCapacity + 1) < WordSize /\ \A n \in Requests : 4 * n < WordSize  BY DEF BoundsAssumption
<1>5. MinCapacity <= Power[WordBits - 1]
  <2>1. MaxCapacity \in Nat /\ MinCapacity \in Nat /\ MinCapacity <= MaxCapacity
    <3>1. MinCapacity <= MaxCapacity  BY <1>3 DEF Tables
    <3> QED  BY <1>3, <3>1, TableProps
  <2>2. Power[WordBits - 1] \in Nat  BY <1>1, PowerProps
  <2> QED  BY <1>2, <1>4, <2>1, <2>2
<1>6. Power[WordBits - 1] \in Tables  BY <1>1, <1>5 DEF Tables
<1> QED  BY <1>2, <1>3, <1>4, <1>6

\* The default policy asks for a table that n entries load at most to three
\* quarters, as the present ones do.
LEMMA NextCapacityProps ==
  ASSUME MapAssumption, BoundsAssumption, NEW m, m.length \in Nat, NEW n \in Nat,
         4 * n < WordSize, 4 * m.length < WordSize, n # 0 \/ m.length # 0
  PROVE  LET c == default_next_capacity(m, n)
         IN  c \in Tables /\ 4 * n <= 3 * c /\ 4 * m.length <= 3 * c
<1> DEFINE l == m.length
           needed == Larger(n, l)
           S == {c \in Tables : (c * 3) \div 4 >= needed}
<1>1. needed \in Nat /\ l \in Nat /\ needed # 0 /\ n <= needed /\ l <= needed /\ 4 * needed < WordSize  BY DEF Larger
<1>2. default_next_capacity(m, n) = Min(S)
  BY <1>1 DEF default_next_capacity
<1> HIDE DEF needed, l
<1>3. PICK t \in Tables : WordSize = 2 * t  BY BoundProps
<1>4. Tables \subseteq Nat \ {0}  BY TableProps
<1>5. t \in S
  <2>1. (t * 3) \div 4 >= needed  BY <1>1, <1>3, <1>4
  <2> QED  BY <2>1
<1>6. S \subseteq Nat /\ S # {}  BY <1>4, <1>5
<1> DEFINE c == Min(S)
<1>7. c \in S
  <2> HIDE DEF S
  <2> QED  BY <1>6, MinProps
<1>8. c \in Tables /\ (c * 3) \div 4 >= needed  BY <1>7
<1> HIDE DEF c, S
<1>9. 4 * needed <= 3 * c  BY <1>1, <1>4, <1>8
<1>10. 4 * n <= 3 * c /\ 4 * l <= 3 * c  BY <1>1, <1>4, <1>8, <1>9
<1> QED  BY <1>2, <1>8, <1>10 DEF c, l

------------------------------------------------------------------------------
\* Probing.

\* Numbers with one remainder are multiples apart.
LEMMA SameRemainder ==
  ASSUME NEW c \in Nat \ {0}, NEW x \in Nat, NEW y \in Nat, x <= y, x % c = y % c
  PROVE  \E k \in Nat : y - x = c * k
<1> DEFINE a == x \div c
           b == y \div c
<1>1. a \in Nat /\ x = c * a + (x % c) /\ x % c \in 0..(c - 1)  BY DivProps
<1>2. b \in Nat /\ y = c * b + (y % c)  BY DivProps
<1> HIDE DEF a, b
<1>3. ~(b < a)
  <2> SUFFICES ASSUME b < a PROVE FALSE  OBVIOUS
  <2>1. b * c + c <= a * c  BY <1>1, <1>2, NextMultiple
  <2> QED  BY <1>1, <1>2, <2>1
<1>4. b - a \in Nat  BY <1>1, <1>2, <1>3
<1>5. y - x = c * b - c * a  BY <1>1, <1>2
<1>6. c * (b - a) = c * b - c * a  BY <1>1, <1>2
<1> QED  BY <1>4, <1>5, <1>6

\* A multiple of c below c is 0.
LEMMA SmallMultiple ==
  ASSUME NEW c \in Nat \ {0}, NEW k \in Nat, c * k < c
  PROVE  c * k = 0
<1>1. CASE k = 0  BY <1>1
<1>2. CASE k # 0
  <2>1. 0 * c + c <= k * c  BY <1>2, NextMultiple
  <2> QED  BY <2>1
<1> QED  BY <1>1, <1>2

\* Twice a triangular number.
LEMMA Triangular ==
  ASSUME NEW p \in Nat
  PROVE  (p * (p + 1)) \div 2 \in Nat /\ 2 * ((p * (p + 1)) \div 2) = p * (p + 1)
<1> DEFINE n == p * (p + 1)
           h == p \div 2
<1>1. p = 2 * h + (p % 2) /\ h \in Nat /\ p % 2 \in 0..1  BY DivProps
<1>2. n \in Nat  OBVIOUS
<1>3. PICK e \in Nat : n = 2 * e
  <2>1. CASE p % 2 = 0
    <3>1. p = 2 * h  BY <1>1, <2>1
    <3> HIDE DEF h
    <3>2. n = 2 * (h * (p + 1)) /\ h * (p + 1) \in Nat  BY <1>1, <3>1
    <3> QED  BY <3>2
  <2>2. CASE p % 2 = 1
    <3>1. p + 1 = 2 * (h + 1)  BY <1>1, <2>2
    <3> HIDE DEF h
    <3>2. n = 2 * (p * (h + 1)) /\ p * (h + 1) \in Nat  BY <1>1, <3>1
    <3> QED  BY <3>2
  <2> QED  BY <1>1, <2>1, <2>2
<1> HIDE DEF n
<1>4. n \div 2 = e  BY <1>3
<1> QED  BY <1>3, <1>4 DEF n

\* No two of the first c quadratic probes fall on one slot: their distance
\* would be a multiple of c, and of its factors one is odd and one too small.
LEMMA QuadraticDistinct ==
  ASSUME MapAssumption, NEW c \in Tables, NEW h \in Nat, NEW p \in 0..(c - 1), NEW q \in 0..(c - 1), q < p,
         (h + (q * (q + 1)) \div 2) % c = (h + (p * (p + 1)) \div 2) % c
  PROVE  FALSE
<1> DEFINE tp == (p * (p + 1)) \div 2
           tq == (q * (q + 1)) \div 2
           x == h + tq
           y == h + tp
           d == p - q
           s == p + q + 1
<1>1. c \in Nat \ {0} /\ p \in Nat /\ q \in Nat /\ d \in Nat /\ s \in Nat /\ 0 < d /\ d < c /\ 0 < s /\ s < 2 * c
  BY TableProps
<1>2. tp \in Nat /\ tq \in Nat /\ 2 * tp = p * (p + 1) /\ 2 * tq = q * (q + 1)  BY <1>1, Triangular
<1>3. x % c = y % c  OBVIOUS
<1>4. 2 * tp - 2 * tq = d * s
  <2>1. d * s = p * (p + 1) - q * (q + 1)  BY <1>1
  <2> HIDE DEF d, s, tp, tq
  <2> QED  BY <1>2, <2>1
<1>5. d * s \in Nat /\ tq <= tp
  <2>1. d * s \in Nat  BY <1>1
  <2> HIDE DEF tp, tq, d, s
  <2> QED  BY <1>2, <1>4, <2>1
<1> HIDE DEF tp, tq
<1>6. x \in Nat /\ y \in Nat /\ x <= y /\ y - x = tp - tq  BY <1>2, <1>5
<1> HIDE DEF x, y
<1>7. PICK k \in Nat : y - x = c * k  BY <1>1, <1>3, <1>6, SameRemainder
<1>8. d * s = (2 * c) * k
  <2>1. 2 * (tp - tq) = d * s
    <3> HIDE DEF d, s
    <3> QED  BY <1>2, <1>4
  <2>2. 2 * (c * k) = (2 * c) * k  BY <1>1
  <2> QED  BY <1>6, <1>7, <2>1, <2>2
<1>9. PICK i \in 1..WordBits : 2 * c = Power[i]
  <2>1. PICK j \in 0..(WordBits - 1) : c = Power[j]  BY TableProps
  <2>2. j + 1 \in 1..WordBits /\ (j + 1) - 1 = j /\ WordBits \in Nat  BY DEF MapAssumption
  <2>3. Power[j + 1] = 2 * Power[j]  BY <2>2, PowerProps
  <2> QED  BY <2>1, <2>2, <2>3
<1>10. i \in 0..WordBits /\ WordBits \in Nat  BY DEF MapAssumption
<1>11. \A n \in Nat : (2 * c) * n < 2 * c => (2 * c) * n = 0
  <2>1. 2 * c \in Nat \ {0}  BY <1>1
  <2> QED  BY <2>1, SmallMultiple
<1>12. CASE d % 2 = 1
  <2>1. PICK n \in Nat : s = Power[i] * n
    <3>1. d * s = Power[i] * k  BY <1>8, <1>9
    <3>2. d \in Nat /\ s \in Nat  BY <1>1
    <3> HIDE DEF d, s
    <3> QED  BY <1>10, <1>12, <3>1, <3>2, OddFactor
  <2> QED  BY <1>1, <1>9, <1>11, <2>1
<1>13. CASE d % 2 # 1
  <2>1. s % 2 = 1
    <3>1. s = d + 2 * q + 1  BY <1>1
    <3> HIDE DEF d, s
    <3> QED  BY <1>1, <1>13, <3>1
  <2>2. PICK n \in Nat : d = Power[i] * n
    <3>1. s * d = Power[i] * k
      <4>1. s * d = d * s  BY <1>1
      <4> QED  BY <1>8, <1>9, <4>1
    <3> HIDE DEF d, s
    <3> QED  BY <1>1, <1>10, <2>1, <3>1, OddFactor
  <2> QED  BY <1>1, <1>9, <1>11, <2>2
<1> QED  BY <1>12, <1>13

\* Nor do two of the first c linear ones.
LEMMA LinearDistinct ==
  ASSUME NEW c \in Nat \ {0}, NEW h \in Nat, NEW p \in 0..(c - 1), NEW q \in 0..(c - 1), q < p,
         (h + q) % c = (h + p) % c
  PROVE  FALSE
<1> DEFINE x == h + q
           y == h + p
<1>1. x \in Nat /\ y \in Nat /\ x <= y /\ y - x = p - q /\ x % c = y % c  OBVIOUS
<1> HIDE DEF x, y
<1>2. PICK k \in Nat : y - x = c * k  BY <1>1, SameRemainder
<1>3. c * k < c /\ 0 < c * k  BY <1>1, <1>2
<1> QED  BY <1>3, SmallMultiple

\* The first c probes of a table of c slots visit every slot, each once,
\* under either policy: a scan misses no slot and meets none twice.
THEOREM ProbesCover ==
  ASSUME MapAssumption, NEW policy \in Policies, NEW h \in Nat, NEW c \in Tables
  PROVE  /\ \A p \in Nat : ProbeIndex(policy, h, p, c) \in 0..(c - 1)
         /\ \A p, q \in 0..(c - 1) : ProbeIndex(policy, h, p, c) = ProbeIndex(policy, h, q, c) => p = q
         /\ \A i \in 0..(c - 1) : \E p \in 0..(c - 1) : ProbeIndex(policy, h, p, c) = i
<1> DEFINE D == 0..(c - 1)
           f == [p \in D |-> ProbeIndex(policy, h, p, c)]
<1>1. c \in Nat \ {0} /\ policy.next \in {"linear", "quadratic"}  BY TableProps DEF MapAssumption
<1>2. ASSUME NEW p \in Nat PROVE ProbeIndex(policy, h, p, c) \in D
  <2>1. h + p \in Nat /\ h + (p * (p + 1)) \div 2 \in Nat  BY Triangular
  <2>2. \A n \in Nat : n % c \in D  BY <1>1, DivProps
  <2> QED  BY <2>1, <2>2 DEF ProbeIndex
<1>3. ASSUME NEW p \in D, NEW q \in D, ProbeIndex(policy, h, p, c) = ProbeIndex(policy, h, q, c), q < p PROVE FALSE
  <2>1. CASE policy.next = "linear"
    <3>1. (h + q) % c = (h + p) % c  BY <1>3, <2>1 DEF ProbeIndex
    <3> QED  BY <1>1, <1>3, <3>1, LinearDistinct
  <2>2. CASE policy.next # "linear"
    <3>1. (h + (q * (q + 1)) \div 2) % c = (h + (p * (p + 1)) \div 2) % c  BY <1>3, <2>2 DEF ProbeIndex
    <3> QED  BY <1>3, <3>1, QuadraticDistinct
  <2> QED  BY <2>1, <2>2
<1>4. \A p, q \in D : f[p] = f[q] => p = q
  <2> SUFFICES ASSUME NEW p \in D, NEW q \in D, f[p] = f[q] PROVE p = q  OBVIOUS
  <2>1. ProbeIndex(policy, h, p, c) = ProbeIndex(policy, h, q, c)  OBVIOUS
  <2>2. ~(q < p) /\ ~(p < q)  BY <1>3, <2>1
  <2> QED  BY <1>1, <2>2
<1>5. f \in [D -> D]
  <2>1. \A p \in D : p \in Nat  OBVIOUS
  <2> QED  BY <1>2, <2>1
<1>6. IsFiniteSet(D)  BY <1>1, FS_Interval
<1>7. \A i \in D : \E p \in D : f[p] = i
  <2> HIDE DEF f, D
  <2>1. f \in Injection(D, D)  BY <1>4, <1>5 DEF Injection, IsInjective
  <2>2. f \in Surjection(D, D)  BY <1>6, <2>1, FS_Injection
  <2> QED  BY <2>2 DEF Surjection
<1>8. \A p, q \in D : ProbeIndex(policy, h, p, c) = ProbeIndex(policy, h, q, c) => p = q
  <2> SUFFICES ASSUME NEW p \in D, NEW q \in D, ProbeIndex(policy, h, p, c) = ProbeIndex(policy, h, q, c)
               PROVE  p = q
    OBVIOUS
  <2>1. f[p] = f[q]  OBVIOUS
  <2> HIDE DEF f, D
  <2> QED  BY <1>4, <2>1
<1>9. \A i \in D : \E p \in D : ProbeIndex(policy, h, p, c) = i
  <2> SUFFICES ASSUME NEW i \in D PROVE \E p \in D : ProbeIndex(policy, h, p, c) = i  OBVIOUS
  <2>1. PICK p \in D : f[p] = i
    <3> HIDE DEF f, D
    <3> QED  BY <1>7
  <2> QED  BY <2>1
<1> QED  BY <1>2, <1>8, <1>9

------------------------------------------------------------------------------
\* Tables and scans.

Slot == Entries \cup {EMPTY, TOMB}
Slotted == UNION {[0..(c - 1) -> Slot] : c \in Tables \cup {0}}
Maps == [slots : Slotted, length : Int, tombstones : Nat, policy : Policies]

\* A slot is empty, deleted, or holds a pair.
LEMMA SlotProps ==
  /\ EMPTY # TOMB /\ EMPTY \in Slot /\ TOMB \in Slot
  /\ \A s \in Slot : s = EMPTY \/ s = TOMB \/ s \in Entries
  /\ EMPTY \notin Entries /\ TOMB \notin Entries
  /\ \A p \in Pairs : Entry(p) \in Entries /\ Entry(p).key = p[1] /\ Entry(p).value = p[2]
                      /\ <<Entry(p).key, Entry(p).value>> = p
  /\ \A e \in Entries : <<e.key, e.value>> \in Pairs /\ e = Entry(<<e.key, e.value>>)
<1>1. EMPTY # TOMB
  <2>1. EMPTY.key = "EMPTY" /\ TOMB.key = "TOMBSTONE"  BY DEF EMPTY, TOMB
  <2> QED  BY <2>1
<1>2. DOMAIN EMPTY = {"key"} /\ DOMAIN TOMB = {"key"}  BY DEF EMPTY, TOMB
<1>3. \A p : DOMAIN Entry(p) = {"key", "value"}  BY DEF Entry
<1>4. EMPTY \notin Entries /\ TOMB \notin Entries
  <2>1. {"key"} # {"key", "value"}
    <3>1. "key" # "value"  OBVIOUS
    <3> QED  BY <3>1
  <2> QED  BY <1>2, <1>3, <2>1 DEF Entries
<1>5. \A p \in Pairs : Entry(p) \in Entries /\ Entry(p).key = p[1] /\ Entry(p).value = p[2]  BY DEF Entry, Entries
<1>6. \A p \in Pairs : p = <<p[1], p[2]>>  BY DEF Pairs
<1>7. \A e \in Entries : \E p \in Pairs : e = Entry(p)  BY DEF Entries
<1>8. \A p \in Pairs : <<Entry(p).key, Entry(p).value>> = p  BY <1>5, <1>6
<1>9. \A e \in Entries : <<e.key, e.value>> \in Pairs /\ e = Entry(<<e.key, e.value>>)  BY <1>7, <1>8
<1> QED  BY <1>1, <1>4, <1>5, <1>8, <1>9 DEF Slot

\* The slots of a table are numbered from 0 up to its capacity.
LEMMA MapShape ==
  ASSUME MapAssumption, NEW m \in Maps
  PROVE  /\ Capacity(m) \in Tables \cup {0} /\ Capacity(m) \in Nat
         /\ DOMAIN m.slots = 0..(Capacity(m) - 1) /\ m.slots \in [0..(Capacity(m) - 1) -> Slot]
         /\ m.policy \in Policies /\ m.length \in Int /\ m.tombstones \in Nat
         /\ m.policy.max_probe_count \in Nat \ {0}
<1> DEFINE s == m.slots
<1>1. s \in Slotted /\ m.policy \in Policies /\ m.length \in Int /\ m.tombstones \in Nat  BY DEF Maps
<1>2. m.policy.max_probe_count \in Nat \ {0}
  <2>1. \A q \in Policies : q \in [next : {"linear", "quadratic"}, max_probe_count : Nat \ {0}]  BY DEF MapAssumption
  <2> QED  BY <1>1, <2>1
<1>3. PICK c \in Tables \cup {0} : s \in [0..(c - 1) -> Slot]  BY <1>1 DEF Slotted
<1>4. c \in Nat  BY TableProps
<1>5. DOMAIN s = 0..(c - 1)  BY <1>3
<1>6. Cardinality(0..(c - 1)) = c
  <2>1. c - 1 \in Int  BY <1>4
  <2> QED  BY <1>4, <2>1, FS_Interval
<1>7. Capacity(m) = c  BY <1>5, <1>6 DEF Capacity
<1> QED  BY <1>1, <1>2, <1>3, <1>4, <1>5, <1>7

\* Rebuilding a record of a map from its fields gives the map.
LEMMA MapIs ==
  ASSUME NEW m \in Maps
  PROVE  m = [slots |-> m.slots, length |-> m.length, tombstones |-> m.tombstones, policy |-> m.policy]
  BY DEF Maps

\* Where a probe looks is a slot.
LEMMA AtProps ==
  ASSUME MapAssumption, NEW m \in Maps, NEW k \in Keys, Capacity(m) # 0
  PROVE  /\ \A p \in Nat : At(m, k, p) \in 0..(Capacity(m) - 1) /\ SlotAt(m, k, p) \in Slot
         /\ \A p, q \in 0..(Capacity(m) - 1) : At(m, k, p) = At(m, k, q) => p = q
         /\ \A i \in 0..(Capacity(m) - 1) : \E p \in 0..(Capacity(m) - 1) : At(m, k, p) = i
<1> DEFINE c == Capacity(m)
           s == m.slots
           h == Hash[k]
           policy == m.policy
<1>1. c \in Tables /\ c \in Nat /\ s \in [0..(c - 1) -> Slot] /\ policy \in Policies  BY MapShape
<1>2. h \in Nat  BY DEF MapAssumption
<1>3. \A p : At(m, k, p) = ProbeIndex(policy, h, p, c) /\ SlotAt(m, k, p) = s[At(m, k, p)]  BY DEF At, SlotAt
<1> HIDE DEF c, s, h, policy
<1>4. /\ \A p \in Nat : ProbeIndex(policy, h, p, c) \in 0..(c - 1)
      /\ \A p, q \in 0..(c - 1) : ProbeIndex(policy, h, p, c) = ProbeIndex(policy, h, q, c) => p = q
      /\ \A i \in 0..(c - 1) : \E p \in 0..(c - 1) : ProbeIndex(policy, h, p, c) = i
  BY <1>1, <1>2, ProbesCover
<1>5. ASSUME NEW p \in Nat PROVE At(m, k, p) \in 0..(c - 1) /\ SlotAt(m, k, p) \in Slot
  <2>1. At(m, k, p) \in 0..(c - 1)  BY <1>3, <1>4
  <2>2. s[At(m, k, p)] \in Slot  BY <1>1, <2>1
  <2> QED  BY <1>3, <2>1, <2>2
<1>6. \A p, q \in 0..(c - 1) : At(m, k, p) = At(m, k, q) => p = q  BY <1>3, <1>4
<1>7. \A i \in 0..(c - 1) : \E p \in 0..(c - 1) : At(m, k, p) = i  BY <1>3, <1>4
<1> QED  BY <1>5, <1>6, <1>7 DEF c

\* The probes of a scan that find k.
Hits(m, k) == {p \in Scanned(m, k) : SlotAt(m, k, p) # TOMB /\ SlotAt(m, k, p).key = k}

\* A scan is a run of probes from the first on, none of which is empty.
LEMMA ScanProps ==
  ASSUME MapAssumption, NEW m \in Maps, NEW k \in Keys
  PROVE  /\ Probes(m) \subseteq Nat /\ Scanned(m, k) \subseteq Probes(m)
         /\ \A p \in Scanned(m, k) : SlotAt(m, k, p) # EMPTY /\ \A q \in 0..p : q \in Scanned(m, k)
         /\ \A p \in Probes(m) : \A q \in 0..p : q \in Probes(m)
         /\ \A p \in Probes(m) : (\A q \in 0..p : SlotAt(m, k, q) # EMPTY) => p \in Scanned(m, k)
         /\ \A p \in Probes(m) : Capacity(m) # 0
         /\ Capacity(m) # 0 => 0 \in Probes(m)
<1> DEFINE P == Probes(m)
           n == m.policy.max_probe_count
<1>1. n \in Nat \ {0}  BY MapShape
<1>2. P = IF Capacity(m) = 0 THEN {} ELSE 0..(n - 1)  BY DEF Probes
<1> HIDE DEF n
<1>3. P \subseteq Nat /\ \A p \in P : \A q \in 0..p : q \in P  BY <1>1, <1>2
<1>4. (\A p \in P : Capacity(m) # 0) /\ (Capacity(m) # 0 => 0 \in P)  BY <1>1, <1>2
<1>5. \A p : p \in Scanned(m, k) <=> p \in P /\ \A q \in P : SlotAt(m, k, q) = EMPTY => p < q  BY DEF Scanned
<1> HIDE DEF P
<1>6. ASSUME NEW p \in Scanned(m, k) PROVE SlotAt(m, k, p) # EMPTY /\ \A q \in 0..p : q \in Scanned(m, k)
  <2>1. p \in P /\ p \in Nat  BY <1>3, <1>5
  <2>2. SlotAt(m, k, p) # EMPTY
    <3>1. ~(p < p)  BY <2>1
    <3> QED  BY <1>5, <2>1, <3>1
  <2>3. ASSUME NEW q \in 0..p PROVE q \in Scanned(m, k)
    <3>1. q \in P /\ q \in Nat /\ q <= p  BY <1>3, <2>1
    <3>2. \A r \in P : SlotAt(m, k, r) = EMPTY => q < r
      <4> SUFFICES ASSUME NEW r \in P, SlotAt(m, k, r) = EMPTY PROVE q < r  OBVIOUS
      <4>1. p < r /\ r \in Nat  BY <1>3, <1>5
      <4> QED  BY <2>1, <3>1, <4>1
    <3> QED  BY <1>5, <3>1, <3>2
  <2> QED  BY <2>2, <2>3
<1>7. ASSUME NEW p \in P, \A q \in 0..p : SlotAt(m, k, q) # EMPTY PROVE p \in Scanned(m, k)
  <2> SUFFICES ASSUME NEW q \in P, SlotAt(m, k, q) = EMPTY PROVE p < q  BY <1>5
  <2>1. p \in Nat /\ q \in Nat  BY <1>3
  <2>2. q \notin 0..p  BY <1>7
  <2> QED  BY <2>1, <2>2
<1>8. Scanned(m, k) \subseteq P  BY <1>5
<1> QED  BY <1>3, <1>4, <1>6, <1>7, <1>8 DEF P

\* The slot of the first of some probes.
LEMMA FirstOfProps ==
  ASSUME MapAssumption, NEW m \in Maps, NEW k \in Keys, NEW P, P \subseteq Nat, Capacity(m) # 0
  PROVE  /\ FirstOf(m, k, P) \in 0..Capacity(m)
         /\ P = {} => FirstOf(m, k, P) = Capacity(m)
         /\ P # {} => /\ FirstOf(m, k, P) < Capacity(m)
                      /\ \E p \in P : FirstOf(m, k, P) = At(m, k, p) /\ \A q \in P : p <= q
<1>1. Capacity(m) \in Nat  BY MapShape
<1>2. CASE P = {}  BY <1>1, <1>2 DEF FirstOf
<1>3. CASE P # {}
  <2> DEFINE p == Min(P)
             c == Capacity(m)
  <2>1. p \in P /\ p \in Nat /\ \A q \in P : p <= q
    <3>1. p \in P /\ \A q \in P : p <= q  BY <1>3, MinProps
    <3> QED  BY <3>1
  <2>2. FirstOf(m, k, P) = At(m, k, p)  BY <1>3 DEF FirstOf
  <2> HIDE DEF p
  <2>3. At(m, k, p) \in 0..(c - 1)  BY <2>1, AtProps
  <2> HIDE DEF c
  <2>4. At(m, k, p) < c /\ At(m, k, p) \in 0..c  BY <1>1, <2>3 DEF c
  <2> QED  BY <1>3, <2>1, <2>2, <2>4 DEF c
<1> QED  BY <1>2, <1>3

\* A probe is free when its slot can take an entry.
Open(m, k, p) ==
    /\ p \in Probes(m) /\ SlotAt(m, k, p) \in {EMPTY, TOMB}
    /\ \A q \in 0..(p - 1) : SlotAt(m, k, q) # EMPTY

\* An insertion takes the slot of an open probe, and finds one when a probe
\* that is open or the scan's end is.
LEMMA InsertIndexProps ==
  ASSUME MapAssumption, NEW m \in Maps, NEW k \in Keys
  PROVE  /\ InsertIndex(m, k) \in 0..Capacity(m)
         /\ InsertIndex(m, k) < Capacity(m) => \E p \in Nat : Open(m, k, p) /\ InsertIndex(m, k) = At(m, k, p)
         /\ (\E p \in Scanned(m, k) : SlotAt(m, k, p) = TOMB) => InsertIndex(m, k) < Capacity(m)
<1> DEFINE T == {p \in Scanned(m, k) : SlotAt(m, k, p) = TOMB}
           G == Probes(m) \ Scanned(m, k)
           P == IF T # {} THEN T ELSE G
           i == InsertIndex(m, k)
<1>1. i = FirstOf(m, k, P)  BY DEF InsertIndex
<1>2. T \subseteq Nat /\ G \subseteq Nat /\ P \subseteq Nat /\ (Capacity(m) = 0 => P = {})  BY ScanProps
<1>3. Capacity(m) \in Nat  BY MapShape
<1>4. CASE Capacity(m) = 0
  <2>1. P = {} /\ T = {}  BY <1>2, <1>4, ScanProps
  <2>2. i = Capacity(m)  BY <1>1, <2>1 DEF FirstOf
  <2> QED  BY <1>3, <2>1, <2>2
<1>5. CASE Capacity(m) # 0
  <2> HIDE DEF P, i
  <2>1. /\ i \in 0..Capacity(m) /\ (P = {} => i = Capacity(m))
        /\ P # {} => i < Capacity(m) /\ \E p \in P : i = At(m, k, p) /\ \A q \in P : p <= q
    <3> DEFINE j == FirstOf(m, k, P)
    <3>1. P \subseteq Nat  BY <1>2
    <3>2. j \in 0..Capacity(m) /\ (P = {} => j = Capacity(m))  BY <1>5, <3>1, FirstOfProps
    <3>3. P # {} => j < Capacity(m) /\ \E p \in P : j = At(m, k, p) /\ \A q \in P : p <= q
      BY <1>5, <3>1, FirstOfProps
    <3>4. i = j  BY <1>1
    <3> HIDE DEF j
    <3> QED  BY <3>2, <3>3, <3>4
  <2>2. ASSUME i < Capacity(m) PROVE \E p \in Nat : Open(m, k, p) /\ i = At(m, k, p)
    <3>1. P # {}  BY <1>3, <2>1, <2>2
    <3>2. PICK p \in P : i = At(m, k, p) /\ \A q \in P : p <= q  BY <2>1, <3>1
    <3>3. p \in Nat /\ p \in Probes(m)  BY <1>2, ScanProps DEF P
    <3>4. \A q \in 0..(p - 1) : q \in Nat /\ q < p /\ q \in 0..p /\ q \in Probes(m)  BY <3>3, ScanProps
    <3>5. CASE T # {}
      <4>1. p \in Scanned(m, k) /\ SlotAt(m, k, p) = TOMB  BY <3>5 DEF P
      <4>2. \A q \in 0..(p - 1) : SlotAt(m, k, q) # EMPTY  BY <3>4, <4>1, ScanProps
      <4> QED  BY <3>2, <3>3, <4>1, <4>2 DEF Open
    <3>6. CASE T = {}
      <4>1. P = G /\ p \notin Scanned(m, k)  BY <3>6 DEF P
      <4>2. \A q \in 0..(p - 1) : q \in Scanned(m, k)
        <5> SUFFICES ASSUME NEW q \in 0..(p - 1), q \notin Scanned(m, k) PROVE FALSE  OBVIOUS
        <5>1. q \in P /\ q < p /\ q \in Nat  BY <3>4, <4>1
        <5> QED  BY <3>2, <3>3, <5>1
      <4>3. \A q \in 0..(p - 1) : SlotAt(m, k, q) # EMPTY  BY <4>2, ScanProps
      <4>4. SlotAt(m, k, p) = EMPTY
        <5> SUFFICES ASSUME SlotAt(m, k, p) # EMPTY PROVE FALSE  OBVIOUS
        <5>1. \A q \in 0..p : q = p \/ q \in 0..(p - 1)  BY <3>3
        <5>2. \A q \in 0..p : SlotAt(m, k, q) # EMPTY  BY <4>3, <5>1
        <5> QED  BY <3>3, <4>1, <5>2, ScanProps
      <4> QED  BY <3>2, <3>3, <4>3, <4>4 DEF Open
    <3> QED  BY <3>5, <3>6
  <2>3. T # {} => P # {}  BY DEF P
  <2>4. (\E p \in Scanned(m, k) : SlotAt(m, k, p) = TOMB) => i < Capacity(m)  BY <2>1, <2>3
  <2> QED  BY <2>1, <2>2, <2>4 DEF i
<1> QED  BY <1>4, <1>5

\* A lookup ends at the first probe that finds the key.
LEMMA FindIndexProps ==
  ASSUME MapAssumption, NEW m \in Maps, NEW k \in Keys
  PROVE  /\ map_find_index(m, k) = FirstOf(m, k, Hits(m, k)) /\ map_find_index(m, k) \in 0..Capacity(m)
         /\ Hits(m, k) \subseteq Nat /\ (Capacity(m) = 0 => Hits(m, k) = {})
         /\ Hits(m, k) = {} => map_find_index(m, k) = Capacity(m)
         /\ Hits(m, k) # {} => /\ map_find_index(m, k) < Capacity(m)
                               /\ \E p \in Hits(m, k) : map_find_index(m, k) = At(m, k, p) /\ \A q \in Hits(m, k) : p <= q
<1> DEFINE H == Hits(m, k)
<1>1. H \subseteq Nat /\ (Capacity(m) = 0 => H = {})  BY ScanProps DEF Hits
<1>2. map_find_index(m, k) = FirstOf(m, k, H)  BY DEF map_find_index, Hits
<1>3. Capacity(m) \in Nat  BY MapShape
<1> HIDE DEF H
<1>4. CASE Capacity(m) = 0
  <2>1. H = {} /\ FirstOf(m, k, H) = Capacity(m)  BY <1>1, <1>4 DEF FirstOf
  <2> QED  BY <1>1, <1>2, <1>3, <2>1 DEF H
<1>5. CASE Capacity(m) # 0
  <2>1. /\ FirstOf(m, k, H) \in 0..Capacity(m)
        /\ H = {} => FirstOf(m, k, H) = Capacity(m)
        /\ H # {} => /\ FirstOf(m, k, H) < Capacity(m)
                     /\ \E p \in H : FirstOf(m, k, H) = At(m, k, p) /\ \A q \in H : p <= q
    BY <1>1, <1>5, FirstOfProps
  <2> QED  BY <1>1, <1>2, <1>5, <2>1 DEF H
<1> QED  BY <1>4, <1>5

\* A probe that finds k looks at a slot of k.
LEMMA HitProps ==
  ASSUME MapAssumption, NEW m \in Maps, NEW k \in Keys, NEW p \in Hits(m, k)
  PROVE  /\ p \in Nat /\ p \in Scanned(m, k) /\ At(m, k, p) \in SlotsOf(m, k) /\ At(m, k, p) \in Occupied(m)
         /\ At(m, k, p) \in 0..(Capacity(m) - 1)
<1>1. p \in Scanned(m, k) /\ SlotAt(m, k, p) # TOMB /\ SlotAt(m, k, p).key = k  BY DEF Hits
<1>2. p \in Nat /\ p \in Probes(m) /\ SlotAt(m, k, p) # EMPTY /\ Capacity(m) # 0  BY <1>1, ScanProps
<1>3. At(m, k, p) \in 0..(Capacity(m) - 1) /\ SlotAt(m, k, p) \in Slot  BY <1>2, AtProps
<1>4. DOMAIN m.slots = 0..(Capacity(m) - 1)  BY MapShape
<1> DEFINE e == SlotAt(m, k, p)
<1>5. e \in Entries  BY <1>1, <1>2, <1>3, SlotProps
<1>6. <<e.key, e.value>> \in Pairs /\ e.key = k  BY <1>1, <1>5, SlotProps
<1>7. <<e.key, e.value>> \in {k} \X Values  BY <1>6 DEF Pairs
<1>8. e = m.slots[At(m, k, p)]  BY DEF SlotAt
<1>9. At(m, k, p) \in Occupied(m)  BY <1>1, <1>2, <1>3, <1>4, <1>8 DEF Occupied
<1>10. At(m, k, p) \in SlotsOf(m, k)  BY <1>7, <1>8, <1>9 DEF SlotsOf, Holding
<1> QED  BY <1>1, <1>2, <1>3, <1>9, <1>10

------------------------------------------------------------------------------
\* Sound tables.

Tombs(m) == {i \in DOMAIN m.slots : m.slots[i] = TOMB}
BagOf(m) == [p \in Pairs |-> Cardinality(Holding(m, {p}))]

\* The counters count, every entry is met by a scan for its key, and a
\* quarter of the slots is empty.
Counted(m) == m.length = Cardinality(Occupied(m)) /\ m.tombstones = Cardinality(Tombs(m))
Findable(m) == \A k \in Keys : \A i \in SlotsOf(m, k) : \E p \in Hits(m, k) : At(m, k, p) = i
Roomful(m) == 4 * (m.length + m.tombstones) <= 3 * Capacity(m)
Sound(m) == m \in Maps /\ Capacity(m) <= MaxCapacity /\ Counted(m) /\ Findable(m) /\ Roomful(m)

\* What holds an entry, and what does not.
LEMMA SlotSets ==
  ASSUME MapAssumption, NEW m \in Maps
  PROVE  /\ \A i : i \in Occupied(m) <=> i \in 0..(Capacity(m) - 1) /\ m.slots[i] \in Entries
         /\ \A i : i \in Tombs(m) <=> i \in 0..(Capacity(m) - 1) /\ m.slots[i] = TOMB
         /\ \A P : Holding(m, P) \subseteq Occupied(m)
         /\ \A P : \A i : i \in Holding(m, P) <=>
                            i \in Occupied(m) /\ <<m.slots[i].key, m.slots[i].value>> \in P
         /\ \A k : \A i : i \in SlotsOf(m, k) => i \in Occupied(m) /\ m.slots[i].key = k
         /\ \A k : \A i \in Occupied(m) : m.slots[i].key = k => i \in SlotsOf(m, k)
<1> DEFINE c == Capacity(m)
           s == m.slots
<1>1. s \in [0..(c - 1) -> Slot] /\ DOMAIN s = 0..(c - 1)  BY MapShape
<1>2. \A i \in 0..(c - 1) : s[i] \in Entries <=> s[i] # EMPTY /\ s[i] # TOMB  BY <1>1, SlotProps
<1>3. \A i : i \in Occupied(m) <=> i \in 0..(c - 1) /\ s[i] # EMPTY /\ s[i] # TOMB  BY <1>1 DEF Occupied
<1>4. \A i : i \in Tombs(m) <=> i \in 0..(c - 1) /\ s[i] = TOMB  BY <1>1 DEF Tombs
<1>5. \A P : \A i : i \in Holding(m, P) <=> i \in Occupied(m) /\ <<s[i].key, s[i].value>> \in P  BY DEF Holding
<1>6. \A i : i \in Occupied(m) <=> i \in 0..(c - 1) /\ s[i] \in Entries  BY <1>2, <1>3
<1>7. ASSUME NEW k, NEW i \in SlotsOf(m, k) PROVE i \in Occupied(m) /\ s[i].key = k
  <2>1. i \in Holding(m, {k} \X Values)  BY DEF SlotsOf
  <2>2. i \in Occupied(m) /\ <<s[i].key, s[i].value>> \in {k} \X Values  BY <1>5, <2>1
  <2> QED  BY <2>2
<1>8. ASSUME NEW k, NEW i \in Occupied(m), s[i].key = k PROVE i \in SlotsOf(m, k)
  <2>1. <<s[i].key, s[i].value>> \in Pairs  BY <1>6, SlotProps
  <2>2. <<s[i].key, s[i].value>> \in {k} \X Values  BY <1>8, <2>1 DEF Pairs
  <2> QED  BY <1>5, <2>2 DEF SlotsOf
<1> HIDE DEF s, c
<1>9. \A P : Holding(m, P) \subseteq Occupied(m)  BY <1>5
<1>10. \A k : \A i \in Occupied(m) : s[i].key = k => i \in SlotsOf(m, k)  BY <1>8
<1> QED  BY <1>4, <1>5, <1>6, <1>7, <1>9, <1>10 DEF s, c

\* Every set of slots is finite; entries and tombstones are apart.
LEMMA SlotsFinite ==
  ASSUME MapAssumption, NEW m \in Maps
  PROVE  /\ IsFiniteSet(Occupied(m)) /\ IsFiniteSet(Tombs(m)) /\ \A P : IsFiniteSet(Holding(m, P))
         /\ Cardinality(Occupied(m)) \in Nat /\ Cardinality(Tombs(m)) \in Nat
         /\ \A P : Cardinality(Holding(m, P)) \in Nat /\ Cardinality(Holding(m, P)) <= Cardinality(Occupied(m))
         /\ Cardinality(Occupied(m)) + Cardinality(Tombs(m)) <= Capacity(m)
         /\ Cardinality(Occupied(m)) + Cardinality(Tombs(m)) < Capacity(m)
              => \E i \in 0..(Capacity(m) - 1) : m.slots[i] = EMPTY
<1> DEFINE c == Capacity(m)
           D == 0..(c - 1)
           O == Occupied(m)
           T == Tombs(m)
<1>1. c \in Nat /\ IsFiniteSet(D) /\ Cardinality(D) = c
  <2>1. c \in Nat  BY MapShape
  <2> HIDE DEF c
  <2> QED  BY <2>1, FS_Interval
<1>2. O \subseteq D /\ T \subseteq D  BY SlotSets
<1>3. O \cap T = {}  BY SlotSets, SlotProps
<1>4. \A P : Holding(m, P) \subseteq O  BY SlotSets
<1>5. \A i \in D : i \in O \cup T \/ m.slots[i] = EMPTY
  <2>1. \A i \in D : m.slots[i] \in Slot  BY MapShape
  <2> QED  BY <2>1, SlotSets, SlotProps
<1> HIDE DEF O, T, D
<1>6. IsFiniteSet(O) /\ IsFiniteSet(T) /\ Cardinality(O) \in Nat /\ Cardinality(T) \in Nat
  <2>1. IsFiniteSet(O) /\ IsFiniteSet(T)  BY <1>1, <1>2, FS_Subset
  <2> QED  BY <2>1, FS_CardinalityType
<1>7. ASSUME NEW P PROVE /\ IsFiniteSet(Holding(m, P)) /\ Cardinality(Holding(m, P)) \in Nat
                         /\ Cardinality(Holding(m, P)) <= Cardinality(O)
  <2> DEFINE H == Holding(m, P)
  <2>1. H \subseteq O  BY <1>4
  <2> HIDE DEF H
  <2>2. IsFiniteSet(H) /\ Cardinality(H) <= Cardinality(O)  BY <1>6, <2>1, FS_Subset
  <2>3. Cardinality(H) \in Nat  BY <2>2, FS_CardinalityType
  <2> QED  BY <2>2, <2>3 DEF H
<1> DEFINE U == O \cup T
<1>8. IsFiniteSet(U) /\ Cardinality(U) = Cardinality(O) + Cardinality(T)
  <2>1. Cardinality(O \cap T) = 0  BY <1>3, FS_EmptySet
  <2>2. /\ IsFiniteSet(O \cup T)
        /\ Cardinality(O \cup T) = Cardinality(O) + Cardinality(T) - Cardinality(O \cap T)
    BY <1>6, FS_Union
  <2> QED  BY <1>6, <2>1, <2>2
<1>9. U \subseteq D  BY <1>2
<1>10. \A i \in D : i \in U \/ m.slots[i] = EMPTY  BY <1>5
<1> HIDE DEF U
<1>11. Cardinality(U) <= c  BY <1>1, <1>9, FS_Subset
<1>12. Cardinality(U) < c => \E i \in D : m.slots[i] = EMPTY
  <2> SUFFICES ASSUME Cardinality(U) < c, \A i \in D : m.slots[i] # EMPTY PROVE FALSE  OBVIOUS
  <2>1. U = D  BY <1>9, <1>10
  <2> QED  BY <1>1, <2>1
<1>13. /\ \A P : IsFiniteSet(Holding(m, P))
       /\ \A P : Cardinality(Holding(m, P)) \in Nat /\ Cardinality(Holding(m, P)) <= Cardinality(O)
  BY <1>7
<1>14. Cardinality(O) + Cardinality(T) <= c  BY <1>8, <1>11
<1>15. Cardinality(O) + Cardinality(T) < c => \E i \in D : m.slots[i] = EMPTY  BY <1>8, <1>12
<1> HIDE DEF c
<1> QED  BY <1>6, <1>13, <1>14, <1>15 DEF O, T, D, c

\* A probe looks where it did while the capacity and the policy stay.
LEMMA SameProbes ==
  ASSUME NEW m, NEW n, Capacity(n) = Capacity(m), n.policy = m.policy
  PROVE  Probes(n) = Probes(m) /\ \A k, p : At(n, k, p) = At(m, k, p)
  BY DEF Probes, At

\* An entry is found where it was as long as no slot on the way empties.
LEMMA StillFound ==
  ASSUME MapAssumption, NEW m \in Maps, NEW n \in Maps, Capacity(n) = Capacity(m), n.policy = m.policy,
         \A i \in 0..(Capacity(m) - 1) : m.slots[i] # EMPTY => n.slots[i] # EMPTY,
         NEW k \in Keys, NEW p \in Hits(m, k),
         n.slots[At(m, k, p)] # TOMB, n.slots[At(m, k, p)].key = k
  PROVE  p \in Hits(n, k)
<1>1. Probes(n) = Probes(m) /\ \A q : At(n, k, q) = At(m, k, q)  BY SameProbes
<1>2. p \in Nat /\ p \in Scanned(m, k) /\ p \in Probes(m) /\ Capacity(m) # 0  BY HitProps, ScanProps
<1>3. ASSUME NEW q \in 0..p PROVE SlotAt(n, k, q) # EMPTY
  <2>1. q \in Scanned(m, k) /\ q \in Nat  BY <1>2, ScanProps
  <2>2. SlotAt(m, k, q) # EMPTY  BY <2>1, ScanProps
  <2>3. At(m, k, q) \in 0..(Capacity(m) - 1)  BY <1>2, <2>1, AtProps
  <2> QED  BY <1>1, <2>2, <2>3 DEF SlotAt
<1>4. p \in Scanned(n, k)
  <2>1. p \in Probes(n)  BY <1>1, <1>2
  <2> QED  BY <1>3, <2>1, ScanProps
<1>5. SlotAt(n, k, p) # TOMB /\ SlotAt(n, k, p).key = k  BY <1>1 DEF SlotAt
<1> QED  BY <1>4, <1>5 DEF Hits

\* Filling a slot, emptying none: the shape of the table.
LEMMA FillShape ==
  ASSUME MapAssumption, BoundsAssumption, NEW m \in Maps, NEW i \in 0..(Capacity(m) - 1), NEW e \in Entries
  PROVE  /\ Fill(m, i, e) \in Maps /\ Capacity(Fill(m, i, e)) = Capacity(m)
         /\ Fill(m, i, e).policy = m.policy /\ Fill(m, i, e).length = m.length + 1
         /\ Fill(m, i, e).slots = [m.slots EXCEPT ![i] = e]
<1> DEFINE s == [m.slots EXCEPT ![i] = e]
           t == IF m.slots[i] = TOMB THEN (m.tombstones + WordSize - 1) % WordSize ELSE m.tombstones
           l == m.length + 1
           f == m.policy
           n == Fill(m, i, e)
<1>1. n = [slots |-> s, length |-> l, tombstones |-> t, policy |-> f]
  <2>1. m = [slots |-> m.slots, length |-> m.length, tombstones |-> m.tombstones, policy |-> m.policy]  BY MapIs
  <2>2. n = [m EXCEPT !.slots = s, !.length = l, !.tombstones = t]  BY DEF Fill
  <2> HIDE DEF n, s, t, l
  <2> QED  BY <2>1, <2>2
<1>2. t \in Nat
  <2>1. m.tombstones \in Nat /\ WordSize \in Nat \ {0}  BY MapShape, BoundProps
  <2>2. m.tombstones + WordSize - 1 \in Nat  BY <2>1
  <2>3. (m.tombstones + WordSize - 1) % WordSize \in Nat  BY <2>1, <2>2, DivProps
  <2> QED  BY <2>1, <2>3
<1>3. l \in Int /\ f \in Policies  BY MapShape
<1>4. s \in Slotted /\ DOMAIN s = DOMAIN m.slots
  <2> DEFINE c == Capacity(m)
  <2>1. m.slots \in [0..(c - 1) -> Slot] /\ c \in Tables \cup {0}  BY MapShape
  <2> HIDE DEF c
  <2>2. s \in [0..(c - 1) -> Slot]  BY <2>1 DEF Slot
  <2>3. DOMAIN s = DOMAIN m.slots  OBVIOUS
  <2> QED  BY <2>1, <2>2, <2>3 DEF Slotted
<1> HIDE DEF s, t, l, f
<1>5. n \in Maps  BY <1>1, <1>2, <1>3, <1>4 DEF Maps
<1>6. n.slots = s /\ n.length = l /\ n.tombstones = t /\ n.policy = f  BY <1>1
<1>7. Capacity(n) = Capacity(m)  BY <1>4, <1>6 DEF Capacity
<1> HIDE DEF n
<1> QED  BY <1>5, <1>6, <1>7 DEF n, s, l, f

\* A tombstone that is reused is counted no more.
LEMMA FillTombs ==
  ASSUME NEW m \in Maps, NEW i, NEW e
  PROVE  Fill(m, i, e).tombstones = IF m.slots[i] = TOMB THEN (m.tombstones + WordSize - 1) % WordSize
                                    ELSE m.tombstones
<1> DEFINE s == [m.slots EXCEPT ![i] = e]
           t == IF m.slots[i] = TOMB THEN (m.tombstones + WordSize - 1) % WordSize ELSE m.tombstones
           l == m.length + 1
<1>1. m = [slots |-> m.slots, length |-> m.length, tombstones |-> m.tombstones, policy |-> m.policy]  BY MapIs
<1>2. Fill(m, i, e) = [m EXCEPT !.slots = s, !.length = l, !.tombstones = t]  BY DEF Fill
<1> HIDE DEF s, t, l
<1>3. [m EXCEPT !.slots = s, !.length = l, !.tombstones = t].tombstones = t  BY <1>1
<1> QED  BY <1>2, <1>3 DEF t

\* n is m with something else in slot i.
Differs(m, n, i, e) ==
    /\ m \in Maps /\ n \in Maps /\ Capacity(n) = Capacity(m) /\ n.policy = m.policy
    /\ i \in 0..(Capacity(m) - 1) /\ e \in Slot /\ n.slots = [m.slots EXCEPT ![i] = e]

\* A slot of a changed table is the new one or an old one.
LEMMA DiffersProps ==
  ASSUME MapAssumption, NEW m, NEW n, NEW i, NEW e, Differs(m, n, i, e)
  PROVE  n.slots[i] = e /\ \A j \in 0..(Capacity(m) - 1) : j # i => n.slots[j] = m.slots[j]
<1>1. m \in Maps /\ n.slots = [m.slots EXCEPT ![i] = e] /\ i \in 0..(Capacity(m) - 1)  BY DEF Differs
<1>2. DOMAIN m.slots = 0..(Capacity(m) - 1)  BY <1>1, MapShape
<1> QED  BY <1>1, <1>2

\* Of n, slot i holds p.
Gains(m, n, i, p) ==
    \A q \in Pairs : Holding(n, {q}) = IF q = p THEN Holding(m, {q}) \cup {i} ELSE Holding(m, {q}) \ {i}

\* An entry written to a slot.
LEMMA EntrySets ==
  ASSUME MapAssumption, NEW m, NEW n, NEW i, NEW p \in Pairs, Differs(m, n, i, Entry(p))
  PROVE  /\ Occupied(n) = Occupied(m) \cup {i} /\ Tombs(n) = Tombs(m) \ {i}
         /\ Gains(m, n, i, p)
<1> DEFINE D == 0..(Capacity(m) - 1)
           e == Entry(p)
<1>1. m \in Maps /\ n \in Maps /\ Capacity(n) = Capacity(m) /\ i \in D  BY DEF Differs
<1>2. e \in Entries /\ e # TOMB /\ <<e.key, e.value>> = p  BY SlotProps
<1>3. n.slots[i] = e /\ \A j \in D : j # i => n.slots[j] = m.slots[j]  BY DiffersProps
<1>4. /\ \A j : j \in Occupied(m) <=> j \in D /\ m.slots[j] \in Entries
      /\ \A j : j \in Tombs(m) <=> j \in D /\ m.slots[j] = TOMB
      /\ \A P : \A j : j \in Holding(m, P) <=> j \in Occupied(m) /\ <<m.slots[j].key, m.slots[j].value>> \in P
  BY <1>1, SlotSets
<1>5. /\ \A j : j \in Occupied(n) <=> j \in D /\ n.slots[j] \in Entries
      /\ \A j : j \in Tombs(n) <=> j \in D /\ n.slots[j] = TOMB
      /\ \A P : \A j : j \in Holding(n, P) <=> j \in Occupied(n) /\ <<n.slots[j].key, n.slots[j].value>> \in P
  BY <1>1, SlotSets
<1> HIDE DEF D, e
<1>6. \A j : j \in Occupied(n) <=> j \in Occupied(m) \/ j = i  BY <1>1, <1>2, <1>3, <1>4, <1>5
<1>7. \A j : j \in Tombs(n) <=> j \in Tombs(m) /\ j # i  BY <1>1, <1>2, <1>3, <1>4, <1>5
<1>8. ASSUME NEW q \in Pairs
      PROVE  Holding(n, {q}) = IF q = p THEN Holding(m, {q}) \cup {i} ELSE Holding(m, {q}) \ {i}
  <2>1. \A j : j # i => (j \in Holding(n, {q}) <=> j \in Holding(m, {q}))
    <3> SUFFICES ASSUME NEW j, j # i PROVE j \in Holding(n, {q}) <=> j \in Holding(m, {q})  OBVIOUS
    <3>1. j \in D => n.slots[j] = m.slots[j]  BY <1>3
    <3> QED  BY <1>4, <1>5, <1>6, <3>1
  <2>2. i \in Holding(n, {q}) <=> q = p
    <3>1. i \in Occupied(n)  BY <1>6
    <3>2. i \in Holding(n, {q}) <=> <<e.key, e.value>> \in {q}  BY <1>3, <1>5, <3>1
    <3> QED  BY <1>2, <3>2
  <2> QED  BY <2>1, <2>2
<1>9. Gains(m, n, i, p)  BY <1>8 DEF Gains
<1> QED  BY <1>6, <1>7, <1>9

\* A slot made a tombstone.
LEMMA TombSets ==
  ASSUME MapAssumption, NEW m, NEW n, NEW i, Differs(m, n, i, TOMB)
  PROVE  /\ Occupied(n) = Occupied(m) \ {i} /\ Tombs(n) = Tombs(m) \cup {i}
         /\ \A P : Holding(n, P) = Holding(m, P) \ {i}
<1> DEFINE D == 0..(Capacity(m) - 1)
<1>1. m \in Maps /\ n \in Maps /\ Capacity(n) = Capacity(m) /\ i \in D  BY DEF Differs
<1>2. TOMB \notin Entries  BY SlotProps
<1>3. n.slots[i] = TOMB /\ \A j \in D : j # i => n.slots[j] = m.slots[j]  BY DiffersProps
<1>4. /\ \A j : j \in Occupied(m) <=> j \in D /\ m.slots[j] \in Entries
      /\ \A j : j \in Tombs(m) <=> j \in D /\ m.slots[j] = TOMB
      /\ \A P : \A j : j \in Holding(m, P) <=> j \in Occupied(m) /\ <<m.slots[j].key, m.slots[j].value>> \in P
  BY <1>1, SlotSets
<1>5. /\ \A j : j \in Occupied(n) <=> j \in D /\ n.slots[j] \in Entries
      /\ \A j : j \in Tombs(n) <=> j \in D /\ n.slots[j] = TOMB
      /\ \A P : \A j : j \in Holding(n, P) <=> j \in Occupied(n) /\ <<n.slots[j].key, n.slots[j].value>> \in P
  BY <1>1, SlotSets
<1> HIDE DEF D
<1>6. \A j : j \in Occupied(n) <=> j \in Occupied(m) /\ j # i  BY <1>1, <1>2, <1>3, <1>4, <1>5
<1>7. \A j : j \in Tombs(n) <=> j \in Tombs(m) \/ j = i  BY <1>1, <1>2, <1>3, <1>4, <1>5
<1>8. ASSUME NEW P PROVE Holding(n, P) = Holding(m, P) \ {i}
  <2> SUFFICES ASSUME NEW j PROVE j \in Holding(n, P) <=> j \in Holding(m, P) /\ j # i  OBVIOUS
  <2>1. j # i /\ j \in D => n.slots[j] = m.slots[j]  BY <1>3
  <2> QED  BY <1>4, <1>5, <1>6, <2>1
<1>9. Occupied(n) = Occupied(m) \ {i}  BY <1>6
<1>10. Tombs(n) = Tombs(m) \cup {i}  BY <1>7
<1>11. \A P : Holding(n, P) = Holding(m, P) \ {i}  BY <1>8
<1> QED  BY <1>9, <1>10, <1>11

\* Division has one remainder.
LEMMA OneRemainder ==
  ASSUME NEW d \in Nat \ {0}, NEW n \in Nat, NEW q \in Nat, NEW r \in 0..(d - 1), n = q * d + r
  PROVE  n % d = r
<1> DEFINE p == n \div d
           s == n % d
<1>1. p \in Nat /\ s \in 0..(d - 1) /\ n = d * p + s  BY DivProps
<1> HIDE DEF p, s
<1>2. d * p = p * d  BY <1>1
<1>3. ~(p < q)
  <2> SUFFICES ASSUME p < q PROVE FALSE  OBVIOUS
  <2>1. p * d + d <= q * d  BY <1>1, NextMultiple
  <2>2. p * d \in Nat /\ q * d \in Nat  BY <1>1
  <2> QED  BY <1>1, <1>2, <2>1, <2>2
<1>4. ~(q < p)
  <2> SUFFICES ASSUME q < p PROVE FALSE  OBVIOUS
  <2>1. q * d + d <= p * d  BY <1>1, NextMultiple
  <2>2. p * d \in Nat /\ q * d \in Nat  BY <1>1
  <2> QED  BY <1>1, <1>2, <2>1, <2>2
<1>5. p = q  BY <1>1, <1>3, <1>4
<1>6. q * d \in Nat  OBVIOUS
<1>7. s = r  BY <1>1, <1>2, <1>5, <1>6
<1> QED  BY <1>7 DEF s

\* Counters of a word wrap only below 0 and at WordSize.
LEMMA Counters ==
  ASSUME NEW w \in Nat \ {0}, NEW t \in Nat, t + 1 < w
  PROVE  /\ t # 0 => (t + w - 1) % w = t - 1
         /\ (t + 1) % w = t + 1
<1>1. ASSUME NEW r \in Nat, r < w PROVE r % w = r /\ (r + w) % w = r
  <2>1. r \in 0..(w - 1) /\ r = 0 * w + r /\ r + w = 1 * w + r /\ r + w \in Nat  BY <1>1
  <2> QED  BY <2>1, OneRemainder
<1>2. (t + 1) % w = t + 1  BY <1>1
<1>3. ASSUME t # 0 PROVE (t + w - 1) % w = t - 1
  <2>1. t - 1 \in Nat /\ t - 1 < w /\ (t - 1) + w = t + w - 1  BY <1>3
  <2> QED  BY <1>1, <2>1
<1> QED  BY <1>2, <1>3

\* The tombstones of a table are far from the width of a word.
LEMMA TombsBound ==
  ASSUME MapAssumption, BoundsAssumption, NEW m \in Maps, Counted(m), Capacity(m) <= MaxCapacity
  PROVE  /\ m.tombstones \in Nat /\ m.length \in Nat /\ WordSize \in Nat \ {0} /\ MaxCapacity \in Nat
         /\ m.length + m.tombstones <= Capacity(m) /\ Capacity(m) \in Nat
         /\ 4 * (m.length + m.tombstones + 1) < WordSize /\ m.tombstones + 1 < WordSize
<1>1. Cardinality(Occupied(m)) \in Nat /\ Cardinality(Tombs(m)) \in Nat
      /\ Cardinality(Occupied(m)) + Cardinality(Tombs(m)) <= Capacity(m)
  BY SlotsFinite
<1>2. m.length \in Nat /\ m.tombstones \in Nat /\ m.length + m.tombstones <= Capacity(m)  BY <1>1 DEF Counted
<1>3. MaxCapacity \in Nat /\ WordSize \in Nat \ {0} /\ 4 * (MaxCapacity + 1) < WordSize  BY BoundProps, TableProps
<1>4. Capacity(m) \in Nat  BY MapShape
<1> QED  BY <1>2, <1>3, <1>4

\* An entry put in a slot that holds none is counted, and is in the bag.
LEMMA FillCounts ==
  ASSUME MapAssumption, BoundsAssumption, NEW m \in Maps, Counted(m), Capacity(m) <= MaxCapacity,
         NEW i \in 0..(Capacity(m) - 1), m.slots[i] \in {EMPTY, TOMB}, NEW p \in Pairs
  PROVE  /\ Counted(Fill(m, i, Entry(p)))
         /\ BagOf(Fill(m, i, Entry(p))) = [BagOf(m) EXCEPT ![p] = @ + 1]
         /\ Fill(m, i, Entry(p)).tombstones = IF m.slots[i] = TOMB THEN m.tombstones - 1 ELSE m.tombstones
<1> DEFINE n == Fill(m, i, Entry(p))
           O == Occupied(m)
           T == Tombs(m)
<1>1. Entry(p) \in Entries /\ Entry(p) \in Slot  BY SlotProps DEF Slot
<1>2. /\ n \in Maps /\ Capacity(n) = Capacity(m) /\ n.policy = m.policy /\ n.length = m.length + 1
      /\ n.slots = [m.slots EXCEPT ![i] = Entry(p)]
  BY <1>1, FillShape
<1>3. n.tombstones = IF m.slots[i] = TOMB THEN (m.tombstones + WordSize - 1) % WordSize ELSE m.tombstones
  BY <1>1, FillTombs
<1> HIDE DEF n
<1>4. Differs(m, n, i, Entry(p))  BY <1>1, <1>2 DEF Differs
<1>5. /\ Occupied(n) = O \cup {i} /\ Tombs(n) = T \ {i}
      /\ \A q \in Pairs : Holding(n, {q}) = IF q = p THEN Holding(m, {q}) \cup {i} ELSE Holding(m, {q}) \ {i}
  <2> HIDE DEF O, T
  <2>1. Occupied(n) = Occupied(m) \cup {i} /\ Tombs(n) = Tombs(m) \ {i}  BY <1>4, EntrySets
  <2>2. \A q \in Pairs : Holding(n, {q}) = IF q = p THEN Holding(m, {q}) \cup {i} ELSE Holding(m, {q}) \ {i}
    <3>1. Gains(m, n, i, p)  BY <1>4, EntrySets
    <3> QED  BY <3>1 DEF Gains
  <2> QED  BY <2>1, <2>2 DEF O, T
<1>6. i \notin O /\ (i \in T <=> m.slots[i] = TOMB)  BY SlotSets, SlotProps
<1>7. IsFiniteSet(O) /\ IsFiniteSet(T) /\ Cardinality(T) \in Nat  BY SlotsFinite
<1>8. m.length = Cardinality(O) /\ m.tombstones = Cardinality(T)  BY DEF Counted
<1>9. WordSize \in Nat \ {0} /\ m.tombstones + 1 < WordSize  BY TombsBound
<1> HIDE DEF O, T
<1>10. Cardinality(O \cup {i}) = Cardinality(O) + 1  BY <1>6, <1>7, FS_AddElement
<1>11. Cardinality(T \ {i}) = IF i \in T THEN Cardinality(T) - 1 ELSE Cardinality(T)  BY <1>7, FS_RemoveElement
<1>12. n.tombstones = IF m.slots[i] = TOMB THEN m.tombstones - 1 ELSE m.tombstones
  <2>1. CASE m.slots[i] = TOMB
    <3>1. i \in T  BY <1>6, <2>1
    <3>2. Cardinality(T) # 0  BY <1>7, <3>1, FS_EmptySet
    <3> DEFINE t == m.tombstones
               w == WordSize
    <3>3. t \in Nat /\ t # 0 /\ t + 1 < w /\ w \in Nat \ {0}  BY <1>7, <1>8, <1>9, <3>2
    <3> HIDE DEF t, w
    <3>4. (t + w - 1) % w = t - 1  BY <3>3, Counters
    <3> QED  BY <1>3, <2>1, <3>4 DEF t, w
  <2>2. CASE m.slots[i] # TOMB  BY <1>3, <2>2
  <2> QED  BY <2>1, <2>2
<1>13. Counted(n)
  <2>1. n.length = Cardinality(Occupied(n))  BY <1>2, <1>5, <1>8, <1>10
  <2>2. n.tombstones = Cardinality(Tombs(n))  BY <1>5, <1>6, <1>8, <1>11, <1>12
  <2> QED  BY <2>1, <2>2 DEF Counted
<1>14. \A q \in Pairs : Cardinality(Holding(n, {q}))
                          = IF q = p THEN Cardinality(Holding(m, {q})) + 1 ELSE Cardinality(Holding(m, {q}))
  <2> SUFFICES ASSUME NEW q \in Pairs
               PROVE  Cardinality(Holding(n, {q}))
                        = IF q = p THEN Cardinality(Holding(m, {q})) + 1 ELSE Cardinality(Holding(m, {q}))
    OBVIOUS
  <2> DEFINE H == Holding(m, {q})
  <2>1. IsFiniteSet(H) /\ i \notin H
    <3>1. H \subseteq O  BY SlotSets DEF O
    <3>2. IsFiniteSet(H)  BY SlotsFinite
    <3> QED  BY <1>6, <3>1, <3>2
  <2>2. Holding(n, {q}) = IF q = p THEN H \cup {i} ELSE H \ {i}  BY <1>5
  <2> HIDE DEF H
  <2>3. Cardinality(H \cup {i}) = Cardinality(H) + 1  BY <2>1, FS_AddElement
  <2>4. H \ {i} = H  BY <2>1
  <2> QED  BY <2>2, <2>3, <2>4 DEF H
<1>15. BagOf(n) = [BagOf(m) EXCEPT ![p] = @ + 1]
  <2> DEFINE b == [q \in Pairs |-> Cardinality(Holding(m, {q}))]
  <2>1. [q \in Pairs |-> Cardinality(Holding(n, {q}))] = [b EXCEPT ![p] = @ + 1]  BY <1>14
  <2> QED  BY <2>1 DEF BagOf
<1> QED  BY <1>12, <1>13, <1>15 DEF n

\* What m has and keeps in n is found in n, when no slot of m has emptied.
LEMMA FoundAfter ==
  ASSUME MapAssumption, NEW m, NEW n, NEW i, NEW e, Differs(m, n, i, e), e # EMPTY, Findable(m),
         NEW k \in Keys, NEW j \in SlotsOf(n, k), j # i \/ j \in SlotsOf(m, k)
  PROVE  \E p \in Hits(n, k) : At(n, k, p) = j
<1>1. m \in Maps /\ n \in Maps /\ Capacity(n) = Capacity(m) /\ n.policy = m.policy /\ i \in 0..(Capacity(m) - 1)
  BY DEF Differs
<1>2. n.slots[i] = e /\ \A x \in 0..(Capacity(m) - 1) : x # i => n.slots[x] = m.slots[x]  BY DiffersProps
<1>3. j \in Occupied(n) /\ n.slots[j].key = k /\ j \in 0..(Capacity(m) - 1) /\ n.slots[j] \in Entries
  BY <1>1, SlotSets
<1>4. j \in SlotsOf(m, k)
  <2>1. CASE j # i
    <3>1. m.slots[j] = n.slots[j]  BY <1>2, <1>3, <2>1
    <3> QED  BY <1>1, <1>3, <3>1, SlotSets
  <2> QED  BY <2>1
<1>5. PICK p \in Hits(m, k) : At(m, k, p) = j  BY <1>4 DEF Findable
<1>6. \A x \in 0..(Capacity(m) - 1) : m.slots[x] # EMPTY => n.slots[x] # EMPTY  BY <1>2
<1>7. n.slots[At(m, k, p)] # TOMB /\ n.slots[At(m, k, p)].key = k  BY <1>3, <1>5, SlotProps
<1>8. p \in Hits(n, k)  BY <1>1, <1>6, <1>7, StillFound
<1>9. At(n, k, p) = j  BY <1>1, <1>5, SameProbes
<1> QED  BY <1>8, <1>9

\* An entry in the slot of an open probe is found, and so are the others.
LEMMA FillFindable ==
  ASSUME MapAssumption, BoundsAssumption, NEW m \in Maps, Findable(m), NEW pair \in Pairs,
         NEW p \in Nat, Open(m, pair[1], p)
  PROVE  Findable(Fill(m, At(m, pair[1], p), Entry(pair)))
<1> DEFINE k == pair[1]
           i == At(m, k, p)
           e == Entry(pair)
           n == Fill(m, i, e)
<1>1. k \in Keys  BY DEF Pairs
<1>2. p \in Probes(m) /\ (\A q \in 0..(p - 1) : SlotAt(m, k, q) # EMPTY) /\ Capacity(m) # 0
  BY <1>1, ScanProps DEF Open
<1>3. i \in 0..(Capacity(m) - 1)  BY <1>1, <1>2, AtProps
<1>4. e \in Entries /\ e \in Slot /\ e # EMPTY /\ e # TOMB /\ e.key = k  BY SlotProps DEF Slot
<1> HIDE DEF e, i, k
<1>5. Differs(m, n, i, e)
  <2>1. /\ n \in Maps /\ Capacity(n) = Capacity(m) /\ n.policy = m.policy
        /\ n.slots = [m.slots EXCEPT ![i] = e]
    BY <1>3, <1>4, FillShape
  <2> QED  BY <1>3, <1>4, <2>1 DEF Differs
<1> HIDE DEF n
<1>6. n \in Maps /\ Capacity(n) = Capacity(m) /\ n.policy = m.policy  BY <1>5 DEF Differs
<1>7. n.slots[i] = e /\ \A x \in 0..(Capacity(m) - 1) : x # i => n.slots[x] = m.slots[x]  BY <1>5, DiffersProps
<1>8. p \in Hits(n, k)
  <2>1. Probes(n) = Probes(m) /\ \A q : At(n, k, q) = At(m, k, q)  BY <1>6, SameProbes
  <2>2. \A q \in 0..p : SlotAt(n, k, q) # EMPTY
    <3> SUFFICES ASSUME NEW q \in 0..p PROVE SlotAt(n, k, q) # EMPTY  OBVIOUS
    <3>1. At(m, k, q) \in 0..(Capacity(m) - 1)  BY <1>1, <1>2, AtProps
    <3>2. SlotAt(n, k, q) = n.slots[At(m, k, q)]  BY <2>1 DEF SlotAt
    <3>3. CASE At(m, k, q) = i  BY <1>4, <1>7, <3>2, <3>3
    <3>4. CASE At(m, k, q) # i
      <4>1. q # p  BY <3>4 DEF i
      <4>2. q \in 0..(p - 1)  BY <4>1
      <4>3. SlotAt(m, k, q) # EMPTY  BY <1>2, <4>2
      <4> QED  BY <1>7, <3>1, <3>2, <3>4, <4>3 DEF SlotAt
    <3> QED  BY <3>3, <3>4
  <2>3. p \in Scanned(n, k)
    <3>1. p \in Probes(n)  BY <1>2, <2>1
    <3> QED  BY <1>1, <1>6, <2>2, <3>1, ScanProps
  <2>4. SlotAt(n, k, p) = e  BY <1>7, <2>1 DEF SlotAt, i
  <2> QED  BY <1>4, <2>3, <2>4 DEF Hits
<1>9. At(n, k, p) = i  BY <1>6, SameProbes DEF i
<1>10. Findable(n)
  <2> SUFFICES ASSUME NEW x \in Keys, NEW j \in SlotsOf(n, x) PROVE \E q \in Hits(n, x) : At(n, x, q) = j
    BY DEF Findable
  <2>1. CASE j # i  BY <1>4, <1>5, <2>1, FoundAfter
  <2>2. CASE j = i
    <3>1. n.slots[j].key = x  BY <1>6, SlotSets
    <3>2. x = k  BY <1>4, <1>7, <2>2, <3>1
    <3> QED  BY <1>8, <1>9, <2>2, <3>2
  <2> QED  BY <2>1, <2>2
<1> QED  BY <1>10 DEF n, i, e, k

------------------------------------------------------------------------------
\* One entry more, one less.

\* n is m with one more entry for p, wherever it is.
Stored(m, n, p) ==
    /\ n \in Maps /\ Capacity(n) = Capacity(m) /\ n.policy = m.policy
    /\ Counted(n) /\ Findable(n) /\ BagOf(n) = [BagOf(m) EXCEPT ![p] = @ + 1]
    /\ n.length = m.length + 1 /\ n.tombstones <= m.tombstones

\* An insertion that has found a slot stores the pair.
LEMMA InsertStores ==
  ASSUME MapAssumption, BoundsAssumption, NEW m \in Maps, Counted(m), Findable(m), Capacity(m) <= MaxCapacity,
         NEW p \in Pairs, InsertIndex(m, p[1]) < Capacity(m)
  PROVE  Stored(m, Fill(m, InsertIndex(m, p[1]), Entry(p)), p)
<1> DEFINE k == p[1]
           i == InsertIndex(m, k)
           e == Entry(p)
           n == Fill(m, i, e)
<1>1. k \in Keys  BY DEF Pairs
<1>2. PICK q \in Nat : Open(m, k, q) /\ i = At(m, k, q)  BY <1>1, InsertIndexProps
<1>3. i \in 0..(Capacity(m) - 1) /\ m.slots[i] \in {EMPTY, TOMB}
  <2>1. q \in Probes(m) /\ Capacity(m) # 0 /\ SlotAt(m, k, q) \in {EMPTY, TOMB}  BY <1>1, <1>2, ScanProps DEF Open
  <2>2. At(m, k, q) \in 0..(Capacity(m) - 1)  BY <1>1, <2>1, AtProps
  <2> QED  BY <1>2, <2>1, <2>2 DEF SlotAt
<1>4. e \in Entries  BY SlotProps
<1>5. Findable(n)
  <2>1. Findable(Fill(m, At(m, k, q), e))  BY <1>2, FillFindable
  <2> QED  BY <1>2, <2>1
<1> HIDE DEF i
<1>6. /\ n \in Maps /\ Capacity(n) = Capacity(m) /\ n.policy = m.policy /\ n.length = m.length + 1
  <2> HIDE DEF e
  <2> QED  BY <1>3, <1>4, FillShape
<1>7. Counted(n) /\ n.tombstones = IF m.slots[i] = TOMB THEN m.tombstones - 1 ELSE m.tombstones
  BY <1>3, FillCounts
<1>10. BagOf(n) = [BagOf(m) EXCEPT ![p] = @ + 1]  BY <1>3, FillCounts
<1>8. m.tombstones \in Nat  BY MapShape
<1> HIDE DEF n
<1>9. n.tombstones <= m.tombstones  BY <1>7, <1>8
<1> QED  BY <1>5, <1>6, <1>7, <1>9, <1>10 DEF Stored, n, i

\* A stored pair fits while a slot was to spare.
LEMMA StoredSound ==
  ASSUME MapAssumption, NEW m \in Maps, NEW n, NEW p, Stored(m, n, p), Capacity(m) <= MaxCapacity,
         4 * (m.length + m.tombstones + 1) <= 3 * Capacity(m)
  PROVE  Sound(n)
<1>1. m.length \in Int /\ m.tombstones \in Nat /\ Capacity(m) \in Nat  BY MapShape
<1>2. n \in Maps /\ Capacity(n) = Capacity(m) /\ Counted(n) /\ Findable(n)
      /\ n.length = m.length + 1 /\ n.tombstones <= m.tombstones
  BY DEF Stored
<1>3. n.tombstones \in Nat  BY <1>2, MapShape
<1>4. Roomful(n)
  <2> DEFINE l == m.length
             t == m.tombstones
             c == Capacity(m)
             u == n.tombstones
  <2>1. l \in Int /\ t \in Nat /\ u \in Nat /\ c \in Nat /\ u <= t /\ 4 * (l + t + 1) <= 3 * c  BY <1>1, <1>2, <1>3
  <2>2. n.length = l + 1 /\ n.tombstones = u /\ Capacity(n) = c  BY <1>2
  <2> HIDE DEF l, t, c, u
  <2>3. 4 * ((l + 1) + u) <= 3 * c  BY <2>1
  <2> QED  BY <2>2, <2>3 DEF Roomful
<1> QED  BY <1>2, <1>4 DEF Sound

\* n is m without the entry in slot i, which held p.
Dropped(m, n, i, p) ==
    /\ Sound(n) /\ Differs(m, n, i, TOMB) /\ BagOf(n) = [BagOf(m) EXCEPT ![p] = @ - 1]
    /\ n.length = m.length - 1 /\ n.tombstones = m.tombstones + 1
    /\ m.length # 0 /\ BagOf(m)[p] # 0

\* The shape of a table with a slot made a tombstone.
LEMMA RemoveShape ==
  ASSUME MapAssumption, BoundsAssumption, NEW m \in Maps, NEW i \in 0..(Capacity(m) - 1)
  PROVE  /\ Differs(m, map_remove_at_index(m, i), i, TOMB)
         /\ map_remove_at_index(m, i).length = m.length - 1
         /\ map_remove_at_index(m, i).tombstones = (m.tombstones + 1) % WordSize
<1> DEFINE s == [m.slots EXCEPT ![i] = TOMB]
           t == (m.tombstones + 1) % WordSize
           l == m.length - 1
           f == m.policy
           n == map_remove_at_index(m, i)
<1>1. n = [slots |-> s, length |-> l, tombstones |-> t, policy |-> f]
  <2>1. m = [slots |-> m.slots, length |-> m.length, tombstones |-> m.tombstones, policy |-> m.policy]  BY MapIs
  <2>2. n = [m EXCEPT !.slots = s, !.length = l, !.tombstones = t]  BY DEF map_remove_at_index
  <2> HIDE DEF n, s, t, l
  <2> QED  BY <2>1, <2>2
<1>2. t \in Nat
  <2>1. m.tombstones + 1 \in Nat /\ WordSize \in Nat \ {0}  BY MapShape, BoundProps
  <2> QED  BY <2>1, DivProps
<1>3. l \in Int /\ f \in Policies  BY MapShape
<1>4. s \in Slotted /\ DOMAIN s = DOMAIN m.slots
  <2> DEFINE c == Capacity(m)
  <2>1. m.slots \in [0..(c - 1) -> Slot] /\ c \in Tables \cup {0} /\ TOMB \in Slot  BY MapShape, SlotProps
  <2> HIDE DEF c
  <2>2. s \in [0..(c - 1) -> Slot]  BY <2>1
  <2>3. DOMAIN s = DOMAIN m.slots  OBVIOUS
  <2> QED  BY <2>1, <2>2, <2>3 DEF Slotted
<1> HIDE DEF s, t, l, f
<1>5. n \in Maps  BY <1>1, <1>2, <1>3, <1>4 DEF Maps
<1>6. n.slots = s /\ n.length = l /\ n.tombstones = t /\ n.policy = f  BY <1>1
<1>7. Capacity(n) = Capacity(m)  BY <1>4, <1>6 DEF Capacity
<1>8. TOMB \in Slot  BY SlotProps
<1> HIDE DEF n
<1>9. Differs(m, n, i, TOMB)  BY <1>5, <1>6, <1>7, <1>8 DEF Differs, s, f
<1> QED  BY <1>6, <1>9 DEF n, t, l

\* An occupied slot holds the pair that is in the bag for it.
LEMMA HeldPair ==
  ASSUME MapAssumption, NEW m \in Maps, NEW i \in Occupied(m)
  PROVE  \E p \in Pairs : /\ m.slots[i] = Entry(p) /\ p[1] = m.slots[i].key /\ i \in Holding(m, {p})
                          /\ BagOf(m)[p] \in Nat \ {0}
                          /\ \A P : i \in Holding(m, P) <=> p \in P
<1> DEFINE e == m.slots[i]
           p == <<e.key, e.value>>
<1>1. e \in Entries  BY SlotSets
<1>2. p \in Pairs /\ e = Entry(p)  BY <1>1, SlotProps
<1>3. p[1] = e.key  OBVIOUS
<1>4. \A P : i \in Holding(m, P) <=> p \in P  BY SlotSets
<1> HIDE DEF p
<1>5. i \in Holding(m, {p})  BY <1>4
<1>6. IsFiniteSet(Holding(m, {p})) /\ Cardinality(Holding(m, {p})) \in Nat  BY SlotsFinite
<1>7. Cardinality(Holding(m, {p})) # 0  BY <1>5, <1>6, FS_EmptySet
<1>8. BagOf(m)[p] = Cardinality(Holding(m, {p}))  BY <1>2 DEF BagOf
<1> QED  BY <1>2, <1>3, <1>4, <1>5, <1>6, <1>7, <1>8

\* Removing an entry leaves a sound table without it.
LEMMA RemoveDrops ==
  ASSUME MapAssumption, BoundsAssumption, NEW m, Sound(m), NEW i \in Occupied(m), NEW p \in Pairs,
         m.slots[i] = Entry(p)
  PROVE  Dropped(m, map_remove_at_index(m, i), i, p)
<1> DEFINE n == map_remove_at_index(m, i)
           O == Occupied(m)
           T == Tombs(m)
<1>1. m \in Maps /\ Capacity(m) <= MaxCapacity /\ Counted(m) /\ Findable(m) /\ Roomful(m)  BY DEF Sound
<1>2. i \in 0..(Capacity(m) - 1) /\ i \notin T  BY <1>1, SlotSets, SlotProps
<1>3. Differs(m, n, i, TOMB) /\ n.length = m.length - 1 /\ n.tombstones = (m.tombstones + 1) % WordSize
  BY <1>1, <1>2, RemoveShape
<1>4. n.tombstones = m.tombstones + 1
  <2>1. m.tombstones \in Nat /\ m.tombstones + 1 < WordSize /\ WordSize \in Nat \ {0}  BY <1>1, TombsBound
  <2>2. (m.tombstones + 1) % WordSize = m.tombstones + 1  BY <2>1, Counters
  <2> QED  BY <1>3, <2>2
<1> HIDE DEF n
<1>5. n \in Maps /\ Capacity(n) = Capacity(m) /\ n.policy = m.policy  BY <1>3 DEF Differs
<1>6. Occupied(n) = O \ {i} /\ Tombs(n) = T \cup {i}  BY <1>3, TombSets
<1>7. \A P : Holding(n, P) = Holding(m, P) \ {i}  BY <1>3, TombSets
<1>8. IsFiniteSet(O) /\ IsFiniteSet(T) /\ Cardinality(O) \in Nat /\ Cardinality(T) \in Nat  BY <1>1, SlotsFinite
<1>9. m.length = Cardinality(O) /\ m.tombstones = Cardinality(T)  BY <1>1 DEF Counted
<1> HIDE DEF O, T
<1>10. Cardinality(O \ {i}) = Cardinality(O) - 1 /\ Cardinality(O) # 0
  <2>1. i \in O  BY DEF O
  <2> QED  BY <1>8, <2>1, FS_RemoveElement, FS_EmptySet
<1>11. Cardinality(T \cup {i}) = Cardinality(T) + 1  BY <1>2, <1>8, FS_AddElement
<1>12. Counted(n)  BY <1>3, <1>4, <1>6, <1>9, <1>10, <1>11 DEF Counted
<1>13. Findable(n)
  <2> SUFFICES ASSUME NEW k \in Keys, NEW j \in SlotsOf(n, k) PROVE \E q \in Hits(n, k) : At(n, k, q) = j
    BY DEF Findable
  <2>1. j \in SlotsOf(m, k)  BY <1>7 DEF SlotsOf
  <2>2. TOMB # EMPTY  BY SlotProps
  <2> QED  BY <1>1, <1>3, <2>1, <2>2, FoundAfter
<1>14. Roomful(n)
  <2> DEFINE l == m.length
             t == m.tombstones
             c == Capacity(m)
  <2>1. l \in Int /\ t \in Nat /\ c \in Nat  BY <1>1, MapShape
  <2>2. n.length = l - 1 /\ n.tombstones = t + 1 /\ Capacity(n) = c /\ 4 * (l + t) <= 3 * c
    BY <1>1, <1>3, <1>4, <1>5 DEF Roomful
  <2> HIDE DEF l, t, c
  <2>3. 4 * ((l - 1) + (t + 1)) <= 3 * c  BY <2>1, <2>2
  <2> QED  BY <2>2, <2>3 DEF Roomful
<1>15. Sound(n)  BY <1>1, <1>5, <1>12, <1>13, <1>14 DEF Sound
<1>16. \A q \in Pairs : Cardinality(Holding(n, {q}))
                          = IF q = p THEN Cardinality(Holding(m, {q})) - 1 ELSE Cardinality(Holding(m, {q}))
  <2> SUFFICES ASSUME NEW q \in Pairs
               PROVE  Cardinality(Holding(n, {q}))
                        = IF q = p THEN Cardinality(Holding(m, {q})) - 1 ELSE Cardinality(Holding(m, {q}))
    OBVIOUS
  <2> DEFINE H == Holding(m, {q})
  <2>1. IsFiniteSet(H)  BY <1>1, SlotsFinite
  <2>2. i \in H <=> q = p
    <3>1. i \in H <=> <<m.slots[i].key, m.slots[i].value>> \in {q}  BY <1>1, SlotSets
    <3>2. <<m.slots[i].key, m.slots[i].value>> = p  BY SlotProps
    <3> QED  BY <3>1, <3>2
  <2>3. Holding(n, {q}) = H \ {i}  BY <1>7
  <2> HIDE DEF H
  <2>4. Cardinality(H \ {i}) = IF i \in H THEN Cardinality(H) - 1 ELSE Cardinality(H)  BY <2>1, FS_RemoveElement
  <2> QED  BY <2>2, <2>3, <2>4 DEF H
<1>17. BagOf(n) = [BagOf(m) EXCEPT ![p] = @ - 1]
  <2> DEFINE b == [q \in Pairs |-> Cardinality(Holding(m, {q}))]
  <2>1. [q \in Pairs |-> Cardinality(Holding(n, {q}))] = [b EXCEPT ![p] = @ - 1]  BY <1>16
  <2> QED  BY <2>1 DEF BagOf
<1>18. BagOf(m)[p] # 0
  <2> DEFINE H == Holding(m, {p})
  <2>1. IsFiniteSet(H) /\ BagOf(m)[p] = Cardinality(H)  BY <1>1, SlotsFinite DEF BagOf
  <2>2. i \in H
    <3>1. <<m.slots[i].key, m.slots[i].value>> = p  BY SlotProps
    <3> QED  BY <1>1, <3>1, SlotSets
  <2> HIDE DEF H
  <2> QED  BY <2>1, <2>2, FS_EmptySet
<1> QED  BY <1>3, <1>4, <1>9, <1>10, <1>15, <1>17, <1>18 DEF Dropped, n

\* A removal cuts no scan: a scan looks where it did, and finds what it did but for the slot.
LEMMA RemoveHits ==
  ASSUME MapAssumption, NEW m, NEW n, NEW i, Differs(m, n, i, TOMB), m.slots[i] # EMPTY, NEW k \in Keys
  PROVE  /\ Scanned(n, k) = Scanned(m, k) /\ \A p : At(n, k, p) = At(m, k, p)
         /\ Hits(n, k) = {p \in Hits(m, k) : At(m, k, p) # i}
<1>1. m \in Maps /\ n \in Maps /\ Capacity(n) = Capacity(m) /\ n.policy = m.policy /\ i \in 0..(Capacity(m) - 1)
  BY DEF Differs
<1>2. n.slots[i] = TOMB /\ \A x \in 0..(Capacity(m) - 1) : x # i => n.slots[x] = m.slots[x]  BY DiffersProps
<1>3. Probes(n) = Probes(m) /\ \A p : At(n, k, p) = At(m, k, p)  BY <1>1, SameProbes
<1>4. TOMB # EMPTY  BY SlotProps
<1>5. \A p \in Probes(m) : p \in Nat /\ At(m, k, p) \in 0..(Capacity(m) - 1)  BY <1>1, ScanProps, AtProps
<1>6. \A p \in Probes(m) : SlotAt(n, k, p) = IF At(m, k, p) = i THEN TOMB ELSE SlotAt(m, k, p)
  BY <1>2, <1>3, <1>5 DEF SlotAt
<1>7. \A p \in Probes(m) : SlotAt(n, k, p) = EMPTY <=> SlotAt(m, k, p) = EMPTY  BY <1>4, <1>6 DEF SlotAt
<1>8. Scanned(n, k) = Scanned(m, k)  BY <1>3, <1>7 DEF Scanned
<1>9. Hits(n, k) = {p \in Hits(m, k) : At(m, k, p) # i}
  <2>1. Scanned(m, k) \subseteq Probes(m)  BY <1>1, ScanProps
  <2> SUFFICES ASSUME NEW p PROVE p \in Hits(n, k) <=> p \in Hits(m, k) /\ At(m, k, p) # i  OBVIOUS
  <2>2. CASE p \in Scanned(m, k)
    <3>1. SlotAt(n, k, p) = IF At(m, k, p) = i THEN TOMB ELSE SlotAt(m, k, p)  BY <1>6, <2>1, <2>2
    <3> QED  BY <1>8, <2>2, <3>1 DEF Hits
  <2>3. CASE p \notin Scanned(m, k)  BY <1>8, <2>3 DEF Hits
  <2> QED  BY <2>2, <2>3
<1> QED  BY <1>3, <1>8, <1>9

------------------------------------------------------------------------------
\* Rebuilding a table.

Tries == [map : Maps, ok : BOOLEAN]
FreshMap(c, policy) == [slots |-> Fresh(c), length |-> 0, tombstones |-> 0, policy |-> policy]

\* A round of Refill: the entry of slot k - 1 of m goes into the new table.
Refilled(m, k, r) ==
    IF r.ok /\ k - 1 \in Occupied(m) THEN map_insert_raw_entry(r.map, m.slots[k - 1]) ELSE r

\* A new table is sound and empty.
LEMMA FreshSound ==
  ASSUME MapAssumption, NEW c \in Tables \cup {0}, NEW policy \in Policies
  PROVE  /\ FreshMap(c, policy) \in Maps /\ Capacity(FreshMap(c, policy)) = c
         /\ Counted(FreshMap(c, policy)) /\ Findable(FreshMap(c, policy))
         /\ Occupied(FreshMap(c, policy)) = {} /\ \A P : Holding(FreshMap(c, policy), P) = {}
<1> DEFINE n == FreshMap(c, policy)
           s == Fresh(c)
<1>1. n.slots = s /\ n.length = 0 /\ n.tombstones = 0 /\ n.policy = policy  BY DEF FreshMap
<1>2. EMPTY \in Slot /\ EMPTY # TOMB /\ EMPTY \notin Entries  BY SlotProps
<1>3. s \in [0..(c - 1) -> Slot] /\ s \in Slotted /\ \A i \in DOMAIN s : s[i] = EMPTY
  BY <1>2 DEF Fresh, Slotted
<1> HIDE DEF s
<1>4. n \in Maps  BY <1>3 DEF Maps, FreshMap, s
<1> HIDE DEF n
<1>5. Capacity(n) = c
  <2>1. c \in Nat  BY TableProps
  <2>2. DOMAIN n.slots = 0..(c - 1)  BY <1>1, <1>3
  <2>3. c - 1 \in Int  BY <2>1
  <2>4. Cardinality(0..(c - 1)) = c  BY <2>1, <2>3, FS_Interval
  <2> QED  BY <2>2, <2>4 DEF Capacity
<1>6. Occupied(n) = {} /\ Tombs(n) = {}  BY <1>1, <1>2, <1>3 DEF Occupied, Tombs
<1>7. ASSUME NEW P PROVE Holding(n, P) = {}  BY <1>6 DEF Holding
<1>8. Counted(n)  BY <1>1, <1>6, FS_EmptySet DEF Counted
<1>9. Findable(n)  BY <1>7 DEF Findable, SlotsOf
<1>10. \A P : Holding(n, P) = {}  BY <1>7
<1> QED  BY <1>4, <1>5, <1>6, <1>8, <1>9, <1>10 DEF n

\* A round keeps what a try is.
LEMMA RefilledType ==
  ASSUME MapAssumption, BoundsAssumption, NEW m \in Maps, NEW k \in Nat, NEW r \in Tries
  PROVE  Refilled(m, k, r) \in Tries
<1>1. r.map \in Maps /\ r.ok \in BOOLEAN  BY DEF Tries
<1>2. CASE r.ok /\ k - 1 \in Occupied(m)
  <2> DEFINE e == m.slots[k - 1]
             i == InsertIndex(r.map, e.key)
             n == Fill(r.map, i, e)
             x == r.map
  <2>1. e \in Entries  BY <1>2, SlotSets
  <2>2. e.key \in Keys  BY <2>1, SlotProps DEF Pairs
  <2>3. Refilled(m, k, r) = IF i >= Capacity(x) THEN [map |-> x, ok |-> FALSE] ELSE [map |-> n, ok |-> TRUE]
    BY <1>2 DEF Refilled, map_insert_raw_entry
  <2>4. i \in 0..Capacity(x) /\ Capacity(x) \in Nat  BY <1>1, <2>2, InsertIndexProps, MapShape
  <2>5. CASE i >= Capacity(x)
    <3>1. Refilled(m, k, r) = [map |-> x, ok |-> FALSE]  BY <2>3, <2>5
    <3> HIDE DEF x
    <3>2. [map |-> x, ok |-> FALSE] \in Tries  BY <1>1 DEF Tries, x
    <3> QED  BY <3>1, <3>2
  <2>6. CASE ~(i >= Capacity(x))
    <3>1. i \in 0..(Capacity(x) - 1)  BY <2>4, <2>6
    <3>2. n \in Maps  BY <1>1, <2>1, <3>1, FillShape
    <3>3. Refilled(m, k, r) = [map |-> n, ok |-> TRUE]  BY <2>3, <2>6
    <3> HIDE DEF n
    <3>4. [map |-> n, ok |-> TRUE] \in Tries  BY <3>2 DEF Tries
    <3> QED  BY <3>3, <3>4
  <2> QED  BY <2>5, <2>6
<1>3. CASE ~(r.ok /\ k - 1 \in Occupied(m))  BY <1>3 DEF Refilled
<1> QED  BY <1>2, <1>3

\* Refill is a run of such rounds.
LEMMA RefillRuns ==
  ASSUME MapAssumption, BoundsAssumption, NEW m \in Maps, NEW c \in Tables, NEW policy \in Policies
  PROVE  \E to \in [0..Capacity(m) -> Tries] :
           /\ to[0] = [map |-> FreshMap(c, policy), ok |-> TRUE]
           /\ \A k \in 1..Capacity(m) : to[k] = Refilled(m, k, to[k - 1])
           /\ Refill(m, c, policy) = to[Capacity(m)]
<1> DEFINE n == Capacity(m)
           a == [map |-> FreshMap(c, policy), ok |-> TRUE]
           S == Tries
           F == [k \in Nat |-> [r \in S |-> Refilled(m, k, r)]]
           Is(f) == f = [i \in 0..n |-> IF i = 0 THEN a ELSE Refilled(m, i, f[i - 1])]
           g == CHOOSE f : Is(f)
<1>1. n \in Nat  BY MapShape
<1>2. a \in S  BY FreshSound DEF Tries
<1>3. F \in [Nat -> [S -> S]]  BY RefilledType
<1>4. \A k \in Nat, r \in S : F[k][r] = Refilled(m, k, r)  OBVIOUS
<1>5. Refill(m, c, policy) = g[n]  BY DEF Refill, Refilled, FreshMap
<1> HIDE DEF F, S, a, n, g
<1>6. PICK f \in [0..n -> S] : f[0] = a /\ \A k \in 1..n : f[k] = F[k][f[k - 1]]
  <2>1. Loop(S, a, F, n)  BY <1>1, <1>2, <1>3 DEF Loop
  <2>2. \E f : RunOf(S, a, F, n, f)  BY <2>1, LoopRuns
  <2> QED  BY <2>2 DEF RunOf
<1>7. ASSUME NEW k \in 1..n PROVE f[k] = Refilled(m, k, f[k - 1])
  <2>1. k - 1 \in 0..n /\ k \in Nat  BY <1>1
  <2>2. f[k - 1] \in S  BY <1>6, <2>1
  <2> QED  BY <1>4, <1>6, <2>1, <2>2
<1>8. Is(f)
  <2>1. \A i \in 0..n : i # 0 => i \in 1..n  BY <1>1
  <2>2. \A i \in 0..n : f[i] = IF i = 0 THEN a ELSE Refilled(m, i, f[i - 1])  BY <1>6, <1>7, <2>1
  <2> QED  BY <1>6, <2>2
<1>9. Is(g)  BY <1>8 DEF g
<1> HIDE DEF Is
<1>10. \A i \in 0..n : g[i] = IF i = 0 THEN a ELSE Refilled(m, i, g[i - 1])  BY <1>9 DEF Is
<1>11. g[0] = a /\ \A k \in 1..n : g[k] = Refilled(m, k, g[k - 1])
  <2>1. 0 \in 0..n /\ \A k \in 1..n : k \in 0..n /\ k # 0  BY <1>1
  <2> QED  BY <1>10, <2>1
<1>12. \A k \in 0..n : g[k] \in S
  <2>1. \A k \in 1..n : g[k - 1] \in S => g[k] \in S
    <3> SUFFICES ASSUME NEW k \in 1..n, g[k - 1] \in S PROVE g[k] \in S  OBVIOUS
    <3>1. k \in Nat  BY <1>1
    <3> QED  BY <1>11, <3>1, RefilledType DEF S
  <2>2. g[0] \in S  BY <1>2, <1>11
  <2> QED  BY <1>1, <2>1, <2>2, AllTheWay
<1>13. g \in [0..n -> S]
  <2>1. g = [i \in 0..n |-> IF i = 0 THEN a ELSE Refilled(m, i, g[i - 1])]  BY <1>9 DEF Is
  <2> QED  BY <1>12, <2>1
<1> QED  BY <1>5, <1>11, <1>13 DEF S, n, a

\* The first i slots of a set of slots.
Upto(A, i) == {j \in A : j < i}

\* One slot further.
LEMMA UptoNext ==
  ASSUME NEW A, A \subseteq Nat, IsFiniteSet(A), NEW i \in Nat
  PROVE  /\ Cardinality(Upto(A, i + 1)) = IF i \in A THEN Cardinality(Upto(A, i)) + 1 ELSE Cardinality(Upto(A, i))
         /\ Cardinality(Upto(A, i)) \in Nat
<1> DEFINE U == Upto(A, i)
<1>0. \A j \in A : j \in Nat  OBVIOUS
<1>1. IsFiniteSet(U) /\ Cardinality(U) \in Nat
  <2>1. U \subseteq A  BY DEF Upto
  <2> HIDE DEF U
  <2>2. IsFiniteSet(U)  BY <2>1, FS_Subset
  <2> QED  BY <2>2, FS_CardinalityType
<1>2. CASE i \in A
  <2>1. \A j \in A : j < i + 1 <=> j < i \/ j = i  BY <1>0
  <2>2. ~(i < i)  OBVIOUS
  <2>3. \A j : j \in Upto(A, i + 1) <=> j \in U \/ j = i  BY <1>2, <2>1 DEF Upto
  <2>4. i \notin U  BY <2>2 DEF Upto
  <2> HIDE DEF U
  <2>5. Upto(A, i + 1) = U \cup {i}  BY <2>3
  <2>6. Cardinality(U \cup {i}) = Cardinality(U) + 1  BY <1>1, <2>4, FS_AddElement
  <2> QED  BY <1>1, <1>2, <2>5, <2>6 DEF U
<1>3. CASE i \notin A
  <2>2. \A j \in A : j < i + 1 <=> j < i  BY <1>0, <1>3
  <2>1. Upto(A, i + 1) = U  BY <2>2 DEF Upto
  <2> QED  BY <1>1, <1>3, <2>1
<1> QED  BY <1>2, <1>3

\* What a try has of the slots below i of m.
Holds(m, c, policy, i, r) ==
    /\ r.map \in Maps /\ Capacity(r.map) = c /\ r.map.policy = policy
    /\ Counted(r.map) /\ Findable(r.map) /\ r.map.tombstones = 0
    /\ r.ok => /\ r.map.length = Cardinality(Upto(Occupied(m), i))
               /\ \A p \in Pairs : BagOf(r.map)[p] = Cardinality(Upto(Holding(m, {p}), i))

\* A round adds the entry of its slot.
LEMMA RoundHolds ==
  ASSUME MapAssumption, BoundsAssumption, NEW m \in Maps, NEW c \in Tables, c <= MaxCapacity,
         NEW policy \in Policies, NEW k \in Nat, NEW r \in Tries, Holds(m, c, policy, k, r)
  PROVE  Holds(m, c, policy, k + 1, Refilled(m, k + 1, r))
<1> DEFINE x == r.map
           q == Refilled(m, k + 1, r)
           O == Occupied(m)
           H(p) == Holding(m, {p})
<1>1. x \in Maps /\ r.ok \in BOOLEAN /\ Capacity(x) = c /\ x.policy = policy
      /\ Counted(x) /\ Findable(x) /\ x.tombstones = 0
  BY DEF Tries, Holds
<1>2. (k + 1) - 1 = k  OBVIOUS
<1>3. O \subseteq Nat /\ IsFiniteSet(O) /\ \A p : H(p) \subseteq O /\ IsFiniteSet(H(p))
  <2>1. O \subseteq 0..(Capacity(m) - 1)  BY SlotSets
  <2>2. O \subseteq Nat  BY <2>1
  <2>3. \A P : Holding(m, P) \subseteq O /\ IsFiniteSet(Holding(m, P))  BY SlotSets, SlotsFinite
  <2>4. IsFiniteSet(O)  BY SlotsFinite
  <2> QED  BY <2>2, <2>3, <2>4
<1>4. /\ Cardinality(Upto(O, k + 1)) = IF k \in O THEN Cardinality(Upto(O, k)) + 1 ELSE Cardinality(Upto(O, k))
      /\ Cardinality(Upto(O, k)) \in Nat
  <2> HIDE DEF O
  <2> QED  BY <1>3, UptoNext
<1>5. ASSUME NEW p \in Pairs
      PROVE  /\ Cardinality(Upto(H(p), k + 1)) = IF k \in H(p) THEN Cardinality(Upto(H(p), k)) + 1
                                                 ELSE Cardinality(Upto(H(p), k))
             /\ Cardinality(Upto(H(p), k)) \in Nat
  <2> DEFINE A == H(p)
  <2>1. A \subseteq Nat /\ IsFiniteSet(A)  BY <1>3
  <2> HIDE DEF A
  <2>2. /\ Cardinality(Upto(A, k + 1)) = IF k \in A THEN Cardinality(Upto(A, k)) + 1 ELSE Cardinality(Upto(A, k))
        /\ Cardinality(Upto(A, k)) \in Nat
    BY <2>1, UptoNext
  <2> QED  BY <2>2 DEF A
<1>6. CASE ~r.ok
  <2>1. q = r  BY <1>2, <1>6 DEF Refilled
  <2> QED  BY <1>1, <1>6, <2>1 DEF Holds
<1>7. CASE r.ok /\ k \notin O
  <2>1. q = r  BY <1>2, <1>7 DEF Refilled
  <2>2. x.length = Cardinality(Upto(O, k)) /\ \A p \in Pairs : BagOf(x)[p] = Cardinality(Upto(H(p), k))
    BY <1>7 DEF Holds
  <2>3. \A p \in Pairs : k \notin H(p)  BY <1>3, <1>7
  <2>4. x.length = Cardinality(Upto(O, k + 1))  BY <1>4, <1>7, <2>2
  <2>5. \A p \in Pairs : BagOf(x)[p] = Cardinality(Upto(H(p), k + 1))  BY <1>5, <2>2, <2>3
  <2> QED  BY <1>1, <2>1, <2>4, <2>5 DEF Holds
<1>8. CASE r.ok /\ k \in O
  <2> DEFINE e == m.slots[k]
             i == InsertIndex(x, e.key)
             n == Fill(x, i, e)
  <2>1. PICK p \in Pairs : e = Entry(p) /\ p[1] = e.key /\ \A P : k \in Holding(m, P) <=> p \in P
    BY <1>8, HeldPair
  <2>2. q = IF i >= Capacity(x) THEN [map |-> x, ok |-> FALSE] ELSE [map |-> n, ok |-> TRUE]
    BY <1>2, <1>8 DEF Refilled, map_insert_raw_entry
  <2>3. i \in 0..Capacity(x) /\ Capacity(x) \in Nat
    <3>1. e.key \in Keys  BY <2>1 DEF Pairs
    <3> QED  BY <1>1, <3>1, InsertIndexProps, MapShape
  <2>4. CASE i >= Capacity(x)
    <3>1. q.map = x /\ q.ok = FALSE  BY <2>2, <2>4
    <3> HIDE DEF q, x
    <3> QED  BY <1>1, <3>1 DEF Holds, q
  <2>5. CASE ~(i >= Capacity(x))
    <3>1. InsertIndex(x, p[1]) < Capacity(x) /\ i = InsertIndex(x, p[1])  BY <2>1, <2>3, <2>5
    <3>2. Stored(x, Fill(x, InsertIndex(x, p[1]), Entry(p)), p)  BY <1>1, <3>1, InsertStores
    <3>3. Stored(x, n, p)  BY <2>1, <3>1, <3>2
    <3>4. q.map = n /\ q.ok  BY <2>2, <2>5
    <3> HIDE DEF q, n, i
    <3>5. /\ n \in Maps /\ Capacity(n) = c /\ n.policy = policy /\ Counted(n) /\ Findable(n)
          /\ BagOf(n) = [BagOf(x) EXCEPT ![p] = @ + 1] /\ n.length = x.length + 1 /\ n.tombstones <= x.tombstones
      BY <1>1, <3>3 DEF Stored
    <3>6. n.tombstones = 0
      <4>1. n.tombstones \in Nat  BY <3>5, MapShape
      <4> QED  BY <1>1, <3>5, <4>1
    <3>7. x.length = Cardinality(Upto(O, k)) /\ \A u \in Pairs : BagOf(x)[u] = Cardinality(Upto(H(u), k))
      BY <1>8 DEF Holds
    <3>8. n.length = Cardinality(Upto(O, k + 1))  BY <1>4, <1>8, <3>5, <3>7
    <3>9. ASSUME NEW u \in Pairs PROVE BagOf(n)[u] = Cardinality(Upto(H(u), k + 1))
      <4>1. k \in H(u) <=> u = p  BY <2>1
      <4>2. BagOf(n)[u] = IF u = p THEN BagOf(x)[u] + 1 ELSE BagOf(x)[u]
        <5>1. DOMAIN BagOf(x) = Pairs  BY DEF BagOf
        <5> QED  BY <3>5, <5>1
      <4> QED  BY <1>5, <3>7, <4>1, <4>2
    <3> QED  BY <3>4, <3>5, <3>6, <3>8, <3>9 DEF Holds, q
  <2> QED  BY <2>4, <2>5
<1> QED  BY <1>1, <1>6, <1>7, <1>8

\* A table that is rebuilt whole holds what the old one held.
LEMMA RefillHolds ==
  ASSUME MapAssumption, BoundsAssumption, NEW m \in Maps, NEW c \in Tables, c <= MaxCapacity,
         NEW policy \in Policies
  PROVE  Holds(m, c, policy, Capacity(m), Refill(m, c, policy))
<1> DEFINE n == Capacity(m)
           T == {r \in Tries : TRUE}
<1>1. n \in Nat  BY MapShape
<1>2. PICK to \in [0..n -> Tries] :
        /\ to[0] = [map |-> FreshMap(c, policy), ok |-> TRUE]
        /\ \A k \in 1..n : to[k] = Refilled(m, k, to[k - 1])
        /\ Refill(m, c, policy) = to[n]
  BY RefillRuns
<1> HIDE DEF n
<1> DEFINE S == {k \in Nat : k <= n => Holds(m, c, policy, k, to[k])}
<1>3. 0 \in S
  <2> DEFINE x == FreshMap(c, policy)
  <2>1. x \in Maps /\ Capacity(x) = c /\ Counted(x) /\ Findable(x) /\ \A P : Holding(x, P) = {}  BY FreshSound
  <2>2. x.policy = policy /\ x.length = 0 /\ x.tombstones = 0  BY DEF FreshMap
  <2> HIDE DEF x
  <2>3. to[0].map = x /\ to[0].ok  BY <1>2 DEF x
  <2>4. \A A : A \subseteq Nat => Upto(A, 0) = {}
    <3> SUFFICES ASSUME NEW A, \A j \in A : j \in Nat PROVE Upto(A, 0) = {}  OBVIOUS
    <3>1. \A j \in A : ~(j < 0)  OBVIOUS
    <3> QED  BY <3>1 DEF Upto
  <2>5. \A P : Holding(m, P) \subseteq Nat /\ Occupied(m) \subseteq Nat
    <3>1. Occupied(m) \subseteq 0..(Capacity(m) - 1)  BY SlotSets
    <3>2. \A P : Holding(m, P) \subseteq Occupied(m)  BY SlotSets
    <3> QED  BY <3>1, <3>2
  <2>6. x.length = Cardinality(Upto(Occupied(m), 0))  BY <2>2, <2>4, <2>5, FS_EmptySet
  <2>7. \A p \in Pairs : BagOf(x)[p] = Cardinality(Upto(Holding(m, {p}), 0))  BY <2>1, <2>4, <2>5 DEF BagOf
  <2>8. Holds(m, c, policy, 0, to[0])  BY <2>1, <2>2, <2>3, <2>6, <2>7 DEF Holds
  <2> QED  BY <2>8
<1>4. ASSUME NEW k \in Nat, k \in S PROVE k + 1 \in S
  <2> SUFFICES ASSUME k + 1 <= n PROVE Holds(m, c, policy, k + 1, to[k + 1])  OBVIOUS
  <2>1. k \in 0..n /\ k + 1 \in 1..n /\ (k + 1) - 1 = k  BY <1>1
  <2>2. Holds(m, c, policy, k, to[k])  BY <1>4, <2>1
  <2>3. to[k + 1] = Refilled(m, k + 1, to[k]) /\ to[k] \in Tries  BY <1>2, <2>1
  <2> QED  BY <2>2, <2>3, RoundHolds
<1> HIDE DEF S
<1>5. n \in S  BY <1>1, <1>3, <1>4, SetInduction
<1> QED  BY <1>1, <1>2, <1>5 DEF S, n

Outcomes == [ok : BOOLEAN, retried : BOOLEAN, map : Maps]

\* A bounded set of naturals with a member has a greatest one.
LEMMA MaxProps ==
  ASSUME NEW S, S \subseteq Nat, S # {}, NEW b \in Nat, \A x \in S : x <= b
  PROVE  Max(S) \in S
<1> DEFINE T == {y \in 0..b : b - y \in S}
<1>1. T \subseteq Nat  OBVIOUS
<1>2. T # {}
  <2>1. PICK x \in S : TRUE  OBVIOUS
  <2>2. x \in Nat /\ x <= b  BY <2>1
  <2>3. b - x \in 0..b /\ b - (b - x) = x  BY <2>2
  <2> QED  BY <2>1, <2>3
<1>3. Min(T) \in T /\ \A y \in T : Min(T) <= y
  <2> HIDE DEF T
  <2> QED  BY <1>1, <1>2, MinProps
<1> DEFINE y == Min(T)
           x == b - y
<1>4. y \in 0..b /\ x \in S  BY <1>3
<1> HIDE DEF y
<1>5. \A z \in S : x >= z
  <2> SUFFICES ASSUME NEW z \in S PROVE x >= z  OBVIOUS
  <2>1. z \in Nat /\ z <= b /\ b - z \in 0..b /\ b - (b - z) = z  OBVIOUS
  <2>2. b - z \in T  BY <2>1
  <2>3. y <= b - z  BY <1>3, <2>2 DEF y
  <2> QED  BY <1>4, <2>1, <2>3
<1> HIDE DEF x
<1> QED  BY <1>4, <1>5 DEF Max

\* An outcome is what it is put together from.
LEMMA KeptProps ==
  ASSUME NEW ok \in BOOLEAN, NEW retried \in BOOLEAN, NEW m \in Maps
  PROVE  /\ Kept(ok, retried, m) \in Outcomes
         /\ Kept(ok, retried, m).ok = ok /\ Kept(ok, retried, m).retried = retried /\ Kept(ok, retried, m).map = m
  BY DEF Kept, Outcomes

\* Tables that fit below an allocation that fails are no larger than the largest one.
LEMMA NoMemProps ==
  ASSUME MapAssumption, NEW noMem \in NoMem, NEW c \in Tables, c < noMem
  PROVE  c <= MaxCapacity
<1>1. noMem \in Nat /\ noMem <= 2 * MaxCapacity /\ c \in Nat /\ MaxCapacity \in Nat /\ MaxCapacity \in Tables
  BY TableProps DEF NoMem, MapAssumption
<1>2. MaxCapacity < c => 2 * MaxCapacity <= c  BY <1>1, TableProps
<1> QED  BY <1>1, <1>2

\* A table without storage is sound.
LEMMA NoSlotsSound ==
  ASSUME MapAssumption, BoundsAssumption, NEW policy \in Policies
  PROVE  LET n == [slots |-> NoSlots, length |-> 0, tombstones |-> 0, policy |-> policy]
         IN  /\ Sound(n) /\ n \in Maps /\ n.length = 0 /\ n.tombstones = 0 /\ n.policy = policy
             /\ Capacity(n) = 0 /\ BagOf(n) = [p \in Pairs |-> 0]
<1> DEFINE n == FreshMap(0, policy)
<1>1. Fresh(0) = NoSlots
  <2>1. 0..(0 - 1) = {}  OBVIOUS
  <2> QED  BY <2>1 DEF Fresh, NoSlots
<1>2. n = [slots |-> NoSlots, length |-> 0, tombstones |-> 0, policy |-> policy]  BY <1>1 DEF FreshMap
<1>3. n \in Maps /\ Capacity(n) = 0 /\ Counted(n) /\ Findable(n) /\ \A P : Holding(n, P) = {}  BY FreshSound
<1>4. n.length = 0 /\ n.tombstones = 0 /\ n.policy = policy  BY DEF FreshMap
<1>5. 0 <= MaxCapacity  BY BoundProps, TableProps
<1> HIDE DEF n
<1>6. Roomful(n)  BY <1>3, <1>4 DEF Roomful
<1>7. Sound(n)  BY <1>3, <1>5, <1>6 DEF Sound
<1>8. BagOf(n) = [p \in Pairs |-> 0]
  <2>1. \A p \in Pairs : Cardinality(Holding(n, {p})) = 0  BY <1>3, FS_EmptySet
  <2> QED  BY <2>1 DEF BagOf
<1> QED  BY <1>2, <1>3, <1>4, <1>7, <1>8

\* x holds what m holds, in a sound table.
Same(m, x) == Sound(x) /\ BagOf(x) = BagOf(m) /\ x.length = m.length

\* What becomes of a table that is rebuilt for n entries.
RebuiltFor(m, n, x) ==
    /\ Same(m, x) /\ x.tombstones = 0 /\ 4 * n <= 3 * Capacity(x)
    /\ n # 0 => Capacity(x) \in Tables

\* A refill is a map, or a part of one.
LEMMA RefillType ==
  ASSUME MapAssumption, BoundsAssumption, NEW m \in Maps, NEW c \in Tables, NEW policy \in Policies
  PROVE  Refill(m, c, policy).map \in Maps /\ Refill(m, c, policy).ok \in BOOLEAN
<1> DEFINE n == Capacity(m)
<1>1. n \in Nat  BY MapShape
<1>2. PICK to \in [0..n -> Tries] :
        /\ to[0] = [map |-> FreshMap(c, policy), ok |-> TRUE]
        /\ \A k \in 1..n : to[k] = Refilled(m, k, to[k - 1])
        /\ Refill(m, c, policy) = to[n]
  BY RefillRuns
<1> HIDE DEF n
<1>3. Refill(m, c, policy) \in Tries  BY <1>1, <1>2
<1> QED  BY <1>3 DEF Tries

\* A refill into a table that takes every entry keeps them all.
LEMMA RefillSame ==
  ASSUME MapAssumption, BoundsAssumption, NEW m, Sound(m), NEW c \in Tables, c <= MaxCapacity,
         NEW policy \in Policies, NEW n \in Nat, 4 * n <= 3 * c, 4 * m.length <= 3 * c,
         Refill(m, c, policy).ok
  PROVE  RebuiltFor(m, n, Refill(m, c, policy).map)
<1> DEFINE r == Refill(m, c, policy)
           x == r.map
<1>1. m \in Maps /\ Counted(m)  BY DEF Sound
<1>2. Holds(m, c, policy, Capacity(m), r)  BY <1>1, RefillHolds
<1> HIDE DEF r
<1>3. /\ x \in Maps /\ Capacity(x) = c /\ x.policy = policy /\ Counted(x) /\ Findable(x) /\ x.tombstones = 0
      /\ x.length = Cardinality(Upto(Occupied(m), Capacity(m)))
      /\ \A p \in Pairs : BagOf(x)[p] = Cardinality(Upto(Holding(m, {p}), Capacity(m)))
  <2>1. r.ok  BY DEF r
  <2> QED  BY <1>2, <2>1 DEF Holds
<1>4. Capacity(m) \in Nat /\ \A j \in Occupied(m) : j \in 0..(Capacity(m) - 1)  BY <1>1, MapShape, SlotSets
<1>5. \A j \in Occupied(m) : j < Capacity(m)  BY <1>4
<1>6. Upto(Occupied(m), Capacity(m)) = Occupied(m)  BY <1>5 DEF Upto
<1>7. \A P : Upto(Holding(m, P), Capacity(m)) = Holding(m, P)
  <2> SUFFICES ASSUME NEW P PROVE Upto(Holding(m, P), Capacity(m)) = Holding(m, P)  OBVIOUS
  <2>1. Holding(m, P) \subseteq Occupied(m)  BY <1>1, SlotSets
  <2>2. \A j \in Holding(m, P) : j < Capacity(m)  BY <1>5, <2>1
  <2> QED  BY <2>2 DEF Upto
<1> HIDE DEF x
<1>8. x.length = m.length  BY <1>1, <1>3, <1>6 DEF Counted
<1>9. BagOf(x) = BagOf(m)
  <2>1. \A p \in Pairs : BagOf(x)[p] = Cardinality(Holding(m, {p}))  BY <1>3, <1>7
  <2> QED  BY <2>1 DEF BagOf
<1>10. Roomful(x)
  <2>1. m.length \in Int  BY <1>1, MapShape
  <2> QED  BY <1>3, <1>8, <2>1 DEF Roomful
<1>11. Sound(x)  BY <1>3, <1>10 DEF Sound
<1>12. RebuiltFor(m, n, x)  BY <1>3, <1>8, <1>9, <1>11 DEF RebuiltFor, Same
<1> QED  BY <1>12 DEF x, r

\* The ends of a rebuild, which exclude each other.
Ends(m, policy, tables, fit, r) ==
    /\ fit # {} => r = Kept(TRUE, FALSE, Refill(m, Min(fit), policy).map)
    /\ tables = {} => r = Kept(FALSE, FALSE, m)
    /\ fit = {} /\ tables # {} =>
         r = Kept(FALSE, TRUE, [Refill(m, Max(tables), policy).map EXCEPT !.slots = m.slots])

\* One of them is its end.
LEMMA RebuiltEnds ==
  ASSUME NEW m, NEW policy, NEW tables, NEW fit, fit \subseteq tables
  PROVE  Ends(m, policy, tables, fit, Rebuilt(m, policy, tables, fit))
<1>1. tables = {} => fit = {}  OBVIOUS
<1> DEFINE a == Kept(TRUE, FALSE, Refill(m, Min(fit), policy).map)
           b == Kept(FALSE, FALSE, m)
           c == Kept(FALSE, TRUE, [Refill(m, Max(tables), policy).map EXCEPT !.slots = m.slots])
           r == Rebuilt(m, policy, tables, fit)
<1>2. r = CASE fit # {} -> a [] tables = {} -> b [] OTHER -> c  BY DEF Rebuilt
<1> HIDE DEF a, b, c, r
<1>3. fit # {} => r = a  BY <1>1, <1>2
<1>4. tables = {} => r = b  BY <1>1, <1>2
<1>5. fit = {} /\ tables # {} => r = c  BY <1>2
<1> QED  BY <1>3, <1>4, <1>5 DEF a, b, c, r, Ends

\* A rehash ends in an outcome.
LEMMA RehashType ==
  ASSUME MapAssumption, BoundsAssumption, NEW m \in Maps, NEW n \in Nat, NEW policy \in Policies,
         NEW noMem \in NoMem
  PROVE  /\ rehash_map(m, n, policy, noMem) \in Outcomes
         /\ rehash_map(m, n, policy, noMem).retried => ~rehash_map(m, n, policy, noMem).ok
<1> DEFINE tables == {c \in Tables : default_next_capacity(m, n) <= c /\ c < noMem}
           fit == {c \in tables : Refill(m, c, policy).ok}
           r == rehash_map(m, n, policy, noMem)
<1>1. CASE m.length = 0 /\ n = 0
  <2> DEFINE e == [slots |-> NoSlots, length |-> 0, tombstones |-> 0, policy |-> policy]
  <2>1. e \in Maps  BY NoSlotsSound
  <2>2. r = Kept(TRUE, FALSE, e)  BY <1>1 DEF rehash_map
  <2> HIDE DEF e, r
  <2>3. r \in Outcomes /\ ~r.retried  BY <2>1, <2>2, KeptProps
  <2> QED  BY <2>3 DEF r
<1>2. CASE ~(m.length = 0 /\ n = 0)
  <2>1. /\ fit # {} => r = Kept(TRUE, FALSE, Refill(m, Min(fit), policy).map)
        /\ tables = {} => r = Kept(FALSE, FALSE, m)
        /\ fit = {} /\ tables # {} =>
             r = Kept(FALSE, TRUE, [Refill(m, Max(tables), policy).map EXCEPT !.slots = m.slots])
    <3>1. r = Rebuilt(m, policy, tables, fit)  BY <1>2 DEF rehash_map, BuildFrom
    <3>2. fit \subseteq tables  OBVIOUS
    <3> HIDE DEF r, tables, fit
    <3>3. Ends(m, policy, tables, fit, r)  BY <3>1, <3>2, RebuiltEnds
    <3> QED  BY <3>3 DEF Ends
  <2>2. tables \subseteq Tables /\ fit \subseteq tables  OBVIOUS
  <2>3. \A c \in tables : c <= noMem /\ c \in Nat /\ noMem \in Nat  BY TableProps DEF NoMem
  <2> HIDE DEF tables, fit, r
  <2>4. CASE fit # {}
    <3> DEFINE x == Refill(m, Min(fit), policy).map
    <3>1. Min(fit) \in fit
      <4>1. fit \subseteq Nat  BY <2>2, <2>3
      <4> QED  BY <2>4, <4>1, MinProps
    <3>2. x \in Maps
      <4>1. Min(fit) \in Tables  BY <2>2, <3>1
      <4> QED  BY <4>1, RefillType
    <3>3. r = Kept(TRUE, FALSE, x)  BY <2>1, <2>4
    <3> HIDE DEF x, r
    <3>4. r \in Outcomes /\ ~r.retried  BY <3>2, <3>3, KeptProps
    <3> QED  BY <3>4 DEF r
  <2>5. CASE fit = {} /\ tables = {}
    <3>1. r = Kept(FALSE, FALSE, m)  BY <2>1, <2>5
    <3> HIDE DEF r
    <3>2. r \in Outcomes /\ ~r.retried  BY <3>1, KeptProps
    <3> QED  BY <3>2 DEF r
  <2>6. CASE fit = {} /\ tables # {}
    <3> DEFINE y == Refill(m, Max(tables), policy).map
               x == [y EXCEPT !.slots = m.slots]
    <3>1. Max(tables) \in Tables
      <4>1. noMem \in Nat /\ tables \subseteq Nat /\ \A c \in tables : c <= noMem  BY <2>2, <2>3, <2>6
      <4>2. Max(tables) \in tables  BY <2>6, <4>1, MaxProps
      <4> QED  BY <2>2, <4>2
    <3>2. y \in Maps  BY <3>1, RefillType
    <3> HIDE DEF y
    <3>3. x \in Maps  BY <3>2 DEF Maps
    <3>4. r = Kept(FALSE, TRUE, x)  BY <2>1, <2>6 DEF y
    <3> HIDE DEF x, r
    <3>5. r \in Outcomes /\ ~r.ok  BY <3>3, <3>4, KeptProps
    <3> QED  BY <3>5 DEF r
  <2> QED  BY <2>4, <2>5, <2>6
<1> QED  BY <1>1, <1>2

\* A rehash that does not retry in vain keeps the map, or rebuilds it for n entries.
LEMMA RehashSame ==
  ASSUME MapAssumption, BoundsAssumption, NEW m, Sound(m), NEW n \in Nat, 4 * n < WordSize,
         NEW policy \in Policies, NEW noMem \in NoMem
  PROVE  LET r == rehash_map(m, n, policy, noMem)
         IN  r.retried \/ (~r.ok /\ r.map = m) \/ (r.ok /\ RebuiltFor(m, n, r.map))
<1> DEFINE next == default_next_capacity(m, n)
           tables == {c \in Tables : next <= c /\ c < noMem}
           fit == {c \in tables : Refill(m, c, policy).ok}
           r == rehash_map(m, n, policy, noMem)
<1>0. m \in Maps /\ Counted(m) /\ Capacity(m) <= MaxCapacity /\ m.length \in Nat  BY TombsBound DEF Sound
<1>1. CASE m.length = 0 /\ n = 0
  <2> DEFINE e == [slots |-> NoSlots, length |-> 0, tombstones |-> 0, policy |-> policy]
  <2>1. Sound(e) /\ e \in Maps /\ e.length = 0 /\ e.tombstones = 0 /\ Capacity(e) = 0 /\ BagOf(e) = [p \in Pairs |-> 0]
    BY NoSlotsSound
  <2>2. r = Kept(TRUE, FALSE, e)  BY <1>1 DEF rehash_map
  <2> HIDE DEF e
  <2>3. r.ok /\ r.map = e  BY <2>1, <2>2, KeptProps
  <2>4. BagOf(m) = [p \in Pairs |-> 0]
    <3>1. Occupied(m) = {}
      <4>1. IsFiniteSet(Occupied(m)) /\ Cardinality(Occupied(m)) = 0  BY <1>0, <1>1, SlotsFinite DEF Counted
      <4> QED  BY <4>1, FS_EmptySet
    <3>2. \A P : Holding(m, P) = {}  BY <1>0, <3>1, SlotSets
    <3>3. \A p \in Pairs : Cardinality(Holding(m, {p})) = 0  BY <3>2, FS_EmptySet
    <3> QED  BY <3>3 DEF BagOf
  <2>5. RebuiltFor(m, n, e)  BY <1>1, <2>1, <2>4 DEF RebuiltFor, Same
  <2> QED  BY <2>3, <2>5
<1>2. CASE ~(m.length = 0 /\ n = 0)
  <2>1. /\ fit # {} => r = Kept(TRUE, FALSE, Refill(m, Min(fit), policy).map)
        /\ tables = {} => r = Kept(FALSE, FALSE, m)
        /\ fit = {} /\ tables # {} =>
             r = Kept(FALSE, TRUE, [Refill(m, Max(tables), policy).map EXCEPT !.slots = m.slots])
    <3>1. r = Rebuilt(m, policy, tables, fit)  BY <1>2 DEF rehash_map, BuildFrom
    <3>2. fit \subseteq tables  OBVIOUS
    <3> HIDE DEF r, tables, fit
    <3>3. Ends(m, policy, tables, fit, r)  BY <3>1, <3>2, RebuiltEnds
    <3> QED  BY <3>3 DEF Ends
  <2>2. next \in Tables /\ 4 * n <= 3 * next /\ 4 * m.length <= 3 * next
    <3>1. 4 * m.length < WordSize
      <4> DEFINE t == m.tombstones
                 l == m.length
      <4>1. 4 * (l + t + 1) < WordSize /\ t \in Nat /\ l \in Nat /\ WordSize \in Nat  BY <1>0, TombsBound
      <4> HIDE DEF t, l
      <4> QED  BY <4>1 DEF l
    <3> QED  BY <1>0, <1>2, <3>1, NextCapacityProps
  <2> HIDE DEF next
  <2>3. \A c \in fit : c \in Tables /\ next <= c /\ c < noMem /\ Refill(m, c, policy).ok  OBVIOUS
  <2> HIDE DEF tables, fit, r
  <2>4. CASE fit # {}
    <3> DEFINE c == Min(fit)
               x == Refill(m, c, policy).map
    <3>1. c \in fit
      <4>1. fit \subseteq Nat  BY <2>3, TableProps
      <4> QED  BY <2>4, <4>1, MinProps
    <3>2. r = Kept(TRUE, FALSE, x)  BY <2>1, <2>4
    <3> HIDE DEF c
    <3>3. c \in Tables /\ next <= c /\ c < noMem /\ Refill(m, c, policy).ok  BY <2>3, <3>1
    <3>4. c <= MaxCapacity  BY <3>3, NoMemProps
    <3>5. 4 * n <= 3 * c /\ 4 * m.length <= 3 * c
      <4>1. c \in Nat /\ next \in Nat  BY <2>2, <3>3, TableProps
      <4> DEFINE l == m.length
      <4>2. l \in Nat /\ 4 * l <= 3 * next  BY <1>0, <2>2
      <4> HIDE DEF l
      <4>3. 4 * n <= 3 * c /\ 4 * l <= 3 * c  BY <2>2, <3>3, <4>1, <4>2
      <4> QED  BY <4>3 DEF l
    <3>6. RebuiltFor(m, n, x)  BY <3>3, <3>4, <3>5, RefillSame
    <3>7. x \in Maps  BY <1>0, <3>3, RefillType
    <3> HIDE DEF x
    <3>8. r.ok /\ r.map = x  BY <3>2, <3>7, KeptProps
    <3> QED  BY <3>6, <3>8 DEF r
  <2>5. CASE fit = {} /\ tables = {}
    <3>1. r = Kept(FALSE, FALSE, m)  BY <2>1, <2>5
    <3>2. ~r.ok /\ r.map = m  BY <1>0, <3>1, KeptProps
    <3> QED  BY <3>2 DEF r
  <2>6. CASE fit = {} /\ tables # {}
    <3> DEFINE x == [Refill(m, Max(tables), policy).map EXCEPT !.slots = m.slots]
    <3>1. r = Kept(FALSE, TRUE, x)  BY <2>1, <2>6
    <3> HIDE DEF x
    <3>2. r.retried = TRUE  BY <3>1 DEF Kept
    <3> QED  BY <3>2 DEF r
  <2> QED  BY <2>4, <2>5, <2>6
<1> QED  BY <1>1, <1>2

------------------------------------------------------------------------------
\* Growing a table for an entry.

\* g, what has become of m, holds what m held, or has retried in vain.
Kin(m, g) == g \in Outcomes /\ (g.retried => ~g.ok) /\ (~g.retried => Same(m, g.map))

\* The step from g to h, by a rehash for n entries or by none.
Rehashed(m, needed, g, n, h) ==
    /\ Kin(m, h)
    /\ h.ok => g.ok /\ IF needed THEN RebuiltFor(g.map, n, h.map) ELSE h = g

\* A rehash that is made when needed keeps what the table holds.
LEMMA RehashIfKeeps ==
  ASSUME MapAssumption, BoundsAssumption, NEW m, NEW g, Kin(m, g), NEW needed \in BOOLEAN,
         NEW n \in Nat, 4 * n < WordSize, NEW noMem \in NoMem
  PROVE  Rehashed(m, needed, g, n, RehashIf(needed, g, n, noMem))
<1> DEFINE h == RehashIf(needed, g, n, noMem)
           x == g.map
<1>1. CASE ~(g.ok /\ needed)
  <2>1. h = g  BY <1>1 DEF RehashIf
  <2>2. h.ok => ~needed  BY <1>1, <2>1
  <2> HIDE DEF h
  <2>3. Rehashed(m, needed, g, n, h)  BY <2>1, <2>2 DEF Rehashed
  <2> QED  BY <2>3 DEF h
<1>2. CASE g.ok /\ needed
  <2>1. ~g.retried /\ g.map \in Maps  BY <1>2 DEF Kin, Outcomes
  <2>2. Same(m, x) /\ x \in Maps  BY <2>1 DEF Kin
  <2>3. h = rehash_map(x, n, x.policy, noMem)  BY <1>2 DEF RehashIf
  <2>4. x.policy \in Policies /\ Sound(x)  BY <2>2, MapShape DEF Same
  <2> HIDE DEF h, x
  <2>5. h \in Outcomes /\ (h.retried => ~h.ok)  BY <2>2, <2>3, <2>4, RehashType
  <2>6. h.retried \/ (~h.ok /\ h.map = x) \/ (h.ok /\ RebuiltFor(x, n, h.map))  BY <2>3, <2>4, RehashSame
  <2>7. RebuiltFor(x, n, h.map) => Same(m, h.map)  BY <2>2 DEF RebuiltFor, Same
  <2>8. Kin(m, h)  BY <2>2, <2>5, <2>6, <2>7 DEF Kin
  <2>9. h.ok => RebuiltFor(x, n, h.map)  BY <2>5, <2>6
  <2>10. Rehashed(m, needed, g, n, h)  BY <1>2, <2>8, <2>9 DEF Rehashed, x
  <2> QED  BY <2>10 DEF h
<1> QED  BY <1>1, <1>2

\* A table that takes one entry more, short of its load.
Spare(x) == Capacity(x) \in Tables /\ 4 * (x.length + x.tombstones + 1) <= 3 * Capacity(x)

\* One that is rebuilt for an entry more does.
LEMMA RebuiltSpare ==
  ASSUME MapAssumption, BoundsAssumption, NEW m, NEW x, NEW n \in Nat, RebuiltFor(m, n, x), m.length + 1 <= n
  PROVE  Spare(x) /\ n < Capacity(x)
<1> DEFINE l == m.length
           c == Capacity(x)
<1>1. Sound(x) /\ x.length = l /\ x.tombstones = 0 /\ 4 * n <= 3 * c /\ (n # 0 => c \in Tables)
  BY DEF RebuiltFor, Same
<1>2. x.length \in Nat  BY <1>1, TombsBound DEF Sound
<1> HIDE DEF l, c
<1>3. l \in Nat /\ l + 1 <= n  BY <1>1, <1>2 DEF l
<1>4. n # 0  BY <1>3
<1>5. c \in Tables /\ c \in Nat /\ c # 0  BY <1>1, <1>4, TableProps
<1>6. 4 * (l + 0 + 1) <= 3 * c  BY <1>1, <1>3, <1>5
<1>7. n < c  BY <1>1, <1>5
<1>8. 4 * (x.length + x.tombstones + 1) <= 3 * c  BY <1>1, <1>6
<1> QED  BY <1>5, <1>7, <1>8 DEF Spare, c

\* One that need not be rebuilt for an entry more does, too.
LEMMA LightSpare ==
  ASSUME MapAssumption, BoundsAssumption, NEW x, Sound(x), ~default_should_rehash(x, 1)
  PROVE  Spare(x)
<1> DEFINE l == x.length
           t == x.tombstones
           c == Capacity(x)
           u == (l + t + 1) * 4
<1>1. x \in Maps /\ c \in Tables \cup {0} /\ c \in Nat  BY MapShape DEF Sound
<1>2. l \in Nat /\ t \in Nat /\ WordSize \in Nat \ {0} /\ 4 * (l + t + 1) < WordSize  BY TombsBound DEF Sound
<1>3. l + 1 # 0  BY <1>2
<1>4. ~(c = 0) /\ ~(u % WordSize >= c * 3)  BY <1>3 DEF default_should_rehash
<1> HIDE DEF l, t, c
<1>5. u \in Nat /\ u = 4 * (l + t + 1)  BY <1>2
<1>6. u % WordSize = u
  <2> DEFINE w == WordSize
  <2>1. w \in Nat \ {0} /\ u < w  BY <1>2, <1>5
  <2> HIDE DEF w, u
  <2>2. u \in 0..(w - 1) /\ u = 0 * w + u  BY <1>5, <2>1
  <2>3. u % w = u  BY <1>5, <2>1, <2>2, OneRemainder
  <2> QED  BY <2>3 DEF w
<1> HIDE DEF u
<1>7. u < c * 3  BY <1>1, <1>4, <1>5, <1>6
<1>8. 4 * (l + t + 1) <= 3 * c  BY <1>1, <1>5, <1>7
<1>9. c \in Tables  BY <1>1, <1>4
<1> QED  BY <1>8, <1>9 DEF Spare, l, t, c

\* What is asked of a table for an entry more, or for more slots than it
\* has, is far from the width of a word.
LEMMA AskBound ==
  ASSUME MapAssumption, BoundsAssumption, NEW x, Sound(x)
  PROVE  /\ 1 \in Nat /\ 4 * 1 < WordSize
         /\ x.length + 1 \in Nat /\ 4 * (x.length + 1) < WordSize
         /\ LET n == Larger(Capacity(x) + 1, x.length + 1)
            IN  n \in Nat /\ 4 * n < WordSize /\ x.length + 1 <= n /\ Capacity(x) + 1 <= n
<1> DEFINE l == x.length
           t == x.tombstones
           c == Capacity(x)
           M == MaxCapacity
           n == Larger(c + 1, l + 1)
<1>1. l \in Nat /\ t \in Nat /\ c \in Nat /\ M \in Nat /\ WordSize \in Nat /\ l + t <= c /\ c <= M
  BY TombsBound DEF Sound
<1>2. 4 * (M + 1) < WordSize  BY BoundProps
<1>3. n = IF c + 1 > l + 1 THEN c + 1 ELSE l + 1  BY DEF Larger
<1> HIDE DEF l, t, c, M, n
<1>4. l + 1 \in Nat /\ 4 * (l + 1) < WordSize /\ 4 * (c + 1) < WordSize /\ 4 * 1 < WordSize  BY <1>1, <1>2
<1>5. n \in Nat /\ 4 * n < WordSize /\ l + 1 <= n /\ c + 1 <= n
  <2>1. CASE c + 1 > l + 1  BY <1>1, <1>3, <1>4, <2>1
  <2>2. CASE ~(c + 1 > l + 1)  BY <1>1, <1>3, <1>4, <2>2
  <2> QED  BY <2>1, <2>2
<1> QED  BY <1>4, <1>5 DEF l, c, n

\* What an insertion starts from.
Ready(m, g) == Kin(m, g) /\ (g.ok => Spare(g.map))

\* It is the table, with room for an entry.
LEMMA RoomyReady ==
  ASSUME MapAssumption, BoundsAssumption, NEW m, Sound(m), NEW noMem \in NoMem
  PROVE  Ready(m, Roomy(m, noMem))
<1> DEFINE g == Kept(TRUE, FALSE, m)
           bare == Capacity(m) = 0
           h == RehashIf(bare, g, 1, noMem)
           r == Unloaded(h, noMem)
<1>1. r = Roomy(m, noMem)  BY DEF Roomy
<1>2. m \in Maps  BY DEF Sound
<1>3. g \in Outcomes /\ g.ok /\ ~g.retried /\ g.map = m  BY <1>2, KeptProps
<1>4. Same(m, m)  BY DEF Same
<1>5. Kin(m, g)  BY <1>3, <1>4 DEF Kin
<1>6. bare \in BOOLEAN  OBVIOUS
<1> HIDE DEF g, bare
<1>7. Rehashed(m, bare, g, 1, h)  BY <1>5, <1>6, AskBound, RehashIfKeeps
<1> HIDE DEF h
<1>8. Kin(m, h)  BY <1>7 DEF Rehashed
<1>9. CASE ~h.ok
  <2>1. r = h  BY <1>9 DEF Unloaded, RehashIf
  <2>2. Ready(m, r)  BY <1>8, <1>9, <2>1 DEF Ready
  <2> QED  BY <1>1, <2>2
<1>10. CASE h.ok
  <2> DEFINE x == h.map
             needed == default_should_rehash(x, 1)
             n == x.length + 1
  <2>1. Same(m, x) /\ Sound(x)  BY <1>8, <1>10 DEF Kin, Same
  <2>2. needed \in BOOLEAN  BY DEF default_should_rehash
  <2>3. r = RehashIf(needed, h, n, noMem)  BY DEF Unloaded
  <2> HIDE DEF needed, x
  <2>4. n \in Nat /\ 4 * n < WordSize  BY <2>1, AskBound
  <2> HIDE DEF n, r
  <2>5. Rehashed(m, needed, h, n, r)  BY <1>8, <2>2, <2>3, <2>4, RehashIfKeeps
  <2>6. Kin(m, r)  BY <2>5 DEF Rehashed
  <2>7. ASSUME r.ok PROVE Spare(r.map)
    <3>1. CASE needed
      <4>1. RebuiltFor(x, n, r.map)  BY <2>5, <2>7, <3>1 DEF Rehashed, x
      <4>2. x.length + 1 <= n  BY <2>4 DEF n
      <4> QED  BY <2>4, <4>1, <4>2, RebuiltSpare
    <3>2. CASE ~needed
      <4>1. r = h  BY <2>5, <2>7, <3>2 DEF Rehashed
      <4>2. Spare(x)  BY <2>1, <3>2, LightSpare DEF needed
      <4> QED  BY <4>1, <4>2 DEF x
    <3> QED  BY <3>1, <3>2
  <2>8. Ready(m, r)  BY <2>6, <2>7 DEF Ready
  <2> QED  BY <1>1, <2>8 DEF r
<1> QED  BY <1>9, <1>10

\* What the attempts for k have come to after i of them: a slot for k, or a
\* table that has doubled as often.
Grown(m, k, i, g) ==
    /\ Ready(m, g)
    /\ g.ok => InsertIndex(g.map, k) < Capacity(g.map) \/ MinCapacity * Power[i] <= Capacity(g.map)

\* An attempt ends in an outcome.
LEMMA AttemptType ==
  ASSUME MapAssumption, BoundsAssumption, NEW g \in Outcomes, NEW k \in Keys, NEW noMem \in NoMem
  PROVE  Attempt(g, k, noMem) \in Outcomes
<1> DEFINE x == g.map
           n == Larger(Capacity(x) + 1, x.length + 1)
<1>1. x \in Maps  BY DEF Outcomes
<1>2. Capacity(x) \in Nat /\ x.length \in Int /\ x.policy \in Policies  BY <1>1, MapShape
<1>3. n \in Nat
  <2>1. n = IF Capacity(x) + 1 > x.length + 1 THEN Capacity(x) + 1 ELSE x.length + 1  BY DEF Larger
  <2> QED  BY <1>2, <2>1
<1>4. Attempt(g, k, noMem) \in {g, rehash_map(x, n, x.policy, noMem)}  BY DEF Attempt, RehashIf
<1> HIDE DEF n, x
<1>5. rehash_map(x, n, x.policy, noMem) \in Outcomes  BY <1>1, <1>2, <1>3, RehashType
<1> QED  BY <1>4, <1>5

\* An attempt finds a slot or doubles the table.
LEMMA AttemptGrows ==
  ASSUME MapAssumption, BoundsAssumption, NEW m, NEW k \in Keys, NEW i \in 0..(WordBits - 1), NEW g,
         Grown(m, k, i, g), NEW noMem \in NoMem
  PROVE  Grown(m, k, i + 1, Attempt(g, k, noMem))
<1> DEFINE h == Attempt(g, k, noMem)
           x == g.map
           n == Larger(Capacity(x) + 1, x.length + 1)
           needed == InsertIndex(x, k) >= Capacity(x)
<1>1. Kin(m, g) /\ (g.ok => Spare(x)) /\ needed \in BOOLEAN /\ h = RehashIf(needed, g, n, noMem)
  BY DEF Grown, Ready, Attempt
<1>2. CASE ~g.ok
  <2>1. h = g  BY <1>1, <1>2 DEF RehashIf
  <2>2. Ready(m, g)  BY DEF Grown
  <2> HIDE DEF h
  <2>3. Grown(m, k, i + 1, h)  BY <1>2, <2>1, <2>2 DEF Grown
  <2> QED  BY <2>3 DEF h
<1>3. CASE g.ok
  <2>1. Sound(x) /\ x \in Maps  BY <1>1, <1>3 DEF Kin, Same, Sound
  <2>2. Capacity(x) \in Nat /\ InsertIndex(x, k) \in 0..Capacity(x)  BY <2>1, MapShape, InsertIndexProps
  <2>3. Spare(x)  BY <1>1, <1>3
  <2>4. InsertIndex(x, k) < Capacity(x) \/ MinCapacity * Power[i] <= Capacity(x)  BY <1>3 DEF Grown
  <2>5. needed <=> ~(InsertIndex(x, k) < Capacity(x))  BY <2>2
  <2> HIDE DEF needed, h, x
  <2>6. n \in Nat /\ 4 * n < WordSize /\ x.length + 1 <= n /\ Capacity(x) + 1 <= n  BY <2>1, AskBound
  <2> HIDE DEF n
  <2>7. Rehashed(m, needed, g, n, h)  BY <1>1, <2>6, RehashIfKeeps
  <2>8. Kin(m, h)  BY <2>7 DEF Rehashed
  <2>9. CASE ~needed
    <3>1. h.ok => h = g  BY <2>7, <2>9 DEF Rehashed
    <3>2. h.ok => Spare(h.map) /\ InsertIndex(h.map, k) < Capacity(h.map)  BY <2>3, <2>5, <2>9, <3>1 DEF x
    <3>3. Grown(m, k, i + 1, h)  BY <2>8, <3>2 DEF Grown, Ready
    <3> QED  BY <3>3 DEF h
  <2>10. CASE needed
    <3>1. ASSUME h.ok PROVE Spare(h.map) /\ MinCapacity * Power[i + 1] <= Capacity(h.map)
      <4> DEFINE y == h.map
                 c == Capacity(x)
                 d == Capacity(y)
                 u == MinCapacity * Power[i]
                 v == MinCapacity * Power[i + 1]
      <4>1. RebuiltFor(x, n, y)  BY <2>7, <2>10, <3>1 DEF Rehashed, x
      <4>2. Spare(y) /\ n < d  BY <2>6, <4>1, RebuiltSpare
      <4>3. c \in Tables /\ d \in Tables /\ c \in Nat /\ d \in Nat  BY <2>3, <4>2, TableProps DEF Spare
      <4>4. v = 2 * u /\ u \in Nat
        <5> DEFINE a == MinCapacity
                   b == Power[i]
        <5>1. WordBits \in Nat \ {0} /\ a \in Tables  BY DEF MapAssumption
        <5>2. a \in Nat  BY <5>1, TableProps
        <5>3. i \in 0..WordBits /\ i + 1 \in 1..WordBits /\ (i + 1) - 1 = i  BY <5>1
        <5>4. b \in Nat /\ Power[i + 1] = 2 * b  BY <5>1, <5>3, PowerProps
        <5> HIDE DEF a, b
        <5>5. a * b \in Nat /\ a * (2 * b) = 2 * (a * b)  BY <5>2, <5>4
        <5> QED  BY <5>4, <5>5 DEF a, b
      <4>5. u <= c  BY <2>4, <2>5, <2>10
      <4> HIDE DEF c, d, u, v
      <4>6. c < d
        <5>1. c + 1 <= n  BY <2>6 DEF c
        <5> QED  BY <2>6, <4>2, <4>3, <5>1
      <4>7. 2 * c <= d  BY <4>3, <4>6, TableProps
      <4>8. v <= d  BY <4>3, <4>4, <4>5, <4>7
      <4> QED  BY <4>2, <4>8 DEF v, d
    <3>2. Grown(m, k, i + 1, h)  BY <2>8, <3>1 DEF Grown, Ready
    <3> QED  BY <3>2 DEF h
  <2> QED  BY <2>9, <2>10
<1> QED  BY <1>2, <1>3

\* The attempts are a run of them.
LEMMA GrowForRuns ==
  ASSUME MapAssumption, BoundsAssumption, NEW m, Sound(m), NEW k \in Keys, NEW noMem \in NoMem
  PROVE  \E to \in [0..MaxAttempts -> Outcomes] :
           /\ to[0] = Roomy(m, noMem)
           /\ \A j \in 1..MaxAttempts : to[j] = Attempt(to[j - 1], k, noMem)
           /\ GrowFor(m, k, noMem) = to[MaxAttempts]
<1> DEFINE n == MaxAttempts
           a == Roomy(m, noMem)
           S == Outcomes
           F == [j \in Nat |-> [g \in S |-> Attempt(g, k, noMem)]]
           Is(f) == f = [i \in 0..n |-> IF i = 0 THEN a ELSE Attempt(f[i - 1], k, noMem)]
           g == CHOOSE f : Is(f)
<1>1. n \in Nat  BY DEF MapAssumption, BoundsAssumption
<1>2. a \in S  BY RoomyReady DEF Ready, Kin
<1>3. F \in [Nat -> [S -> S]]  BY AttemptType
<1>4. \A j \in Nat, r \in S : F[j][r] = Attempt(r, k, noMem)  OBVIOUS
<1>5. GrowFor(m, k, noMem) = g[n]  BY DEF GrowFor
<1> HIDE DEF F, S, a, n, g
<1>6. PICK f \in [0..n -> S] : f[0] = a /\ \A j \in 1..n : f[j] = F[j][f[j - 1]]
  <2>1. Loop(S, a, F, n)  BY <1>1, <1>2, <1>3 DEF Loop
  <2>2. \E f : RunOf(S, a, F, n, f)  BY <2>1, LoopRuns
  <2> QED  BY <2>2 DEF RunOf
<1>7. ASSUME NEW j \in 1..n PROVE f[j] = Attempt(f[j - 1], k, noMem)
  <2>1. j - 1 \in 0..n /\ j \in Nat  BY <1>1
  <2>2. f[j - 1] \in S  BY <1>6, <2>1
  <2> QED  BY <1>4, <1>6, <2>1, <2>2
<1>8. Is(f)
  <2>1. \A i \in 0..n : i # 0 => i \in 1..n  BY <1>1
  <2>2. \A i \in 0..n : f[i] = IF i = 0 THEN a ELSE Attempt(f[i - 1], k, noMem)  BY <1>6, <1>7, <2>1
  <2> QED  BY <1>6, <2>2
<1>9. Is(g)  BY <1>8 DEF g
<1> HIDE DEF Is
<1>10. \A i \in 0..n : g[i] = IF i = 0 THEN a ELSE Attempt(g[i - 1], k, noMem)  BY <1>9 DEF Is
<1>11. g[0] = a /\ \A j \in 1..n : g[j] = Attempt(g[j - 1], k, noMem)
  <2>1. 0 \in 0..n /\ \A j \in 1..n : j \in 0..n /\ j # 0  BY <1>1
  <2> QED  BY <1>10, <2>1
<1>12. \A j \in 0..n : g[j] \in S
  <2>1. \A j \in 1..n : g[j - 1] \in S => g[j] \in S
    <3> SUFFICES ASSUME NEW j \in 1..n, g[j - 1] \in S PROVE g[j] \in S  OBVIOUS
    <3>1. Attempt(g[j - 1], k, noMem) \in S  BY AttemptType DEF S
    <3> QED  BY <1>11, <3>1
  <2>2. g[0] \in S  BY <1>2, <1>11
  <2> QED  BY <1>1, <2>1, <2>2, AllTheWay
<1>13. g \in [0..n -> S]
  <2>1. g = [i \in 0..n |-> IF i = 0 THEN a ELSE Attempt(g[i - 1], k, noMem)]  BY <1>9 DEF Is
  <2> QED  BY <1>12, <2>1
<1> QED  BY <1>5, <1>11, <1>13 DEF S, a, n

\* After the last attempt there is a slot for k, when memory lasted.
LEMMA GrowForReady ==
  ASSUME MapAssumption, BoundsAssumption, NEW m, Sound(m), NEW k \in Keys, NEW noMem \in NoMem
  PROVE  LET g == GrowFor(m, k, noMem)
         IN  Ready(m, g) /\ (g.ok => InsertIndex(g.map, k) < Capacity(g.map))
<1> DEFINE n == MaxAttempts
           g == GrowFor(m, k, noMem)
<1>1. n \in 0..WordBits /\ WordBits \in Nat  BY DEF MapAssumption, BoundsAssumption
<1>2. PICK to \in [0..n -> Outcomes] :
        /\ to[0] = Roomy(m, noMem)
        /\ \A j \in 1..n : to[j] = Attempt(to[j - 1], k, noMem)
        /\ GrowFor(m, k, noMem) = to[n]
  BY GrowForRuns
<1> HIDE DEF n
<1> DEFINE S == {j \in Nat : j <= n => Grown(m, k, j, to[j])}
<1>3. 0 \in S
  <2> DEFINE x == to[0].map
  <2>1. Ready(m, to[0])  BY <1>2, RoomyReady
  <2>2. to[0].ok => MinCapacity * Power[0] <= Capacity(x)
    <3> SUFFICES ASSUME to[0].ok PROVE MinCapacity * Power[0] <= Capacity(x)  OBVIOUS
    <3>1. Capacity(x) \in Tables  BY <2>1 DEF Ready, Spare
    <3>2. MinCapacity <= Capacity(x)  BY <3>1 DEF Tables
    <3>3. Power[0] = 1  BY <1>1, PowerProps
    <3>4. MinCapacity \in Nat  BY TableProps DEF MapAssumption
    <3> QED  BY <3>2, <3>3, <3>4
  <2>3. Grown(m, k, 0, to[0])  BY <2>1, <2>2 DEF Grown
  <2> QED  BY <2>3
<1>4. ASSUME NEW j \in Nat, j \in S PROVE j + 1 \in S
  <2> SUFFICES ASSUME j + 1 <= n PROVE Grown(m, k, j + 1, to[j + 1])  OBVIOUS
  <2>1. j \in 0..n /\ j + 1 \in 1..n /\ (j + 1) - 1 = j /\ j \in 0..(WordBits - 1)  BY <1>1
  <2>2. Grown(m, k, j, to[j])  BY <1>4, <2>1
  <2>3. to[j + 1] = Attempt(to[j], k, noMem)  BY <1>2, <2>1
  <2> QED  BY <2>1, <2>2, <2>3, AttemptGrows
<1> HIDE DEF S
<1>5. n \in S
  <2>1. n \in Nat  BY <1>1
  <2> QED  BY <1>3, <1>4, <2>1, SetInduction
<1>6. Grown(m, k, n, g)  BY <1>2, <1>5 DEF S
<1> HIDE DEF g
<1>7. g.ok => InsertIndex(g.map, k) < Capacity(g.map)
  <2> SUFFICES ASSUME g.ok, MinCapacity * Power[n] <= Capacity(g.map) PROVE FALSE  BY <1>6 DEF Grown
  <2> DEFINE u == MinCapacity * Power[n]
             c == Capacity(g.map)
             M == MaxCapacity
  <2>1. M < u  BY DEF BoundsAssumption, n
  <2>2. Sound(g.map)  BY <1>6 DEF Grown, Ready, Kin, Same
  <2>3. c \in Nat /\ M \in Nat /\ c <= M  BY <2>2, TombsBound DEF Sound
  <2>4. u <= c  OBVIOUS
  <2>5. u \in Nat
    <3>1. MinCapacity \in Nat  BY TableProps DEF MapAssumption
    <3>2. Power[n] \in Nat  BY <1>1, PowerProps DEF n
    <3> QED  BY <3>1, <3>2
  <2> HIDE DEF u, c, M
  <2> QED  BY <2>1, <2>3, <2>4, <2>5
<1>8. Ready(m, g)  BY <1>6 DEF Grown
<1> QED  BY <1>7, <1>8 DEF g

\* n is sound, and m with one more entry for p.
Gained(m, n, p) == Sound(n) /\ BagOf(n) = [BagOf(m) EXCEPT ![p] = @ + 1] /\ n.length = m.length + 1

\* What a call that should add p may do to m.
Inserted(m, p, r) ==
    /\ r.ok \in BOOLEAN
    /\ r.retried \/ (~r.ok /\ Same(m, r.map)) \/ (r.ok /\ Gained(m, r.map, p))

\* An insertion adds the pair, or keeps what there is.
LEMMA InsertAdds ==
  ASSUME MapAssumption, BoundsAssumption, NEW m, Sound(m), NEW p \in Pairs, NEW noMem \in NoMem,
         NEW copied \in BOOLEAN
  PROVE  Inserted(m, p, map_insert(m, p, noMem, copied))
<1> DEFINE k == p[1]
           g == GrowFor(m, k, noMem)
           r == map_insert(m, p, noMem, copied)
           x == g.map
           y == Fill(x, InsertIndex(x, k), Entry(p))
<1>1. k \in Keys  BY DEF Pairs
<1>2. r = IF g.ok /\ copied THEN [g EXCEPT !.map = y] ELSE [g EXCEPT !.ok = FALSE]
  BY DEF map_insert, Place
<1>3. Ready(m, g) /\ (g.ok => InsertIndex(x, k) < Capacity(x))  BY <1>1, GrowForReady
<1> HIDE DEF g, k
<1>4. g \in Outcomes /\ (g.retried => ~g.ok) /\ (~g.retried => Same(m, x)) /\ (g.ok => Spare(x))
  BY <1>3 DEF Ready, Kin
<1> HIDE DEF r, x, y
<1>5. CASE g.ok /\ copied
  <2>1. r.ok = g.ok /\ r.map = y  BY <1>2, <1>4, <1>5 DEF Outcomes
  <2>2. Same(m, x) /\ Spare(x) /\ Sound(x) /\ x \in Maps  BY <1>4, <1>5 DEF Same, Sound
  <2>3. InsertIndex(x, k) < Capacity(x)  BY <1>3, <1>5
  <2>4. Stored(x, y, p)  BY <2>2, <2>3, InsertStores DEF Sound, y, k
  <2>5. Sound(y)  BY <2>2, <2>4, StoredSound DEF Sound, Spare
  <2>6. BagOf(y) = [BagOf(m) EXCEPT ![p] = @ + 1] /\ y.length = m.length + 1
    BY <2>2, <2>4 DEF Stored, Same
  <2>7. Gained(m, y, p)  BY <2>5, <2>6 DEF Gained
  <2>8. Inserted(m, p, r)  BY <1>5, <2>1, <2>7 DEF Inserted
  <2> QED  BY <2>8 DEF r
<1>6. CASE ~(g.ok /\ copied)
  <2>1. r.ok = FALSE /\ r.map = x /\ r.retried = g.retried  BY <1>2, <1>4, <1>6 DEF Outcomes, x
  <2>2. r.retried \/ Same(m, r.map)  BY <1>4, <2>1
  <2>3. Inserted(m, p, r)  BY <2>1, <2>2 DEF Inserted
  <2> QED  BY <2>3 DEF r
<1> QED  BY <1>5, <1>6

\* What a call that should only rebuild the table may do to m.
Rebuilding(m, r) ==
    /\ r.ok \in BOOLEAN
    /\ r.retried \/ (~r.ok /\ r.map = m) \/ (r.ok /\ Same(m, r.map))

\* A rehash keeps what the table holds.
LEMMA RehashKeeps ==
  ASSUME MapAssumption, BoundsAssumption, NEW m, Sound(m), NEW n \in Nat, 4 * n < WordSize,
         NEW policy \in Policies, NEW noMem \in NoMem
  PROVE  Rebuilding(m, rehash_map(m, n, policy, noMem))
<1> DEFINE r == rehash_map(m, n, policy, noMem)
<1>1. r.retried \/ (~r.ok /\ r.map = m) \/ (r.ok /\ RebuiltFor(m, n, r.map))  BY RehashSame
<1>2. m \in Maps  BY DEF Sound
<1>3. r \in Outcomes  BY <1>2, RehashType
<1> HIDE DEF r
<1>4. r.ok \in BOOLEAN  BY <1>3 DEF Outcomes
<1>5. Rebuilding(m, r)  BY <1>1, <1>4 DEF Rebuilding, RebuiltFor
<1> QED  BY <1>5 DEF r

\* And so does a reservation.
LEMMA ReserveKeeps ==
  ASSUME MapAssumption, BoundsAssumption, NEW m, Sound(m), NEW n \in Nat, 4 * n < WordSize, NEW noMem \in NoMem
  PROVE  Rebuilding(m, reserve_map(m, n, noMem))
<1> DEFINE r == reserve_map(m, n, noMem)
           k == Kept(TRUE, FALSE, m)
<1>1. m \in Maps /\ m.policy \in Policies  BY MapShape DEF Sound
<1>2. r = k \/ r = rehash_map(m, n, m.policy, noMem)  BY DEF reserve_map
<1>3. k.ok = TRUE /\ k.map = m  BY <1>1, KeptProps
<1> HIDE DEF k, r
<1>4. Rebuilding(m, k)  BY <1>3 DEF Rebuilding, Same
<1>5. Rebuilding(m, r)  BY <1>1, <1>2, <1>4, RehashKeeps
<1> QED  BY <1>5 DEF r

------------------------------------------------------------------------------
\* Removing every entry of a key.

\* An insertion reuses a tombstone of its scan.
LEMMA ReusesTomb ==
  ASSUME MapAssumption, NEW m \in Maps, NEW k \in Keys, NEW p \in Scanned(m, k), SlotAt(m, k, p) = TOMB
  PROVE  InsertIndex(m, k) < Capacity(m) /\ m.slots[InsertIndex(m, k)] = TOMB
<1> DEFINE T == {q \in Scanned(m, k) : SlotAt(m, k, q) = TOMB}
           i == InsertIndex(m, k)
           j == FirstOf(m, k, T)
<1>1. p \in T  OBVIOUS
<1>2. i = j  BY <1>1 DEF InsertIndex
<1>3. T \subseteq Nat /\ Capacity(m) # 0  BY ScanProps
<1>4. \A q \in T : m.slots[At(m, k, q)] = TOMB  BY DEF SlotAt
<1> HIDE DEF T
<1>5. j < Capacity(m) /\ \E q \in T : j = At(m, k, q) /\ \A u \in T : q <= u  BY <1>1, <1>3, FirstOfProps
<1> HIDE DEF i, j
<1>6. i < Capacity(m) /\ m.slots[i] = TOMB  BY <1>2, <1>4, <1>5
<1> QED  BY <1>6 DEF i

\* The cursor that has made a tombstone of the first entry goes on as a new
\* lookup would.
LEMMA NextIsFirst ==
  ASSUME MapAssumption, NEW m, NEW n, NEW k \in Keys, NEW i, i = map_find_index(m, k), i < Capacity(m),
         Differs(m, n, i, TOMB)
  PROVE  map_find_next_index(n, k, i) = map_find_index(n, k)
<1>1. m \in Maps /\ n \in Maps /\ Capacity(n) = Capacity(m) /\ Capacity(m) \in Nat  BY MapShape DEF Differs
<1>2. Hits(m, k) # {}  BY <1>1, FindIndexProps
<1>3. PICK p \in Hits(m, k) : i = At(m, k, p) /\ \A q \in Hits(m, k) : p <= q  BY <1>1, <1>2, FindIndexProps
<1>4. p \in Nat /\ p \in Scanned(m, k) /\ Hits(m, k) \subseteq Nat /\ i \in Occupied(m)  BY <1>1, <1>3, HitProps
<1>5. m.slots[i] # EMPTY  BY <1>1, <1>4 DEF Occupied
<1>6. /\ Scanned(n, k) = Scanned(m, k) /\ \A q : At(n, k, q) = At(m, k, q)
      /\ Hits(n, k) = {q \in Hits(m, k) : At(m, k, q) # i}
  BY <1>5, RemoveHits
<1> DEFINE N == {q \in Scanned(n, k) :
                   /\ SlotAt(n, k, q) # TOMB /\ SlotAt(n, k, q).key = k
                   /\ At(n, k, q) # i
                   /\ \E u \in 0..q : At(n, k, u) = i}
<1>7. \A q : q \in N <=> q \in Hits(n, k) /\ At(n, k, q) # i /\ \E u \in 0..q : At(n, k, u) = i  BY DEF Hits
<1>8. ASSUME NEW q \in Hits(n, k) PROVE At(n, k, q) # i /\ \E u \in 0..q : At(n, k, u) = i
  <2>1. q \in Hits(m, k) /\ At(m, k, q) # i  BY <1>6
  <2>2. p \in 0..q  BY <1>3, <1>4, <2>1
  <2> QED  BY <1>3, <1>6, <2>1, <2>2
<1> HIDE DEF N
<1>9. N = Hits(n, k)  BY <1>7, <1>8
<1>10. map_find_next_index(n, k, i) = FirstOf(n, k, N)  BY DEF map_find_next_index, N
<1>11. map_find_index(n, k) = FirstOf(n, k, Hits(n, k))  BY <1>1, FindIndexProps
<1> QED  BY <1>9, <1>10, <1>11

\* Where the removal of k from m is: the table, and the slot it goes on from.
Cursors(c) == {s \in [map : Maps, at : Nat] : Capacity(s.map) = c}
Stepped(k, c, s) ==
    IF s.at >= c THEN s
    ELSE [map |-> map_remove_at_index(s.map, s.at),
          at |-> map_find_next_index(map_remove_at_index(s.map, s.at), k, s.at)]

\* A step leads to a cursor.
LEMMA SteppedType ==
  ASSUME MapAssumption, BoundsAssumption, NEW k \in Keys, NEW c \in Nat, NEW s \in Cursors(c)
  PROVE  Stepped(k, c, s) \in Cursors(c)
<1> DEFINE x == s.map
           i == s.at
           y == map_remove_at_index(x, i)
           j == map_find_next_index(y, k, i)
<1>1. x \in Maps /\ i \in Nat /\ Capacity(x) = c  BY DEF Cursors
<1>2. CASE i >= c  BY <1>2 DEF Stepped
<1>3. CASE ~(i >= c)
  <2> HIDE DEF x, i
  <2>1. i \in 0..(c - 1) /\ c # 0  BY <1>1, <1>3
  <2>2. y \in Maps /\ Capacity(y) = c  BY <1>1, <2>1, RemoveShape DEF Differs
  <2>3. j \in 0..c
    <3> HIDE DEF y
    <3> DEFINE N == {q \in Scanned(y, k) :
                   /\ SlotAt(y, k, q) # TOMB /\ SlotAt(y, k, q).key = k
                   /\ At(y, k, q) # i
                   /\ \E u \in 0..q : At(y, k, u) = i}
    <3>1. j = FirstOf(y, k, N)  BY DEF map_find_next_index
    <3>2. N \subseteq Nat  BY <2>2, ScanProps
    <3> HIDE DEF N
    <3>3. Capacity(y) # 0  BY <2>1, <2>2
    <3>4. FirstOf(y, k, N) \in 0..Capacity(y)  BY <2>2, <3>2, <3>3, FirstOfProps
    <3> QED  BY <2>2, <3>1, <3>4
  <2> HIDE DEF y, j
  <2>4. [map |-> y, at |-> j] \in Cursors(c)  BY <1>1, <2>2, <2>3 DEF Cursors
  <2>5. Stepped(k, c, s) = [map |-> y, at |-> j]  BY <1>3 DEF Stepped, y, j, x, i
  <2> QED  BY <2>4, <2>5
<1> QED  BY <1>2, <1>3

\* The removal is a run of such steps.
LEMMA RemovalRuns ==
  ASSUME MapAssumption, BoundsAssumption, NEW m \in Maps, NEW k \in Keys
  PROVE  \E to \in [0..Capacity(m) -> Cursors(Capacity(m))] :
           /\ to[0] = [map |-> m, at |-> map_find_index(m, k)]
           /\ \A j \in 1..Capacity(m) : to[j] = Stepped(k, Capacity(m), to[j - 1])
           /\ map_remove_all(m, k) = to[Capacity(m)].map
<1> DEFINE n == Capacity(m)
           a == [map |-> m, at |-> map_find_index(m, k)]
           S == Cursors(n)
           F == [j \in Nat |-> [s \in S |-> Stepped(k, n, s)]]
           Is(f) == f = [i \in 0..n |-> IF i = 0 THEN a ELSE Stepped(k, n, f[i - 1])]
           g == CHOOSE f : Is(f)
<1>1. n \in Nat  BY MapShape
<1>2. a \in S
  <2>1. map_find_index(m, k) \in Nat  BY <1>1, FindIndexProps
  <2> QED  BY <2>1 DEF Cursors
<1>3. F \in [Nat -> [S -> S]]
  <2> HIDE DEF n
  <2> QED  BY <1>1, SteppedType
<1>4. \A j \in Nat, r \in S : F[j][r] = Stepped(k, n, r)  OBVIOUS
<1>5. map_remove_all(m, k) = g[n].map  BY DEF map_remove_all, Stepped
<1> HIDE DEF F, S, a, n, g
<1>6. PICK f \in [0..n -> S] : f[0] = a /\ \A j \in 1..n : f[j] = F[j][f[j - 1]]
  <2>1. Loop(S, a, F, n)  BY <1>1, <1>2, <1>3 DEF Loop
  <2>2. \E f : RunOf(S, a, F, n, f)  BY <2>1, LoopRuns
  <2> QED  BY <2>2 DEF RunOf
<1>7. ASSUME NEW j \in 1..n PROVE f[j] = Stepped(k, n, f[j - 1])
  <2>1. j - 1 \in 0..n /\ j \in Nat  BY <1>1
  <2>2. f[j - 1] \in S  BY <1>6, <2>1
  <2> QED  BY <1>4, <1>6, <2>1, <2>2
<1>8. Is(f)
  <2>1. \A i \in 0..n : i # 0 => i \in 1..n  BY <1>1
  <2>2. \A i \in 0..n : f[i] = IF i = 0 THEN a ELSE Stepped(k, n, f[i - 1])  BY <1>6, <1>7, <2>1
  <2> QED  BY <1>6, <2>2
<1>9. Is(g)  BY <1>8 DEF g
<1> HIDE DEF Is
<1>10. \A i \in 0..n : g[i] = IF i = 0 THEN a ELSE Stepped(k, n, g[i - 1])  BY <1>9 DEF Is
<1>11. g[0] = a /\ \A j \in 1..n : g[j] = Stepped(k, n, g[j - 1])
  <2>1. 0 \in 0..n /\ \A j \in 1..n : j \in 0..n /\ j # 0  BY <1>1
  <2> QED  BY <1>10, <2>1
<1>12. \A j \in 0..n : g[j] \in S
  <2>1. \A j \in 1..n : g[j - 1] \in S => g[j] \in S
    <3> SUFFICES ASSUME NEW j \in 1..n, g[j - 1] \in S PROVE g[j] \in S  OBVIOUS
    <3>1. Stepped(k, n, g[j - 1]) \in S  BY <1>1, SteppedType DEF S
    <3> QED  BY <1>11, <3>1
  <2>2. g[0] \in S  BY <1>2, <1>11
  <2> QED  BY <1>1, <2>1, <2>2, AllTheWay
<1>13. g \in [0..n -> S]
  <2>1. g = [i \in 0..n |-> IF i = 0 THEN a ELSE Stepped(k, n, g[i - 1])]  BY <1>9 DEF Is
  <2> QED  BY <1>12, <2>1
<1> QED  BY <1>5, <1>11, <1>13 DEF S, a, n

\* What the removal of k from m has left: some entries of k are gone, each
\* for a tombstone, and a scan for k looks where it did.
Left(m, k, x) ==
    /\ Sound(x) /\ Capacity(x) = Capacity(m) /\ x.length + x.tombstones = m.length + m.tombstones
    /\ Scanned(x, k) = Scanned(m, k) /\ \A q : At(x, k, q) = At(m, k, q)
    /\ \A P : /\ Holding(x, P) \subseteq Holding(m, P)
              /\ Holding(x, P) \ SlotsOf(m, k) = Holding(m, P) \ SlotsOf(m, k)

\* What is occupied holds some pair.
LEMMA OccupiedHeld ==
  ASSUME MapAssumption, NEW m \in Maps
  PROVE  Occupied(m) = Holding(m, Pairs)
<1>1. \A i : i \in Occupied(m) => i \in Holding(m, Pairs)
  <2> SUFFICES ASSUME NEW i \in Occupied(m) PROVE i \in Holding(m, Pairs)  OBVIOUS
  <2> QED  BY HeldPair
<1>2. Holding(m, Pairs) \subseteq Occupied(m)  BY SlotSets
<1> QED  BY <1>1, <1>2

\* A slot that holds p holds p, and one of k a pair of k.
LEMMA HeldOne ==
  ASSUME MapAssumption, NEW m \in Maps
  PROVE  /\ \A p : \A j \in Holding(m, {p}) : j \in Occupied(m) /\ <<m.slots[j].key, m.slots[j].value>> = p
         /\ \A k : \A j \in SlotsOf(m, k) : /\ j \in Occupied(m) /\ m.slots[j].key = k
                                          /\ <<m.slots[j].key, m.slots[j].value>> \in {k} \X Values
<1>1. ASSUME NEW p, NEW j \in Holding(m, {p})
      PROVE j \in Occupied(m) /\ <<m.slots[j].key, m.slots[j].value>> = p
  BY DEF Holding
<1>2. ASSUME NEW k, NEW j \in SlotsOf(m, k)
      PROVE j \in Occupied(m) /\ m.slots[j].key = k /\ <<m.slots[j].key, m.slots[j].value>> \in {k} \X Values
  BY DEF SlotsOf, Holding
<1> QED  BY <1>1, <1>2

\* One entry of k fewer.
LEMMA LeftLess ==
  ASSUME MapAssumption, BoundsAssumption, NEW m \in Maps, NEW k \in Keys, NEW x, Left(m, k, x), NEW i \in SlotsOf(x, k)
  PROVE  LET y == map_remove_at_index(x, i)
         IN  /\ Left(m, k, y) /\ Differs(x, y, i, TOMB)
             /\ SlotsOf(y, k) = SlotsOf(x, k) \ {i}
<1> DEFINE y == map_remove_at_index(x, i)
<1>1. Sound(x) /\ x \in Maps /\ Capacity(x) = Capacity(m)  BY DEF Left, Sound
<1>2. i \in Occupied(x) /\ i \in SlotsOf(m, k)  BY <1>1, SlotSets DEF Left, SlotsOf
<1>3. PICK p \in Pairs : /\ x.slots[i] = Entry(p) /\ p[1] = x.slots[i].key /\ i \in Holding(x, {p})
                          /\ BagOf(x)[p] \in Nat \ {0}
                          /\ \A P : i \in Holding(x, P) <=> p \in P
  BY <1>1, <1>2, HeldPair
<1>4. Dropped(x, y, i, p)  BY <1>1, <1>2, <1>3, RemoveDrops
<1> HIDE DEF y
<1>5. Sound(y) /\ Differs(x, y, i, TOMB) /\ y.length = x.length - 1 /\ y.tombstones = x.tombstones + 1
  BY <1>4 DEF Dropped
<1>6. \A P : Holding(y, P) = Holding(x, P) \ {i}  BY <1>5, TombSets
<1>7. x.slots[i] # EMPTY  BY <1>2 DEF Occupied
<1>8. Scanned(y, k) = Scanned(x, k) /\ \A q : At(y, k, q) = At(x, k, q)  BY <1>5, <1>7, RemoveHits
<1>9. Capacity(y) = Capacity(m)  BY <1>1, <1>5 DEF Differs
<1>10. y.length + y.tombstones = m.length + m.tombstones
  <2> DEFINE a == x.length
             b == x.tombstones
             c == m.length + m.tombstones
  <2>1. a \in Int /\ b \in Int  BY <1>1, MapShape
  <2>2. a + b = c  BY DEF Left
  <2> HIDE DEF a, b, c
  <2>3. (a - 1) + (b + 1) = c  BY <2>1, <2>2
  <2> QED  BY <1>5, <2>3 DEF a, b, c
<1>11. ASSUME NEW P PROVE /\ Holding(y, P) \subseteq Holding(m, P)
                          /\ Holding(y, P) \ SlotsOf(m, k) = Holding(m, P) \ SlotsOf(m, k)
  <2>1. Holding(x, P) \subseteq Holding(m, P) /\ Holding(x, P) \ SlotsOf(m, k) = Holding(m, P) \ SlotsOf(m, k)  BY DEF Left
  <2>2. Holding(y, P) = Holding(x, P) \ {i}  BY <1>6
  <2> DEFINE A == Holding(x, P)
             B == Holding(m, P)
             C == SlotsOf(m, k)
             D == Holding(y, P)
  <2> HIDE DEF A, B, C, D
  <2>3. A \subseteq B /\ A \ C = B \ C /\ D = A \ {i} /\ i \in C  BY <1>2, <2>1, <2>2 DEF A, B, C, D
  <2>4. D \subseteq B /\ D \ C = B \ C  BY <2>3
  <2> QED  BY <2>4 DEF B, C, D
<1>12. Scanned(y, k) = Scanned(m, k) /\ \A q : At(y, k, q) = At(m, k, q)  BY <1>8 DEF Left
<1>13. Left(m, k, y)  BY <1>5, <1>9, <1>10, <1>11, <1>12 DEF Left
<1>14. SlotsOf(y, k) = SlotsOf(x, k) \ {i}  BY <1>6 DEF SlotsOf
<1> QED  BY <1>5, <1>13, <1>14 DEF y

\* After i steps the removal stands at the next entry of k, if there is one,
\* and has as many fewer to go.
Removing(m, k, i, s) ==
    /\ Left(m, k, s.map) /\ s.at = map_find_index(s.map, k)
    /\ s.at >= Capacity(m) \/ Cardinality(SlotsOf(s.map, k)) + i <= Capacity(m)

\* A step goes on.
LEMMA StepRemoves ==
  ASSUME MapAssumption, BoundsAssumption, NEW m \in Maps, NEW k \in Keys, NEW i \in Nat, NEW s, Removing(m, k, i, s)
  PROVE  Removing(m, k, i + 1, Stepped(k, Capacity(m), s))
<1> DEFINE c == Capacity(m)
           x == s.map
           j == s.at
           r == Stepped(k, c, s)
<1>1. Left(m, k, x) /\ j = map_find_index(x, k) /\ c \in Nat  BY MapShape DEF Removing
<1>2. x \in Maps /\ Capacity(x) = c  BY <1>1 DEF Left, Sound
<1>3. CASE j >= c
  <2>1. r = s  BY <1>3 DEF Stepped
  <2> HIDE DEF r
  <2>2. Removing(m, k, i + 1, r)  BY <1>3, <2>1 DEF Removing
  <2> QED  BY <2>2 DEF r
<1>4. CASE ~(j >= c)
  <2> DEFINE y == map_remove_at_index(x, j)
             n == map_find_next_index(y, k, j)
  <2>1. r = [map |-> y, at |-> n]  BY <1>4 DEF Stepped
  <2>2. j \in 0..c  BY <1>1, <1>2, FindIndexProps
  <2>3. j < c  BY <1>1, <1>4, <2>2
  <2>4. j \in SlotsOf(x, k)
    <3>1. Hits(x, k) # {}  BY <1>1, <1>2, <2>3, FindIndexProps
    <3>2. PICK p \in Hits(x, k) : j = At(x, k, p)  BY <1>1, <1>2, <3>1, FindIndexProps
    <3> QED  BY <1>2, <3>2, HitProps
  <2> HIDE DEF x, j
  <2>5. Left(m, k, y) /\ Differs(x, y, j, TOMB) /\ SlotsOf(y, k) = SlotsOf(x, k) \ {j}  BY <1>1, <2>4, LeftLess
  <2>6. n = map_find_index(y, k)
    <3> HIDE DEF y
    <3>1. j < Capacity(x)  BY <1>2, <2>3
    <3> QED  BY <1>1, <2>5, <3>1, NextIsFirst
  <2> HIDE DEF y, n
  <2>7. Cardinality(SlotsOf(y, k)) + (i + 1) <= c
    <3> DEFINE a == Cardinality(SlotsOf(x, k))
               b == Cardinality(SlotsOf(y, k))
    <3>1. IsFiniteSet(SlotsOf(x, k)) /\ a \in Nat  BY <1>2, SlotsFinite DEF SlotsOf
    <3>2. b = a - 1
      <4> DEFINE S == SlotsOf(x, k)
      <4>1. IsFiniteSet(S) /\ j \in S /\ SlotsOf(y, k) = S \ {j}  BY <2>4, <2>5, <3>1
      <4> HIDE DEF S
      <4>2. Cardinality(S \ {j}) = Cardinality(S) - 1  BY <4>1, FS_RemoveElement
      <4> QED  BY <4>1, <4>2 DEF S
    <3>3. a + i <= c  BY <1>4 DEF Removing, x, j
    <3> HIDE DEF a, b, c
    <3>4. c \in Nat  BY <1>1
    <3>5. b + (i + 1) <= c  BY <3>1, <3>2, <3>3, <3>4
    <3> QED  BY <3>5 DEF b
  <2>8. r.map = y /\ r.at = n  BY <2>1
  <2> HIDE DEF r
  <2>9. Removing(m, k, i + 1, r)  BY <2>5, <2>6, <2>7, <2>8 DEF Removing
  <2> QED  BY <2>9 DEF r
<1> QED  BY <1>3, <1>4

\* In the end the removal has taken every entry of k.
LEMMA RemovalEnds ==
  ASSUME MapAssumption, BoundsAssumption, NEW m, Sound(m), NEW k \in Keys
  PROVE  Left(m, k, map_remove_all(m, k)) /\ SlotsOf(map_remove_all(m, k), k) = {}
<1> DEFINE n == Capacity(m)
           y == map_remove_all(m, k)
<1>1. n \in Nat /\ m \in Maps  BY MapShape DEF Sound
<1>2. PICK to \in [0..n -> Cursors(n)] :
        /\ to[0] = [map |-> m, at |-> map_find_index(m, k)]
        /\ \A j \in 1..n : to[j] = Stepped(k, n, to[j - 1])
        /\ map_remove_all(m, k) = to[n].map
  BY <1>1, RemovalRuns
<1> HIDE DEF n
<1> DEFINE S == {j \in Nat : j <= n => Removing(m, k, j, to[j])}
<1>3. 0 \in S
  <2>1. to[0].map = m /\ to[0].at = map_find_index(m, k)  BY <1>2
  <2>2. Left(m, k, m)  BY DEF Left
  <2>3. Cardinality(SlotsOf(m, k)) + 0 <= Capacity(m)
    <3> DEFINE a == Cardinality(SlotsOf(m, k))
               b == Cardinality(Occupied(m))
               t == Cardinality(Tombs(m))
    <3>1. a \in Nat /\ b \in Nat /\ t \in Nat /\ a <= b /\ b + t <= n /\ n \in Nat
      BY <1>1, SlotsFinite DEF SlotsOf, n
    <3> HIDE DEF a, b, t
    <3>2. a + 0 <= n  BY <3>1
    <3> QED  BY <3>2 DEF a, n
  <2>4. Removing(m, k, 0, to[0])  BY <2>1, <2>2, <2>3 DEF Removing
  <2> QED  BY <2>4
<1>4. ASSUME NEW j \in Nat, j \in S PROVE j + 1 \in S
  <2> SUFFICES ASSUME j + 1 <= n PROVE Removing(m, k, j + 1, to[j + 1])  OBVIOUS
  <2>1. j \in 0..n /\ j + 1 \in 1..n /\ (j + 1) - 1 = j  BY <1>1
  <2>2. Removing(m, k, j, to[j])  BY <1>4, <2>1
  <2>3. to[j + 1] = Stepped(k, n, to[j])  BY <1>2, <2>1
  <2> QED  BY <1>1, <2>2, <2>3, StepRemoves DEF n
<1> HIDE DEF S
<1>5. n \in S
  <2>1. n \in Nat  BY <1>1
  <2> QED  BY <1>3, <1>4, <2>1, SetInduction
<1> DEFINE s == to[n]
<1>6. Removing(m, k, n, s) /\ y = s.map  BY <1>1, <1>2, <1>5 DEF S
<1> HIDE DEF y, s
<1>7. Left(m, k, y)  BY <1>6 DEF Removing
<1>8. y \in Maps /\ Findable(y) /\ Capacity(y) = n  BY <1>7 DEF Left, Sound, n
<1>9. SlotsOf(y, k) = {}
  <2>1. CASE s.at >= n
    <3>1. ~(map_find_index(y, k) < Capacity(y))
      <4>1. map_find_index(y, k) \in 0..n  BY <1>8, FindIndexProps
      <4>2. map_find_index(y, k) = s.at  BY <1>6 DEF Removing
      <4> QED  BY <1>1, <1>8, <2>1, <4>1, <4>2
    <3>2. Hits(y, k) = {}  BY <1>8, <3>1, FindIndexProps
    <3> QED  BY <1>8, <3>2 DEF Findable
  <2>2. CASE ~(s.at >= n)
    <3> DEFINE a == Cardinality(SlotsOf(y, k))
    <3>1. a \in Nat /\ IsFiniteSet(SlotsOf(y, k))  BY <1>8, SlotsFinite DEF SlotsOf
    <3>2. a + n <= n  BY <1>6, <2>2 DEF Removing, n
    <3>3. a = 0
      <4> HIDE DEF a
      <4> QED  BY <1>1, <3>1, <3>2
    <3> QED  BY <3>1, <3>3, FS_EmptySet
  <2> QED  BY <2>1, <2>2
<1> QED  BY <1>7, <1>9 DEF y

\* Then no slot that k had is occupied.
LEMMA NoneLeft ==
  ASSUME MapAssumption, NEW m \in Maps, NEW k, NEW n, Left(m, k, n), SlotsOf(n, k) = {}
  PROVE  \A P : Holding(n, P) \cap SlotsOf(m, k) = {}
<1> SUFFICES ASSUME NEW P, NEW j, j \in Holding(n, P), j \in SlotsOf(m, k) PROVE FALSE  OBVIOUS
<1>1. n \in Maps  BY DEF Left, Sound
<1>2. j \in Occupied(n)  BY <1>1, SlotSets
<1>3. PICK q \in Pairs : /\ n.slots[j] = Entry(q) /\ q[1] = n.slots[j].key /\ j \in Holding(n, {q})
                         /\ BagOf(n)[q] \in Nat \ {0}
                         /\ \A Q : j \in Holding(n, Q) <=> q \in Q
  BY <1>1, <1>2, HeldPair
<1>4. j \in Holding(m, {q})  BY <1>3 DEF Left
<1>5. <<m.slots[j].key, m.slots[j].value>> = q /\ m.slots[j].key = k  BY <1>4, HeldOne
<1>6. q[1] = k  BY <1>5
<1>7. j \in SlotsOf(n, k)  BY <1>1, <1>2, <1>3, <1>6, SlotSets
<1> QED  BY <1>7

\* n is m without the entries that hold a pair of P.
WithoutPairs(m, P, n) ==
    /\ Sound(n) /\ BagOf(n) = [p \in Pairs |-> IF p \in P THEN 0 ELSE BagOf(m)[p]]
    /\ n.length = m.length - Cardinality(Holding(m, P)) /\ n.length \in Nat

\* The entries of k are gone and no other is.
LEMMA RemoveAllRemoves ==
  ASSUME MapAssumption, BoundsAssumption, NEW m, Sound(m), NEW k \in Keys
  PROVE  WithoutPairs(m, {k} \X Values, map_remove_all(m, k))
<1> DEFINE n == map_remove_all(m, k)
           K == {k} \X Values
           S == SlotsOf(m, k)
<1>1. Left(m, k, n) /\ SlotsOf(n, k) = {}  BY RemovalEnds
<1> HIDE DEF n
<1>2. m \in Maps /\ n \in Maps /\ Sound(n) /\ Counted(m) /\ Counted(n)  BY <1>1 DEF Left, Sound
<1>3. \A P : Holding(n, P) \cap S = {}  BY <1>1, <1>2, NoneLeft
<1>4. \A P : Holding(n, P) = Holding(m, P) \ S
  <2> SUFFICES ASSUME NEW P PROVE Holding(n, P) = Holding(m, P) \ S  OBVIOUS
  <2>1. Holding(n, P) \ S = Holding(m, P) \ S  BY <1>1 DEF Left
  <2>2. Holding(n, P) \cap S = {}  BY <1>3
  <2> QED  BY <2>1, <2>2
<1>5. Occupied(n) = Occupied(m) \ S /\ S \subseteq Occupied(m)
  BY <1>2, <1>4, OccupiedHeld, SlotSets DEF SlotsOf
<1>6. n.length = m.length - Cardinality(S) /\ n.length \in Nat
  <2>1. IsFiniteSet(Occupied(m)) /\ Cardinality(Occupied(m)) \in Nat /\ Cardinality(Occupied(n)) \in Nat  BY <1>2, SlotsFinite
  <2>2. Occupied(m) \cap S = S  BY <1>5
  <2>3. Cardinality(Occupied(n)) = Cardinality(Occupied(m)) - Cardinality(S)
    <3>1. Cardinality(Occupied(m) \ S) = Cardinality(Occupied(m)) - Cardinality(Occupied(m) \cap S)
      BY <2>1, FS_Difference
    <3> QED  BY <1>5, <2>2, <3>1
  <2> QED  BY <1>2, <2>1, <2>3 DEF Counted
<1>7. ASSUME NEW p \in Pairs
      PROVE Cardinality(Holding(n, {p})) = IF p \in K THEN 0 ELSE Cardinality(Holding(m, {p}))
  <2>1. CASE p \in K
    <3>1. Holding(m, {p}) \subseteq S
      <4> SUFFICES ASSUME NEW j \in Holding(m, {p}) PROVE j \in S  OBVIOUS
      <4>1. j \in Occupied(m) /\ <<m.slots[j].key, m.slots[j].value>> \in K  BY <1>2, <2>1, HeldOne
      <4> QED  BY <4>1 DEF SlotsOf, Holding
    <3>2. Holding(n, {p}) = {}  BY <1>4, <3>1
    <3> QED  BY <2>1, <3>2, FS_EmptySet
  <2>2. CASE p \notin K
    <3>1. Holding(m, {p}) \cap S = {}
      <4> SUFFICES ASSUME NEW j, j \in Holding(m, {p}), j \in S PROVE FALSE  OBVIOUS
      <4>1. <<m.slots[j].key, m.slots[j].value>> = p  BY <1>2, HeldOne
      <4>2. <<m.slots[j].key, m.slots[j].value>> \in K  BY <1>2, HeldOne
      <4> QED  BY <2>2, <4>1, <4>2
    <3>2. Holding(n, {p}) = Holding(m, {p})  BY <1>4, <3>1
    <3> QED  BY <2>2, <3>2
  <2> QED  BY <2>1, <2>2
<1>8. BagOf(n) = [p \in Pairs |-> IF p \in K THEN 0 ELSE BagOf(m)[p]]  BY <1>7 DEF BagOf
<1>9. WithoutPairs(m, K, n)  BY <1>2, <1>6, <1>8 DEF WithoutPairs, SlotsOf
<1> QED  BY <1>9 DEF n

------------------------------------------------------------------------------
\* The other calls that change entries.

\* n is what MapSetOnly makes of m: p for all that its key held.
ReplacedBy(m, p, n) ==
    /\ Sound(n) /\ n.length <= m.length + 1
    /\ BagOf(n) = [[q \in Pairs |-> IF q \in {p[1]} \X Values THEN 0 ELSE BagOf(m)[q]] EXCEPT ![p] = @ + 1]

\* An entry for p fits where one of its key was.
LEMMA ReplaceReplaces ==
  ASSUME MapAssumption, BoundsAssumption, NEW m, Sound(m), NEW p \in Pairs,
         map_find_index(m, p[1]) < Capacity(m)
  PROVE  Replace(m, p).ok = TRUE /\ ReplacedBy(m, p, Replace(m, p).map)
<1> DEFINE k == p[1]
           x == map_remove_all(m, k)
           i == InsertIndex(x, k)
           y == Fill(x, i, Entry(p))
           r == Replace(m, p)
<1>1. k \in Keys /\ m \in Maps  BY DEF Pairs, Sound
<1>2. Left(m, k, x) /\ SlotsOf(x, k) = {} /\ WithoutPairs(m, {k} \X Values, x)  BY <1>1, RemovalEnds, RemoveAllRemoves
<1>3. map_find_index(m, k) < Capacity(m)  OBVIOUS
<1> HIDE DEF k, x
<1>4. Sound(x) /\ x \in Maps /\ Capacity(x) = Capacity(m) /\ Capacity(m) \in Nat  BY <1>1, <1>2, MapShape DEF Left, Sound
<1>5. PICK u \in Hits(m, k) : map_find_index(m, k) = At(m, k, u) /\ \A q \in Hits(m, k) : u <= q
  <2>1. Hits(m, k) # {}  BY <1>1, <1>3, <1>4, FindIndexProps
  <2> QED  BY <1>1, <2>1, FindIndexProps
<1>6. u \in Scanned(x, k) /\ At(x, k, u) = At(m, k, u) /\ At(m, k, u) \in SlotsOf(m, k) /\ At(m, k, u) \in 0..(Capacity(m) - 1)
  BY <1>1, <1>2, <1>5, HitProps DEF Left
<1>7. SlotAt(x, k, u) = TOMB
  <2> DEFINE j == At(m, k, u)
  <2>1. SlotAt(x, k, u) = x.slots[j]  BY <1>6 DEF SlotAt
  <2>2. SlotAt(x, k, u) # EMPTY  BY <1>1, <1>4, <1>6, ScanProps
  <2>3. j \notin Holding(x, Pairs)  BY <1>1, <1>2, <1>6, NoneLeft
  <2>4. j \notin Occupied(x)  BY <1>4, <2>3, OccupiedHeld
  <2>5. x.slots[j] \notin Entries  BY <1>4, <1>6, <2>4, SlotSets
  <2>6. x.slots[j] \in Slot  BY <1>4, <1>6, MapShape
  <2> HIDE DEF j
  <2> QED  BY <2>1, <2>2, <2>5, <2>6, SlotProps
<1>8. i < Capacity(x) /\ x.slots[i] = TOMB  BY <1>1, <1>4, <1>6, <1>7, ReusesTomb
<1>9. i \in 0..(Capacity(x) - 1)
  <2>1. i \in 0..Capacity(x)  BY <1>1, <1>4, InsertIndexProps
  <2> QED  BY <1>4, <1>8, <2>1
<1>10. Stored(x, y, p)  BY <1>4, <1>8, InsertStores DEF Sound, k
<1>11. y.tombstones = x.tombstones - 1  BY <1>4, <1>8, <1>9, FillCounts DEF Sound
<1>12. r.ok = TRUE /\ r.map = y
  <2>1. Entry(p).key = k  BY SlotProps DEF k
  <2> DEFINE raw == map_insert_raw_entry(x, Entry(p))
  <2>2. ~(i >= Capacity(x))  BY <1>4, <1>8, <1>9
  <2>3. raw = [map |-> y, ok |-> TRUE]  BY <2>1, <2>2 DEF map_insert_raw_entry
  <2>4. r = Kept(raw.ok, FALSE, raw.map)  BY DEF Replace, Replaced, x, k
  <2> HIDE DEF y, raw, r
  <2>5. r = Kept(TRUE, FALSE, y)  BY <2>3, <2>4
  <2> QED  BY <2>5 DEF Kept
<1> HIDE DEF i, y, r
<1>13. Sound(y)
  <2> DEFINE a == x.length
             b == x.tombstones
             c == Capacity(x)
  <2>1. y \in Maps /\ Counted(y) /\ Findable(y) /\ Capacity(y) = c /\ y.length = a + 1 /\ y.tombstones = b - 1
    BY <1>10, <1>11 DEF Stored
  <2>2. a \in Nat /\ b \in Nat /\ c \in Nat  BY <1>4, TombsBound DEF Sound
  <2>3. 4 * (a + b) <= 3 * c /\ c <= MaxCapacity  BY <1>4 DEF Sound, Roomful
  <2> HIDE DEF a, b, c
  <2>4. 4 * ((a + 1) + (b - 1)) <= 3 * c  BY <2>2, <2>3
  <2>5. Roomful(y)  BY <2>1, <2>4 DEF Roomful
  <2> QED  BY <2>1, <2>3, <2>5 DEF Sound
<1>14. y.length <= m.length + 1
  <2> DEFINE a == x.length
             b == m.length
             d == Cardinality(Holding(m, {k} \X Values))
  <2>1. a = b - d  BY <1>2 DEF WithoutPairs
  <2>2. b \in Int /\ d \in Nat  BY <1>1, MapShape, SlotsFinite
  <2>3. y.length = a + 1  BY <1>10 DEF Stored
  <2> HIDE DEF a, b, d
  <2>4. a + 1 <= b + 1  BY <2>1, <2>2
  <2> QED  BY <2>3, <2>4 DEF b
<1>15. BagOf(y) = [[q \in Pairs |-> IF q \in {k} \X Values THEN 0 ELSE BagOf(m)[q]] EXCEPT ![p] = @ + 1]
  <2>1. BagOf(y) = [BagOf(x) EXCEPT ![p] = @ + 1]  BY <1>10 DEF Stored
  <2>2. BagOf(x) = [q \in Pairs |-> IF q \in {k} \X Values THEN 0 ELSE BagOf(m)[q]]  BY <1>2 DEF WithoutPairs
  <2> QED  BY <2>1, <2>2
<1>16. ReplacedBy(m, p, y)  BY <1>13, <1>14, <1>15 DEF ReplacedBy, k
<1> QED  BY <1>12, <1>16 DEF r

\* What MapSetOnly may do to m.
SetTo(m, p, r) ==
    /\ r.ok \in BOOLEAN
    /\ r.retried \/ (~r.ok /\ Same(m, r.map)) \/ (r.ok /\ ReplacedBy(m, p, r.map))

\* A key that no lookup finds holds nothing.
LEMMA NotFound ==
  ASSUME MapAssumption, NEW m, Sound(m), NEW k \in Keys, ~(map_find_index(m, k) < Capacity(m))
  PROVE  SlotsOf(m, k) = {} /\ \A q \in Pairs : q \in {k} \X Values => BagOf(m)[q] = 0
<1>1. m \in Maps /\ Findable(m)  BY DEF Sound
<1>2. Hits(m, k) = {}  BY <1>1, FindIndexProps
<1>3. SlotsOf(m, k) = {}  BY <1>1, <1>2 DEF Findable
<1>4. ASSUME NEW q \in Pairs, q \in {k} \X Values PROVE BagOf(m)[q] = 0
  <2>1. Holding(m, {q}) = {}
    <3> SUFFICES ASSUME NEW j \in Holding(m, {q}) PROVE FALSE  OBVIOUS
    <3>1. j \in Occupied(m) /\ <<m.slots[j].key, m.slots[j].value>> = q  BY <1>1, HeldOne
    <3>2. m.slots[j].key = k  BY <1>4, <3>1
    <3> QED  BY <1>1, <1>3, <3>1, <3>2, SlotSets
  <2> QED  BY <2>1, FS_EmptySet DEF BagOf
<1> QED  BY <1>3, <1>4

\* MapSetOnly does what it should, or keeps what there is.
LEMMA SetOnlySets ==
  ASSUME MapAssumption, BoundsAssumption, NEW m, Sound(m), NEW p \in Pairs, NEW noMem \in NoMem,
         NEW copied \in BOOLEAN
  PROVE  SetTo(m, p, map_set_only(m, p, noMem, copied))
<1> DEFINE k == p[1]
           r == map_set_only(m, p, noMem, copied)
           j == map_find_index(m, k)
<1>1. k \in Keys /\ m \in Maps  BY DEF Pairs, Sound
<1>2. j \in 0..Capacity(m) /\ Capacity(m) \in Nat  BY <1>1, FindIndexProps, MapShape
<1>3. CASE j >= Capacity(m)
  <2>1. r = map_insert(m, p, noMem, copied)  BY <1>3 DEF map_set_only
  <2>2. ~(j < Capacity(m))  BY <1>2, <1>3
  <2>3. Inserted(m, p, r)  BY <2>1, InsertAdds
  <2> HIDE DEF r
  <2>4. ASSUME Gained(m, r.map, p) PROVE ReplacedBy(m, p, r.map)
    <3> DEFINE y == r.map
               b == BagOf(m)
               w == [q \in Pairs |-> IF q \in {k} \X Values THEN 0 ELSE b[q]]
    <3>1. Sound(y) /\ BagOf(y) = [b EXCEPT ![p] = @ + 1] /\ y.length = m.length + 1  BY <2>4 DEF Gained
    <3>2. \A q \in Pairs : q \in {k} \X Values => b[q] = 0  BY <1>1, <2>2, NotFound
    <3>3. DOMAIN b = Pairs /\ b = [q \in Pairs |-> b[q]]  BY DEF BagOf
    <3> HIDE DEF b, y
    <3>4. w = b  BY <3>2, <3>3
    <3>5. y.length <= m.length + 1
      <4>1. m.length \in Int  BY <1>1, MapShape
      <4> QED  BY <3>1, <4>1
    <3>6. BagOf(y) = [w EXCEPT ![p] = @ + 1]  BY <3>1, <3>4
    <3>7. ReplacedBy(m, p, y)  BY <3>1, <3>5, <3>6 DEF ReplacedBy, k, b
    <3> QED  BY <3>7 DEF y
  <2>5. SetTo(m, p, r)  BY <2>3, <2>4 DEF SetTo, Inserted
  <2> QED  BY <2>5 DEF r
<1>4. CASE ~(j >= Capacity(m)) /\ copied
  <2>1. r = Replace(m, p)  BY <1>4 DEF map_set_only
  <2>2. j < Capacity(m)  BY <1>2, <1>4
  <2>3. Replace(m, p).ok = TRUE /\ ReplacedBy(m, p, Replace(m, p).map)  BY <2>2, ReplaceReplaces
  <2> HIDE DEF r
  <2>4. SetTo(m, p, r)  BY <2>1, <2>3 DEF SetTo
  <2> QED  BY <2>4 DEF r
<1>5. CASE ~(j >= Capacity(m)) /\ ~copied
  <2>1. r = Kept(FALSE, FALSE, m)  BY <1>5 DEF map_set_only
  <2> HIDE DEF r
  <2>2. r.ok = FALSE /\ r.map = m  BY <1>1, <2>1, KeptProps
  <2>3. SetTo(m, p, r)  BY <2>2 DEF SetTo, Same
  <2> QED  BY <2>3 DEF r
<1> QED  BY <1>3, <1>4, <1>5

\* n is m with other slots and counters.
Reslotted(m, n, s, l, t) ==
    /\ n \in Maps /\ n.slots = s /\ n.length = l /\ n.tombstones = t
    /\ n.policy = m.policy /\ Capacity(n) = Capacity(m)

\* Such a table is a map.
LEMMA Reslot ==
  ASSUME MapAssumption, NEW m \in Maps, NEW s \in [0..(Capacity(m) - 1) -> Slot], NEW l \in Int, NEW t \in Nat
  PROVE  Reslotted(m, [m EXCEPT !.slots = s, !.length = l, !.tombstones = t], s, l, t)
<1> DEFINE n == [m EXCEPT !.slots = s, !.length = l, !.tombstones = t]
           f == m.policy
           c == Capacity(m)
<1>1. n = [slots |-> s, length |-> l, tombstones |-> t, policy |-> f]
  <2>1. m = [slots |-> m.slots, length |-> m.length, tombstones |-> m.tombstones, policy |-> m.policy]  BY MapIs
  <2>2. n = [m EXCEPT !.slots = s, !.length = l, !.tombstones = t]  OBVIOUS
  <2> HIDE DEF n
  <2> QED  BY <2>1, <2>2
<1>2. c \in Tables \cup {0} /\ f \in Policies /\ DOMAIN m.slots = 0..(c - 1)  BY MapShape
<1>3. DOMAIN s = DOMAIN m.slots  BY <1>2
<1>4. s \in Slotted  BY <1>2 DEF Slotted
<1> HIDE DEF n, f
<1>5. n \in Maps  BY <1>1, <1>2, <1>4 DEF Maps
<1>6. n.slots = s /\ n.length = l /\ n.tombstones = t /\ n.policy = f  BY <1>1
<1>7. Capacity(n) = Capacity(m)  BY <1>3, <1>6 DEF Capacity
<1>8. Reslotted(m, n, s, l, t)  BY <1>5, <1>6, <1>7 DEF Reslotted, f
<1> QED  BY <1>8 DEF n

\* n is m with an entry for p where one of its key was.
Revalued(m, p, n) ==
    /\ Sound(n) /\ n.length = m.length
    /\ \E q \in {p[1]} \X Values : /\ q \in Pairs /\ BagOf(m)[q] \in Nat \ {0}
                                  /\ BagOf(n) = [[BagOf(m) EXCEPT ![q] = @ - 1] EXCEPT ![p] = @ + 1]

\* MapSetFirst gives the first entry of the key its value.
LEMMA SetFirstSets ==
  ASSUME MapAssumption, BoundsAssumption, NEW m, Sound(m), NEW p \in Pairs,
         map_find_index(m, p[1]) < Capacity(m)
  PROVE  Revalued(m, p, [m EXCEPT !.slots[map_find_index(m, p[1])] = Entry(p)])
<1> DEFINE k == p[1]
           i == map_find_index(m, k)
           e == Entry(p)
           s == [m.slots EXCEPT ![i] = e]
           n == [m EXCEPT !.slots[i] = e]
<1>1. k \in Keys /\ m \in Maps /\ p[2] \in Values /\ p = <<k, p[2]>>  BY DEF Pairs, Sound
<1>2. e \in Entries /\ e \in Slot /\ e.key = k /\ e # TOMB /\ e # EMPTY  BY SlotProps DEF Slot
<1>3. i \in SlotsOf(m, k) /\ i \in Occupied(m) /\ i \in 0..(Capacity(m) - 1)
  <2>1. Hits(m, k) # {}  BY <1>1, FindIndexProps
  <2>2. PICK u \in Hits(m, k) : map_find_index(m, k) = At(m, k, u) /\ \A q \in Hits(m, k) : u <= q
    BY <1>1, <2>1, FindIndexProps
  <2> QED  BY <1>1, <2>2, HitProps
<1> HIDE DEF k, i, e
<1>4. n = [m EXCEPT !.slots = s, !.length = m.length, !.tombstones = m.tombstones]
  <2>1. m = [slots |-> m.slots, length |-> m.length, tombstones |-> m.tombstones, policy |-> m.policy]  BY <1>1, MapIs
  <2>2. n = [m EXCEPT !.slots = s]  OBVIOUS
  <2> HIDE DEF n, s
  <2> QED  BY <2>1, <2>2
<1>5. s \in [0..(Capacity(m) - 1) -> Slot] /\ m.length \in Int /\ m.tombstones \in Nat  BY <1>1, <1>2, MapShape
<1> HIDE DEF s, n
<1>6. Reslotted(m, n, s, m.length, m.tombstones)  BY <1>1, <1>4, <1>5, Reslot
<1>7. Differs(m, n, i, e)  BY <1>1, <1>2, <1>3, <1>6 DEF Differs, Reslotted, s
<1>8. Occupied(n) = Occupied(m) \cup {i} /\ Tombs(n) = Tombs(m) \ {i} /\ Gains(m, n, i, p)
  BY <1>7, EntrySets DEF e
<1>9. Occupied(n) = Occupied(m) /\ Tombs(n) = Tombs(m)
  <2>1. i \notin Tombs(m)  BY <1>1, <1>3, SlotSets, SlotProps
  <2> QED  BY <1>3, <1>8, <2>1
<1>10. n \in Maps /\ Capacity(n) = Capacity(m) /\ n.length = m.length /\ n.tombstones = m.tombstones
  BY <1>6 DEF Reslotted
<1>11. Counted(n) /\ Roomful(n)  BY <1>9, <1>10 DEF Sound, Counted, Roomful
<1>12. Findable(n)
  <2> SUFFICES ASSUME NEW h \in Keys, NEW j \in SlotsOf(n, h) PROVE \E u \in Hits(n, h) : At(n, h, u) = j
    BY DEF Findable
  <2>1. j # i \/ j \in SlotsOf(m, h)
    <3> SUFFICES ASSUME j = i PROVE j \in SlotsOf(m, h)  OBVIOUS
    <3>1. n.slots[i] = e  BY <1>7, DiffersProps
    <3>2. n.slots[j].key = h  BY <1>10, SlotSets
    <3>3. h = k  BY <1>2, <3>1, <3>2
    <3> QED  BY <1>3, <3>3
  <2>2. Findable(m) /\ e # EMPTY  BY <1>2 DEF Sound
  <2> QED  BY <1>7, <2>1, <2>2, FoundAfter
<1>13. Sound(n)  BY <1>10, <1>11, <1>12 DEF Sound
<1>14. PICK q \in Pairs : /\ m.slots[i] = Entry(q) /\ q[1] = m.slots[i].key /\ i \in Holding(m, {q})
                          /\ BagOf(m)[q] \in Nat \ {0}
                          /\ \A P : i \in Holding(m, P) <=> q \in P
  BY <1>1, <1>3, HeldPair
<1>15. q \in {k} \X Values
  <2>1. m.slots[i].key = k  BY <1>3 DEF SlotsOf, Holding
  <2> QED  BY <1>14, <2>1 DEF Pairs
<1>16. BagOf(n) = [[BagOf(m) EXCEPT ![q] = @ - 1] EXCEPT ![p] = @ + 1]
  <2> DEFINE a(r) == Cardinality(Holding(m, {r}))
             b(r) == Cardinality(Holding(n, {r}))
  <2>1. \A r \in Pairs : i \in Holding(m, {r}) <=> r = q  BY <1>14
  <2>2. \A r \in Pairs : IsFiniteSet(Holding(m, {r})) /\ a(r) \in Nat  BY <1>1, SlotsFinite
  <2>3. ASSUME NEW r \in Pairs
        PROVE b(r) = IF r = p THEN (IF r = q THEN a(r) ELSE a(r) + 1) ELSE IF r = q THEN a(r) - 1 ELSE a(r)
    <3>1. CASE r = p
      <4>1. Holding(n, {r}) = Holding(m, {r}) \cup {i}  BY <1>8, <3>1 DEF Gains
      <4>2. b(r) = IF i \in Holding(m, {r}) THEN a(r) ELSE a(r) + 1  BY <2>2, <4>1, FS_AddElement
      <4> QED  BY <2>1, <3>1, <4>2
    <3>2. CASE r # p
      <4>1. Holding(n, {r}) = Holding(m, {r}) \ {i}  BY <1>8, <3>2 DEF Gains
      <4>2. b(r) = IF i \in Holding(m, {r}) THEN a(r) - 1 ELSE a(r)  BY <2>2, <4>1, FS_RemoveElement
      <4> QED  BY <2>1, <3>2, <4>2
    <3> QED  BY <3>1, <3>2
  <2> DEFINE A == BagOf(m)
             B == BagOf(n)
  <2>4. \A r \in Pairs : A[r] = a(r) /\ B[r] = b(r)  BY DEF BagOf
  <2>5. DOMAIN A = Pairs /\ A = [r \in Pairs |-> A[r]] /\ B = [r \in Pairs |-> B[r]]  BY DEF BagOf
  <2> HIDE DEF A, B
  <2>6. \A r \in Pairs : A[r] \in Nat  BY <2>2, <2>4
  <2> DEFINE C == [[A EXCEPT ![q] = @ - 1] EXCEPT ![p] = @ + 1]
  <2>7. \A r \in Pairs : C[r] = IF r = p THEN (IF r = q THEN A[r] - 1 + 1 ELSE A[r] + 1)
                                ELSE IF r = q THEN A[r] - 1 ELSE A[r]  BY <2>5
  <2>8. C = [r \in Pairs |-> C[r]]  BY <2>5
  <2> HIDE DEF C
  <2>9. ASSUME NEW r \in Pairs PROVE B[r] = C[r]
    <3>1. A[r] - 1 + 1 = A[r]  BY <2>6
    <3>2. B[r] = IF r = p THEN (IF r = q THEN A[r] ELSE A[r] + 1) ELSE IF r = q THEN A[r] - 1 ELSE A[r]
      BY <2>3, <2>4
    <3> HIDE DEF a, b
    <3> QED  BY <2>7, <3>1, <3>2
  <2>10. B = C  BY <2>5, <2>8, <2>9
  <2> QED  BY <2>10 DEF B, C, A
<1>17. Revalued(m, p, n)  BY <1>10, <1>13, <1>14, <1>15, <1>16 DEF Revalued, k
<1> QED  BY <1>17 DEF n, i, e, k

\* MapRemoveIf and MapRetainIf: the slots that hold a pair of P become tombstones.
LEMMA RemoveSlotsRemoves ==
  ASSUME MapAssumption, BoundsAssumption, NEW m, Sound(m), NEW P
  PROVE  WithoutPairs(m, P, RemoveSlots(m, Holding(m, P)))
<1> DEFINE S == Holding(m, P)
           d == Cardinality(S)
           c == Capacity(m)
           s == [i \in DOMAIN m.slots |-> IF i \in S THEN TOMB ELSE m.slots[i]]
           l == m.length - d
           t == (m.tombstones + d) % WordSize
           n == RemoveSlots(m, S)
<1>1. m \in Maps /\ Counted(m) /\ Findable(m) /\ Roomful(m) /\ c <= MaxCapacity  BY DEF Sound
<1>2. n = [m EXCEPT !.slots = s, !.length = l, !.tombstones = t]  BY DEF RemoveSlots
<1>3. IsFiniteSet(S) /\ d \in Nat /\ d <= m.length /\ S \subseteq Occupied(m)
  BY <1>1, SlotsFinite, SlotSets DEF Counted
<1>4. m.slots \in [0..(c - 1) -> Slot] /\ DOMAIN m.slots = 0..(c - 1) /\ c \in Nat  BY <1>1, MapShape
<1> HIDE DEF S
<1>5. s \in [0..(c - 1) -> Slot]  BY <1>4, SlotProps
<1>6. t = m.tombstones + d /\ l \in Nat /\ t \in Nat /\ l + t = m.length + m.tombstones
  <2> DEFINE a == m.length
             b == m.tombstones
             w == WordSize
  <2>1. a \in Nat /\ b \in Nat /\ w \in Nat \ {0} /\ 4 * (a + b + 1) < w  BY <1>1, TombsBound
  <2> HIDE DEF a, b, w, d
  <2>2. d \in Nat /\ d <= a  BY <1>3 DEF a
  <2>3. b + d \in 0..(w - 1) /\ b + d = 0 * w + (b + d) /\ b + d \in Nat  BY <2>1, <2>2
  <2>4. (b + d) % w = b + d  BY <2>1, <2>3, OneRemainder
  <2>5. a - d \in Nat /\ (a - d) + (b + d) = a + b  BY <2>1, <2>2
  <2> QED  BY <2>3, <2>4, <2>5 DEF a, b, w
<1> HIDE DEF s, l, t, n
<1>7. Reslotted(m, n, s, l, t)
  <2>1. l \in Int  BY <1>6
  <2> QED  BY <1>1, <1>2, <1>5, <1>6, <2>1, Reslot
<1>8. n \in Maps /\ n.slots = s /\ n.length = l /\ n.tombstones = t /\ n.policy = m.policy /\ Capacity(n) = c
  BY <1>7 DEF Reslotted
<1>9. \A i \in 0..(c - 1) : n.slots[i] = IF i \in S THEN TOMB ELSE m.slots[i]  BY <1>4, <1>8 DEF s
<1>10. \A i : i \in Occupied(n) <=> i \in Occupied(m) /\ i \notin S
  BY <1>1, <1>8, <1>9, SlotSets, SlotProps
<1>11. \A i : i \in Tombs(n) <=> i \in Tombs(m) \/ i \in S
  <2>1. \A i : i \in S => i \in 0..(c - 1)  BY <1>1, <1>3, SlotSets
  <2> QED  BY <1>1, <1>8, <1>9, <2>1, SlotSets
<1>12. \A Q : Holding(n, Q) = Holding(m, Q) \ S
  <2> SUFFICES ASSUME NEW Q PROVE \A i : i \in Holding(n, Q) <=> i \in Holding(m, Q) /\ i \notin S  OBVIOUS
  <2>1. \A i \in Occupied(n) : n.slots[i] = m.slots[i]  BY <1>1, <1>8, <1>9, <1>10, SlotSets
  <2>2. \A i : i \in Holding(n, Q) <=> i \in Occupied(n) /\ <<n.slots[i].key, n.slots[i].value>> \in Q  BY DEF Holding
  <2>3. \A i : i \in Holding(m, Q) <=> i \in Occupied(m) /\ <<m.slots[i].key, m.slots[i].value>> \in Q  BY DEF Holding
  <2> QED  BY <1>10, <2>1, <2>2, <2>3
<1>13. Counted(n)
  <2>1. Occupied(n) = Occupied(m) \ S /\ Tombs(n) = Tombs(m) \cup S  BY <1>10, <1>11
  <2>2. Occupied(m) \cap S = S /\ Tombs(m) \cap S = {}
    <3>1. Occupied(m) \cap Tombs(m) = {}  BY <1>1, SlotSets, SlotProps
    <3> QED  BY <1>3, <3>1
  <2>3. IsFiniteSet(Occupied(m)) /\ IsFiniteSet(Tombs(m)) /\ Cardinality(Tombs(m)) \in Nat  BY <1>1, SlotsFinite
  <2>4. Cardinality(Occupied(m) \ S) = Cardinality(Occupied(m)) - Cardinality(Occupied(m) \cap S)  BY <2>3, FS_Difference
  <2>5. Cardinality(Tombs(m) \cup S) = Cardinality(Tombs(m)) + Cardinality(S) - Cardinality(Tombs(m) \cap S)
    BY <1>3, <2>3, FS_Union
  <2>6. Cardinality(Occupied(n)) = m.length - d  BY <1>1, <2>1, <2>2, <2>4 DEF Counted
  <2>7. Cardinality(Tombs(n)) = m.tombstones + d
    <3>1. Cardinality(Tombs(n)) = m.tombstones + d - 0  BY <1>1, <2>1, <2>2, <2>5, FS_EmptySet DEF Counted
    <3>2. d - 0 = d  BY <1>3
    <3> QED  BY <3>1, <3>2
  <2> QED  BY <1>6, <1>8, <2>6, <2>7 DEF Counted, l
<1>14. Findable(n)
  <2> SUFFICES ASSUME NEW h \in Keys, NEW j \in SlotsOf(n, h) PROVE \E u \in Hits(n, h) : At(n, h, u) = j
    BY DEF Findable
  <2>1. j \in SlotsOf(m, h) /\ j \notin S  BY <1>12 DEF SlotsOf
  <2>2. PICK u \in Hits(m, h) : At(m, h, u) = j  BY <1>1, <2>1 DEF Findable
  <2>3. j \in Occupied(n) /\ n.slots[j].key = h /\ n.slots[j] # TOMB
    <3>1. j \in Occupied(n) /\ n.slots[j].key = h  BY <1>8, SlotSets
    <3> QED  BY <3>1 DEF Occupied
  <2>4. \A i \in 0..(Capacity(m) - 1) : m.slots[i] # EMPTY => n.slots[i] # EMPTY  BY <1>9, SlotProps
  <2>5. u \in Hits(n, h)  BY <1>1, <1>8, <2>2, <2>3, <2>4, StillFound
  <2>6. At(n, h, u) = At(m, h, u)  BY <1>8, SameProbes
  <2> QED  BY <2>2, <2>5, <2>6
<1>15. Roomful(n)  BY <1>1, <1>6, <1>8 DEF Roomful
<1>16. Sound(n)  BY <1>1, <1>8, <1>13, <1>14, <1>15 DEF Sound
<1>17. ASSUME NEW p \in Pairs
       PROVE Cardinality(Holding(n, {p})) = IF p \in P THEN 0 ELSE Cardinality(Holding(m, {p}))
  <2>1. Holding(m, {p}) \ S = IF p \in P THEN {} ELSE Holding(m, {p})
    <3>1. \A i \in Holding(m, {p}) : i \in S <=> p \in P
      <4> SUFFICES ASSUME NEW i \in Holding(m, {p}) PROVE i \in S <=> p \in P  OBVIOUS
      <4>1. i \in Occupied(m) /\ <<m.slots[i].key, m.slots[i].value>> = p  BY <1>1, HeldOne
      <4> QED  BY <4>1 DEF S, Holding
    <3> QED  BY <3>1
  <2> QED  BY <1>12, <2>1, FS_EmptySet
<1>18. BagOf(n) = [p \in Pairs |-> IF p \in P THEN 0 ELSE BagOf(m)[p]]  BY <1>17 DEF BagOf
<1>19. WithoutPairs(m, P, n)  BY <1>6, <1>8, <1>16, <1>18 DEF WithoutPairs, l, S
<1> QED  BY <1>19 DEF n, S

\* Nothing is held, in a sound table.
Emptied(n) == Sound(n) /\ n.length = 0 /\ BagOf(n) = [p \in Pairs |-> 0]

\* A map without tombstones that is cleared is a new one of its capacity.
LEMMA ClearEmpties ==
  ASSUME MapAssumption, BoundsAssumption, NEW m, Sound(m), TOMB \notin Range(m.slots)
  PROVE  Emptied(clear_map(m))
<1> DEFINE c == Capacity(m)
           f == m.policy
           n == clear_map(m)
           s == [i \in DOMAIN m.slots |-> IF i \in Occupied(m) THEN EMPTY ELSE m.slots[i]]
<1>1. m \in Maps /\ c <= MaxCapacity  BY DEF Sound
<1>2. c \in Tables \cup {0} /\ c \in Nat /\ DOMAIN m.slots = 0..(c - 1) /\ f \in Policies
      /\ m.slots \in [0..(c - 1) -> Slot]  BY <1>1, MapShape
<1>3. \A i \in 0..(c - 1) : m.slots[i] # TOMB  BY <1>2 DEF Range
<1>4. s = Fresh(c)
  <2>1. \A i \in 0..(c - 1) : i \in Occupied(m) \/ m.slots[i] = EMPTY  BY <1>2, <1>3 DEF Occupied
  <2>2. \A i \in 0..(c - 1) : s[i] = EMPTY  BY <1>2, <2>1
  <2> QED  BY <1>2, <2>2 DEF Fresh
<1>5. n = FreshMap(c, f)
  <2>1. m = [slots |-> m.slots, length |-> m.length, tombstones |-> m.tombstones, policy |-> m.policy]  BY <1>1, MapIs
  <2>2. n = [m EXCEPT !.slots = s, !.length = 0, !.tombstones = 0]  BY DEF clear_map
  <2> HIDE DEF n, s
  <2>3. n = [slots |-> s, length |-> 0, tombstones |-> 0, policy |-> f]  BY <2>1, <2>2
  <2> QED  BY <1>4, <2>3 DEF FreshMap
<1>6. n.length = 0 /\ n.tombstones = 0  BY <1>5 DEF FreshMap
<1> HIDE DEF n, c, f
<1>7. n \in Maps /\ Capacity(n) = c /\ Counted(n) /\ Findable(n) /\ \A P : Holding(n, P) = {}  BY <1>2, <1>5, FreshSound
<1>8. Roomful(n)  BY <1>2, <1>6, <1>7 DEF Roomful
<1>9. Sound(n)  BY <1>1, <1>7, <1>8 DEF Sound
<1>10. BagOf(n) = [p \in Pairs |-> 0]
  <2>1. \A p \in Pairs : Cardinality(Holding(n, {p})) = 0  BY <1>7, FS_EmptySet
  <2> QED  BY <2>1 DEF BagOf
<1>11. Emptied(n)  BY <1>6, <1>9, <1>10 DEF Emptied
<1> QED  BY <1>11 DEF n

------------------------------------------------------------------------------
\* Cursors.

\* There are n numbers up to n, from 0 or from 1.
LEMMA FirstNumbers ==
  ASSUME NEW n \in Nat
  PROVE  /\ IsFiniteSet(1..n) /\ Cardinality(1..n) = n
         /\ IsFiniteSet(0..(n - 1)) /\ Cardinality(0..(n - 1)) = n
<1>1. IsFiniteSet(1..n) /\ Cardinality(1..n) = n  BY FS_Interval
<1>2. IsFiniteSet(0..(n - 1)) /\ Cardinality(0..(n - 1)) = n  BY FS_Interval
<1> QED  BY <1>1, <1>2

\* The bag counts the slots that hold a pair of P.
LEMMA HeldCount ==
  ASSUME MapAssumption, NEW m \in Maps, NEW P, P \subseteq Pairs
  PROVE  Cardinality(UNION {{p} \X (1..BagOf(m)[p]) : p \in P}) = Cardinality(Holding(m, P))
<1> DEFINE B(p) == 1..BagOf(m)[p]
           U == UNION {{p} \X B(p) : p \in P}
           H == Holding(m, P)
           g(p) == CHOOSE f : f \in Bijection(Holding(m, {p}), B(p))
           a(i) == <<m.slots[i].key, m.slots[i].value>>
           h == [i \in H |-> <<a(i), g(a(i))[i]>>]
<1>1. ASSUME NEW p \in P
      PROVE  /\ g(p) \in [Holding(m, {p}) -> B(p)]
             /\ \A i, j \in Holding(m, {p}) : g(p)[i] = g(p)[j] => i = j
             /\ \A n \in B(p) : \E i \in Holding(m, {p}) : g(p)[i] = n
  <2> DEFINE S == Holding(m, {p})
             b == BagOf(m)[p]
             f == g(p)
             T == 1..b
  <2>1. p \in Pairs  OBVIOUS
  <2>2. b = Cardinality(S) /\ IsFiniteSet(S) /\ b \in Nat  BY <2>1, SlotsFinite DEF BagOf
  <2> HIDE DEF S, b
  <2>3. IsFiniteSet(T) /\ Cardinality(T) = b
    <3>1. IsFiniteSet(1..b) /\ Cardinality(1..b) = b  BY <2>2, FirstNumbers
    <3> QED  BY <3>1
  <2> HIDE DEF T
  <2>4. ExistsBijection(S, T)  BY <2>2, <2>3, FS_SameCardinalityBij
  <2>5. \E w : w \in Bijection(S, T)  BY <2>4 DEF ExistsBijection
  <2>6. f = CHOOSE w : w \in Bijection(S, T)  BY DEF S, T, b
  <2> HIDE DEF f
  <2>7. f \in Bijection(S, T)  BY <2>5, <2>6
  <2>8. f \in [S -> T] /\ (\A i, j \in S : f[i] = f[j] => i = j) /\ \A n \in T : \E i \in S : f[i] = n
    BY <2>7 DEF Bijection, Injection, Surjection, IsInjective
  <2> QED  BY <2>8 DEF f, S, T, b
<1>2. ASSUME NEW i \in H PROVE a(i) \in P /\ i \in Holding(m, {a(i)})  BY DEF Holding
<1>3. \A p \in P : Holding(m, {p}) \subseteq H /\ \A i \in Holding(m, {p}) : a(i) = p  BY DEF Holding
<1>4. IsFiniteSet(H)  BY SlotsFinite
<1> HIDE DEF g, a, B, H
<1>5. \A u : u \in U <=> \E p \in P : \E n \in B(p) : u = <<p, n>>  OBVIOUS
<1> HIDE DEF U
<1>6. h \in [H -> U]
  <2>1. ASSUME NEW i \in H PROVE <<a(i), g(a(i))[i]>> \in U
    <3> DEFINE p == a(i)
    <3>1. p \in P /\ i \in Holding(m, {p})  BY <1>2
    <3> HIDE DEF p
    <3>2. g(p)[i] \in B(p)  BY <1>1, <3>1
    <3>3. <<p, g(p)[i]>> \in U  BY <1>5, <3>1, <3>2
    <3> QED  BY <3>3 DEF p
  <2> QED  BY <2>1
<1>7. ASSUME NEW i \in H, NEW j \in H, h[i] = h[j] PROVE i = j
  <2>1. <<a(i), g(a(i))[i]>> = <<a(j), g(a(j))[j]>>  BY <1>7
  <2>2. a(i) = a(j) /\ g(a(i))[i] = g(a(j))[j]  BY <2>1
  <2>3. j \in Holding(m, {a(i)}) /\ g(a(i))[j] = g(a(i))[i]  BY <1>2, <2>2
  <2> QED  BY <1>1, <1>2, <2>3
<1>8. ASSUME NEW u \in U PROVE \E i \in H : h[i] = u
  <2>1. PICK p \in P : \E n \in B(p) : u = <<p, n>>  BY <1>5
  <2>2. PICK n \in B(p) : u = <<p, n>>  BY <2>1
  <2>3. PICK i \in Holding(m, {p}) : g(p)[i] = n  BY <1>1
  <2>4. i \in H /\ a(i) = p  BY <1>3
  <2> QED  BY <2>2, <2>3, <2>4
<1> HIDE DEF h
<1>9. h \in Bijection(H, U)  BY <1>6, <1>7, <1>8 DEF Bijection, Injection, Surjection, IsInjective
<1>10. ExistsBijection(H, U)  BY <1>9 DEF ExistsBijection
<1>11. Cardinality(U) = Cardinality(H)  BY <1>4, <1>10, FS_Bijection
<1> QED  BY <1>11 DEF U, H, B

\* A sound table has an empty slot.
LEMMA HasEmpty ==
  ASSUME MapAssumption, BoundsAssumption, NEW m, Sound(m), Capacity(m) # 0
  PROVE  \E i \in 0..(Capacity(m) - 1) : m.slots[i] = EMPTY
<1> DEFINE a == Cardinality(Occupied(m))
           b == Cardinality(Tombs(m))
           c == Capacity(m)
<1>1. m \in Maps /\ Counted(m) /\ Roomful(m)  BY DEF Sound
<1>2. a \in Nat /\ b \in Nat /\ c \in Nat  BY <1>1, SlotsFinite, MapShape
<1>3. 4 * (a + b) <= 3 * c /\ c # 0  BY <1>1 DEF Counted, Roomful
<1> HIDE DEF a, b, c
<1>4. a + b < c  BY <1>2, <1>3
<1> QED  BY <1>1, <1>4, SlotsFinite DEF a, b, c

\* A scan ends before it comes round again.
LEMMA ScanShort ==
  ASSUME MapAssumption, BoundsAssumption, NEW m, Sound(m), NEW k \in Keys
  PROVE  Scanned(m, k) \subseteq 0..(Capacity(m) - 1)
<1>1. m \in Maps /\ Capacity(m) \in Nat  BY MapShape DEF Sound
<1> SUFFICES ASSUME NEW p \in Scanned(m, k) PROVE p \in 0..(Capacity(m) - 1)  OBVIOUS
<1>2. p \in Nat /\ Capacity(m) # 0 /\ \A q \in 0..p : q \in Scanned(m, k)  BY <1>1, ScanProps
<1>3. PICK i \in 0..(Capacity(m) - 1) : m.slots[i] = EMPTY  BY <1>2, HasEmpty
<1>4. PICK e \in 0..(Capacity(m) - 1) : At(m, k, e) = i  BY <1>1, <1>2, AtProps
<1>5. SlotAt(m, k, e) = EMPTY  BY <1>3, <1>4 DEF SlotAt
<1>6. e \notin Scanned(m, k)  BY <1>1, <1>5, ScanProps
<1>7. ~(e <= p)  BY <1>1, <1>2, <1>6
<1> QED  BY <1>1, <1>2, <1>7

\* The probes that find k correspond to the slots of k.
Visits(m, k) ==
    /\ Hits(m, k) \subseteq 0..(Capacity(m) - 1) /\ IsFiniteSet(Hits(m, k))
    /\ Cardinality(Hits(m, k)) = Cardinality(SlotsOf(m, k)) /\ Cardinality(Hits(m, k)) <= Capacity(m)
    /\ \A p, q \in Hits(m, k) : At(m, k, p) = At(m, k, q) => p = q
    /\ \A i \in SlotsOf(m, k) : \E p \in Hits(m, k) : At(m, k, p) = i

\* They do in every sound table.
LEMMA HitsVisit ==
  ASSUME MapAssumption, BoundsAssumption, NEW m, Sound(m), NEW k \in Keys
  PROVE  Visits(m, k)
<1> DEFINE H == Hits(m, k)
           S == SlotsOf(m, k)
           c == Capacity(m)
           h == [p \in H |-> At(m, k, p)]
<1>1. m \in Maps /\ Findable(m) /\ c \in Nat  BY MapShape DEF Sound
<1>2. H \subseteq 0..(c - 1)
  <2>1. H \subseteq Scanned(m, k)  BY DEF Hits
  <2> QED  BY <2>1, ScanShort
<1>3. \A p, q \in H : At(m, k, p) = At(m, k, q) => p = q
  <2> SUFFICES ASSUME NEW p \in H, NEW q \in H, At(m, k, p) = At(m, k, q) PROVE p = q  OBVIOUS
  <2>1. p \in 0..(c - 1) /\ q \in 0..(c - 1)  BY <1>2
  <2>2. c # 0  BY <1>1, <2>1
  <2> QED  BY <1>1, <2>1, <2>2, AtProps
<1>4. \A i \in S : \E p \in H : At(m, k, p) = i  BY <1>1 DEF Findable
<1>5. \A p \in H : At(m, k, p) \in S  BY <1>1, HitProps
<1> HIDE DEF H, S, c
<1>6. h \in Bijection(H, S)  BY <1>3, <1>4, <1>5 DEF Bijection, Injection, Surjection, IsInjective
<1>7. IsFiniteSet(H) /\ Cardinality(H) <= c
  <2> DEFINE D == 0..(c - 1)
  <2>1. IsFiniteSet(D)  BY <1>1, FirstNumbers
  <2>2. Cardinality(D) = c  BY <1>1, FirstNumbers
  <2>3. H \in SUBSET D  BY <1>2
  <2> HIDE DEF D
  <2>4. IsFiniteSet(H) /\ Cardinality(H) <= Cardinality(D)  BY <2>1, <2>3, FS_Subset
  <2> QED  BY <2>2, <2>4
<1>8. Cardinality(S) = Cardinality(H)
  <2>1. ExistsBijection(H, S)  BY <1>6 DEF ExistsBijection
  <2> QED  BY <1>7, <2>1, FS_Bijection
<1>9. Visits(m, k)  BY <1>2, <1>3, <1>4, <1>7, <1>8 DEF Visits, H, S, c
<1> QED  BY <1>9

\* The numbers of A past p.
Past(A, p) == {q \in A : p < q}

\* A cursor goes on to the next probe that finds k.
LEMMA NextHit ==
  ASSUME MapAssumption, BoundsAssumption, NEW m, Sound(m), NEW k \in Keys, NEW p \in Hits(m, k)
  PROVE  map_find_next_index(m, k, At(m, k, p)) = FirstOf(m, k, Past(Hits(m, k), p))
<1> DEFINE H == Hits(m, k)
           c == Capacity(m)
           i == At(m, k, p)
           N == {q \in Scanned(m, k) :
                   /\ SlotAt(m, k, q) # TOMB /\ SlotAt(m, k, q).key = k
                   /\ At(m, k, q) # i
                   /\ \E u \in 0..q : At(m, k, u) = i}
<1>1. H \subseteq 0..(c - 1) /\ \A q, r \in H : At(m, k, q) = At(m, k, r) => q = r  BY HitsVisit DEF Visits
<1>2. m \in Maps /\ c \in Nat  BY MapShape DEF Sound
<1>3. \A q : q \in N <=> q \in H /\ At(m, k, q) # i /\ \E u \in 0..q : At(m, k, u) = i  BY DEF Hits
<1>4. p \in 0..(c - 1) /\ c # 0  BY <1>1, <1>2
<1>5. \A q \in H : (At(m, k, q) # i /\ \E u \in 0..q : At(m, k, u) = i) <=> p < q
  <2> SUFFICES ASSUME NEW q \in H
               PROVE (At(m, k, q) # i /\ \E u \in 0..q : At(m, k, u) = i) <=> p < q
    OBVIOUS
  <2>1. q \in 0..(c - 1)  BY <1>1
  <2>2. ASSUME At(m, k, q) # i, NEW u \in 0..q, At(m, k, u) = i PROVE p < q
    <3>1. u \in 0..(c - 1)  BY <1>2, <2>1
    <3>2. u = p  BY <1>2, <1>4, <2>2, <3>1, AtProps
    <3>3. q # p  BY <2>2
    <3> QED  BY <2>1, <1>4, <3>2, <3>3
  <2>3. ASSUME p < q PROVE At(m, k, q) # i /\ \E u \in 0..q : At(m, k, u) = i
    <3>1. p \in 0..q /\ p # q  BY <1>4, <2>1, <2>3
    <3> QED  BY <1>1, <3>1
  <2> QED  BY <2>2, <2>3
<1> HIDE DEF N
<1>6. N = Past(H, p)  BY <1>3, <1>5 DEF Past
<1>7. map_find_next_index(m, k, i) = FirstOf(m, k, N)  BY DEF map_find_next_index, N
<1> QED  BY <1>6, <1>7

\* Sets with a point more have a member more.
LEMMA PointMore ==
  ASSUME NEW A, NEW B, IsFiniteSet(B), NEW p \in B, A \subseteq B \ {p}
  PROVE  Cardinality(A) \in Nat /\ Cardinality(B) \in Nat /\ Cardinality(A) + 1 <= Cardinality(B)
<1> DEFINE D == B \ {p}
           a == Cardinality(A)
           b == Cardinality(B)
           d == Cardinality(D)
<1>1. IsFiniteSet(D) /\ d = b - 1  BY FS_RemoveElement
<1> HIDE DEF D
<1>2. IsFiniteSet(A) /\ a <= d  BY <1>1, FS_Subset DEF D
<1>3. a \in Nat /\ b \in Nat /\ d \in Nat  BY <1>1, <1>2, FS_CardinalityType
<1> HIDE DEF a, b, d
<1>4. a + 1 <= b  BY <1>1, <1>2, <1>3
<1> QED  BY <1>3, <1>4 DEF a, b

\* The members of A below one of them are fewer than those below a later
\* one, and than all.
LEMMA UptoSize ==
  ASSUME NEW A, A \subseteq Nat, IsFiniteSet(A), NEW p \in A
  PROVE  /\ Cardinality(Upto(A, p)) \in Nat /\ Cardinality(A) \in Nat
         /\ Cardinality(Upto(A, p)) < Cardinality(A)
         /\ \A q \in A : p < q => Cardinality(Upto(A, p)) < Cardinality(Upto(A, q))
<1>0. \A q \in Nat : ~(q < q)  OBVIOUS
<1>1. Upto(A, p) \subseteq A \ {p}  BY <1>0 DEF Upto
<1>2. Cardinality(Upto(A, p)) \in Nat /\ Cardinality(A) \in Nat /\ Cardinality(Upto(A, p)) + 1 <= Cardinality(A)
  BY <1>1, PointMore
<1>3. ASSUME NEW q \in A, p < q PROVE Cardinality(Upto(A, p)) < Cardinality(Upto(A, q))
  <2>1. p \in Upto(A, q)  BY <1>3 DEF Upto
  <2>2. Upto(A, p) \subseteq Upto(A, q) \ {p}
    <3> SUFFICES ASSUME NEW j \in Upto(A, p) PROVE j \in Upto(A, q) /\ j # p  OBVIOUS
    <3>1. j \in A /\ j < p /\ j \in Nat /\ p \in Nat /\ q \in Nat  BY DEF Upto
    <3>2. j < q /\ j # p  BY <1>3, <3>1
    <3> QED  BY <3>1, <3>2 DEF Upto
  <2>3. IsFiniteSet(Upto(A, q))
    <3>1. Upto(A, q) \in SUBSET A  BY DEF Upto
    <3> QED  BY <3>1, FS_Subset
  <2> DEFINE a == Cardinality(Upto(A, p))
             b == Cardinality(Upto(A, q))
  <2>4. a \in Nat /\ b \in Nat /\ a + 1 <= b  BY <2>1, <2>2, <2>3, PointMore
  <2> HIDE DEF a, b
  <2>5. a < b  BY <2>4
  <2> QED  BY <2>5 DEF a, b
<1> DEFINE a == Cardinality(Upto(A, p))
           b == Cardinality(A)
<1>4. a \in Nat /\ b \in Nat /\ a + 1 <= b  BY <1>2
<1> HIDE DEF a, b
<1>5. a < b  BY <1>4
<1> QED  BY <1>3, <1>4, <1>5 DEF a, b

\* Where a cursor over k is after i steps: at its i-th slot, or past all.
Stands(m, k, i, x) ==
    \/ x = Capacity(m) /\ Cardinality(Hits(m, k)) <= i
    \/ \E p \in Hits(m, k) : x = At(m, k, p) /\ Cardinality(Upto(Hits(m, k), p)) = i

\* It starts at the first.
LEMMA FirstStands ==
  ASSUME MapAssumption, BoundsAssumption, NEW m, Sound(m), NEW k \in Keys
  PROVE  Stands(m, k, 0, map_find_index(m, k))
<1> DEFINE H == Hits(m, k)
           x == map_find_index(m, k)
<1>1. m \in Maps  BY DEF Sound
<1>2. CASE H = {}
  <2>1. x = Capacity(m)  BY <1>1, <1>2, FindIndexProps
  <2>2. Cardinality(H) <= 0
    <3>1. Cardinality(H) = 0  BY <1>2, FS_EmptySet
    <3> QED  BY <3>1
  <2> QED  BY <2>1, <2>2 DEF Stands
<1>3. CASE H # {}
  <2>1. PICK p \in Hits(m, k) : map_find_index(m, k) = At(m, k, p) /\ \A q \in Hits(m, k) : p <= q
    BY <1>1, <1>3, FindIndexProps
  <2>2. Hits(m, k) \subseteq Nat  BY <1>1, FindIndexProps
  <2>3. Upto(H, p) = {}
    <3>1. \A q \in H : ~(q < p)  BY <2>1, <2>2
    <3> QED  BY <3>1 DEF Upto
  <2>4. Cardinality(Upto(H, p)) = 0  BY <2>3, FS_EmptySet
  <2> QED  BY <2>1, <2>4 DEF Stands
<1> QED  BY <1>2, <1>3

\* A step of a cursor, which stays when it has ended.
Turn(m, k, x) == IF x = Capacity(m) THEN x ELSE map_find_next_index(m, k, x)

\* A step leads to the next.
LEMMA NextStands ==
  ASSUME MapAssumption, BoundsAssumption, NEW m, Sound(m), NEW k \in Keys, NEW i \in Nat, NEW x, Stands(m, k, i, x)
  PROVE  Stands(m, k, i + 1, Turn(m, k, x))
<1> DEFINE H == Hits(m, k)
           c == Capacity(m)
<1>1. m \in Maps /\ c \in Nat  BY MapShape DEF Sound
<1>2. H \subseteq 0..(c - 1) /\ IsFiniteSet(H)  BY HitsVisit DEF Visits
<1>3. H \subseteq Nat /\ Cardinality(H) \in Nat  BY <1>1, <1>2, FS_CardinalityType
<1>4. CASE x = c /\ Cardinality(H) <= i
  <2>1. Turn(m, k, x) = c  BY <1>4 DEF Turn
  <2>2. Cardinality(H) <= i + 1  BY <1>3, <1>4
  <2> QED  BY <2>1, <2>2 DEF Stands
<1>5. ASSUME NEW p \in H, x = At(m, k, p), Cardinality(Upto(H, p)) = i PROVE Stands(m, k, i + 1, Turn(m, k, x))
  <2> DEFINE N == Past(H, p)
             y == FirstOf(m, k, N)
  <2>1. x \in 0..(c - 1) /\ p \in Nat /\ c # 0  BY <1>1, <1>2, <1>3, <1>5, HitProps
  <2>2. Turn(m, k, x) = y
    <3>1. x # c  BY <1>1, <2>1
    <3> QED  BY <1>5, <3>1, NextHit DEF Turn
  <2>3. Upto(H, p) \cup {p} \subseteq H /\ p \notin Upto(H, p)
    <3>1. ~(p < p)  BY <2>1
    <3> QED  BY <3>1 DEF Upto
  <2>4. Cardinality(Upto(H, p) \cup {p}) = i + 1
    <3>1. IsFiniteSet(Upto(H, p))
      <4>1. Upto(H, p) \in SUBSET H  BY DEF Upto
      <4> QED  BY <1>2, <4>1, FS_Subset
    <3> QED  BY <1>5, <2>3, <3>1, FS_AddElement
  <2>5. N \subseteq Nat /\ N \subseteq H  BY <1>3 DEF Past
  <2>6. CASE N = {}
    <3>1. y = c  BY <1>1, <2>1, <2>5, <2>6, FirstOfProps
    <3>2. H = Upto(H, p) \cup {p}
      <4>1. \A q \in H : ~(p < q)  BY <2>6 DEF Past
      <4>2. \A q \in H : q < p \/ q = p  BY <1>3, <2>1, <4>1
      <4> QED  BY <2>3, <4>2 DEF Upto
    <3>3. Cardinality(H) <= i + 1
      <4> HIDE DEF H, N
      <4>1. Cardinality(H) = i + 1  BY <2>4, <3>2
      <4> QED  BY <1>3, <4>1
    <3> QED  BY <2>2, <3>1, <3>3 DEF Stands
  <2>7. CASE N # {}
    <3> HIDE DEF N, y
    <3>1. y < c /\ \E q \in N : y = At(m, k, q) /\ \A r \in N : q <= r
      BY <1>1, <2>1, <2>5, <2>7, FirstOfProps DEF y
    <3>2. PICK q \in N : y = At(m, k, q) /\ \A r \in N : q <= r  BY <3>1
    <3>3. q \in H /\ q \in Nat  BY <2>5
    <3>4. p < q  BY DEF N, Past
    <3>5. Upto(H, q) = Upto(H, p) \cup {p}
      <4>1. ASSUME NEW r \in H PROVE r < q <=> (r < p \/ r = p)
        <5>1. r \in Nat  BY <1>3
        <5>2. p < r => q <= r  BY <3>2 DEF N, Past
        <5> QED  BY <2>1, <3>3, <3>4, <5>1, <5>2
      <4> QED  BY <1>5, <4>1 DEF Upto
    <3>6. Cardinality(Upto(H, q)) = i + 1  BY <2>4, <3>5
    <3> QED  BY <2>2, <3>2, <3>3, <3>6 DEF Stands
  <2> QED  BY <2>6, <2>7
<1> QED  BY <1>4, <1>5 DEF Stands

\* A walk is a run of such steps.
LEMMA WalkRuns ==
  ASSUME MapAssumption, BoundsAssumption, NEW m, Sound(m), NEW k \in Keys
  PROVE  LET n == Capacity(m) + 1
         IN  /\ Walk(m, k) \in [0..n -> 0..Capacity(m)]
             /\ Walk(m, k)[0] = map_find_index(m, k)
             /\ \A j \in 1..n : Walk(m, k)[j] = Turn(m, k, Walk(m, k)[j - 1])
<1> DEFINE c == Capacity(m)
           n == c + 1
           a == map_find_index(m, k)
           S == 0..c
           F == [j \in Nat |-> [x \in S |-> Turn(m, k, x)]]
           Is(f) == f = [i \in 0..n |-> IF i = 0 THEN a ELSE Turn(m, k, f[i - 1])]
           g == CHOOSE f : Is(f)
<1>1. n \in Nat /\ c \in Nat /\ m \in Maps  BY MapShape DEF Sound
<1>2. a \in S  BY <1>1, FindIndexProps
<1>T. ASSUME NEW x \in S PROVE Turn(m, k, x) \in S
  <2>1. CASE x = c  BY <2>1 DEF Turn
  <2>2. CASE x # c
    <3> DEFINE N == {q \in Scanned(m, k) :
                   /\ SlotAt(m, k, q) # TOMB /\ SlotAt(m, k, q).key = k
                   /\ At(m, k, q) # x
                   /\ \E u \in 0..q : At(m, k, u) = x}
    <3>1. Turn(m, k, x) = FirstOf(m, k, N)  BY <2>2 DEF Turn, map_find_next_index
    <3>2. N \subseteq Nat  BY <1>1, ScanProps
    <3>3. c # 0  BY <2>2
    <3> HIDE DEF N, c
    <3>4. Capacity(m) # 0  BY <3>3 DEF c
    <3>5. FirstOf(m, k, N) \in 0..Capacity(m)  BY <1>1, <3>2, <3>4, FirstOfProps
    <3> QED  BY <3>1, <3>5 DEF c
  <2> QED  BY <2>1, <2>2
<1>3. F \in [Nat -> [S -> S]]
  <2> HIDE DEF S
  <2> QED  BY <1>T
<1>4. \A j \in Nat, r \in S : F[j][r] = Turn(m, k, r)  OBVIOUS
<1>5. Walk(m, k) = g  BY DEF Walk, Turn
<1> HIDE DEF F, S, a, n, g
<1>6. PICK f \in [0..n -> S] : f[0] = a /\ \A j \in 1..n : f[j] = F[j][f[j - 1]]
  <2>1. Loop(S, a, F, n)  BY <1>1, <1>2, <1>3 DEF Loop
  <2>2. \E f : RunOf(S, a, F, n, f)  BY <2>1, LoopRuns
  <2> QED  BY <2>2 DEF RunOf
<1>7. ASSUME NEW j \in 1..n PROVE f[j] = Turn(m, k, f[j - 1])
  <2>1. j - 1 \in 0..n /\ j \in Nat  BY <1>1
  <2>2. f[j - 1] \in S  BY <1>6, <2>1
  <2> QED  BY <1>4, <1>6, <2>1, <2>2
<1>8. Is(f)
  <2>1. \A i \in 0..n : i # 0 => i \in 1..n  BY <1>1
  <2>2. \A i \in 0..n : f[i] = IF i = 0 THEN a ELSE Turn(m, k, f[i - 1])  BY <1>6, <1>7, <2>1
  <2> QED  BY <1>6, <2>2
<1>9. Is(g)  BY <1>8 DEF g
<1> HIDE DEF Is
<1>10. \A i \in 0..n : g[i] = IF i = 0 THEN a ELSE Turn(m, k, g[i - 1])  BY <1>9 DEF Is
<1>11. g[0] = a /\ \A j \in 1..n : g[j] = Turn(m, k, g[j - 1])
  <2>1. 0 \in 0..n /\ \A j \in 1..n : j \in 0..n /\ j # 0  BY <1>1
  <2> QED  BY <1>10, <2>1
<1>12. \A j \in 0..n : g[j] \in S
  <2>1. \A j \in 1..n : g[j - 1] \in S => g[j] \in S
    <3> SUFFICES ASSUME NEW j \in 1..n, g[j - 1] \in S PROVE g[j] \in S  OBVIOUS
    <3>1. Turn(m, k, g[j - 1]) \in S  BY <1>T
    <3> QED  BY <1>11, <3>1
  <2>2. g[0] \in S  BY <1>2, <1>11
  <2> QED  BY <1>1, <2>1, <2>2, AllTheWay
<1>13. g \in [0..n -> S]
  <2>1. g = [i \in 0..n |-> IF i = 0 THEN a ELSE Turn(m, k, g[i - 1])]  BY <1>9 DEF Is
  <2> QED  BY <1>12, <2>1
<1> QED  BY <1>5, <1>11, <1>13 DEF S, a, n

\* After each step of a walk the cursor is where it should be.
LEMMA WalkStands ==
  ASSUME MapAssumption, BoundsAssumption, NEW m, Sound(m), NEW k \in Keys
  PROVE  \A i \in 0..(Capacity(m) + 1) : Stands(m, k, i, Walk(m, k)[i])
<1> DEFINE n == Capacity(m) + 1
           at == Walk(m, k)
           S == {i \in Nat : i <= n => Stands(m, k, i, at[i])}
<1>1. n \in Nat  BY MapShape DEF Sound
<1>2. at[0] = map_find_index(m, k) /\ \A j \in 1..n : at[j] = Turn(m, k, at[j - 1])  BY WalkRuns
<1> HIDE DEF at, n
<1>3. 0 \in S  BY <1>2, FirstStands
<1>4. ASSUME NEW j \in Nat, j \in S PROVE j + 1 \in S
  <2> SUFFICES ASSUME j + 1 <= n PROVE Stands(m, k, j + 1, at[j + 1])  OBVIOUS
  <2>1. j \in 0..n /\ j + 1 \in 1..n /\ (j + 1) - 1 = j  BY <1>1
  <2>2. Stands(m, k, j, at[j])  BY <1>4, <2>1
  <2>3. at[j + 1] = Turn(m, k, at[j])  BY <1>2, <2>1
  <2> QED  BY <2>2, <2>3, NextStands
<1> HIDE DEF S
<1>5. Nat \subseteq S  BY <1>3, <1>4, SetInduction
<1>6. \A i \in 0..n : Stands(m, k, i, at[i])
  <2> SUFFICES ASSUME NEW i \in 0..n PROVE Stands(m, k, i, at[i])  OBVIOUS
  <2>1. i \in Nat /\ i <= n  BY <1>1
  <2> QED  BY <1>5, <2>1 DEF S
<1> QED  BY <1>6 DEF at, n

\* A walk visits every slot of the key, each once.
LEMMA WalkExact ==
  ASSUME MapAssumption, BoundsAssumption, NEW m, Sound(m), NEW k \in Keys
  PROVE  /\ map_value_count(m, k) = Cardinality(SlotsOf(m, k))
         /\ SlotsOf(m, k) \subseteq Range(Walk(m, k))
         /\ DOMAIN Walk(m, k) \subseteq Nat
<1> DEFINE c == Capacity(m)
           n == c + 1
           H == Hits(m, k)
           h == Cardinality(H)
           at == Walk(m, k)
           D == {i \in DOMAIN at : at[i] < c}
<1>1. m \in Maps /\ c \in Nat  BY MapShape DEF Sound
<1>2. /\ H \subseteq 0..(c - 1) /\ IsFiniteSet(H) /\ h = Cardinality(SlotsOf(m, k)) /\ h <= c
      /\ \A p, q \in H : At(m, k, p) = At(m, k, q) => p = q
      /\ \A i \in SlotsOf(m, k) : \E p \in H : At(m, k, p) = i
  BY HitsVisit DEF Visits
<1>3. H \subseteq Nat /\ h \in Nat  BY <1>1, <1>2, FS_CardinalityType
<1>4. at \in [0..n -> 0..c] /\ DOMAIN at = 0..n  BY WalkRuns
<1>5. \A i \in 0..n : Stands(m, k, i, at[i])  BY WalkStands
<1>6. \A p \in H : At(m, k, p) \in 0..(c - 1)  BY <1>1, HitProps
<1>7. map_value_count(m, k) = Cardinality(D)  BY DEF map_value_count
<1>8. \A p \in H : /\ Cardinality(Upto(H, p)) \in Nat /\ Cardinality(Upto(H, p)) < h
                   /\ \A q \in H : p < q => Cardinality(Upto(H, p)) < Cardinality(Upto(H, q))
  BY <1>2, <1>3, UptoSize
<1>9. \A i \in 0..n : (at[i] = c /\ h <= i) \/ \E p \in H : at[i] = At(m, k, p) /\ Cardinality(Upto(H, p)) = i
  BY <1>5 DEF Stands
<1> HIDE DEF at, H, h, c
<1>10. ASSUME NEW i \in 0..n PROVE at[i] < c <=> i < h
  <2>1. i \in Nat /\ at[i] \in 0..c  BY <1>1, <1>4
  <2>2. CASE at[i] = c /\ h <= i  BY <1>1, <1>3, <2>1, <2>2
  <2>3. ASSUME NEW p \in H, at[i] = At(m, k, p), Cardinality(Upto(H, p)) = i PROVE at[i] < c <=> i < h
    <3>1. at[i] < c  BY <1>1, <1>6, <2>3
    <3>2. i < h  BY <1>8, <2>3
    <3> QED  BY <3>1, <3>2
  <2> QED  BY <1>9, <2>2, <2>3
<1>11. D = 0..(h - 1)
  <2>1. \A i : i \in 0..n /\ i < h <=> i \in 0..(h - 1)  BY <1>1, <1>2, <1>3
  <2> QED  BY <1>4, <1>10, <2>1
<1>12. map_value_count(m, k) = Cardinality(SlotsOf(m, k))
  <2>1. Cardinality(0..(h - 1)) = h  BY <1>3, FirstNumbers
  <2> QED  BY <1>2, <1>7, <1>11, <2>1
<1>13. SlotsOf(m, k) \subseteq Range(at)
  <2> SUFFICES ASSUME NEW s \in SlotsOf(m, k) PROVE s \in Range(at)  OBVIOUS
  <2>1. PICK p \in H : At(m, k, p) = s  BY <1>2
  <2> DEFINE i == Cardinality(Upto(H, p))
  <2>2. i \in Nat /\ i < h  BY <1>8
  <2>3. i \in 0..n  BY <1>1, <1>2, <1>3, <2>2
  <2>4. ~(h <= i)  BY <1>3, <2>2
  <2>5. PICK q \in H : at[i] = At(m, k, q) /\ Cardinality(Upto(H, q)) = i  BY <1>9, <2>3, <2>4
  <2>6. q = p
    <3>1. ~(q < p)
      <4> SUFFICES ASSUME q < p PROVE FALSE  OBVIOUS
      <4>1. Cardinality(Upto(H, q)) < i  BY <1>8
      <4> QED  BY <2>2, <2>5, <4>1
    <3>2. ~(p < q)
      <4> SUFFICES ASSUME p < q PROVE FALSE  OBVIOUS
      <4>1. i < Cardinality(Upto(H, q))  BY <1>8
      <4> QED  BY <2>2, <2>5, <4>1
    <3>3. p \in Nat /\ q \in Nat  BY <1>3
    <3> QED  BY <3>1, <3>2, <3>3
  <2> HIDE DEF i
  <2>7. at[i] = s /\ i \in DOMAIN at  BY <1>4, <2>1, <2>3, <2>5, <2>6
  <2> QED  BY <2>7 DEF Range
<1>14. DOMAIN at \subseteq Nat  BY <1>4
<1> QED  BY <1>12, <1>13, <1>14 DEF at

\* MapRemovePair's walk stops at a slot that holds the pair, if one does.
LEMMA PairIndexFinds ==
  ASSUME MapAssumption, BoundsAssumption, NEW m, Sound(m), NEW p \in Pairs
  PROVE  \/ PairIndex(m, p) = Capacity(m) /\ Holding(m, {p}) = {}
         \/ PairIndex(m, p) \in Holding(m, {p})
<1> DEFINE at == Walk(m, p[1])
           hits == {i \in DOMAIN at : at[i] \in Holding(m, {p})}
<1>1. p[1] \in Keys /\ m \in Maps  BY DEF Pairs, Sound
<1>2. SlotsOf(m, p[1]) \subseteq Range(at) /\ DOMAIN at \subseteq Nat  BY <1>1, WalkExact
<1>3. PairIndex(m, p) = IF hits = {} THEN Capacity(m) ELSE at[Min(hits)]  BY DEF PairIndex
<1> HIDE DEF at
<1>4. CASE hits = {}
  <2>1. Holding(m, {p}) = {}
    <3> SUFFICES ASSUME NEW j \in Holding(m, {p}) PROVE FALSE  OBVIOUS
    <3>1. j \in Occupied(m) /\ <<m.slots[j].key, m.slots[j].value>> = p  BY <1>1, HeldOne
    <3>2. m.slots[j].key = p[1]  BY <3>1
    <3>3. j \in SlotsOf(m, p[1])  BY <1>1, <3>1, <3>2, SlotSets
    <3>4. PICK i \in DOMAIN at : at[i] = j  BY <1>2, <3>3 DEF Range
    <3> QED  BY <1>4, <3>4
  <2> QED  BY <1>3, <1>4, <2>1
<1>5. CASE hits # {}
  <2>1. hits \subseteq Nat /\ \A i \in hits : at[i] \in Holding(m, {p})  BY <1>2
  <2> HIDE DEF hits
  <2>2. Min(hits) \in hits  BY <1>5, <2>1, MinProps
  <2> QED  BY <1>3, <1>5, <2>1, <2>2
<1> QED  BY <1>4, <1>5

------------------------------------------------------------------------------
\* The invariant.

\* The table is sound, holds no more than callers may insert, and a status
\* or a count has been returned.
Inv == Sound(map) /\ map.length \in 0..MaxLength /\ ret.n \in 0..MaxLength

\* The step is one of the multimap, and keeps the invariant.
Step == Inv' /\ Multi!MultimapNext

\* The multimap's count of the pairs in P is the number of slots that hold one.
LEMMA CountInHeld ==
  ASSUME MapAssumption, NEW m \in Maps, NEW P, P \subseteq Pairs
  PROVE  /\ Multi!CountIn(BagOf(m), P) = Cardinality(Holding(m, P))
         /\ Cardinality(Holding(m, P)) \in Nat /\ (Cardinality(Holding(m, P)) = 0 <=> Holding(m, P) = {})
<1>0. \A S : Multi!Cardinality(S) = Cardinality(S)  BY DEF Multi!Cardinality, Cardinality
<1>1. Multi!CountIn(BagOf(m), P) = Cardinality(Holding(m, P))  BY <1>0, HeldCount DEF Multi!CountIn
<1>2. IsFiniteSet(Holding(m, P)) /\ Cardinality(Holding(m, P)) \in Nat  BY SlotsFinite
<1> QED  BY <1>1, <1>2, FS_EmptySet

\* What a status says.
LEMMA StatusSays ==
  ASSUME MapAssumption, NEW call, NEW ok \in BOOLEAN, Status(call, ok)
  PROVE  /\ ret' = [call |-> call, n |-> IF ok THEN 1 ELSE 0] /\ ret'.n \in 0..MaxLength
         /\ ok => ret' = Multi!Returned(call, 1)
         /\ ~ok => ret' = Multi!Returned(call, 0)
<1>1. ret' = [call |-> call, n |-> IF ok THEN 1 ELSE 0]  BY DEF Status, Returns
<1>2. MaxLength \in Nat \ {0}  BY DEF MapAssumption
<1>3. ret'.n \in 0..MaxLength  BY <1>1, <1>2
<1> QED  BY <1>1, <1>3 DEF Multi!Returned

\* The map starts as the empty multimap.
LEMMA InitEmpty ==
  ASSUME MapAssumption, BoundsAssumption, Init
  PROVE  Inv /\ Multi!MultimapInit
<1>1. PICK f \in Policies : map = [slots |-> NoSlots, length |-> 0, tombstones |-> 0, policy |-> f]  BY DEF Init
<1> DEFINE n == [slots |-> NoSlots, length |-> 0, tombstones |-> 0, policy |-> f]
<1>2. Sound(n) /\ n.length = 0 /\ BagOf(n) = [p \in Pairs |-> 0]  BY NoSlotsSound
<1>3. map = n  BY <1>1
<1> HIDE DEF n
<1>4. ret = [call |-> "init", n |-> 1]  BY DEF Init
<1>5. MaxLength \in Nat \ {0}  BY DEF MapAssumption
<1>6. Inv  BY <1>2, <1>3, <1>4, <1>5 DEF Inv
<1>7. BagOf(map) = [p \in Pairs |-> 0]  BY <1>2, <1>3
<1>8. Multi!MultimapInit  BY <1>4, <1>7 DEF Multi!MultimapInit, Multi!Returned, Multi!Pairs, Pairs, BagOf
<1> QED  BY <1>6, <1>8

\* A call that fails changes nothing.
LEMMA FailStep ==
  ASSUME MapAssumption, Inv, NEW call \in {"insert", "set_only", "set_first", "rehash"}, Status(call, FALSE),
         Same(map, map')
  PROVE  Step
<1>1. ret' = Multi!Returned(call, 0) /\ ret'.n \in 0..MaxLength  BY StatusSays
<1>2. Sound(map)' /\ BagOf(map)' = BagOf(map) /\ map'.length = map.length  BY DEF Same, BagOf
<1>3. Inv'  BY <1>1, <1>2 DEF Inv
<1>4. Multi!Fail  BY <1>1, <1>2 DEF Multi!Fail, BagOf
<1> QED  BY <1>3, <1>4 DEF Step, Multi!MultimapNext

------------------------------------------------------------------------------
\* The calls, one by one.

\* The multimap's count of a key's pairs is the number of the key's slots.
LEMMA KeySlots ==
  ASSUME MapAssumption, NEW m \in Maps, NEW k \in Keys
  PROVE  LET K == Multi!PairsOf(k)
         IN  /\ K = {k} \X Values /\ K \subseteq Pairs
             /\ Multi!CountIn(BagOf(m), K) = Cardinality(SlotsOf(m, k))
             /\ Multi!CountIn(BagOf(m), K) \in Nat
             /\ Multi!CountIn(BagOf(m), K) = 0 <=> SlotsOf(m, k) = {}
<1> DEFINE K == {k} \X Values
<1>1. K \subseteq Pairs  BY DEF Pairs
<1>2. Multi!PairsOf(k) = K  BY DEF Multi!PairsOf
<1>3. SlotsOf(m, k) = Holding(m, K)  BY DEF SlotsOf
<1> HIDE DEF K
<1>4. /\ Multi!CountIn(BagOf(m), K) = Cardinality(Holding(m, K))
      /\ Cardinality(Holding(m, K)) \in Nat /\ (Cardinality(Holding(m, K)) = 0 <=> Holding(m, K) = {})
  BY <1>1, CountInHeld
<1>5. Multi!CountIn(BagOf(m), Multi!PairsOf(k)) = Multi!CountIn(BagOf(m), K)  BY <1>2
<1> QED  BY <1>1, <1>2, <1>3, <1>4, <1>5 DEF K

\* MapInsertL and its like.
LEMMA InsertStep ==
  ASSUME MapAssumption, BoundsAssumption, ~RetryFails, Inv, NEW p \in Pairs, NEW noMem \in NoMem,
         NEW copied \in BOOLEAN, Insert(p, noMem, copied)
  PROVE  Step
<1> DEFINE r == map_insert(map, p, noMem, copied)
<1>1. Sound(map) /\ map.length \in Nat /\ MaxLength \in Nat /\ map.length < MaxLength  BY DEF Inv, Insert, MapAssumption
<1>2. Inserted(map, p, r)  BY <1>1, InsertAdds
<1>3. (r.retried => RetryFails) /\ map' = r.map /\ Status("insert", r.ok)  BY DEF Insert, Outcome
<1> HIDE DEF r
<1>4. CASE ~r.ok
  <2>1. Same(map, map')  BY <1>2, <1>3, <1>4 DEF Inserted
  <2>2. Status("insert", FALSE)  BY <1>2, <1>3, <1>4 DEF Inserted, Status
  <2> QED  BY <2>1, <2>2, FailStep
<1>5. CASE r.ok
  <2>1. Gained(map, map', p)  BY <1>2, <1>3, <1>5 DEF Inserted
  <2>2. Status("insert", TRUE)  BY <1>2, <1>3, <1>5 DEF Inserted, Status
  <2>3. ret' = Multi!Returned("insert", 1) /\ ret'.n \in 0..MaxLength  BY <2>2, StatusSays
  <2>4. Sound(map)' /\ BagOf(map)' = [BagOf(map) EXCEPT ![p] = @ + 1] /\ map'.length = map.length + 1
    BY <2>1 DEF Gained, BagOf
  <2>5. map'.length \in 0..MaxLength  BY <1>1, <2>4
  <2>6. Inv'  BY <2>3, <2>4, <2>5 DEF Inv
  <2>7. Multi!Insert(p)  BY <2>3, <2>4 DEF Multi!Insert, Multi!Added, BagOf
  <2>8. p \in Multi!Pairs  BY DEF Multi!Pairs, Pairs
  <2> QED  BY <2>6, <2>7, <2>8 DEF Step, Multi!MultimapNext
<1> QED  BY <1>4, <1>5

\* MapSetOnlyL and its like.
LEMMA SetOnlyStep ==
  ASSUME MapAssumption, BoundsAssumption, ~RetryFails, Inv, NEW p \in Pairs, NEW noMem \in NoMem,
         NEW copied \in BOOLEAN, SetOnly(p, noMem, copied)
  PROVE  Step
<1> DEFINE r == map_set_only(map, p, noMem, copied)
<1>1. Sound(map) /\ map.length \in Nat /\ MaxLength \in Nat /\ map.length < MaxLength  BY DEF Inv, SetOnly, MapAssumption
<1>2. SetTo(map, p, r)  BY <1>1, SetOnlySets
<1>3. (r.retried => RetryFails) /\ map' = r.map /\ Status("set_only", r.ok)  BY DEF SetOnly, Outcome
<1> HIDE DEF r
<1>4. CASE ~r.ok
  <2>1. Same(map, map')  BY <1>2, <1>3, <1>4 DEF SetTo
  <2>2. Status("set_only", FALSE)  BY <1>2, <1>3, <1>4 DEF SetTo, Status
  <2> QED  BY <2>1, <2>2, FailStep
<1>5. CASE r.ok
  <2>1. ReplacedBy(map, p, map')  BY <1>2, <1>3, <1>5 DEF SetTo
  <2>2. Status("set_only", TRUE)  BY <1>2, <1>3, <1>5 DEF SetTo, Status
  <2>3. ret' = Multi!Returned("set_only", 1) /\ ret'.n \in 0..MaxLength  BY <2>2, StatusSays
  <2>4. Sound(map)' /\ map'.length <= map.length + 1
    BY <2>1 DEF ReplacedBy
  <2>5. BagOf(map)' = [[q \in Pairs |-> IF q \in {p[1]} \X Values THEN 0 ELSE BagOf(map)[q]] EXCEPT ![p] = @ + 1]
    BY <2>1 DEF ReplacedBy, BagOf
  <2>6. map'.length \in 0..MaxLength
    <3>1. map'.length \in Nat  BY <2>4, TombsBound DEF Sound
    <3> QED  BY <1>1, <2>4, <3>1
  <2>7. Inv'  BY <2>3, <2>4, <2>6 DEF Inv
  <2>8. Multi!SetOnly(p)
    BY <2>3, <2>5 DEF Multi!SetOnly, Multi!Added, Multi!Without, Multi!PairsOf, Multi!Pairs, Pairs, BagOf
  <2>9. p \in Multi!Pairs  BY DEF Multi!Pairs, Pairs
  <2> QED  BY <2>7, <2>8, <2>9 DEF Step, Multi!MultimapNext
<1> QED  BY <1>4, <1>5

\* MapEnsurePtr.
LEMMA EnsureStep ==
  ASSUME MapAssumption, BoundsAssumption, ~RetryFails, Inv, NEW p \in Pairs, NEW noMem \in NoMem,
         NEW copied \in BOOLEAN, EnsurePtr(p, noMem, copied)
  PROVE  Step
<1> DEFINE K == {p[1]} \X Values
           n == Multi!CountIn(BagOf(map), K)
<1>1. Sound(map) /\ map \in Maps /\ map.length \in Nat /\ MaxLength \in Nat /\ map.length < MaxLength /\ p[1] \in Keys
  BY DEF Inv, EnsurePtr, MapAssumption, Sound, Pairs
<1>4. p \in Multi!Pairs /\ K = Multi!PairsOf(p[1])  BY DEF Multi!Pairs, Multi!PairsOf, Pairs
<1>3. n \in Nat /\ (n = 0 <=> SlotsOf(map, p[1]) = {})
  <2>1. n = Multi!CountIn(BagOf(map), Multi!PairsOf(p[1]))  BY <1>4
  <2> HIDE DEF n, K
  <2> QED  BY <1>1, <2>1, KeySlots
<1>E. ASSUME /\ ret' \in {Multi!Returned("ensure", 0), Multi!Returned("ensure", 1)}
             /\ n = 0 /\ ret'.n = 1 => BagOf(map)' = Multi!Added(BagOf(map), p)
             /\ ~(n = 0 /\ ret'.n = 1) => BagOf(map)' = BagOf(map)
             /\ n > 0 => ret'.n = 1
      PROVE  Multi!Ensure(p)
  <2> DEFINE A == Multi!Added(BagOf(map), p)
             x == ret'.n
  <2>1. n = Multi!CountIn(BagOf(map), Multi!PairsOf(p[1]))  BY <1>4
  <2> HIDE DEF K, n, x
  <2>2. IF n = 0 /\ x = 1 THEN BagOf(map)' = A ELSE BagOf(map)' = BagOf(map)  BY <1>E DEF x
  <2>3. n > 0 => x = 1  BY <1>E DEF x
  <2> QED  BY <1>E, <2>1, <2>2, <2>3 DEF Multi!Ensure, BagOf, x
<1> HIDE DEF K, n
<1>5. CASE map_find_index(map, p[1]) < Capacity(map)
  <2>1. Status("ensure", TRUE) /\ map' = map  BY <1>5 DEF EnsurePtr
  <2>2. ret' = Multi!Returned("ensure", 1) /\ ret'.n \in 0..MaxLength  BY <2>1, StatusSays
  <2>3. ret'.n = 1  BY <2>2 DEF Multi!Returned
  <2>4. n # 0
    <3>1. Hits(map, p[1]) # {}  BY <1>1, <1>5, FindIndexProps
    <3>2. SlotsOf(map, p[1]) # {}  BY <1>1, <3>1, HitProps
    <3> QED  BY <1>3, <3>2
  <2>5. Inv'  BY <2>1, <2>2 DEF Inv
  <2>6. BagOf(map)' = BagOf(map)  BY <2>1
  <2>7. Multi!Ensure(p)  BY <1>E, <2>2, <2>3, <2>4, <2>6
  <2> QED  BY <1>4, <2>5, <2>7 DEF Step, Multi!MultimapNext
<1>6. CASE ~(map_find_index(map, p[1]) < Capacity(map))
  <2> DEFINE r == map_insert(map, p, noMem, copied)
  <2>1. (r.retried => RetryFails) /\ map' = r.map /\ Status("ensure", r.ok)  BY <1>6 DEF EnsurePtr, Outcome
  <2>2. Inserted(map, p, r)  BY <1>1, InsertAdds
  <2>3. n = 0  BY <1>1, <1>3, <1>6, NotFound
  <2> HIDE DEF r
  <2>4. CASE ~r.ok
    <3>1. Same(map, map')  BY <2>1, <2>2, <2>4 DEF Inserted
    <3>2. Status("ensure", FALSE)  BY <2>1, <2>2, <2>4 DEF Inserted, Status
    <3>3. ret' = Multi!Returned("ensure", 0) /\ ret'.n \in 0..MaxLength  BY <3>2, StatusSays
    <3>4. ret'.n = 0  BY <3>3 DEF Multi!Returned
    <3>5. Sound(map)' /\ BagOf(map)' = BagOf(map) /\ map'.length = map.length  BY <3>1 DEF Same, BagOf
    <3>6. Inv'  BY <3>3, <3>5 DEF Inv
    <3>7. Multi!Ensure(p)  BY <1>E, <2>3, <3>3, <3>4, <3>5
    <3> QED  BY <1>4, <3>6, <3>7 DEF Step, Multi!MultimapNext
  <2>5. CASE r.ok
    <3>1. Gained(map, map', p)  BY <2>1, <2>2, <2>5 DEF Inserted
    <3>2. Status("ensure", TRUE)  BY <2>1, <2>2, <2>5 DEF Inserted, Status
    <3>3. ret' = Multi!Returned("ensure", 1) /\ ret'.n \in 0..MaxLength  BY <3>2, StatusSays
    <3>4. ret'.n = 1  BY <3>3 DEF Multi!Returned
    <3>5. Sound(map)' /\ BagOf(map)' = [BagOf(map) EXCEPT ![p] = @ + 1] /\ map'.length = map.length + 1
      BY <3>1 DEF Gained, BagOf
    <3>6. map'.length \in 0..MaxLength  BY <1>1, <3>5
    <3>7. Inv'  BY <3>3, <3>5, <3>6 DEF Inv
    <3>8. Multi!Ensure(p)  BY <1>E, <2>3, <3>3, <3>4, <3>5 DEF Multi!Added
    <3> QED  BY <1>4, <3>7, <3>8 DEF Step, Multi!MultimapNext
  <2> QED  BY <2>4, <2>5
<1> QED  BY <1>5, <1>6

\* MapSetFirstL and its like.
LEMMA SetFirstStep ==
  ASSUME MapAssumption, BoundsAssumption, Inv, NEW p \in Pairs, NEW copied \in BOOLEAN, SetFirst(p, copied)
  PROVE  Step
<1> DEFINE i == map_find_index(map, p[1])
           n == [map EXCEPT !.slots[i] = Entry(p)]
<1>1. Sound(map)  BY DEF Inv
<1>2. CASE i < Capacity(map) /\ copied
  <2>1. map' = n /\ Status("set_first", TRUE)  BY <1>2 DEF SetFirst
  <2>2. Revalued(map, p, n)  BY <1>1, <1>2, SetFirstSets
  <2>3. ret' = Multi!Returned("set_first", 1) /\ ret'.n \in 0..MaxLength  BY <2>1, StatusSays
  <2> HIDE DEF n
  <2>4. Sound(map)' /\ map'.length = map.length  BY <2>1, <2>2 DEF Revalued
  <2>5. PICK q \in {p[1]} \X Values : /\ q \in Pairs /\ BagOf(map)[q] \in Nat \ {0}
                                     /\ BagOf(n) = [[BagOf(map) EXCEPT ![q] = @ - 1] EXCEPT ![p] = @ + 1]
    BY <2>2 DEF Revalued
  <2>6. BagOf(map)' = [[BagOf(map) EXCEPT ![q] = @ - 1] EXCEPT ![p] = @ + 1]  BY <2>1, <2>5 DEF BagOf
  <2>7. Inv'  BY <2>3, <2>4 DEF Inv
  <2>8. BagOf(map)[q] > 0  BY <2>5
  <2>9. Multi!SetFirst(p)
    BY <2>3, <2>5, <2>6, <2>8 DEF Multi!SetFirst, Multi!Added, Multi!Removed, Multi!PairsOf, BagOf
  <2>10. p \in Multi!Pairs  BY DEF Multi!Pairs, Pairs
  <2> QED  BY <2>7, <2>9, <2>10 DEF Step, Multi!MultimapNext
<1>3. CASE ~(i < Capacity(map) /\ copied)
  <2>1. map' = map /\ Status("set_first", FALSE)  BY <1>3 DEF SetFirst
  <2>2. Same(map, map')  BY <1>1, <2>1 DEF Same
  <2> QED  BY <2>1, <2>2, FailStep
<1> QED  BY <1>2, <1>3

\* RemoveAt the slot of a pair of P removes one of them.
LEMMA OneGoes ==
  ASSUME MapAssumption, BoundsAssumption, Inv, NEW P, P \subseteq Pairs, NEW i \in Holding(map, P), RemoveAt(i)
  PROVE  Inv' /\ Multi!RemoveOne(P)
<1> DEFINE n == map_remove_at_index(map, i)
<1>1. Sound(map) /\ map \in Maps  BY DEF Inv, Sound
<1>2. i \in Occupied(map)  BY <1>1, SlotSets
<1>3. i < Capacity(map)  BY <1>1, <1>2, SlotSets, MapShape
<1>4. map' = n /\ Status("remove", TRUE)  BY <1>3 DEF RemoveAt
<1>5. PICK p \in Pairs : /\ map.slots[i] = Entry(p) /\ p[1] = map.slots[i].key /\ i \in Holding(map, {p})
                         /\ BagOf(map)[p] \in Nat \ {0}
                         /\ \A Q : i \in Holding(map, Q) <=> p \in Q
  BY <1>1, <1>2, HeldPair
<1>6. Dropped(map, n, i, p)  BY <1>1, <1>2, <1>5, RemoveDrops
<1> HIDE DEF n
<1>7. Dropped(map, map', i, p)  BY <1>4, <1>6
<1>8. ret' = Multi!Returned("remove", 1) /\ ret'.n \in 0..MaxLength  BY <1>4, StatusSays
<1>9. Sound(map)' /\ BagOf(map)' = [BagOf(map) EXCEPT ![p] = @ - 1] /\ map'.length = map.length - 1 /\ map.length # 0
  BY <1>7 DEF Dropped, BagOf
<1>10. MaxLength \in Nat /\ map.length \in 0..MaxLength  BY DEF Inv, MapAssumption
<1>11. map'.length \in 0..MaxLength  BY <1>9, <1>10
<1>12. Inv'  BY <1>8, <1>9, <1>11 DEF Inv
<1>13. p \in P /\ BagOf(map)[p] > 0  BY <1>5
<1>14. Multi!RemoveOne(P)  BY <1>8, <1>9, <1>13 DEF Multi!RemoveOne, Multi!Removed, BagOf
<1> QED  BY <1>12, <1>14

\* RemoveAt the capacity, when no slot holds a pair of P, removes nothing.
LEMMA NoneGoes ==
  ASSUME MapAssumption, BoundsAssumption, Inv, NEW P, P \subseteq Pairs, Holding(map, P) = {},
         RemoveAt(Capacity(map))
  PROVE  Inv' /\ Multi!RemoveOne(P)
<1>1. Sound(map) /\ map \in Maps /\ Capacity(map) \in Nat  BY MapShape DEF Inv, Sound
<1>2. map' = map /\ Status("remove", FALSE)
  <2> DEFINE c == Capacity(map)
  <2>1. RemoveAt(c) /\ ~(c < Capacity(map))
    <3>1. ~(Capacity(map) < Capacity(map))  BY <1>1
    <3> QED  BY <3>1
  <2> HIDE DEF c
  <2> QED  BY <2>1 DEF RemoveAt
<1>3. ret' = Multi!Returned("remove", 0) /\ ret'.n \in 0..MaxLength  BY <1>2, StatusSays
<1>4. Inv'  BY <1>2, <1>3 DEF Inv
<1>5. Multi!CountIn(BagOf(map), P) = 0
  <2>1. Cardinality(Holding(map, P)) = 0  BY <1>1, CountInHeld
  <2>2. Multi!CountIn(BagOf(map), P) = Cardinality(Holding(map, P))  BY <1>1, CountInHeld
  <2> QED  BY <2>1, <2>2
<1>6. BagOf(map)' = BagOf(map)  BY <1>2
<1>7. Multi!RemoveOne(P)  BY <1>3, <1>5, <1>6 DEF Multi!RemoveOne, BagOf
<1> QED  BY <1>4, <1>7

\* MapRemoveFirst.
LEMMA RemoveStep ==
  ASSUME MapAssumption, BoundsAssumption, Inv, NEW k \in Keys, Remove(k)
  PROVE  Step
<1> DEFINE i == map_find_index(map, k)
           K == {k} \X Values
<1>1. Sound(map) /\ map \in Maps /\ RemoveAt(i)  BY DEF Inv, Sound, Remove
<1>2. i \in 0..Capacity(map) /\ Capacity(map) \in Nat  BY <1>1, FindIndexProps, MapShape
<1>3. SlotsOf(map, k) = Holding(map, K)  BY DEF SlotsOf
<1>4. Multi!PairsOf(k) = K /\ K \subseteq Pairs  BY DEF Multi!PairsOf, Pairs
<1>5. CASE i < Capacity(map)
  <2>1. PICK p \in Hits(map, k) : i = At(map, k, p)  BY <1>1, <1>5, FindIndexProps
  <2>2. i \in SlotsOf(map, k)  BY <1>1, <2>1, HitProps
  <2> HIDE DEF i, K
  <2>3. Inv' /\ Multi!RemoveOne(K)  BY <1>1, <1>3, <1>4, <2>2, OneGoes
  <2> QED  BY <1>4, <2>3 DEF Step, Multi!MultimapNext
<1>6. CASE ~(i < Capacity(map))
  <2>1. i = Capacity(map)  BY <1>2, <1>6
  <2>2. SlotsOf(map, k) = {}  BY <1>1, <1>6, NotFound
  <2> HIDE DEF i, K
  <2>3. Inv' /\ Multi!RemoveOne(K)  BY <1>1, <1>3, <1>4, <2>1, <2>2, NoneGoes
  <2> QED  BY <1>4, <2>3 DEF Step, Multi!MultimapNext
<1> QED  BY <1>5, <1>6

\* MapRemovePair.
LEMMA RemovePairStep ==
  ASSUME MapAssumption, BoundsAssumption, Inv, NEW p \in Pairs, RemovePair(p)
  PROVE  Step
<1> DEFINE i == PairIndex(map, p)
<1>1. Sound(map) /\ RemoveAt(i)  BY DEF Inv, RemovePair
<1>2. \/ i = Capacity(map) /\ Holding(map, {p}) = {}
      \/ i \in Holding(map, {p})
  BY <1>1, PairIndexFinds
<1>3. {p} \subseteq Pairs /\ p \in Multi!Pairs  BY DEF Multi!Pairs, Pairs
<1> HIDE DEF i
<1>4. Inv' /\ Multi!RemoveOne({p})  BY <1>1, <1>2, <1>3, OneGoes, NoneGoes
<1> QED  BY <1>3, <1>4 DEF Step, Multi!MultimapNext

\* Removing every pair of P, and saying how many.
LEMMA EachGoes ==
  ASSUME MapAssumption, BoundsAssumption, Inv, NEW P, P \subseteq Pairs, WithoutPairs(map, P, map'),
         Returns("remove_each", Cardinality(Holding(map, P)))
  PROVE  Step
<1>1. Sound(map) /\ map \in Maps /\ map.length \in Nat /\ map.length <= MaxLength /\ MaxLength \in Nat
  BY DEF Inv, Sound, MapAssumption
<1> DEFINE c == Cardinality(Holding(map, P))
<1>2. c \in Nat /\ Multi!CountIn(BagOf(map), P) = c  BY <1>1, CountInHeld
<1>3. /\ Sound(map)' /\ BagOf(map)' = [p \in Pairs |-> IF p \in P THEN 0 ELSE BagOf(map)[p]]
      /\ map'.length = map.length - c /\ map'.length \in Nat
  BY DEF WithoutPairs, BagOf
<1>4. ret' = Multi!Returned("remove_each", c) /\ ret'.n = c  BY DEF Returns, Multi!Returned
<1> HIDE DEF c
<1>5. ret'.n \in 0..MaxLength /\ map'.length \in 0..MaxLength  BY <1>1, <1>2, <1>3, <1>4
<1>6. Inv'  BY <1>3, <1>5 DEF Inv
<1>7. ret' = Multi!Returned("remove_each", Multi!CountIn(BagOf(map), P))  BY <1>2, <1>4
<1>8. Multi!RemoveEach(P)  BY <1>3, <1>7 DEF Multi!RemoveEach, Multi!Without, Multi!Pairs, Pairs, BagOf
<1>9. P \in SUBSET Multi!Pairs  BY DEF Multi!Pairs, Pairs
<1> QED  BY <1>6, <1>8, <1>9 DEF Step, Multi!MultimapNext

\* MapRemoveAll.
LEMMA RemoveAllStep ==
  ASSUME MapAssumption, BoundsAssumption, Inv, NEW k \in Keys, RemoveAll(k)
  PROVE  Step
<1> DEFINE K == {k} \X Values
           c == Cardinality(Holding(map, K))
<1>1. Sound(map) /\ map \in Maps /\ map.length \in Nat  BY DEF Inv, Sound
<1>2. K \subseteq Pairs  BY DEF Pairs
<1>3. WithoutPairs(map, K, map')  BY <1>1, RemoveAllRemoves DEF RemoveAll
<1>4. Returns("remove_each", map.length - map'.length)  BY DEF RemoveAll
<1>5. map'.length = map.length - c /\ c \in Nat  BY <1>1, <1>3, SlotsFinite DEF WithoutPairs
<1> HIDE DEF K, c
<1>6. map.length - map'.length = c  BY <1>1, <1>5
<1>7. Returns("remove_each", Cardinality(Holding(map, K)))  BY <1>4, <1>6 DEF c
<1> QED  BY <1>2, <1>3, <1>7, EachGoes

\* MapRemoveIf.
LEMMA RemoveIfStep ==
  ASSUME MapAssumption, BoundsAssumption, Inv, NEW P, P \subseteq Pairs, RemoveIf(P)
  PROVE  Step
<1>1. Sound(map)  BY DEF Inv
<1>2. WithoutPairs(map, P, map')  BY <1>1, RemoveSlotsRemoves DEF RemoveIf
<1> QED  BY <1>2, EachGoes DEF RemoveIf

\* MapClear, of a map without tombstones, and MapDeinit.
LEMMA EmptyStep ==
  ASSUME MapAssumption, BoundsAssumption, ~ClearsTombs, Inv, Clear \/ Deinit
  PROVE  Step
<1>1. Emptied(map') /\ Status("empty", TRUE)
  <2>1. CASE Clear
    <3>1. Sound(map) /\ TOMB \notin Range(map.slots) /\ map' = clear_map(map)  BY <2>1 DEF Clear, Inv
    <3> QED  BY <2>1, <3>1, ClearEmpties DEF Clear
  <2>2. CASE Deinit
    <3>1. PICK policy \in Policies :
            map' = [slots |-> NoSlots, length |-> 0, tombstones |-> 0, policy |-> policy]
      BY <2>2 DEF Deinit
    <3> DEFINE n == [slots |-> NoSlots, length |-> 0, tombstones |-> 0, policy |-> policy]
    <3>2. Sound(n) /\ n.length = 0 /\ BagOf(n) = [p \in Pairs |-> 0]  BY NoSlotsSound
    <3>3. map' = n  BY <3>1
    <3> HIDE DEF n
    <3>4. Emptied(map')  BY <3>2, <3>3 DEF Emptied
    <3> QED  BY <2>2, <3>4 DEF Deinit
  <2> QED  BY <2>1, <2>2
<1>2. ret' = Multi!Returned("empty", 1) /\ ret'.n \in 0..MaxLength  BY <1>1, StatusSays
<1>3. Sound(map)' /\ map'.length = 0 /\ BagOf(map)' = [p \in Pairs |-> 0]  BY <1>1 DEF Emptied, BagOf
<1>4. MaxLength \in Nat  BY DEF MapAssumption
<1>5. map'.length \in 0..MaxLength  BY <1>3, <1>4
<1>6. Inv'  BY <1>2, <1>3, <1>5 DEF Inv
<1>7. Multi!Empty  BY <1>2, <1>3 DEF Multi!Empty, Multi!Pairs, Pairs, BagOf
<1> QED  BY <1>6, <1>7 DEF Step, Multi!MultimapNext

\* A rebuild that keeps the entries, or says that it has failed.
LEMMA RebuildStep ==
  ASSUME MapAssumption, BoundsAssumption, ~RetryFails, Inv, NEW r, Rebuilding(map, r), Outcome("rehash", r)
  PROVE  Step /\ (ret'.call = "rehash" /\ ret'.n = 0 => map' = map)
<1>1. (r.retried => RetryFails) /\ map' = r.map /\ Status("rehash", r.ok)  BY DEF Outcome
<1>2. Sound(map)  BY DEF Inv
<1>3. CASE ~r.ok
  <2>1. map' = map /\ Status("rehash", FALSE)  BY <1>1, <1>3 DEF Rebuilding, Status
  <2>2. Same(map, map')  BY <1>2, <2>1 DEF Same
  <2> QED  BY <2>1, <2>2, FailStep
<1>4. CASE r.ok
  <2>1. Same(map, map') /\ Status("rehash", TRUE)  BY <1>1, <1>4 DEF Rebuilding, Status
  <2>2. ret' = Multi!Returned("rehash", 1) /\ ret'.n \in 0..MaxLength  BY <2>1, StatusSays
  <2>3. Sound(map)' /\ BagOf(map)' = BagOf(map) /\ map'.length = map.length  BY <2>1 DEF Same, BagOf
  <2>4. Inv'  BY <2>2, <2>3 DEF Inv
  <2>5. Multi!Rehash  BY <2>2, <2>3 DEF Multi!Rehash, BagOf
  <2>6. ret'.n = 1  BY <2>2 DEF Multi!Returned
  <2> QED  BY <2>4, <2>5, <2>6 DEF Step, Multi!MultimapNext
<1> QED  BY <1>3, <1>4

\* MapReserve, MapCompact and MapRehashWithPolicy.
LEMMA RehashStep ==
  ASSUME MapAssumption, BoundsAssumption, ~RetryFails, Inv, NEW noMem \in NoMem,
         \/ Compact(noMem)
         \/ \E n \in Requests : \/ Reserve(n, noMem)
                                \/ \E policy \in Policies : RehashWithPolicy(n, policy, noMem)
  PROVE  Step /\ (ret'.call = "rehash" /\ ret'.n = 0 => map' = map)
<1>1. Sound(map) /\ map \in Maps /\ map.policy \in Policies  BY MapShape DEF Inv, Sound
<1>2. CASE Compact(noMem)
  <2> DEFINE n == map.length
  <2>1. n \in Nat /\ 4 * n < WordSize
    <3>1. /\ n \in Nat /\ map.tombstones \in Nat /\ WordSize \in Nat
          /\ 4 * (n + map.tombstones + 1) < WordSize
      BY <1>1, TombsBound DEF Sound
    <3> DEFINE t == map.tombstones
               w == WordSize
    <3>2. n \in Nat /\ t \in Nat /\ w \in Nat /\ 4 * (n + t + 1) < w  BY <3>1
    <3> HIDE DEF n, t, w
    <3>3. 4 * n < w  BY <3>2
    <3> QED  BY <3>2, <3>3 DEF w
  <2>2. Outcome("rehash", rehash_map(map, n, map.policy, noMem))  BY <1>2 DEF Compact
  <2> HIDE DEF n
  <2> QED  BY <1>1, <2>1, <2>2, RehashKeeps, RebuildStep
<1>3. \A n \in Requests : n \in Nat /\ 4 * n < WordSize  BY DEF MapAssumption, BoundsAssumption
<1>4. ASSUME NEW n \in Requests, Reserve(n, noMem)
      PROVE  Step /\ (ret'.call = "rehash" /\ ret'.n = 0 => map' = map)
  BY <1>1, <1>3, <1>4, ReserveKeeps, RebuildStep DEF Reserve
<1>5. ASSUME NEW n \in Requests, NEW policy \in Policies, RehashWithPolicy(n, policy, noMem)
      PROVE  Step /\ (ret'.call = "rehash" /\ ret'.n = 0 => map' = map)
  BY <1>1, <1>3, <1>5, RehashKeeps, RebuildStep DEF RehashWithPolicy
<1> QED  BY <1>2, <1>4, <1>5

\* The calls that can rebuild the table on request.
Rebuilds ==
    \E noMem \in NoMem :
      \/ Compact(noMem)
      \/ \E n \in Requests :
           \/ Reserve(n, noMem)
           \/ \E policy \in Policies : RehashWithPolicy(n, policy, noMem)

\* Every step is one of the multimap, and keeps the invariant.
LEMMA NextStep ==
  ASSUME MapAssumption, BoundsAssumption, ~RetryFails, ~ClearsTombs, Inv, Next
  PROVE  Step
<1>1. ASSUME NEW p \in Pairs, NEW noMem \in NoMem, NEW copied \in BOOLEAN,
             Insert(p, noMem, copied) \/ SetOnly(p, noMem, copied) \/ EnsurePtr(p, noMem, copied)
      PROVE  Step
  BY <1>1, InsertStep, SetOnlyStep, EnsureStep
<1>2. ASSUME NEW p \in Pairs, NEW copied \in BOOLEAN, SetFirst(p, copied) PROVE Step
  BY <1>2, SetFirstStep
<1>3. ASSUME NEW k \in Keys, Remove(k) \/ RemoveAll(k) PROVE Step
  BY <1>3, RemoveStep, RemoveAllStep
<1>4. ASSUME NEW p \in Pairs, RemovePair(p) PROVE Step
  BY <1>4, RemovePairStep
<1>5. ASSUME NEW P \in Predicates, RemoveIf(P) \/ RetainIf(P) PROVE Step
  <2>1. P \subseteq Pairs /\ Pairs \ P \subseteq Pairs  BY DEF MapAssumption, Pairs
  <2> QED  BY <1>5, <2>1, RemoveIfStep DEF RetainIf
<1>6. ASSUME Clear \/ Deinit PROVE Step
  BY <1>6, EmptyStep
<1>7. ASSUME Rebuilds PROVE Step
  BY <1>7, RehashStep DEF Rebuilds
<1> QED  BY <1>1, <1>2, <1>3, <1>4, <1>5, <1>6, <1>7 DEF Next, Rebuilds

\* The table is sound in every state.
THEOREM MapInvariant ==
  ASSUME ~RetryFails, ~ClearsTombs
  PROVE  Spec => []Inv
<1> USE MapAssumption, BoundsAssumption
<1>1. Init => Inv  BY InitEmpty
<1>2. Inv /\ [Next]_vars => Inv'
  <2> SUFFICES ASSUME Inv, [Next]_vars PROVE Inv'  OBVIOUS
  <2>1. CASE Next  BY <2>1, NextStep DEF Step
  <2>2. CASE UNCHANGED vars
    <3>1. map' = map /\ ret' = ret  BY <2>2 DEF vars
    <3> QED  BY <3>1 DEF Inv
  <2> QED  BY <2>1, <2>2
<1> QED  BY <1>1, <1>2, PTL DEF Spec

\* length and tombstones, on which the decision to rebuild rests, are the
\* numbers of occupied and of deleted slots in every state.
THEOREM MapCountersExact ==
  ASSUME ~RetryFails, ~ClearsTombs
  PROVE  Spec => []CountersExact
<1>1. ASSUME Inv PROVE CountersExact
  <2> USE MapAssumption, BoundsAssumption
  <2>1. map \in Maps /\ Counted(map) /\ Capacity(map) <= MaxCapacity  BY <1>1 DEF Inv, Sound
  <2>2. map.length = Cardinality(Occupied(map)) /\ map.tombstones = Cardinality({i \in DOMAIN map.slots : map.slots[i] = TOMB})
    BY <2>1 DEF Counted, Tombs
  <2>3. DOMAIN map = {"slots", "length", "tombstones", "policy"}  BY <2>1 DEF Maps
  <2>4. DOMAIN map.slots \in {0..(c - 1) : c \in Tables \cup {0}}  BY <2>1, MapShape
  <2>5. Range(map.slots) \subseteq Entries \cup {EMPTY, TOMB}
    <3>1. map.slots \in [0..(Capacity(map) - 1) -> Slot]  BY <2>1, MapShape
    <3> QED  BY <3>1 DEF Range, Slot
  <2>6. map.length \in 0..MaxLength /\ ret.n \in 0..MaxLength  BY <1>1 DEF Inv
  <2>7. map.tombstones \in 0..(WordSize - 1)
    <3>1. map.tombstones \in Nat /\ WordSize \in Nat /\ map.tombstones + 1 < WordSize  BY <2>1, TombsBound
    <3> QED  BY <3>1
  <2>8. map.policy \in Policies  BY <2>1, MapShape
  <2> QED  BY <2>2, <2>3, <2>4, <2>5, <2>6, <2>7, <2>8 DEF CountersExact, MapTypeOK
<1> QED  BY <1>1, MapInvariant, PTL

\* A table with storage has an empty slot, so that every scan ends.
THEOREM MapScansEnd ==
  ASSUME ~RetryFails, ~ClearsTombs
  PROVE  Spec => []ScansEnd
<1>1. ASSUME Inv PROVE ScansEnd
  <2> USE MapAssumption, BoundsAssumption
  <2> SUFFICES ASSUME Capacity(map) > 0 PROVE EMPTY \in Range(map.slots)  BY DEF ScansEnd
  <2>1. Sound(map) /\ map \in Maps  BY <1>1 DEF Inv, Sound
  <2>2. Capacity(map) \in Nat /\ DOMAIN map.slots = 0..(Capacity(map) - 1)  BY <2>1, MapShape
  <2>3. PICK i \in 0..(Capacity(map) - 1) : map.slots[i] = EMPTY  BY <2>1, <2>2, HasEmpty
  <2> QED  BY <2>2, <2>3 DEF Range
<1> QED  BY <1>1, MapInvariant, PTL

\* The cursor of a key visits each of the key's entries once, and ends.
THEOREM MapCursorExact ==
  ASSUME ~RetryFails, ~ClearsTombs
  PROVE  Spec => []CursorExact
<1>1. ASSUME Inv PROVE CursorExact
  BY <1>1, WalkExact, MapAssumption, BoundsAssumption DEF Inv, CursorExact
<1> QED  BY <1>1, MapInvariant, PTL

\* Every call does to the bag of the entries what Multimap says it does.
THEOREM MapImplementsMultimap ==
  ASSUME ~RetryFails, ~ClearsTombs
  PROVE  Spec => ImplementsMultimap
<1> USE MapAssumption, BoundsAssumption
<1>1. Init => Multi!MultimapInit  BY InitEmpty
<1>2. Inv /\ [Next]_vars => [Multi!MultimapNext]_<<[p \in Pairs |-> Cardinality(Holding(map, {p}))], ret>>
  <2> SUFFICES ASSUME Inv, [Next]_vars
               PROVE  [Multi!MultimapNext]_<<[p \in Pairs |-> Cardinality(Holding(map, {p}))], ret>>
    OBVIOUS
  <2>1. CASE Next  BY <2>1, NextStep DEF Step
  <2>2. CASE UNCHANGED vars
    <3>1. map' = map /\ ret' = ret  BY <2>2 DEF vars
    <3> QED  BY <3>1
  <2> QED  BY <2>1, <2>2
<1> QED  BY <1>1, <1>2, MapInvariant, PTL DEF Spec, ImplementsMultimap, Multi!MultimapSpec

\* A rehash that fails leaves the map and its policy as they were, provided
\* that no retry runs out of memory.
THEOREM RehashFailsClean ==
  ASSUME ~RetryFails, ~ClearsTombs
  PROVE  Spec => FailedRehashKeepsMap
<1> USE MapAssumption, BoundsAssumption
<1>1. ASSUME NEW c, c # "rehash", NEW n, Returns(c, n) PROVE ret'.call # "rehash"
  BY <1>1 DEF Returns
<1>2. \A c, ok : c # "rehash" /\ Status(c, ok) => ret'.call # "rehash"
  BY <1>1 DEF Status
<1>3. ASSUME NEW p \in Pairs, NEW noMem \in NoMem, NEW copied \in BOOLEAN,
             Insert(p, noMem, copied) \/ SetOnly(p, noMem, copied) \/ EnsurePtr(p, noMem, copied)
      PROVE  ret'.call # "rehash"
  BY <1>2, <1>3 DEF Insert, SetOnly, EnsurePtr, Outcome
<1>4. ASSUME NEW p \in Pairs, NEW copied \in BOOLEAN, SetFirst(p, copied) PROVE ret'.call # "rehash"
  BY <1>2, <1>4 DEF SetFirst
<1>5. ASSUME NEW k \in Keys, Remove(k) \/ RemoveAll(k) PROVE ret'.call # "rehash"
  BY <1>1, <1>2, <1>5 DEF Remove, RemoveAt, RemoveAll
<1>6. ASSUME NEW p \in Pairs, RemovePair(p) PROVE ret'.call # "rehash"
  BY <1>2, <1>6 DEF RemovePair, RemoveAt
<1>7. ASSUME NEW P \in Predicates, RemoveIf(P) \/ RetainIf(P) PROVE ret'.call # "rehash"
  BY <1>1, <1>7 DEF RetainIf, RemoveIf
<1>8. ASSUME Clear \/ Deinit PROVE ret'.call # "rehash"
  BY <1>2, <1>8 DEF Clear, Deinit
<1>9. Inv /\ [Next]_vars => [ret'.call = "rehash" /\ ret'.n = 0 => UNCHANGED map]_vars
  <2> SUFFICES ASSUME Inv, Next, ret'.call = "rehash", ret'.n = 0 PROVE map' = map  OBVIOUS
  <2>1. Rebuilds  BY <1>3, <1>4, <1>5, <1>6, <1>7, <1>8 DEF Next, Rebuilds
  <2> QED  BY <2>1, RehashStep DEF Rebuilds
<1> QED  BY <1>9, MapInvariant, PTL DEF Spec, FailedRehashKeepsMap
====
