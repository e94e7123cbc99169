---------------------------- MODULE GetoptProofs ----------------------------
(***************************************************************************)
(* Theorems about Getopt, for command lines of every length. permute_args   *)
(* makes its cycles in loops: a loop's function exists because a set of    *)
(* naturals that is not empty has a least element (Counting, Iteration).   *)
(* gcd divides both lengths and is a sum of their multiples, so each cycle *)
(* is a circle through the words whose places agree modulo ncycle, and the *)
(* ncycle cycles together exchange the two blocks. With that, each step of *)
(* getopt_internal keeps the words it has read and those it has skipped in *)
(* order (ReadingInv), and they are so when it is done.                    *)
(***************************************************************************)
EXTENDS Getopt, Extrema, SequenceTheorems

-----------------------------------------------------------------------------
(* Counting and iterating.                                                 *)

\* A set with 0 and with the successor of each of its numbers has every number.
LEMMA Counting ==
  ASSUME NEW T, 0 \in T, \A n \in Nat : n \in T => n + 1 \in T
  PROVE  \A n \in Nat : n \in T
<1>. DEFINE Out == {n \in Nat : n \notin T}
<1>1. SUFFICES ASSUME Out # {}
               PROVE  FALSE
  OBVIOUS
<1>2. PICK n \in Out : \A k \in Out : n <= k
  BY <1>1, MinExists
<1>3. n \in Nat /\ n # 0
  OBVIOUS
<1>4. n - 1 \in Nat /\ n - 1 \notin Out
  BY <1>2, <1>3
<1>5. (n - 1) + 1 \in T
  BY <1>4
<1>. QED
  BY <1>3, <1>5

\* Steps on S, each a function, and the sequences of what they make of b.
StepsOn(S) == [Nat -> [S -> S]]
Runs(S, b, F) == {f \in [Nat -> S] : f[0] = b /\ \A n \in Nat : f[n + 1] = F[n + 1][f[n]]}

\* Whatever the steps are, there is such a sequence.
LEMMA Iteration ==
  ASSUME NEW S, NEW b \in S, NEW F \in StepsOn(S)
  PROVE  Runs(S, b, F) # {}
<1>. SUFFICES \E f \in [Nat -> S] : f[0] = b /\ \A n \in Nat : f[n + 1] = F[n + 1][f[n]]
  BY DEF Runs
<1>. F \in [Nat -> [S -> S]]
  BY DEF StepsOn
<1>. DEFINE Upto(n) == {g \in [0..n -> S] : g[0] = b /\ \A k \in 0..n - 1 : g[k + 1] = F[k + 1][g[k]]}
            T == {n \in Nat : Upto(n) # {}}
<1>1. \A n \in Nat : n \in T
  <2>1. 0 \in T
    <3>1. [k \in 0..0 |-> b] \in Upto(0)
      OBVIOUS
    <3>. QED
      BY <3>1
  <2>2. ASSUME NEW n \in Nat, n \in T
        PROVE  n + 1 \in T
    <3>1. PICK g \in Upto(n) : TRUE
      BY <2>2
    <3>2. n + 1 \in Nat /\ n \in 0..n /\ F[n + 1] \in [S -> S] /\ g[n] \in S
      OBVIOUS
    <3>. DEFINE h == [k \in 0..n + 1 |-> IF k = n + 1 THEN F[n + 1][g[n]] ELSE g[k]]
    <3>3. h \in [0..n + 1 -> S]
      BY <3>2
    <3>4. h[0] = b
      OBVIOUS
    <3>5. ASSUME NEW k \in 0..(n + 1) - 1
          PROVE  h[k + 1] = F[k + 1][h[k]]
      <4>1. h[k] = g[k]
        OBVIOUS
      <4>2. CASE k = n
        BY <4>1, <4>2
      <4>3. CASE k # n
        <5>1. k \in 0..n - 1 /\ k + 1 \in 0..n + 1 /\ k + 1 # n + 1
          BY <4>3
        <5>. QED
          BY <4>1, <5>1
      <4>. QED
        BY <4>2, <4>3
    <3>6. h \in Upto(n + 1)
      <4>. HIDE DEF h
      <4>. QED
        BY <3>3, <3>4, <3>5
    <3>. QED
      BY <3>2, <3>6
  <2>. HIDE DEF T
  <2>. QED
    BY <2>1, <2>2, Counting
<1>2. ASSUME NEW n \in Nat, NEW m \in Nat, NEW g \in Upto(n), NEW h \in Upto(m)
      PROVE  \A k \in Nat : k <= n /\ k <= m => g[k] = h[k]
  <2>. DEFINE A == {k \in Nat : k <= n /\ k <= m => g[k] = h[k]}
  <2>1. 0 \in A
    OBVIOUS
  <2>2. ASSUME NEW k \in Nat, k \in A
        PROVE  k + 1 \in A
    <3>1. SUFFICES ASSUME k + 1 <= n, k + 1 <= m
                   PROVE  g[k + 1] = h[k + 1]
      OBVIOUS
    <3>2. k \in 0..n - 1 /\ k \in 0..m - 1
      BY <3>1
    <3>. QED
      BY <2>2, <3>1, <3>2
  <2>3. \A k \in Nat : k \in A
    <3>. HIDE DEF A
    <3>. QED
      BY <2>1, <2>2, Counting
  <2>. QED
    BY <2>3
<1>. DEFINE a == [n \in Nat |-> CHOOSE g : g \in Upto(n)]
            f == [n \in Nat |-> a[n][n]]
<1>3. \A n \in Nat : a[n] \in Upto(n)
  BY <1>1
<1>. HIDE DEF a
<1>4. ASSUME NEW n \in Nat
      PROVE  f[n] \in S
  BY <1>3
<1>5. f[0] = b
  BY <1>3
<1>6. ASSUME NEW n \in Nat
      PROVE  f[n + 1] = F[n + 1][f[n]]
  <2>1. n + 1 \in Nat /\ a[n + 1] \in Upto(n + 1) /\ a[n] \in Upto(n) /\ n \in 0..(n + 1) - 1
    <3>. HIDE DEF Upto
    <3>. QED
      BY <1>3
  <2>2. a[n + 1][n] = a[n][n]
    <3>. HIDE DEF Upto
    <3>. QED
      BY <1>2, <2>1
  <2>3. a[n + 1][n + 1] = F[n + 1][a[n + 1][n]]
    BY <2>1
  <2>4. f[n + 1] = a[n + 1][n + 1] /\ f[n] = a[n][n]
    BY <2>1
  <2>. QED
    BY <2>2, <2>3, <2>4
<1>7. f \in [Nat -> S]
  BY <1>4
<1>. QED
  <2>. HIDE DEF f
  <2>. QED
    BY <1>5, <1>6, <1>7

-----------------------------------------------------------------------------
(* The greatest common divisor.                                            *)

Pairs == Nat \X (Nat \ {0})

LEMMA PairOfTwo ==
  ASSUME NEW x \in Pairs
  PROVE  \E p \in Nat, q \in Nat \ {0} : x = <<p, q>>
BY DEF Pairs

LEMMA EuclidStepType ==
  ASSUME NEW p \in Pairs
  PROVE  EuclidStep(p) \in Pairs
<1>1. p[1] \in Nat /\ p[2] \in Nat \ {0} /\ p[1] % p[2] \in Nat
  BY DEF Pairs
<1>. QED
  BY <1>1 DEF EuclidStep, Pairs

LEMMA EuclidTurns ==
  ASSUME NEW a \in Nat, NEW b \in Nat \ {0}
  PROVE  /\ Euclid(a, b) \in [Nat -> Pairs]
         /\ Euclid(a, b)[0] = <<a, b>>
         /\ \A n \in Nat : Euclid(a, b)[n + 1] = EuclidStep(Euclid(a, b)[n])
<1>. DEFINE F == [n \in Nat |-> [p \in Pairs |-> EuclidStep(p)]]
            E == Euclid(a, b)
<1>1. F \in [Nat -> [Pairs -> Pairs]]
  BY EuclidStepType
<1>2. <<a, b>> \in Pairs
  BY DEF Pairs
<1>3. PICK f \in [Nat -> Pairs] : f[0] = <<a, b>> /\ \A n \in Nat : f[n + 1] = F[n + 1][f[n]]
  <2>1. F \in StepsOn(Pairs)
    BY <1>1 DEF StepsOn
  <2>. HIDE DEF F
  <2>2. Runs(Pairs, <<a, b>>, F) # {}
    BY <1>2, <2>1, Iteration
  <2>. QED
    BY <2>2 DEF Runs
<1>4. ASSUME NEW n \in Nat
      PROVE  f[n + 1] = EuclidStep(f[n])
  <2>1. F[n + 1] = [p \in Pairs |-> EuclidStep(p)]
    OBVIOUS
  <2>. HIDE DEF F
  <2>2. f[n] \in Pairs /\ f[n + 1] = F[n + 1][f[n]]
    BY <1>3
  <2>. QED
    BY <2>1, <2>2
<1>5. f = [k \in Nat |-> IF k = 0 THEN <<a, b>> ELSE EuclidStep(f[k - 1])]
  <2>1. ASSUME NEW k \in Nat
        PROVE  f[k] = IF k = 0 THEN <<a, b>> ELSE EuclidStep(f[k - 1])
    <3>1. CASE k = 0
      BY <1>3, <3>1
    <3>2. CASE k # 0
      <4>1. k - 1 \in Nat /\ (k - 1) + 1 = k
        BY <3>2
      <4>. QED
        BY <1>4, <3>2, <4>1
    <3>. QED
      BY <3>1, <3>2
  <2>. QED
    BY <2>1
<1>6. E = [k \in Nat |-> IF k = 0 THEN <<a, b>> ELSE EuclidStep(E[k - 1])]
  BY <1>5 DEF Euclid
<1>. HIDE DEF E
<1>7. E[0] = <<a, b>>
  BY <1>6
<1>8. \A n \in Nat : E[n + 1] = EuclidStep(E[n])
  BY <1>6
<1>9. \A n \in Nat : E[n] \in Pairs
  <2>. DEFINE T == {n \in Nat : E[n] \in Pairs}
  <2>1. 0 \in T
    BY <1>2, <1>7
  <2>2. ASSUME NEW n \in Nat, n \in T
        PROVE  n + 1 \in T
    BY <1>8, <2>2, EuclidStepType
  <2>. HIDE DEF T
  <2>3. \A n \in Nat : n \in T
    BY <2>1, <2>2, Counting
  <2>. QED
    BY <2>3 DEF T
<1>10. E \in [Nat -> Pairs]
  BY <1>6, <1>9
<1>. QED
  BY <1>7, <1>8, <1>10 DEF E

LEMMA DivModInt ==
  ASSUME NEW u \in Int, NEW l \in Nat \ {0}
  PROVE  u \div l \in Int /\ u % l \in 0..l - 1 /\ u = (u \div l) * l + (u % l)
OBVIOUS

LEMMA DivMod ==
  ASSUME NEW p \in Nat, NEW q \in Nat \ {0}
  PROVE  p \div q \in Nat /\ p % q \in 0..q - 1 /\ p = q * (p \div q) + (p % q)
OBVIOUS

Divides(d, n) == \E k \in Int : n = k * d
Combines(a, b, n) == \E x, y \in Int : n = x * a + y * b

LEMMA DividesSum ==
  ASSUME NEW d \in Int, NEW m \in Int, NEW n \in Int, NEW z \in Int, NEW w,
         Divides(d, m), Divides(d, n), w = z * m + n
  PROVE  Divides(d, w)
<1>1. PICK k \in Int : m = k * d
  BY DEF Divides
<1>2. PICK l \in Int : n = l * d
  BY DEF Divides
<1>3. z * (k * d) + l * d = (z * k + l) * d /\ z * k + l \in Int
  OBVIOUS
<1>. QED
  BY <1>1, <1>2, <1>3 DEF Divides

LEMMA CombinesSum ==
  ASSUME NEW a \in Int, NEW b \in Int, NEW m \in Int, NEW n \in Int, NEW z \in Int,
         NEW w, Combines(a, b, m), Combines(a, b, n), w = z * m + n
  PROVE  Combines(a, b, w)
<1>1. PICK k \in Int, l \in Int : m = k * a + l * b
  BY DEF Combines
<1>2. PICK u \in Int, v \in Int : n = u * a + v * b
  BY DEF Combines
<1>3. /\ z * (k * a + l * b) + (u * a + v * b) = (z * k + u) * a + (z * l + v) * b
      /\ z * k + u \in Int /\ z * l + v \in Int
  OBVIOUS
<1>. QED
  BY <1>1, <1>2, <1>3 DEF Combines

\* d is the greatest common divisor of a and b: it divides both, and is a combination of them.
IsGcd(d, a, b) == d \in Nat \ {0} /\ Divides(d, a) /\ Divides(d, b) /\ Combines(a, b, d)

\* What a turn of Euclid keeps: the common divisors, and that the two are combinations.
Kept(a, b, p) ==
  /\ Combines(a, b, p[1]) /\ Combines(a, b, p[2])
  /\ \A d \in Int : Divides(d, p[1]) /\ Divides(d, p[2]) => Divides(d, a) /\ Divides(d, b)

LEMMA EuclidStepKeeps ==
  ASSUME NEW a \in Nat, NEW b \in Nat \ {0}, NEW p \in Pairs, Kept(a, b, p)
  PROVE  Kept(a, b, EuclidStep(p))
<1>1. CASE p[1] % p[2] = 0
  BY <1>1 DEF EuclidStep
<1>2. CASE p[1] % p[2] # 0
  <2>1. PICK m \in Nat, n \in Nat \ {0} : m = p[1] /\ n = p[2]
    BY DEF Pairs
  <2>. DEFINE r == m % n
  <2>2. PICK k \in Nat : r \in Nat /\ m = k * n + r
    <3>1. m \div n \in Nat /\ m % n \in Nat /\ m = n * (m \div n) + (m % n)
      OBVIOUS
    <3>2. n * (m \div n) = (m \div n) * n
      BY <3>1
    <3>. QED
      BY <3>1, <3>2
  <2>. HIDE DEF r
  <2>3. Combines(a, b, r)
    <3>1. PICK z \in Int : z = 0 - k
      OBVIOUS
    <3>2. r = z * n + m
      BY <2>2, <3>1
    <3>3. Combines(a, b, m) /\ Combines(a, b, n)
      BY <2>1 DEF Kept
    <3>4. a \in Int /\ b \in Int /\ m \in Int /\ n \in Int
      BY <2>2
    <3>. QED
      BY <3>2, <3>3, <3>4, CombinesSum, Zenon
  <2>4. ASSUME NEW d \in Int, Divides(d, n), Divides(d, r)
        PROVE  Divides(d, m)
    <3>1. n \in Int /\ r \in Int /\ k \in Int
      BY <2>2
    <3>. QED
      BY <2>2, <2>4, <3>1, DividesSum, Zenon
  <2>5. EuclidStep(p) = <<n, r>>
    BY <1>2, <2>1 DEF EuclidStep, r
  <2>6. Kept(a, b, <<n, r>>)
    BY <2>1, <2>3, <2>4 DEF Kept
  <2>. QED
    BY <2>5, <2>6
<1>. QED
  BY <1>1, <1>2

(* gcd, with as many turns as b is large, returns the greatest common      *)
(* divisor of the two lengths.                                             *)
THEOREM GcdCorrect ==
  ASSUME NEW a \in Nat, NEW b \in Nat \ {0}
  PROVE  IsGcd(gcd(a, b), a, b)
<1>. DEFINE E == Euclid(a, b)
<1>. HIDE DEF E
<1>1. /\ E \in [Nat -> Pairs] /\ E[0] = <<a, b>>
      /\ \A n \in Nat : E[n] \in Pairs /\ E[n + 1] = EuclidStep(E[n])
  BY EuclidTurns DEF E
<1>2. \A n \in Nat : Kept(a, b, E[n])
  <2>. DEFINE T == {n \in Nat : Kept(a, b, E[n])}
  <2>1. 0 \in T
    <3>1. a = 1 * a + 0 * b /\ b = 0 * a + 1 * b
      OBVIOUS
    <3>2. Combines(a, b, a) /\ Combines(a, b, b)
      BY <3>1, 1 \in Int, 0 \in Int, Zenon DEF Combines
    <3>3. Kept(a, b, <<a, b>>)
      BY <3>2 DEF Kept
    <3>. QED
      BY <1>1, <3>3
  <2>2. ASSUME NEW n \in Nat, n \in T
        PROVE  n + 1 \in T
    BY <1>1, <2>2, EuclidStepKeeps
  <2>. HIDE DEF T
  <2>3. \A n \in Nat : n \in T
    BY <2>1, <2>2, Counting
  <2>. QED
    BY <2>3 DEF T
<1>3. \A n \in Nat : E[n][1] % E[n][2] = 0 \/ E[n][2] <= b - n
  <2>. DEFINE T == {n \in Nat : E[n][1] % E[n][2] = 0 \/ E[n][2] <= b - n}
  <2>1. 0 \in T
    BY <1>1
  <2>2. ASSUME NEW n \in Nat, n \in T
        PROVE  n + 1 \in T
    <3>. PICK p \in Nat, q \in Nat \ {0} : E[n] = <<p, q>>
      BY <1>1, PairOfTwo
    <3>1. E[n + 1] = EuclidStep(<<p, q>>)
      BY <1>1
    <3>2. CASE p % q = 0
      <4>1. E[n + 1] = <<p, q>>
        BY <3>1, <3>2 DEF EuclidStep
      <4>. QED
        BY <3>2, <4>1
    <3>3. CASE p % q # 0
      <4>1. q <= b - n
        BY <2>2, <3>3
      <4>2. E[n + 1] = <<q, p % q>>
        BY <3>1, <3>3 DEF EuclidStep
      <4>3. p % q \in Nat /\ p % q < q
        BY DivMod
      <4>. QED
        BY <4>1, <4>2, <4>3
    <3>. QED
      BY <3>2, <3>3
  <2>. HIDE DEF T
  <2>3. \A n \in Nat : n \in T
    BY <2>1, <2>2, Counting
  <2>. QED
    BY <2>3 DEF T
<1>4. PICK p \in Nat, q \in Nat \ {0} : E[b] = <<p, q>>
  BY <1>1, PairOfTwo
<1>5. p % q = 0
  BY <1>3, <1>4
<1>6. Divides(q, p) /\ Divides(q, q)
  <2>1. p = (p \div q) * q /\ p \div q \in Int /\ q = 1 * q
    BY <1>5
  <2>. QED
    BY <2>1 DEF Divides
<1>7. Kept(a, b, <<p, q>>)
  BY <1>2, <1>4
<1>8. IsGcd(q, a, b)
  BY <1>6, <1>7 DEF Kept, IsGcd
<1>. QED
  BY <1>4, <1>8 DEF gcd, E

-----------------------------------------------------------------------------
(* The lengths of two blocks, their common divisor and the cycles' length. *)

LEMMA SmallMultiple ==
  ASSUME NEW n \in Nat \ {0}, NEW x \in Int, Divides(n, x), -n < x, x < n
  PROVE  x = 0
<1>1. PICK k \in Int : x = k * n
  BY DEF Divides
<1>2. CASE k >= 1
  <2>1. PICK j \in Nat : k = j + 1
    <3>1. k - 1 \in Nat /\ k = (k - 1) + 1
      BY <1>2
    <3>. QED
      BY <3>1
  <2>2. x = j * n + n /\ j * n >= 0
    BY <1>1, <2>1
  <2>. QED
    BY <2>2
<1>3. CASE k <= -1
  <2>1. PICK j \in Nat : k = -j - 1
    <3>1. -k - 1 \in Nat /\ k = -(-k - 1) - 1
      BY <1>3
    <3>. QED
      BY <3>1
  <2>2. x = -(j * n) - n /\ j * n >= 0
    BY <1>1, <2>1
  <2>. QED
    BY <2>2
<1>4. CASE k = 0
  BY <1>1, <1>4
<1>. QED
  BY <1>2, <1>3, <1>4

LEMMA CancelFactor ==
  ASSUME NEW g \in Nat \ {0}, NEW x \in Int, NEW y \in Int, x * g = y * g
  PROVE  x = y
<1>1. PICK z \in Int : z = x - y
  OBVIOUS
<1>2. z * g = x * g - y * g
  BY <1>1
<1>3. z * g = 0
  BY <1>2
<1>4. z = 0
  BY <1>3
<1>. QED
  BY <1>1, <1>4

\* What is true of n = a + b with the divisor g, in L parts.
Parts(a, b, g, n, L) ==
  /\ g \in 1..b /\ n = a + b /\ L \in Nat \ {0} /\ n = g * L /\ L = n \div g
  /\ Divides(g, n) /\ Divides(g, b) /\ Divides(n, L * b)
  /\ \A d \in Int : Divides(n, d * b) => Divides(L, d)
  /\ \A x \in Int : Divides(g, x) => \E k \in 0..L - 1 : Divides(n, x - k * b)

LEMMA PartsOfLengths ==
  ASSUME NEW a \in Nat \ {0}, NEW b \in Nat \ {0}, NEW g, IsGcd(g, a, b)
  PROVE  Parts(a, b, g, a + b, (a + b) \div g)
<1>1. g \in Nat \ {0}
  BY DEF IsGcd
<1>2. PICK a1 \in Int, b1 \in Int : a = a1 * g /\ b = b1 * g
  BY DEF IsGcd, Divides
<1>3. PICK x \in Int, y \in Int : g = x * a + y * b
  BY DEF IsGcd, Combines
<1>4. a1 >= 1 /\ b1 >= 1
  <2>1. ASSUME NEW z \in Int, z * g > 0
        PROVE  z >= 1
    <3>1. SUFFICES ASSUME z <= 0
                   PROVE  z * g <= 0
      BY <1>1, <2>1
    <3>2. PICK j \in Nat : z = -j
      <4>1. -z \in Nat /\ z = -(-z)
        BY <3>1
      <4>. QED
        BY <4>1
    <3>3. j * g >= 0 /\ z * g = -(j * g)
      BY <1>1, <3>2
    <3>. QED
      BY <1>1, <3>3
  <2>. QED
    BY <1>2, <2>1
<1>. DEFINE n == a + b
            L == a1 + b1
<1>5. L \in Nat \ {0} /\ n = g * L /\ n \in Nat \ {0}
  BY <1>1, <1>2, <1>4
<1>6. g \in 1..b
  <2>1. PICK j \in Nat : b1 = j + 1
    <3>1. b1 - 1 \in Nat /\ b1 = (b1 - 1) + 1
      BY <1>4
    <3>. QED
      BY <3>1
  <2>2. b = j * g + g /\ j * g >= 0
    BY <1>1, <1>2, <2>1
  <2>. QED
    BY <1>1, <2>2
<1>7. n \div g = L
  BY <1>1, <1>5
<1>8. Divides(g, n) /\ Divides(g, b)
  <2>1. n = L * g /\ L \in Int
    BY <1>1, <1>5
  <2>. QED
    BY <1>2, <2>1 DEF Divides
<1>9. Divides(n, L * b)
  <2>1. L * b = b1 * n
    BY <1>1, <1>2
  <2>. QED
    BY <2>1 DEF Divides
<1>10. PICK z \in Int : g = x * n + z * b /\ 1 = x * L + z * b1
  <2>1. PICK z \in Int : z = y - x
    OBVIOUS
  <2>2. g = x * n + z * b
    <3>1. z * b = y * b - x * b /\ x * n = x * a + x * b
      BY <2>1
    <3>. QED
      BY <1>3, <3>1
  <2>3. (x * L + z * b1) * g = 1 * g
    <3>1. (x * L) * g = x * n /\ (z * b1) * g = z * b
      BY <1>1, <1>2, <1>5
    <3>2. PICK u \in Int, w \in Int : u = x * L /\ w = z * b1
      BY <1>5
    <3>3. (u + w) * g = u * g + w * g
      BY <1>1
    <3>. QED
      BY <1>1, <2>2, <3>1, <3>2, <3>3
  <2>4. x * L + z * b1 \in Int
    BY <1>5
  <2>5. x * L + z * b1 = 1
    BY <1>1, <2>3, <2>4, CancelFactor
  <2>. QED
    BY <2>2, <2>5
<1>11. ASSUME NEW d \in Int, Divides(n, d * b)
       PROVE  Divides(L, d)
  <2>1. PICK k \in Int : d * b = k * n
    BY <1>11 DEF Divides
  <2>2. d * b1 = k * L
    <3>1. (d * b1) * g = d * b /\ (k * L) * g = k * n
      BY <1>1, <1>2, <1>5
    <3>2. d * b1 \in Int /\ k * L \in Int
      BY <1>5
    <3>. QED
      BY <1>1, <2>1, <3>1, <3>2, CancelFactor
  <2>3. d = (x * d + z * k) * L
    <3>1. d * (x * L + z * b1) = d
      BY <1>10
    <3>2. d * (x * L + z * b1) = (x * d) * L + z * (d * b1)
      BY <1>5
    <3>3. (x * d + z * k) * L = (x * d) * L + z * (k * L)
      BY <1>5
    <3>. QED
      BY <2>2, <3>1, <3>2, <3>3
  <2>. QED
    BY <2>3 DEF Divides
<1>12. ASSUME NEW w \in Int, Divides(g, w)
       PROVE  \E k \in 0..L - 1 : Divides(n, w - k * b)
  <2>1. PICK t \in Int : w = t * g
    BY <1>12 DEF Divides
  <2>2. PICK u \in Int : u = t * z
    OBVIOUS
  <2>3. PICK q \in Int, k \in 0..L - 1 : u = q * L + k
    <3>1. PICK l \in Nat \ {0} : l = L
      BY <1>5
    <3>. HIDE DEF L
    <3>2. u \div l \in Int /\ u % l \in 0..l - 1 /\ u = (u \div l) * l + (u % l)
      BY DivModInt
    <3>. QED
      BY <3>1, <3>2
  <2>4. w - k * b = (t * x + q * b1) * n
    <3>1. w = (t * x) * n + u * b
      <4>1. t * (x * n + z * b) = (t * x) * n + (t * z) * b
        BY <1>5
      <4>. QED
        BY <1>10, <2>1, <2>2, <4>1
    <3>2. u * b = q * (L * b) + k * b
      BY <1>5, <2>3
    <3>3. L * b = b1 * n
      BY <1>1, <1>2
    <3>4. (t * x + q * b1) * n = (t * x) * n + q * (b1 * n)
      BY <1>5
    <3>. QED
      BY <3>1, <3>2, <3>3, <3>4
  <2>. QED
    BY <2>4 DEF Divides
<1>. HIDE DEF L
<1>. QED
  BY <1>5, <1>6, <1>7, <1>8, <1>9, <1>11, <1>12 DEF Parts

-----------------------------------------------------------------------------
(* The positions of one cycle.                                             *)

Blocks(s, m, e) == s \in Nat /\ m \in Nat /\ e \in Nat /\ s < m /\ m < e
\* Where the word comes from that goes to a position.
Before(pos, s, m, e) == IF pos < s + (e - m) THEN pos + (m - s) ELSE pos - (e - m)

LEMMA NextPosFacts ==
  ASSUME NEW s, NEW m, NEW e, Blocks(s, m, e), NEW pos \in s..e - 1
  PROVE  /\ NextPos(pos, s, m, e) \in s..e - 1
         /\ NextPos(pos, s, m, e) \in {pos + (e - m), pos + (e - m) - (e - s)}
         /\ Before(NextPos(pos, s, m, e), s, m, e) = pos
BY DEF Blocks, NextPos, Before

LEMMA BeforeFacts ==
  ASSUME NEW s, NEW m, NEW e, Blocks(s, m, e), NEW pos \in s..e - 1
  PROVE  /\ Before(pos, s, m, e) \in s..e - 1
         /\ Before(pos, s, m, e) \in {pos - (e - m), pos - (e - m) + (e - s)}
BY DEF Blocks, Before

\* p is the sequence of the positions, from c.
Walk(p, s, m, e, c) ==
  p \in [Nat -> s..e - 1] /\ p[0] = c /\ \A k \in Nat : p[k + 1] = NextPos(p[k], s, m, e)

LEMMA WalkMod ==
  ASSUME NEW s, NEW m, NEW e, Blocks(s, m, e), NEW c \in s..e - 1, NEW p, Walk(p, s, m, e, c)
  PROVE  \A k \in Nat : Divides(e - s, (p[k] - c) - k * (e - m))
<1>. DEFINE T == {k \in Nat : Divides(e - s, (p[k] - c) - k * (e - m))}
<1>. PICK n \in Nat, b \in Nat : n = e - s /\ b = e - m
  BY DEF Blocks
<1>0. s \in Nat /\ e \in Nat /\ c \in Nat
  BY DEF Blocks
<1>1. 0 \in T
  <2>1. (p[0] - c) - 0 * b = 0 * n
    BY <1>0 DEF Walk
  <2>. QED
    BY <2>1 DEF Divides
<1>2. ASSUME NEW k \in Nat, k \in T
      PROVE  k + 1 \in T
  <2>1. PICK x \in Int, y \in Int : x = p[k] /\ y = p[k + 1] /\ y \in {x + b, x + b - n}
    <3>1. p[k] \in s..e - 1 /\ p[k + 1] = NextPos(p[k], s, m, e)
      BY DEF Walk
    <3>2. p[k + 1] \in {p[k] + b, p[k] + b - n} /\ p[k + 1] \in s..e - 1
      BY <3>1, NextPosFacts
    <3>. QED
      BY <1>0, <3>1, <3>2
  <2>2. PICK t \in Int : (x - c) - k * b = t * n
    BY <1>2, <2>1 DEF Divides
  <2>3. (k + 1) * b = k * b + b
    OBVIOUS
  <2>4. CASE y = x + b
    <3>1. (y - c) - (k + 1) * b = t * n
      BY <1>0, <2>2, <2>3, <2>4
    <3>. QED
      BY <2>1, <3>1 DEF Divides
  <2>5. CASE y = x + b - n
    <3>1. (y - c) - (k + 1) * b = (t - 1) * n
      BY <1>0, <2>2, <2>3, <2>5
    <3>. QED
      BY <2>1, <3>1 DEF Divides
  <2>. QED
    BY <2>1, <2>4, <2>5
<1>. HIDE DEF T
<1>3. \A k \in Nat : k \in T
  BY <1>1, <1>2, Counting
<1>. QED
  BY <1>3 DEF T

\* Two positions a multiple of the whole length apart are one.
LEMMA SamePlace ==
  ASSUME NEW s \in Nat, NEW e \in Nat, s < e, NEW x \in s..e - 1, NEW y \in s..e - 1,
         Divides(e - s, x - y)
  PROVE  x = y
<1>1. PICK n \in Nat \ {0}, d \in Int : n = e - s /\ d = x - y
  OBVIOUS
<1>2. -n < d /\ d < n /\ Divides(n, d)
  BY <1>1
<1>3. d = 0
  BY <1>2, SmallMultiple
<1>. QED
  BY <1>1, <1>3

LEMMA DividesDifference ==
  ASSUME NEW d \in Int, NEW x \in Int, NEW y \in Int, NEW z, Divides(d, x), Divides(d, y),
         z = x - y \/ z = x + y
  PROVE  Divides(d, z)
<1>1. PICK k \in Int, l \in Int : x = k * d /\ y = l * d
  BY DEF Divides
<1>2. x - y = (k - l) * d /\ x + y = (k + l) * d /\ k - l \in Int /\ k + l \in Int
  BY <1>1
<1>. QED
  BY <1>2 DEF Divides

LEMMA DividesMultiple ==
  ASSUME NEW d \in Int, NEW x \in Int, NEW k \in Int, NEW z, Divides(d, x), z = k * x
  PROVE  Divides(d, z)
<1>1. PICK l \in Int : x = l * d
  BY DEF Divides
<1>2. k * x = (k * l) * d /\ k * l \in Int
  BY <1>1
<1>. QED
  BY <1>2 DEF Divides

(* The positions of a cycle are distinct, the last turn comes back to the  *)
(* first, and they are those the common divisor away from it.              *)
Circle(p, L, c, d, s, e) ==
  /\ \A j, k \in 0..L - 1 : p[j] = p[k] => j = k
  /\ p[L] = c
  /\ \A q \in s..e - 1 : (\E k \in 0..L - 1 : q = p[k]) <=> Divides(d, q - c)

LEMMA WalkIsCircle ==
  ASSUME NEW s, NEW m, NEW e, Blocks(s, m, e), NEW c \in s..e - 1, NEW p, Walk(p, s, m, e, c),
         NEW g, NEW n, NEW L, Parts(m - s, e - m, g, n, L)
  PROVE  Circle(p, L, c, g, s, e)
<1>1. PICK b \in Nat \ {0} : b = e - m
  BY DEF Blocks
<1>2. /\ n \in Nat \ {0} /\ n = e - s /\ L \in Nat \ {0} /\ g \in Nat \ {0}
      /\ s \in Nat /\ e \in Nat /\ s < e /\ c \in Nat
  BY <1>1 DEF Parts, Blocks
<1>3. /\ Divides(g, n) /\ Divides(g, b)
      /\ \E w \in Int : w = L * b /\ Divides(n, w)
      /\ \A d \in Int, w \in Int : w = d * b /\ Divides(n, w) => Divides(L, d)
      /\ \A x \in Int : Divides(g, x) =>
            \E k \in 0..L - 1, u \in Int : u = x - k * b /\ Divides(n, u)
  <2>1. /\ Divides(g, n) /\ Divides(g, b) /\ Divides(n, L * b)
        /\ \A d \in Int : Divides(n, d * b) => Divides(L, d)
        /\ \A x \in Int : Divides(g, x) => \E k \in 0..L - 1 : Divides(n, x - k * b)
    BY <1>1 DEF Parts
  <2>2. L * b \in Int
    BY <1>2
  <2>3. ASSUME NEW x \in Int, NEW k \in 0..L - 1
        PROVE  x - k * b \in Int
    BY <1>2
  <2>. QED
    BY <2>1, <2>2, <2>3, Zenon
<1>4. ASSUME NEW k \in Nat
      PROVE  \E x \in s..e - 1, u \in Int : x = p[k] /\ u = (x - c) - k * b /\ Divides(n, u)
  <2>1. PICK x \in s..e - 1 : x = p[k]
    BY DEF Walk
  <2>2. (x - c) - k * b \in Int
    BY <1>2
  <2>3. Divides(e - s, (p[k] - c) - k * (e - m))
    BY WalkMod
  <2>. QED
    BY <1>1, <1>2, <2>1, <2>2, <2>3
<1>5. ASSUME NEW j \in 0..L - 1, NEW k \in 0..L - 1, p[j] = p[k]
      PROVE  j = k
  <2>0. j \in Nat /\ k \in Nat
    OBVIOUS
  <2>1. PICK x \in s..e - 1, u \in Int : x = p[j] /\ u = (x - c) - j * b /\ Divides(n, u)
    BY <1>4, <2>0
  <2>2. PICK y \in s..e - 1, w \in Int : y = p[k] /\ w = (y - c) - k * b /\ Divides(n, w)
    BY <1>4, <2>0
  <2>3. PICK d \in Int, z \in Int : d = k - j /\ z = d * b
    BY <2>0
  <2>4. z = u - w
    BY <1>2, <1>5, <2>1, <2>2, <2>3
  <2>5. Divides(n, z)
    <3>1. n \in Int
      BY <1>2
    <3>. QED
      BY <2>1, <2>2, <2>4, <3>1, DividesDifference, Zenon
  <2>6. Divides(L, d)
    BY <1>3, <2>3, <2>5, Zenon
  <2>7. -L < d /\ d < L
    BY <1>2, <2>3
  <2>8. d = 0
    BY <1>2, <2>6, <2>7, SmallMultiple
  <2>. QED
    BY <2>3, <2>8
<1>6. p[L] = c
  <2>1. PICK x \in s..e - 1, u \in Int : x = p[L] /\ u = (x - c) - L * b /\ Divides(n, u)
    BY <1>2, <1>4
  <2>2. PICK w \in Int : w = L * b /\ Divides(n, w)
    BY <1>3
  <2>3. u + w = x - c /\ n \in Int
    BY <1>2, <2>1, <2>2
  <2>4. Divides(n, x - c)
    BY <2>1, <2>2, <2>3, DividesDifference, Zenon
  <2>. QED
    BY <1>2, <2>1, <2>4, SamePlace
<1>7. ASSUME NEW q \in s..e - 1, NEW k \in 0..L - 1, q = p[k]
      PROVE  Divides(g, q - c)
  <2>1. PICK x \in s..e - 1, u \in Int : x = p[k] /\ u = (x - c) - k * b /\ Divides(n, u)
    BY <1>4
  <2>2. PICK w \in Int : w = k * b
    BY <1>2
  <2>3. g \in Int /\ n \in Int /\ b \in Int /\ k \in Int /\ q - c = u + w
    BY <1>2, <1>7, <2>1, <2>2
  <2>4. Divides(g, u)
    <3>1. PICK t \in Int : u = t * n
      BY <2>1 DEF Divides
    <3>. QED
      BY <1>3, <2>3, <3>1, DividesMultiple, Zenon
  <2>5. Divides(g, w)
    BY <1>3, <2>2, <2>3, DividesMultiple, Zenon
  <2>. QED
    BY <2>3, <2>4, <2>5, DividesDifference, Zenon
<1>8. ASSUME NEW q \in s..e - 1, Divides(g, q - c)
      PROVE  \E k \in 0..L - 1 : q = p[k]
  <2>1. PICK d \in Int : d = q - c
    BY <1>2
  <2>2. PICK k \in 0..L - 1, u \in Int : u = d - k * b /\ Divides(n, u)
    BY <1>3, <1>8, <2>1
  <2>3. PICK x \in s..e - 1, w \in Int : x = p[k] /\ w = (x - c) - k * b /\ Divides(n, w)
    BY <1>4
  <2>4. q - x = u - w /\ n \in Int
    BY <1>2, <2>1, <2>2, <2>3
  <2>5. Divides(n, q - x)
    BY <2>2, <2>3, <2>4, DividesDifference, Zenon
  <2>6. q = x
    BY <1>2, <2>5, SamePlace
  <2>. QED
    BY <2>3, <2>6
<1>. QED
  BY <1>5, <1>6, <1>7, <1>8 DEF Circle

-----------------------------------------------------------------------------
(* The words while a cycle is turned.                                      *)

Turnings(D, S, s, e) == [nargv : [D -> S], pos : s..e - 1]

LEMMA ExchangedIs ==
  ASSUME NEW D, NEW S, NEW v \in [D -> S], NEW i \in D, NEW j \in D
  PROVE  Exchanged(v, i, j) =
           [q \in D |-> IF q = i THEN v[j] ELSE IF q = j THEN v[i] ELSE v[q]]
BY DEF Exchanged

LEMMA TurnType ==
  ASSUME NEW D, NEW S, NEW s, NEW m, NEW e, Blocks(s, m, e), s..e - 1 \subseteq D,
         NEW c \in s..e - 1, NEW w \in Turnings(D, S, s, e)
  PROVE  Turn(w, s, m, e, c) \in Turnings(D, S, s, e)
<1>1. PICK v \in [D -> S], q \in s..e - 1 : v = w.nargv /\ q = w.pos
  BY DEF Turnings
<1>2. PICK r \in s..e - 1 : r = NextPos(q, s, m, e)
  BY NextPosFacts
<1>3. Exchanged(v, r, c) \in [D -> S]
  <2>1. r \in D /\ c \in D
    OBVIOUS
  <2>. QED
    BY <2>1 DEF Exchanged
<1>4. Turn(w, s, m, e, c) = [nargv |-> Exchanged(v, r, c), pos |-> r]
  BY <1>1, <1>2 DEF Turn
<1>. QED
  BY <1>3, <1>4 DEF Turnings

\* The turns of a cycle, as Cycle makes them.
IsCycle(C, D, S, v, s, m, e, c) ==
  /\ \A k \in Nat : C[k] \in Turnings(D, S, s, e)
  /\ C[0] = [nargv |-> v, pos |-> c]
  /\ \A k \in Nat : C[k + 1] = Turn(C[k], s, m, e, c)

LEMMA CycleTurns ==
  ASSUME NEW D, NEW S, NEW v \in [D -> S], NEW s, NEW m, NEW e, Blocks(s, m, e),
         s..e - 1 \subseteq D, NEW c \in s..e - 1
  PROVE  IsCycle(Cycle(v, s, m, e, c), D, S, v, s, m, e, c)
<1>. DEFINE W == Turnings(D, S, s, e)
            turn == [w \in W |-> Turn(w, s, m, e, c)]
            F == [k \in Nat |-> turn]
            first == [nargv |-> v, pos |-> c]
            C == Cycle(v, s, m, e, c)
<1>1. F \in StepsOn(W)
  <2>1. turn \in [W -> W]
    BY TurnType
  <2>. HIDE DEF turn
  <2>. QED
    BY <2>1 DEF StepsOn
<1>2. first \in W
  BY DEF Turnings
<1>3. PICK f \in [Nat -> W] : f[0] = first /\ \A k \in Nat : f[k + 1] = F[k + 1][f[k]]
  <2>. HIDE DEF F, first, W
  <2>1. Runs(W, first, F) # {}
    BY <1>1, <1>2, Iteration
  <2>. QED
    BY <2>1 DEF Runs
<1>4. ASSUME NEW k \in Nat
      PROVE  f[k + 1] = Turn(f[k], s, m, e, c)
  <2>1. k + 1 \in Nat /\ f[k] \in W /\ f[k + 1] = F[k + 1][f[k]]
    <3>. HIDE DEF F, W, first
    <3>. QED
      BY <1>3
  <2>2. F[k + 1] = [w \in W |-> Turn(w, s, m, e, c)]
    BY <2>1
  <2>. HIDE DEF F, W
  <2>. QED
    BY <2>1, <2>2
<1>. HIDE DEF W
<1>5. f = [k \in Nat |-> IF k = 0 THEN first ELSE Turn(f[k - 1], s, m, e, c)]
  <2>1. ASSUME NEW k \in Nat
        PROVE  f[k] = IF k = 0 THEN first ELSE Turn(f[k - 1], s, m, e, c)
    <3>. HIDE DEF first
    <3>1. CASE k = 0
      BY <1>3, <3>1
    <3>2. CASE k # 0
      <4>1. k - 1 \in Nat /\ (k - 1) + 1 = k
        BY <3>2
      <4>. QED
        BY <1>4, <3>2, <4>1
    <3>. QED
      BY <3>1, <3>2
  <2>. HIDE DEF first
  <2>. QED
    BY <2>1
<1>6. C = [k \in Nat |-> IF k = 0 THEN first ELSE Turn(C[k - 1], s, m, e, c)]
  BY <1>5 DEF Cycle
<1>. HIDE DEF C
<1>7. C[0] = first
  <2>. HIDE DEF first
  <2>. QED
    BY <1>6
<1>8. \A k \in Nat : C[k + 1] = Turn(C[k], s, m, e, c)
  <2>. HIDE DEF first
  <2>. QED
    BY <1>6
<1>9. \A k \in Nat : C[k] \in W
  <2>. DEFINE T == {k \in Nat : C[k] \in W}
  <2>1. 0 \in T
    BY <1>2, <1>7
  <2>2. ASSUME NEW k \in Nat, k \in T
        PROVE  k + 1 \in T
    <3>1. Turn(C[k], s, m, e, c) \in W
      BY <2>2, TurnType DEF W
    <3>. QED
      BY <1>8, <3>1
  <2>. HIDE DEF T
  <2>3. \A k \in Nat : k \in T
    BY <2>1, <2>2, Counting
  <2>. QED
    BY <2>3 DEF T
<1>. QED
  BY <1>7, <1>8, <1>9 DEF C, W, IsCycle

\* After k turns, fewer than all: the first position has the word of the last one visited, the
\* others visited have the word before them, and nothing else is changed.
TurnedTo(w, v, p, k, D, s, m, e) ==
  \A q \in D : w[q] = IF q = p[0] THEN v[p[k]]
                      ELSE IF \E j \in 1..k : q = p[j] THEN v[Before(q, s, m, e)]
                      ELSE v[q]

LEMMA OneTurn ==
  ASSUME NEW D, NEW S, NEW v \in [D -> S], NEW s, NEW m, NEW e, Blocks(s, m, e),
         s..e - 1 \subseteq D, NEW c \in s..e - 1, NEW p, Walk(p, s, m, e, c),
         NEW L \in Nat \ {0}, NEW g, Circle(p, L, c, g, s, e),
         NEW w \in [D -> S], NEW k \in Nat, k + 1 < L, TurnedTo(w, v, p, k, D, s, m, e)
  PROVE  TurnedTo(Exchanged(w, p[k + 1], c), v, p, k + 1, D, s, m, e)
<1>1. PICK x \in D, y \in D : x = p[k + 1] /\ y = p[k] /\ y \in s..e - 1
  BY DEF Walk
<1>2. c = p[0] /\ c \in D /\ Before(x, s, m, e) = y
  <2>1. p[k] \in s..e - 1 /\ p[k + 1] = NextPos(p[k], s, m, e) /\ p[0] = c
    BY DEF Walk
  <2>. QED
    BY <1>1, <2>1, NextPosFacts
<1>3. \A j \in 0..k : x # p[j]
  <2>1. ASSUME NEW j \in 0..k, x = p[j]
        PROVE  FALSE
    <3>1. j \in 0..L - 1 /\ k + 1 \in 0..L - 1 /\ j # k + 1
      OBVIOUS
    <3>. QED
      BY <1>1, <2>1, <3>1 DEF Circle
  <2>. QED
    BY <2>1
<1>4. x # c
  BY <1>2, <1>3
<1>5. w[c] = v[y] /\ w[x] = v[x]
  <2>1. ~ \E j \in 1..k : x = p[j]
    BY <1>3
  <2>. QED
    BY <1>1, <1>2, <1>4, <2>1 DEF TurnedTo
<1>6. Exchanged(w, x, c) = [q \in D |-> IF q = x THEN v[y] ELSE IF q = c THEN v[x] ELSE w[q]]
  BY <1>1, <1>2, <1>4, <1>5 DEF Exchanged
<1>7. ASSUME NEW q \in D
      PROVE  Exchanged(w, x, c)[q] =
               IF q = p[0] THEN v[x]
               ELSE IF \E j \in 1..k + 1 : q = p[j] THEN v[Before(q, s, m, e)]
               ELSE v[q]
  <2>1. Exchanged(w, x, c)[q] = IF q = x THEN v[y] ELSE IF q = c THEN v[x] ELSE w[q]
    BY <1>6
  <2>2. CASE q = x
    <3>1. \E j \in 1..k + 1 : q = p[j]
      BY <1>1, <2>2
    <3>2. q # p[0]
      BY <1>2, <1>4, <2>2
    <3>. QED
      BY <1>2, <2>1, <2>2, <3>1, <3>2
  <2>3. CASE q = c
    BY <1>2, <1>4, <2>1, <2>3
  <2>4. CASE q # x /\ q # c
    <3>1. (\E j \in 1..k + 1 : q = p[j]) <=> (\E j \in 1..k : q = p[j])
      <4>1. \A j \in 1..k + 1 : j \in 1..k \/ j = k + 1
        OBVIOUS
      <4>2. 1..k \subseteq 1..k + 1
        OBVIOUS
      <4>. QED
        BY <1>1, <2>4, <4>1, <4>2
    <3>2. Exchanged(w, x, c)[q] = w[q]
      BY <2>1, <2>4
    <3>3. w[q] = IF \E j \in 1..k : q = p[j] THEN v[Before(q, s, m, e)] ELSE v[q]
      BY <1>2, <2>4 DEF TurnedTo
    <3>. QED
      BY <1>2, <2>4, <3>1, <3>2, <3>3
  <2>. QED
    BY <2>2, <2>3, <2>4
<1>. QED
  BY <1>1, <1>7 DEF TurnedTo

\* One cycle brings to each position the divisor g away from c the word that belongs there.
CycleDone(w, v, D, S, s, m, e, c, g) ==
  /\ w \in [D -> S]
  /\ \A q \in D :
       w[q] = IF q \in s..e - 1 /\ Divides(g, q - c) THEN v[Before(q, s, m, e)] ELSE v[q]

LEMMA CycleMoves ==
  ASSUME NEW D, NEW S, NEW v \in [D -> S], NEW s, NEW m, NEW e, Blocks(s, m, e),
         s..e - 1 \subseteq D, NEW c \in s..e - 1,
         NEW g, NEW L, Parts(m - s, e - m, g, e - s, L)
  PROVE  CycleDone(Cycle(v, s, m, e, c)[L].nargv, v, D, S, s, m, e, c, g)
<1>. DEFINE C == Cycle(v, s, m, e, c)
            p == [k \in Nat |-> C[k].pos]
            w == [k \in Nat |-> C[k].nargv]
<1>1. /\ \A k \in Nat : C[k] \in Turnings(D, S, s, e)
      /\ C[0] = [nargv |-> v, pos |-> c]
      /\ \A k \in Nat : C[k + 1] = Turn(C[k], s, m, e, c)
  <2>1. IsCycle(C, D, S, v, s, m, e, c)
    BY CycleTurns
  <2>. QED
    BY <2>1 DEF IsCycle
<1>. HIDE DEF C
<1>2. \A k \in Nat : p[k] \in s..e - 1 /\ w[k] \in [D -> S]
  BY <1>1 DEF Turnings
<1>3. p[0] = c /\ w[0] = v
  BY <1>1
<1>4. ASSUME NEW k \in Nat
      PROVE  p[k + 1] = NextPos(p[k], s, m, e) /\ w[k + 1] = Exchanged(w[k], p[k + 1], c)
  <2>1. C[k + 1] = Turn(C[k], s, m, e, c) /\ k + 1 \in Nat
    BY <1>1
  <2>2. Turn(C[k], s, m, e, c) =
          [nargv |-> Exchanged(C[k].nargv, NextPos(C[k].pos, s, m, e), c),
           pos |-> NextPos(C[k].pos, s, m, e)]
    BY DEF Turn
  <2>3. C[k + 1].pos = NextPos(C[k].pos, s, m, e)
    BY <2>1, <2>2
  <2>4. C[k + 1].nargv = Exchanged(C[k].nargv, C[k + 1].pos, c)
    BY <2>1, <2>2
  <2>. QED
    BY <2>1, <2>3, <2>4
<1>5. Walk(p, s, m, e, c)
  <2>1. p \in [Nat -> s..e - 1]
    BY <1>2
  <2>. HIDE DEF p
  <2>. QED
    BY <1>3, <1>4, <2>1 DEF Walk
<1>6. w[L] = C[L].nargv /\ L \in Nat \ {0}
  BY DEF Parts
<1>. HIDE DEF p, w
<1>7. Circle(p, L, c, g, s, e)
  BY <1>5, WalkIsCircle
<1>8. \A k \in Nat : k < L => TurnedTo(w[k], v, p, k, D, s, m, e)
  <2>. DEFINE T == {k \in Nat : k < L => TurnedTo(w[k], v, p, k, D, s, m, e)}
  <2>1. 0 \in T
    BY <1>3 DEF TurnedTo
  <2>2. ASSUME NEW k \in Nat, k \in T
        PROVE  k + 1 \in T
    <3>1. SUFFICES ASSUME k + 1 < L
                   PROVE  TurnedTo(w[k + 1], v, p, k + 1, D, s, m, e)
      OBVIOUS
    <3>2. k < L /\ TurnedTo(w[k], v, p, k, D, s, m, e)
      BY <1>6, <2>2, <3>1
    <3>3. TurnedTo(Exchanged(w[k], p[k + 1], c), v, p, k + 1, D, s, m, e)
      BY <1>2, <1>5, <1>6, <1>7, <3>1, <3>2, OneTurn
    <3>. QED
      BY <1>4, <3>3
  <2>. HIDE DEF T
  <2>3. \A k \in Nat : k \in T
    BY <2>1, <2>2, Counting
  <2>. QED
    BY <2>3 DEF T
<1>9. PICK k \in Nat : k + 1 = L
  <2>1. L - 1 \in Nat /\ (L - 1) + 1 = L
    BY <1>6
  <2>. QED
    BY <2>1
<1>10. w[L] = w[k]
  <2>1. p[L] = c /\ c \in D
    BY <1>7 DEF Circle
  <2>2. w[L] = Exchanged(w[k], c, c)
    BY <1>4, <1>9, <2>1
  <2>3. w[k] \in [D -> S]
    BY <1>2
  <2>. QED
    BY <2>1, <2>2, <2>3 DEF Exchanged
<1>11. ASSUME NEW q \in D
       PROVE  w[L][q] =
                IF q \in s..e - 1 /\ Divides(g, q - c) THEN v[Before(q, s, m, e)] ELSE v[q]
  <2>1. w[L][q] = IF q = c THEN v[p[k]]
                  ELSE IF \E j \in 1..k : q = p[j] THEN v[Before(q, s, m, e)] ELSE v[q]
    BY <1>3, <1>8, <1>9, <1>10 DEF TurnedTo
  <2>2. p[k] = Before(c, s, m, e)
    <3>1. p[k] \in s..e - 1 /\ NextPos(p[k], s, m, e) = c
      BY <1>2, <1>4, <1>7, <1>9 DEF Circle
    <3>. QED
      BY <3>1, NextPosFacts
  <2>3. (q = c \/ \E j \in 1..k : q = p[j]) <=> (\E j \in 0..L - 1 : q = p[j])
    <3>1. 0..L - 1 = 1..k \cup {0}
      BY <1>9
    <3>. QED
      BY <1>3, <3>1
  <2>4. (\E j \in 0..L - 1 : q = p[j]) <=> (q \in s..e - 1 /\ Divides(g, q - c))
    <3>1. \A j \in 0..L - 1 : p[j] \in s..e - 1
      BY <1>2, <1>6
    <3>. QED
      BY <1>7, <3>1 DEF Circle
  <2>. QED
    BY <2>1, <2>2, <2>3, <2>4
<1>. QED
  BY <1>2, <1>6, <1>11 DEF CycleDone, C

-----------------------------------------------------------------------------
(* All cycles.                                                             *)

InCycles(q, i, m, g) == \E j \in 0..i - 1 : Divides(g, q - (m + j))

CyclesDone(w, v, D, s, m, e, i, g) ==
  \A q \in D : w[q] = IF q \in s..e - 1 /\ InCycles(q, i, m, g)
                      THEN v[Before(q, s, m, e)] ELSE v[q]

LEMMA OneCycle ==
  ASSUME NEW D, NEW S, NEW v \in [D -> S], NEW s, NEW m, NEW e, Blocks(s, m, e),
         s..e - 1 \subseteq D, NEW g, NEW n, NEW L, Parts(m - s, e - m, g, n, L),
         NEW i \in 0..g - 1, NEW w \in [D -> S], CyclesDone(w, v, D, s, m, e, i, g),
         NEW u, CycleDone(u, w, D, S, s, m, e, m + i, g)
  PROVE  CyclesDone(u, v, D, s, m, e, i + 1, g)
<1>1. PICK b \in Nat \ {0} : b = e - m
  BY DEF Blocks
<1>2. /\ s \in Nat /\ m \in Nat /\ e \in Nat /\ s < m /\ m < e
      /\ g \in Nat \ {0} /\ g \in Int /\ n \in Int /\ b \in Int /\ n = e - s
      /\ Divides(g, n) /\ Divides(g, b)
  BY <1>1 DEF Blocks, Parts
<1>3. ASSUME NEW q \in s..e - 1
      PROVE  InCycles(q, i + 1, m, g) <=> InCycles(q, i, m, g) \/ Divides(g, q - (m + i))
  <2>1. 0..(i + 1) - 1 = (0..i - 1) \cup {i}
    BY <1>2
  <2>. QED
    BY <2>1, Zenon DEF InCycles
<1>4. ASSUME NEW q \in s..e - 1, Divides(g, q - (m + i))
      PROVE  w[Before(q, s, m, e)] = v[Before(q, s, m, e)]
  <2>1. PICK y \in s..e - 1 : y = Before(q, s, m, e) /\ y \in {q - b, q - b + n}
    BY <1>1, <1>2, BeforeFacts
  <2>2. PICK x \in Int, z \in Int, x1 \in Int, nb \in Int :
          x = q - (m + i) /\ z = y - (m + i) /\ x1 = x - b /\ nb = x1 + n
    BY <1>2
  <2>. g \in Int /\ b \in Int /\ n \in Int /\ Divides(g, n) /\ Divides(g, b)
    BY <1>2
  <2>3. Divides(g, x1)
    <3>1. Divides(g, x)
      BY <1>4, <2>2
    <3>. QED
      BY <2>2, <3>1, DividesDifference, Zenon
  <2>4. Divides(g, nb)
    BY <2>2, <2>3, DividesDifference, Zenon
  <2>5. Divides(g, z)
    <3>1. z = x1 \/ z = nb
      BY <1>2, <2>1, <2>2
    <3>. QED
      BY <2>3, <2>4, <3>1
  <2>6. ~InCycles(y, i, m, g)
    <3>1. SUFFICES ASSUME NEW j \in 0..i - 1, Divides(g, y - (m + j))
                   PROVE  FALSE
      BY DEF InCycles
    <3>2. PICK z1 \in Int, d \in Int : z1 = y - (m + j) /\ d = i - j
      BY <1>2
    <3>3. d = z1 - z
      BY <1>2, <2>2, <3>2
    <3>4. Divides(g, d)
      BY <1>2, <2>5, <3>1, <3>2, <3>3, DividesDifference, Zenon
    <3>5. -g < d /\ d < g /\ d # 0
      BY <1>2, <3>2
    <3>. QED
      BY <1>2, <3>4, <3>5, SmallMultiple
  <2>. QED
    BY <2>1, <2>6 DEF CyclesDone
<1>5. ASSUME NEW q \in D
      PROVE  u[q] = IF q \in s..e - 1 /\ InCycles(q, i + 1, m, g)
                    THEN v[Before(q, s, m, e)] ELSE v[q]
  <2>1. u[q] = IF q \in s..e - 1 /\ Divides(g, q - (m + i)) THEN w[Before(q, s, m, e)] ELSE w[q]
    BY DEF CycleDone
  <2>2. w[q] = IF q \in s..e - 1 /\ InCycles(q, i, m, g) THEN v[Before(q, s, m, e)] ELSE v[q]
    BY DEF CyclesDone
  <2>3. CASE q \in s..e - 1 /\ Divides(g, q - (m + i))
    BY <1>3, <1>4, <2>1, <2>3
  <2>4. CASE q \in s..e - 1 /\ ~Divides(g, q - (m + i))
    BY <1>3, <2>1, <2>2, <2>4
  <2>5. CASE q \notin s..e - 1
    BY <2>1, <2>2, <2>5
  <2>. QED
    BY <2>3, <2>4, <2>5
<1>. QED
  BY <1>5 DEF CyclesDone

\* Every position of the blocks is on one of the first g cycles.
LEMMA AllInCycles ==
  ASSUME NEW s, NEW m, NEW e, Blocks(s, m, e), NEW g \in Nat \ {0}, NEW q \in s..e - 1
  PROVE  InCycles(q, g, m, g)
<1>1. PICK d \in Int : d = q - m
  BY DEF Blocks
<1>2. PICK k \in Int, j \in 0..g - 1 : d = k * g + j
  <2>1. d \div g \in Int /\ d % g \in 0..g - 1 /\ d = (d \div g) * g + (d % g)
    OBVIOUS
  <2>. QED
    BY <2>1
<1>3. q - (m + j) = k * g
  BY <1>1, <1>2 DEF Blocks
<1>. QED
  BY <1>3 DEF InCycles, Divides

\* The blocks from s to m - 1 and from m to e - 1 have changed places.
BlocksExchanged(v, s, m, e) ==
  [q \in DOMAIN v |-> IF q \in s..e - 1 THEN v[Before(q, s, m, e)] ELSE v[q]]

(* permute_args moves a block of any length behind the block after it,     *)
(* keeping the order within each: every word of the one goes forward by    *)
(* the length of the other.                                                *)
THEOREM PermuteExchangesBlocks ==
  ASSUME NEW v, v = [q \in DOMAIN v |-> v[q]], NEW s, NEW m, NEW e, Blocks(s, m, e),
         s..e - 1 \subseteq DOMAIN v
  PROVE  permute_args(v, s, m, e) = BlocksExchanged(v, s, m, e)
<1>0. PICK D, S : D = DOMAIN v /\ v \in [D -> S] /\ s..e - 1 \subseteq D
  <2>1. v \in [DOMAIN v -> {v[q] : q \in DOMAIN v}]
    OBVIOUS
  <2>. QED
    BY <2>1
<1>. DEFINE g == gcd(m - s, e - m)
            n == e - s
            L == n \div g
            V == [D -> S]
<1>1. Parts(m - s, e - m, g, n, L)
  <2>1. PICK a \in Nat \ {0}, b \in Nat \ {0} : a = m - s /\ b = e - m /\ n = a + b
    BY DEF Blocks
  <2>2. IsGcd(gcd(a, b), a, b)
    BY GcdCorrect
  <2>3. Parts(a, b, gcd(a, b), a + b, (a + b) \div gcd(a, b))
    BY <2>2, PartsOfLengths
  <2>. QED
    BY <2>1, <2>3
<1>. HIDE DEF g, n, L
<1>2. g \in Nat \ {0} /\ g \in 1..e - m /\ s \in Nat /\ m \in Nat /\ e \in Nat /\ s < m /\ m < e
  BY <1>1 DEF Parts, Blocks
<1>. DEFINE step(i, x) == Cycle(x, s, m, e, m + (i - 1))[L].nargv
            F == [i \in Nat |-> [x \in V |-> IF i \in 1..g THEN step(i, x) ELSE x]]
<1>3. ASSUME NEW i \in 1..g, NEW x \in V
      PROVE  CycleDone(step(i, x), x, D, S, s, m, e, m + (i - 1), g)
  <2>1. m + (i - 1) \in s..e - 1
    BY <1>2
  <2>2. Parts(m - s, e - m, g, e - s, L)
    BY <1>1 DEF n
  <2>. QED
    BY <1>0, <2>1, <2>2, CycleMoves
<1>. HIDE DEF step
<1>4. PICK f \in [Nat -> V] : f[0] = v /\ \A i \in Nat : f[i + 1] = F[i + 1][f[i]]
  <2>1. F \in StepsOn(V)
    BY <1>3 DEF StepsOn, CycleDone
  <2>. HIDE DEF F, V
  <2>2. v \in V
    BY <1>0 DEF V
  <2>3. Runs(V, v, F) # {}
    BY <2>1, <2>2, Iteration
  <2>. QED
    BY <2>3 DEF Runs
<1>5. ASSUME NEW i \in Nat, i + 1 <= g
      PROVE  f[i + 1] = step(i + 1, f[i])
  <2>1. i + 1 \in 1..g /\ i + 1 \in Nat /\ f[i] \in V /\ f[i + 1] = F[i + 1][f[i]]
    <3>. HIDE DEF F, V
    <3>. QED
      BY <1>2, <1>4, <1>5
  <2>2. F[i + 1] = [x \in V |-> IF i + 1 \in 1..g THEN step(i + 1, x) ELSE x]
    BY <2>1
  <2>. HIDE DEF F, V
  <2>. QED
    BY <2>1, <2>2
<1>. HIDE DEF F
<1>. DEFINE h == [i \in 0..g |-> f[i]]
            A == CHOOSE a : a = [i \in 0..g |-> IF i = 0 THEN v ELSE step(i, a[i - 1])]
<1>6. h = [i \in 0..g |-> IF i = 0 THEN v ELSE step(i, h[i - 1])]
  <2>1. ASSUME NEW i \in 0..g
        PROVE  f[i] = IF i = 0 THEN v ELSE step(i, h[i - 1])
    <3>1. CASE i = 0
      BY <1>4, <3>1
    <3>2. CASE i # 0
      <4>1. i - 1 \in Nat /\ (i - 1) + 1 = i /\ i - 1 \in 0..g
        BY <1>2, <3>2
      <4>2. h[i - 1] = f[i - 1]
        BY <4>1
      <4>. QED
        BY <1>5, <3>2, <4>1, <4>2
    <3>. QED
      BY <3>1, <3>2
  <2>. QED
    BY <2>1
<1>. HIDE DEF h
<1>7. A = [i \in 0..g |-> IF i = 0 THEN v ELSE step(i, A[i - 1])]
  BY <1>6
<1>8. permute_args(v, s, m, e) = A[g]
  BY DEF permute_args, g, n, L, step
<1>. HIDE DEF A
<1>9. A[0] = v
  BY <1>2, <1>7
<1>10. ASSUME NEW i \in 0..g - 1
       PROVE  A[i + 1] = step(i + 1, A[i])
  <2>1. i + 1 \in 0..g /\ i + 1 # 0 /\ (i + 1) - 1 = i
    BY <1>2
  <2>. QED
    BY <1>7, <2>1
<1>11. \A i \in Nat : i <= g => A[i] \in V /\ CyclesDone(A[i], v, D, s, m, e, i, g)
  <2>. DEFINE T == {i \in Nat : i <= g => A[i] \in V /\ CyclesDone(A[i], v, D, s, m, e, i, g)}
  <2>1. 0 \in T
    <3>1. \A q : ~InCycles(q, 0, m, g)
      BY DEF InCycles
    <3>2. CyclesDone(v, v, D, s, m, e, 0, g)
      BY <3>1 DEF CyclesDone
    <3>. QED
      BY <1>0, <1>9, <3>2
  <2>2. ASSUME NEW i \in Nat, i \in T
        PROVE  i + 1 \in T
    <3>1. SUFFICES ASSUME i + 1 <= g
                   PROVE  A[i + 1] \in V /\ CyclesDone(A[i + 1], v, D, s, m, e, i + 1, g)
      OBVIOUS
    <3>2. i \in 0..g - 1 /\ i + 1 \in 1..g /\ (i + 1) - 1 = i
      BY <1>2, <3>1
    <3>3. A[i] \in V /\ CyclesDone(A[i], v, D, s, m, e, i, g)
      BY <1>2, <2>2, <3>2
    <3>. HIDE DEF V
    <3>4. A[i + 1] \in V /\ CycleDone(A[i + 1], A[i], D, S, s, m, e, m + i, g)
      BY <1>3, <1>10, <3>2, <3>3 DEF CycleDone, V
    <3>5. CyclesDone(A[i + 1], v, D, s, m, e, i + 1, g)
      BY <1>0, <1>1, <3>2, <3>3, <3>4, OneCycle DEF V
    <3>. QED
      BY <3>4, <3>5
  <2>. HIDE DEF T
  <2>3. \A i \in Nat : i \in T
    BY <2>1, <2>2, Counting
  <2>. QED
    BY <2>3 DEF T
<1>12. A[g] \in V /\ CyclesDone(A[g], v, D, s, m, e, g, g)
  BY <1>2, <1>11
<1>13. \A q \in D : A[g][q] = IF q \in s..e - 1 THEN v[Before(q, s, m, e)] ELSE v[q]
  <2>1. \A q \in s..e - 1 : InCycles(q, g, m, g)
    BY <1>2, AllInCycles
  <2>. QED
    BY <1>0, <1>12, <2>1 DEF CyclesDone
<1>14. A[g] = [q \in D |-> IF q \in s..e - 1 THEN v[Before(q, s, m, e)] ELSE v[q]]
  BY <1>12, <1>13
<1>. QED
  BY <1>0, <1>8, <1>14 DEF BlocksExchanged

-----------------------------------------------------------------------------
(* What a step does to the order of the words.                             *)

(* o tells where each of n words was written. Up to position k - 1 they    *)
(* have been read: those in the block B as operands, the others as options, *)
(* which are the ones in T.                                                *)
ReadInOrder(o, T, B, k, n) ==
  /\ o \in [1..n -> 1..n]
  /\ \A i \in 1..n : IF i < k THEN o[i] < k ELSE o[i] = i
  /\ T \subseteq 1..k - 1
  /\ \A i \in 1..n : i < k => (o[i] \in T <=> i \notin B)
  /\ \A i, j \in 1..n : i < j /\ j < k /\ (i \in B <=> j \in B) => o[i] < o[j]

TakenTo(U, T, o, k, kk) == U = T \cup {o[i] : i \in k..kk - 1}

\* The words read next are an option.
LEMMA ReadOption ==
  ASSUME NEW n \in Nat, NEW k \in 1..n + 1, NEW kk \in k..n + 1,
         NEW o, NEW T, NEW B, B \subseteq 1..k - 1, ReadInOrder(o, T, B, k, n),
         NEW U, TakenTo(U, T, o, k, kk)
  PROVE  ReadInOrder(o, U, B, kk, n)
<1>1. {o[i] : i \in k..kk - 1} = k..kk - 1
  <2>1. \A i \in k..kk - 1 : o[i] = i
    BY DEF ReadInOrder
  <2>. QED
    BY <2>1
<1>2. \A i \in 1..n : i < k => o[i] < k
  BY DEF ReadInOrder
<1>3. \A i \in 1..n : i >= k => o[i] = i /\ i \notin B
  BY DEF ReadInOrder
<1>4. \A i \in 1..n : i < k => (o[i] \in T <=> i \notin B)
  BY DEF ReadInOrder
<1>5. o \in [1..n -> 1..n] /\ T \subseteq 1..k - 1
  BY DEF ReadInOrder
<1>6. \A i, j \in 1..n : i < j /\ j < k /\ (i \in B <=> j \in B) => o[i] < o[j]
  BY DEF ReadInOrder
<1>0. U = T \cup k..kk - 1
  BY <1>1 DEF TakenTo
<1>7. ASSUME NEW i \in 1..n
      PROVE  IF i < kk THEN o[i] < kk ELSE o[i] = i
  <2>1. o[i] \in 1..n
    BY <1>5
  <2>2. CASE i < k
    BY <1>2, <2>1, <2>2
  <2>3. CASE i >= k
    BY <1>3, <2>3
  <2>. QED
    BY <2>2, <2>3
<1>8. U \subseteq 1..kk - 1
  BY <1>0, <1>5
<1>9. ASSUME NEW i \in 1..n, i < kk
      PROVE  o[i] \in U <=> i \notin B
  <2>1. CASE i < k
    BY <1>0, <1>2, <1>4, <2>1
  <2>2. CASE i >= k
    BY <1>0, <1>3, <1>9, <2>2
  <2>. QED
    BY <2>1, <2>2
<1>10. ASSUME NEW i \in 1..n, NEW j \in 1..n, i < j, j < kk, i \in B <=> j \in B
       PROVE  o[i] < o[j]
  <2>1. CASE j < k
    BY <1>6, <1>10, <2>1
  <2>2. CASE j >= k /\ i < k
    <3>1. o[j] = j /\ o[i] < k /\ o[i] \in 1..n
      BY <1>2, <1>3, <1>5, <2>2
    <3>. QED
      BY <2>2, <3>1
  <2>3. CASE i >= k
    <3>1. j >= k
      BY <1>10, <2>3
    <3>2. o[j] = j /\ o[i] = i
      BY <1>3, <2>3, <3>1
    <3>. QED
      BY <1>10, <3>2
  <2>. QED
    BY <2>1, <2>2, <2>3
<1>. QED
  BY <1>1, <1>5, <1>7, <1>8, <1>9, <1>10 DEF ReadInOrder

\* The next word is an operand, behind the block of those before it.
LEMMA ReadOperand ==
  ASSUME NEW n \in Nat, NEW k \in 1..n, NEW s \in 1..k,
         NEW o, NEW T, ReadInOrder(o, T, s..k - 1, k, n)
  PROVE  ReadInOrder(o, T, s..k, k + 1, n)
<1>1. o \in [1..n -> 1..n] /\ T \subseteq 1..k - 1 /\ o[k] = k
  BY DEF ReadInOrder
<1>2. \A i \in 1..n : IF i < k THEN o[i] < k ELSE o[i] = i
  BY DEF ReadInOrder
<1>3. \A i \in 1..n : i < k => (o[i] \in T <=> i \notin s..k - 1)
  BY DEF ReadInOrder
<1>4. \A i, j \in 1..n : i < j /\ j < k /\ (i \in s..k - 1 <=> j \in s..k - 1) => o[i] < o[j]
  BY DEF ReadInOrder
<1>5. ASSUME NEW i \in 1..n
      PROVE  IF i < k + 1 THEN o[i] < k + 1 ELSE o[i] = i
  BY <1>1, <1>2
<1>6. ASSUME NEW i \in 1..n, i < k + 1
      PROVE  o[i] \in T <=> i \notin s..k
  <2>1. CASE i < k
    BY <1>3, <2>1
  <2>2. CASE i = k
    BY <1>1, <2>2
  <2>. QED
    BY <1>6, <2>1, <2>2
<1>7. ASSUME NEW i \in 1..n, NEW j \in 1..n, i < j, j < k + 1, i \in s..k <=> j \in s..k
      PROVE  o[i] < o[j]
  <2>1. CASE j < k
    BY <1>4, <1>7, <2>1
  <2>2. CASE j = k
    BY <1>1, <1>2, <1>7, <2>2
  <2>. QED
    BY <1>7, <2>1, <2>2
<1>8. T \subseteq 1..(k + 1) - 1
  BY <1>1
<1>. QED
  BY <1>1, <1>5, <1>6, <1>7, <1>8 DEF ReadInOrder

\* The block is moved behind the options after it.
LEMMA MoveOperands ==
  ASSUME NEW n \in Nat, NEW s \in 1..n, NEW m \in 1..n, NEW e \in 1..n + 1, s < m, m < e,
         NEW o, NEW T, ReadInOrder(o, T, s..m - 1, e, n)
  PROVE  ReadInOrder(BlocksExchanged(o, s, m, e), T, e - (m - s)..e - 1, e, n)
<1>. DEFINE x == BlocksExchanged(o, s, m, e)
            at(i) == IF i \in s..e - 1 THEN Before(i, s, m, e) ELSE i
            q == e - (m - s)
<1>1. o \in [1..n -> 1..n] /\ T \subseteq 1..e - 1
  BY DEF ReadInOrder
<1>2. \A i \in 1..n : at(i) \in 1..n /\ (i < e => at(i) < e) /\ (i >= e => at(i) = i)
  BY DEF Before
<1>3. \A i \in 1..n : i < e => (at(i) \in s..m - 1 <=> i \in q..e - 1)
  BY DEF Before
<1>4. \A i, j \in 1..n : i < j /\ j < e /\ (i \in q..e - 1 <=> j \in q..e - 1) => at(i) < at(j)
  BY DEF Before
<1>5. x \in [1..n -> 1..n] /\ \A i \in 1..n : x[i] = o[at(i)]
  <2>1. x = [i \in 1..n |-> IF i \in s..e - 1 THEN o[Before(i, s, m, e)] ELSE o[i]]
    BY <1>1 DEF BlocksExchanged
  <2>2. \A i \in 1..n : x[i] = o[at(i)]
    BY <2>1
  <2>. HIDE DEF at, x
  <2>. QED
    BY <1>1, <1>2, <2>1, <2>2
<1>. HIDE DEF x, at, q
<1>6. ASSUME NEW i \in 1..n
      PROVE  IF i < e THEN x[i] < e ELSE x[i] = i
  BY <1>2, <1>5 DEF ReadInOrder
<1>7. ASSUME NEW i \in 1..n, i < e
      PROVE  x[i] \in T <=> i \notin q..e - 1
  <2>1. at(i) \in 1..n /\ at(i) < e
    BY <1>2, <1>7
  <2>2. o[at(i)] \in T <=> at(i) \notin s..m - 1
    BY <2>1 DEF ReadInOrder
  <2>. QED
    BY <1>3, <1>5, <1>7, <2>2
<1>8. ASSUME NEW i \in 1..n, NEW j \in 1..n, i < j, j < e, i \in q..e - 1 <=> j \in q..e - 1
      PROVE  x[i] < x[j]
  <2>1. i < e
    BY <1>8
  <2>2. /\ at(i) \in 1..n /\ at(j) \in 1..n /\ at(i) < at(j) /\ at(j) < e
        /\ (at(i) \in s..m - 1 <=> at(j) \in s..m - 1)
    BY <1>2, <1>3, <1>4, <1>8, <2>1
  <2>3. o[at(i)] < o[at(j)]
    BY <2>2 DEF ReadInOrder
  <2>. QED
    BY <1>5, <2>3
<1>. QED
  BY <1>1, <1>5, <1>6, <1>7, <1>8 DEF ReadInOrder, x, q

-----------------------------------------------------------------------------
(* The invariant of getopt_internal while it reads.                        *)

Count == Len(written)
SkippedEnd == IF nonopt_end = None THEN optind ELSE nonopt_end
Skipped == IF nonopt_start = None THEN {} ELSE nonopt_start..SkippedEnd - 1

Places ==
  /\ written \in Seq(STRING)
  /\ optind \in 1..Count + 1
  /\ nonopt_start = None \/ nonopt_start \in 1..optind - 1
  /\ nonopt_end = None \/ (nonopt_start # None /\ nonopt_end \in nonopt_start + 1..optind)
  /\ place # "" => optind <= Count /\ (nonopt_start # None => nonopt_end # None)
  /\ nonopt_end = optind => optind <= Count
WordsInPlace ==
  /\ argv \in [1..Count -> STRING]
  /\ ReadInOrder(order, taken, Skipped, optind, Count)
  /\ \A i \in 1..Count : argv[i] = written[order[i]]
ReadingInv == stage = "tagged" => Places /\ WordsInPlace

LEMMA LenOfWords ==
  ASSUME NEW n \in Nat, NEW S, NEW f \in [1..n -> S]
  PROVE  Len(f) = n /\ DOMAIN f = 1..n
<1>1. f \in Seq(S)
  BY SeqDef
<1>2. Len(f) \in Nat /\ DOMAIN f = 1..Len(f)
  BY <1>1, LenProperties
<1>. QED
  BY <1>2

\* Both the words and the record of where they were written are permuted.
LEMMA PermuteKeeps ==
  ASSUME NEW n \in Nat, NEW s \in 1..n, NEW m \in 1..n, NEW e \in 1..n + 1, s < m, m < e,
         s = nonopt_start, argv \in [1..n -> STRING], NEW T, ReadInOrder(order, T, s..m - 1, e, n),
         \A i \in 1..n : argv[i] = written[order[i]], Permute(m, e)
  PROVE  /\ argv' \in [1..n -> STRING]
         /\ ReadInOrder(order', T, e - (m - s)..e - 1, e, n)
         /\ \A i \in 1..n : argv'[i] = written[order'[i]]
<1>1. order \in [1..n -> 1..n]
  BY DEF ReadInOrder
<1>2. Blocks(s, m, e) /\ s..e - 1 \subseteq 1..n
  BY DEF Blocks
<1>3. argv' = BlocksExchanged(argv, s, m, e)
  BY <1>2, PermuteExchangesBlocks DEF Permute
<1>4. order' = BlocksExchanged(order, s, m, e)
  <2>1. permute_args(order, s, m, e) = BlocksExchanged(order, s, m, e)
    BY <1>1, <1>2, PermuteExchangesBlocks
  <2>. QED
    BY <2>1 DEF Permute
<1>5. ReadInOrder(order', T, e - (m - s)..e - 1, e, n)
  BY <1>4, MoveOperands
<1>6. \A i \in s..e - 1 : Before(i, s, m, e) \in s..e - 1
  BY <1>2, BeforeFacts
<1>7. argv' = [i \in 1..n |-> IF i \in s..e - 1 THEN argv[Before(i, s, m, e)] ELSE argv[i]]
  BY <1>3 DEF BlocksExchanged
<1>8. order' = [i \in 1..n |-> IF i \in s..e - 1 THEN order[Before(i, s, m, e)] ELSE order[i]]
  BY <1>1, <1>4 DEF BlocksExchanged
<1>9. ASSUME NEW i \in 1..n
      PROVE  argv'[i] \in STRING /\ argv'[i] = written[order'[i]]
  <2>1. CASE i \in s..e - 1
    <3>1. Before(i, s, m, e) \in 1..n
      BY <1>2, <1>6, <2>1
    <3>2. argv'[i] = argv[Before(i, s, m, e)] /\ order'[i] = order[Before(i, s, m, e)]
      BY <1>7, <1>8, <2>1
    <3>. QED
      BY <3>1, <3>2
  <2>2. CASE i \notin s..e - 1
    BY <1>7, <1>8, <2>2
  <2>. QED
    BY <2>1, <2>2
<1>10. argv' \in [1..n -> STRING]
  BY <1>7, <1>9
<1>. QED
  BY <1>5, <1>9, <1>10

LEMMA InitReading == GetoptInit => ReadingInv
BY DEF GetoptInit, ReadingInv

LEMMA StartKeeps ==
  ASSUME NEW words \in Seq(STRING), StartReading(words)
  PROVE  ReadingInv'
<1>1. PICK n \in Nat : n = Len(words) /\ words \in [1..n -> STRING]
  BY LenProperties
<1>2. argv' = words /\ written' = words /\ order' = [i \in 1..n |-> i] /\ taken' = {}
  BY <1>1 DEF StartReading
<1>3. optind' = 1 /\ nonopt_start' = None /\ nonopt_end' = None
  BY DEF StartReading
<1>4. place' = ""
  BY DEF StartReading
<1>5. Count' = n /\ Skipped' = {}
  BY <1>1, <1>2, <1>3 DEF Count, Skipped
<1>6. Places'
  <2>1. written' \in Seq(STRING)
    BY <1>2
  <2>2. optind' \in 1..Count' + 1
    BY <1>5, <1>3
  <2>3. nonopt_end' # optind'
    BY <1>3 DEF None
  <2>. QED
    BY <1>3, <1>4, <2>1, <2>2, <2>3, Zenon DEF Places
<1>7. ReadInOrder(order', taken', Skipped', optind', n)
  <2>. DEFINE o == [i \in 1..n |-> i]
  <2>1. o \in [1..n -> 1..n] /\ \A i \in 1..n : o[i] = i
    OBVIOUS
  <2>. HIDE DEF o
  <2>2. ReadInOrder(o, {}, {}, 1, n)
    BY <2>1 DEF ReadInOrder
  <2>. QED
    BY <1>2, <1>5, <1>3, <2>2 DEF o
<1>8. WordsInPlace'
  BY <1>1, <1>2, <1>5, <1>7 DEF WordsInPlace
<1>. QED
  BY <1>6, <1>8 DEF ReadingInv

LEMMA SkipKeeps ==
  ASSUME ReadingInv, SkipOperand, nonopt_end # optind
  PROVE  ReadingInv'
<1>1. Places /\ WordsInPlace /\ place = "" /\ place' = place
  BY DEF ReadingInv, SkipOperand, AtWord, AtNextWord
<1>2. PICK n \in Nat : n = Count /\ Len(argv) = n
  <2>1. Count \in Nat
    BY <1>1, LenProperties DEF Places, Count
  <2>. QED
    BY <1>1, <2>1, LenOfWords DEF WordsInPlace
<1>3. PICK k \in 1..n : k = optind
  <2>1. optind \in 1..n + 1
    BY <1>1, <1>2 DEF Places
  <2>2. optind <= n
    BY <1>2 DEF SkipOperand, AtWord
  <2>. QED
    BY <2>1, <2>2
<1>4. optind' = k + 1 /\ written' = written /\ taken' = taken /\ Count' = n
  BY <1>2, <1>3 DEF SkipOperand, Count
<1>5. /\ argv \in [1..n -> STRING] /\ ReadInOrder(order, taken, Skipped, k, n)
      /\ \A i \in 1..n : argv[i] = written[order[i]]
  BY <1>1, <1>2, <1>3 DEF WordsInPlace
<1>6. /\ nonopt_start = None \/ nonopt_start \in 1..k - 1
      /\ nonopt_end = None \/ (nonopt_start # None /\ nonopt_end \in nonopt_start + 1..k - 1)
  <2>1. /\ nonopt_start = None \/ nonopt_start \in 1..k - 1
        /\ nonopt_end = None \/ (nonopt_start # None /\ nonopt_end \in nonopt_start + 1..k)
    BY <1>1, <1>3 DEF Places
  <2>. QED
    BY <1>3, <2>1
<1>7. \E s \in 1..k :
        /\ nonopt_start' = s /\ nonopt_end' = None
        /\ argv' \in [1..n -> STRING] /\ \A i \in 1..n : argv'[i] = written[order'[i]]
        /\ ReadInOrder(order', taken, s..k - 1, k, n)
  <2>1. CASE nonopt_start # None /\ nonopt_end # None
    <3>1. PICK s \in 1..n, m \in 1..n : s = nonopt_start /\ m = nonopt_end /\ s < m /\ m < k
      BY <1>6, <2>1
    <3>2. ReadInOrder(order, taken, s..m - 1, k, n)
      BY <1>5, <2>1, <3>1 DEF Skipped, SkippedEnd
    <3>3. Permute(m, k) /\ nonopt_start' = k - (m - s) /\ nonopt_end' = None
      BY <1>3, <2>1, <3>1 DEF SkipOperand
    <3>4. /\ argv' \in [1..n -> STRING]
          /\ ReadInOrder(order', taken, k - (m - s)..k - 1, k, n)
          /\ \A i \in 1..n : argv'[i] = written[order'[i]]
      <4>1. PICK T : T = taken
        OBVIOUS
      <4>2. PICK e \in 1..n + 1 : e = k
        OBVIOUS
      <4>3. ReadInOrder(order, T, s..m - 1, e, n) /\ Permute(m, e) /\ m < e
        BY <3>1, <3>2, <3>3, <4>1, <4>2
      <4>4. /\ argv' \in [1..n -> STRING]
            /\ ReadInOrder(order', T, e - (m - s)..e - 1, e, n)
            /\ \A i \in 1..n : argv'[i] = written[order'[i]]
        BY <1>5, <3>1, <4>3, PermuteKeeps
      <4>. QED
        BY <4>1, <4>2, <4>4
    <3>5. k - (m - s) \in 1..k
      BY <3>1
    <3>. QED
      BY <3>3, <3>4, <3>5
  <2>2. CASE nonopt_start = None
    <3>1. nonopt_end = None /\ Skipped = {}
      BY <1>6, <2>2 DEF Skipped
    <3>2. nonopt_start' = k /\ nonopt_end' = None /\ argv' = argv /\ order' = order
      BY <1>3, <2>2, <3>1 DEF SkipOperand
    <3>3. k..k - 1 = {}
      OBVIOUS
    <3>. QED
      BY <1>5, <3>1, <3>2, <3>3
  <2>3. CASE nonopt_start # None /\ nonopt_end = None
    <3>1. PICK s \in 1..k : s = nonopt_start
      BY <1>6, <2>3
    <3>2. Skipped = s..k - 1
      BY <1>3, <2>3, <3>1 DEF Skipped, SkippedEnd
    <3>3. nonopt_start' = s /\ nonopt_end' = None /\ argv' = argv /\ order' = order
      BY <2>3, <3>1 DEF SkipOperand
    <3>. QED
      BY <1>5, <3>2, <3>3
  <2>. QED
    BY <2>1, <2>2, <2>3
<1>8. PICK s \in 1..k :
        /\ nonopt_start' = s /\ nonopt_end' = None
        /\ argv' \in [1..n -> STRING] /\ \A i \in 1..n : argv'[i] = written[order'[i]]
        /\ ReadInOrder(order', taken, s..k - 1, k, n)
  BY <1>7
<1>9. ReadInOrder(order', taken', s..k, k + 1, n)
  BY <1>4, <1>8, ReadOperand
<1>10. Skipped' = s..k
  <2>1. s # None
    BY DEF None
  <2>. QED
    BY <1>4, <1>8, <2>1 DEF Skipped, SkippedEnd
<1>11. WordsInPlace'
  BY <1>4, <1>8, <1>9, <1>10 DEF WordsInPlace
<1>12. Places'
  <2>1. written' \in Seq(STRING)
    BY <1>1, <1>4 DEF Places
  <2>2. /\ optind' \in 1..Count' + 1
        /\ nonopt_start' \in 1..optind' - 1
        /\ nonopt_end' # optind'
    BY <1>4, <1>8 DEF None
  <2>. QED
    BY <1>1, <1>8, <2>1, <2>2, Zenon DEF Places
<1>. QED
  BY <1>11, <1>12 DEF ReadingInv

\* The numbers and the words, while getopt reads.
LEMMA ReadingFacts ==
  ASSUME Places, WordsInPlace
  PROVE  \E n \in Nat, k \in Nat :
           /\ k \in 1..n + 1 /\ n = Count /\ n = Len(argv) /\ k = optind
           /\ argv \in [1..n -> STRING] /\ DOMAIN argv = 1..n
           /\ ReadInOrder(order, taken, Skipped, k, n)
           /\ \A i \in 1..n : argv[i] = written[order[i]]
           /\ nonopt_start = None \/ nonopt_start \in 1..k - 1
           /\ nonopt_end = None \/ (nonopt_start # None /\ nonopt_end \in nonopt_start + 1..k)
           /\ nonopt_end = k => k <= n
           /\ Skipped \subseteq 1..k - 1
<1>1. PICK n \in Nat : n = Count
  BY LenProperties DEF Places, Count
<1>2. PICK k \in 1..n + 1 : k = optind
  BY <1>1 DEF Places
<1>3. argv \in [1..n -> STRING] /\ \A i \in 1..n : argv[i] = written[order[i]]
  BY <1>1 DEF WordsInPlace
<1>4. Len(argv) = n /\ DOMAIN argv = 1..n
  BY <1>3, LenOfWords
<1>5. /\ nonopt_start = None \/ nonopt_start \in 1..k - 1
      /\ nonopt_end = None \/ (nonopt_start # None /\ nonopt_end \in nonopt_start + 1..k)
  BY <1>2 DEF Places
<1>6. nonopt_end = k => k <= n
  BY <1>1, <1>2 DEF Places
<1>7. Skipped \subseteq 1..k - 1
  <2>1. CASE nonopt_start = None
    BY <2>1 DEF Skipped
  <2>2. CASE nonopt_start # None /\ nonopt_end = None
    BY <1>2, <1>5, <2>2 DEF Skipped, SkippedEnd
  <2>3. CASE nonopt_start # None /\ nonopt_end # None
    BY <1>2, <1>5, <2>3 DEF Skipped, SkippedEnd
  <2>. QED
    BY <2>1, <2>2, <2>3
<1>8. ReadInOrder(order, taken, Skipped, k, n)
  BY <1>1, <1>2 DEF WordsInPlace
<1>9. k \in Nat /\ k \in 1..n + 1
  OBVIOUS
<1>. QED
  BY <1>1, <1>2, <1>3, <1>4, <1>5, <1>6, <1>7, <1>8, <1>9, Zenon

LEMMA FetchKeeps ==
  ASSUME ReadingInv, NEW text, FetchOption(text)
  PROVE  ReadingInv'
<1>1. Places /\ WordsInPlace
  BY DEF ReadingInv, FetchOption, AtWord, AtNextWord
<1>2. PICK n \in Nat, k \in Nat :
        /\ k \in 1..n + 1 /\ n = Count /\ n = Len(argv) /\ k = optind
        /\ nonopt_start = None \/ nonopt_start \in 1..k - 1
        /\ nonopt_end = None \/ (nonopt_start # None /\ nonopt_end \in nonopt_start + 1..k)
  BY <1>1, ReadingFacts
<1>3. /\ UNCHANGED <<argv, optind, nonopt_start, written, order, taken>>
      /\ nonopt_end' = OptionSeen /\ k <= n /\ Count' = n
  BY <1>2 DEF FetchOption, AtWord, history, Count
<1>4. Skipped' = Skipped
  <2>1. CASE nonopt_start = None
    BY <1>3, <2>1 DEF Skipped
  <2>2. CASE nonopt_start # None /\ nonopt_end = None
    <3>1. nonopt_end' = k /\ k # None
      BY <1>2, <1>3, <2>2 DEF OptionSeen, None
    <3>. QED
      BY <1>2, <1>3, <2>2, <3>1 DEF Skipped, SkippedEnd
  <2>3. CASE nonopt_end # None
    BY <1>3, <2>3 DEF Skipped, SkippedEnd, OptionSeen
  <2>. QED
    BY <2>1, <2>2, <2>3
<1>5. WordsInPlace'
  BY <1>1, <1>2, <1>3, <1>4 DEF WordsInPlace
<1>6. /\ nonopt_end' = None \/ (nonopt_start' # None /\ nonopt_end' \in nonopt_start' + 1..optind')
      /\ nonopt_start' # None => nonopt_end' # None
      /\ optind' <= Count'
  <2>1. CASE nonopt_start # None /\ nonopt_end = None
    <3>1. nonopt_end' = k /\ k # None /\ nonopt_start' = nonopt_start /\ optind' = k
      BY <1>2, <1>3, <2>1 DEF OptionSeen, None
    <3>. QED
      BY <1>2, <1>3, <2>1, <3>1
  <2>2. CASE ~(nonopt_start # None /\ nonopt_end = None)
    <3>1. nonopt_end' = nonopt_end
      BY <1>3, <2>2 DEF OptionSeen
    <3>. QED
      BY <1>2, <1>3, <2>2, <3>1
  <2>. QED
    BY <2>1, <2>2
<1>7. /\ written' \in Seq(STRING) /\ optind' \in 1..Count' + 1
      /\ nonopt_start' = None \/ nonopt_start' \in 1..optind' - 1
  <2>1. written' \in Seq(STRING)
    BY <1>1, <1>3 DEF Places
  <2>. QED
    BY <1>2, <1>3, <2>1
<1>8. Places'
  BY <1>6, <1>7, Zenon DEF Places
<1>. QED
  BY <1>5, <1>8 DEF ReadingInv

Nothing(text) == text = ""

LEMMA ReadOnKeeps ==
  ASSUME ReadingInv, InOption, NEW w \in 0..2, NEW text, ReadOn(w, text),
         Nothing(text) \/ w = 0, optind + w <= Len(argv) + 1
  PROVE  ReadingInv'
<1>1. Places /\ WordsInPlace /\ ~Nothing(place) /\ place' = text
  BY DEF ReadingInv, InOption, ReadOn, Nothing
<1>2. PICK n \in Nat, k \in Nat :
        /\ k \in 1..n + 1 /\ n = Count /\ n = Len(argv) /\ k = optind
        /\ argv \in [1..n -> STRING]
        /\ ReadInOrder(order, taken, Skipped, k, n)
        /\ \A i \in 1..n : argv[i] = written[order[i]]
        /\ nonopt_start = None \/ nonopt_start \in 1..k - 1
        /\ nonopt_end = None \/ (nonopt_start # None /\ nonopt_end \in nonopt_start + 1..k)
        /\ Skipped \subseteq 1..k - 1
  BY <1>1, ReadingFacts
<1>3. k <= n /\ (nonopt_start # None => nonopt_end # None)
  <2>1. optind <= Count /\ (nonopt_start # None => nonopt_end # None)
    BY <1>1, Zenon DEF Places, Nothing
  <2>. QED
    BY <1>2, <2>1
<1>4. PICK kk \in k..n + 1 : kk = k + w
  BY <1>2
<1>5. /\ UNCHANGED <<argv, nonopt_start, nonopt_end, written, order>>
      /\ optind' = kk /\ taken' = taken \cup {order[i] : i \in k..kk - 1} /\ Count' = n
  BY <1>2, <1>4 DEF ReadOn, Take, Count
<1>6. ReadInOrder(order', taken', Skipped, kk, n)
  <2>1. TakenTo(taken', taken, order, k, kk) /\ order' = order
    BY <1>5 DEF TakenTo
  <2>. QED
    BY <1>2, <1>4, <2>1, ReadOption
<1>7. Skipped' = Skipped
  BY <1>3, <1>5 DEF Skipped, SkippedEnd
<1>8. WordsInPlace'
  BY <1>2, <1>5, <1>6, <1>7 DEF WordsInPlace
<1>9. /\ optind' \in 1..Count' + 1
      /\ nonopt_start' = None \/ nonopt_start' \in 1..optind' - 1
      /\ nonopt_end' = None \/ (nonopt_start' # None /\ nonopt_end' \in nonopt_start' + 1..optind')
      /\ nonopt_end' = optind' => optind' <= Count'
  BY <1>2, <1>3, <1>4, <1>5 DEF None
<1>10. /\ written' \in Seq(STRING)
       /\ ~Nothing(place') => optind' <= Count'
       /\ nonopt_start' # None => nonopt_end' # None
  <2>1. written' \in Seq(STRING)
    BY <1>1, <1>5 DEF Places
  <2>2. w = 0 => optind' <= Count'
    BY <1>3, <1>4, <1>5
  <2>3. ~Nothing(place') => w = 0
    BY <1>1
  <2>. QED
    BY <1>3, <1>5, <2>1, <2>2, <2>3
<1>11. Places'
  BY <1>9, <1>10, Zenon DEF Places, Nothing
<1>. QED
  BY <1>8, <1>11 DEF ReadingInv

-----------------------------------------------------------------------------
(* The end of getopt_internal.                                             *)

LEMMA DoneInBlocks ==
  ASSUME NEW n \in Nat, n = Len(written), NEW e \in 1..n + 1, NEW q \in 1..e, written' = written,
         optind' = q, argv' \in [1..n -> STRING], \A i \in 1..n : argv'[i] = written[order'[i]],
         ReadInOrder(order', taken', q..e - 1, e, n), DOMAIN written = 1..n
  PROVE  InBlocks'
<1>1. Len(argv') = n /\ DOMAIN argv' = 1..n
  BY LenOfWords
<1>2. PICK o, T : o = order' /\ T = taken'
  OBVIOUS
<1>3. /\ o \in [1..n -> 1..n] /\ T \subseteq 1..e - 1
      /\ \A i \in 1..n : IF i < e THEN o[i] < e ELSE o[i] = i
      /\ \A i \in 1..n : i < e => (o[i] \in T <=> i \notin q..e - 1)
      /\ \A i, j \in 1..n : i < j /\ j < e /\ (i \in q..e - 1 <=> j \in q..e - 1) => o[i] < o[j]
  BY <1>2 DEF ReadInOrder
<1>4. ASSUME NEW i \in 1..n
      PROVE  o[i] \in T <=> i < q
  <2>1. CASE i < e
    BY <1>3, <2>1
  <2>2. CASE i >= e
    BY <1>3, <2>2
  <2>. QED
    BY <2>1, <2>2
<1>5. ASSUME NEW i \in 1..n, NEW j \in 1..n, i < j, o[i] \in T <=> o[j] \in T
      PROVE  o[i] < o[j]
  <2>1. o[i] \in 1..n /\ o[j] \in 1..n
    BY <1>3
  <2>2. CASE j < e
    <3>1. i < e /\ (i \in q..e - 1 <=> j \in q..e - 1)
      BY <1>4, <1>5, <2>2
    <3>. QED
      BY <1>3, <1>5, <2>2, <3>1
  <2>3. CASE i < e /\ j >= e
    <3>1. o[i] < e /\ o[j] = j
      BY <1>3, <2>3
    <3>. QED
      BY <2>1, <2>3, <3>1
  <2>4. CASE i >= e
    <3>1. o[i] = i /\ o[j] = j
      BY <1>3, <1>5, <2>4
    <3>. QED
      BY <1>5, <3>1
  <2>. QED
    BY <2>2, <2>3, <2>4
<1>6. DOMAIN order' = 1..n /\ Len(written') = n /\ DOMAIN written' = 1..n
  BY <1>2, <1>3
<1>7. \A i \in 1..n : order'[i] \in 1..n /\ argv'[i] = written'[order'[i]]
  BY <1>2, <1>3
<1>8. \A i \in 1..n : order'[i] \in taken' <=> i < optind'
  BY <1>2, <1>4
<1>9. \A i, j \in 1..n :
        i < j /\ (order'[i] \in taken' <=> order'[j] \in taken') => order'[i] < order'[j]
  BY <1>2, <1>5
<1>. QED
  BY <1>1, <1>6, <1>7, <1>8, <1>9 DEF InBlocks, IsTaken

LEMMA LeaveInBlocks ==
  ASSUME Places, WordsInPlace, NEW blockEnd, NEW end, LeaveOptions(blockEnd, end),
         NEW n \in Nat, n = Count, end \in optind..n + 1,
         \/ blockEnd = None /\ nonopt_start = None
         \/ blockEnd = None /\ nonopt_end = None /\ end = optind
         \/ /\ nonopt_start # None /\ blockEnd \in nonopt_start + 1..end - 1
            /\ Skipped = nonopt_start..blockEnd - 1
  PROVE  InBlocks'
<1>1. PICK k \in Nat :
        /\ k \in 1..n + 1 /\ k = optind
        /\ argv \in [1..n -> STRING]
        /\ ReadInOrder(order, taken, Skipped, k, n)
        /\ \A i \in 1..n : argv[i] = written[order[i]]
        /\ nonopt_start = None \/ nonopt_start \in 1..k - 1
        /\ Skipped \subseteq 1..k - 1
  BY ReadingFacts
<1>2. PICK e \in k..n + 1 : e = end
  BY <1>1
<1>3. written' = written /\ n = Len(written) /\ DOMAIN written = 1..n
  <2>1. n = Len(written) /\ DOMAIN written = 1..n
    BY LenProperties DEF Places, Count
  <2>. QED
    BY <2>1 DEF LeaveOptions
<1>4. ReadInOrder(order, taken', Skipped, e, n)
  <2>1. TakenTo(taken', taken, order, k, e)
    BY <1>1, <1>2 DEF LeaveOptions, Take, TakenTo
  <2>. QED
    BY <1>1, <1>2, <2>1, ReadOption
<1>5. CASE blockEnd = None /\ nonopt_start = None
  <2>1. Skipped = e..e - 1
    BY <1>5 DEF Skipped
  <2>2. argv' = argv /\ order' = order /\ optind' = e
    BY <1>2, <1>5 DEF LeaveOptions
  <2>. QED
    BY <1>1, <1>2, <1>3, <1>4, <2>1, <2>2, DoneInBlocks
<1>6. CASE blockEnd = None /\ nonopt_start # None /\ nonopt_end = None /\ end = optind
  <2>1. PICK s \in 1..k - 1 : s = nonopt_start
    BY <1>1, <1>6
  <2>2. e = k /\ Skipped = s..e - 1
    BY <1>1, <1>2, <1>6, <2>1 DEF Skipped, SkippedEnd
  <2>3. argv' = argv /\ order' = order /\ optind' = s
    BY <1>2, <1>6, <2>1 DEF LeaveOptions
  <2>. QED
    BY <1>1, <1>2, <1>3, <1>4, <2>1, <2>2, <2>3, DoneInBlocks
<1>7. CASE /\ nonopt_start # None /\ blockEnd \in nonopt_start + 1..end - 1
           /\ Skipped = nonopt_start..blockEnd - 1
  <2>1. PICK s \in 1..n, m \in 1..n : s = nonopt_start /\ m = blockEnd /\ s < m /\ m < e
    BY <1>1, <1>2, <1>7
  <2>2. m # None
    BY DEF None
  <2>3. Permute(m, e) /\ optind' = e - (m - s)
    BY <1>2, <2>1, <2>2 DEF LeaveOptions
  <2>4. ReadInOrder(order, taken', s..m - 1, e, n)
    BY <1>4, <1>7, <2>1
  <2>5. /\ argv' \in [1..n -> STRING]
        /\ ReadInOrder(order', taken', e - (m - s)..e - 1, e, n)
        /\ \A i \in 1..n : argv'[i] = written[order'[i]]
    BY <1>1, <1>2, <2>1, <2>3, <2>4, PermuteKeeps
  <2>6. PICK q \in 1..e : q = e - (m - s)
    BY <2>1
  <2>. QED
    BY <1>1, <1>2, <1>3, <2>3, <2>5, <2>6, DoneInBlocks
<1>. QED
  BY <1>5, <1>6, <1>7

LEMMA EndInBlocks ==
  ASSUME ReadingInv, EndOfWords \/ DashDash
  PROVE  InBlocks'
<1>1. Places /\ WordsInPlace
  BY DEF ReadingInv, EndOfWords, DashDash, AtWord, AtNextWord
<1>2. PICK n \in Nat, k \in Nat :
        /\ k \in 1..n + 1 /\ n = Count /\ n = Len(argv) /\ k = optind
        /\ nonopt_start = None \/ nonopt_start \in 1..k - 1
        /\ nonopt_end = None \/ (nonopt_start # None /\ nonopt_end \in nonopt_start + 1..k)
        /\ nonopt_end = k => k <= n
  BY <1>1, ReadingFacts
<1>3. CASE EndOfWords
  <2>1. LeaveOptions(nonopt_end, k) /\ k > n
    BY <1>2, <1>3 DEF EndOfWords
  <2>2. CASE nonopt_end = None
    BY <1>1, <1>2, <2>1, <2>2, LeaveInBlocks
  <2>3. CASE nonopt_end # None
    <3>1. nonopt_start # None /\ nonopt_end \in nonopt_start + 1..k - 1
      BY <1>2, <2>1, <2>3
    <3>2. Skipped = nonopt_start..nonopt_end - 1
      BY <2>3, <3>1 DEF Skipped, SkippedEnd
    <3>. QED
      BY <1>1, <1>2, <2>1, <3>1, <3>2, LeaveInBlocks
  <2>. QED
    BY <2>2, <2>3
<1>4. CASE DashDash
  <2>1. LeaveOptions(OptionSeen, k + 1) /\ k <= n
    BY <1>2, <1>4 DEF DashDash, AtWord
  <2>2. k + 1 \in k..n + 1
    BY <1>2, <2>1
  <2>3. CASE nonopt_start = None
    <3>1. OptionSeen = None
      BY <1>2, <2>3 DEF OptionSeen
    <3>. QED
      BY <1>1, <1>2, <2>1, <2>2, <2>3, <3>1, LeaveInBlocks
  <2>4. CASE nonopt_start # None
    <3>1. /\ OptionSeen \in nonopt_start + 1..k
          /\ Skipped = nonopt_start..OptionSeen - 1
      <4>1. CASE nonopt_end = None
        BY <1>2, <2>4, <4>1 DEF OptionSeen, Skipped, SkippedEnd
      <4>2. CASE nonopt_end # None
        BY <1>2, <2>4, <4>2 DEF OptionSeen, Skipped, SkippedEnd
      <4>. QED
        BY <4>1, <4>2
    <3>2. OptionSeen \in nonopt_start + 1..(k + 1) - 1
      BY <1>2, <3>1
    <3>. QED
      BY <1>1, <1>2, <2>1, <2>2, <2>4, <3>1, <3>2, LeaveInBlocks
  <2>. QED
    BY <2>3, <2>4
<1>. QED
  BY <1>3, <1>4

(* What getopt has read and what it has left stand where they should, at   *)
(* every word of every command line.                                       *)
LEMMA NextKeepsReading ==
  ASSUME ReadingInv, [GetoptNext]_getoptVars
  PROVE  ReadingInv'
<1>1. CASE GetoptInit /\ \E words \in {argv'} : words \in Seq(STRING) /\ StartReading(words)
  BY <1>1, StartKeeps
<1>2. CASE EndOfWords \/ DashDash
  BY <1>2 DEF EndOfWords, DashDash, LeaveOptions, ReadingInv
<1>3. CASE SkipOperand /\ nonopt_end # optind
  BY <1>3, SkipKeeps
<1>4. CASE FetchOption(place') /\ place' # ""
  BY <1>4, FetchKeeps
<1>5. CASE InOption /\ place' # "" /\ ReadOn(0, place')
  <2>1. stage = "tagged"
    BY <1>5 DEF InOption
  <2>2. optind + 0 <= Len(argv) + 1
    <3>1. PICK n \in Nat, k \in Nat : k \in 1..n + 1 /\ n = Len(argv) /\ k = optind
      BY <2>1, ReadingFacts DEF ReadingInv
    <3>. QED
      BY <3>1
  <2>3. PICK text : text = place'
    OBVIOUS
  <2>4. PICK w \in 0..2 : w = 0
    OBVIOUS
  <2>5. ReadOn(w, text) /\ optind + w <= Len(argv) + 1
    BY <1>5, <2>2, <2>3, <2>4, Zenon
  <2>6. InOption /\ (Nothing(text) \/ w = 0)
    BY <1>5, <2>4, Zenon
  <2>. QED
    BY <2>5, <2>6, ReadOnKeeps
<1>6. CASE InOption /\ \E words \in 0..2 : optind + words <= Len(argv) + 1 /\ ReadOn(words, "")
  BY <1>6, ReadOnKeeps DEF Nothing
<1>7. CASE Elsewhere
  BY <1>7 DEF Elsewhere, ReadingInv
<1>8. CASE Operands
  BY <1>8 DEF Operands, ReadingInv
<1>9. CASE UNCHANGED getoptVars
  BY <1>9 DEF getoptVars, history, ReadingInv, Places, WordsInPlace, Skipped, SkippedEnd, Count
<1>. QED
  BY <1>1, <1>2, <1>3, <1>4, <1>5, <1>6, <1>7, <1>8, <1>9 DEF GetoptNext, Reading

THEOREM ReadingInvariance == GetoptSpec => []ReadingInv
<1>1. ReadingInv /\ [GetoptNext]_getoptVars => ReadingInv'
  BY NextKeepsReading
<1>. QED
  BY InitReading, <1>1, PTL DEF GetoptSpec

(* When getopt is done, however options and operands were mixed and however *)
(* many words there are, no word is lost, the options are first and the    *)
(* operands behind them, each in the order in which they were written.     *)
THEOREM WordsKeepOrder == GetoptSpec => BlocksKeepOrder
<1>1. ASSUME ReadingInv, [GetoptNext]_getoptVars, stage = "tagged", stage' = "untagged"
      PROVE  InBlocks'
  <2>1. EndOfWords \/ DashDash
    BY <1>1 DEF GetoptNext, GetoptInit, Reading, SkipOperand, FetchOption, InOption, ReadOn,
                Elsewhere, Operands, StartReading, getoptVars
  <2>. QED
    BY <1>1, <2>1, EndInBlocks
<1>2. ReadingInv /\ [GetoptNext]_getoptVars
        => [stage = "tagged" /\ stage' = "untagged" => InBlocks']_getoptVars
  BY <1>1
<1>. QED
  BY ReadingInvariance, <1>2, PTL DEF GetoptSpec, BlocksKeepOrder
=============================================================================
