---------------------------- MODULE LeaderProofs ----------------------------
(***************************************************************************)
(* Proofs about LeaderCache for every sequence of validator sets with      *)
(* positive weights: the cache never changes a leader, leadership is in    *)
(* proportion to stake, and the priorities stay within bounds.             *)
(***************************************************************************)
EXTENDS LeaderCache, TLAPS

\* Of the loops only the facts about recursive functions are used here.
SameState(s, x, v) == s

Recursion == INSTANCE LoopProofs WITH Step <- SameState, Good <- SameState

-----------------------------------------------------------------------------
(***************************************************************************)
(* Sums.                                                                   *)
(***************************************************************************)

\* SumTo obeys the recurrence it is defined by.
LEMMA SumToDef ==
    ASSUME NEW n \in Nat, NEW x \in [1 .. n -> Int]
    PROVE  /\ SumTo(x, 0) = 0
           /\ \A k \in 0 .. n : SumTo(x, k) \in Int
           /\ \A k \in 0 .. n - 1 : SumTo(x, k + 1) = SumTo(x, k) + x[k + 1]
<1> DEFINE y(k) == IF k \in 1 .. n THEN x[k] ELSE 0
           F == [k \in Nat |-> [i \in Int |-> i + y(k + 1)]]
<1>1. \A k \in Int : y(k) \in Int
  OBVIOUS
<1>2. F \in [Nat -> [Int -> Int]]
  BY <1>1
<1>2a. \A k \in Nat, i \in Int : F[k][i] = i + y(k + 1)
  OBVIOUS
<1> HIDE DEF F
<1>2b. 0 \in Int
  OBVIOUS
<1>2c. PICK f : Recursion!Iterates(f, Int, 0, F)
  BY <1>2, <1>2b, Recursion!Iterate, Zenon
<1>3. /\ f \in [Nat -> Int] /\ f[0] = 0 /\ \A k \in Nat : f[k] \in Int
      /\ \A k \in Nat : f[k + 1] = F[k][f[k]]
  BY <1>2c DEF Recursion!Iterates
<1>4. \A k \in Nat : f[k + 1] = f[k] + y(k + 1)
  BY <1>2a, <1>3
<1>5. ASSUME NEW m \in 0 .. n
      PROVE  SumTo(x, m) = f[m]
  <2> DEFINE g == [k \in 0 .. m |-> f[k]]
             sum == CHOOSE h : h = [k \in 0 .. m |-> IF k = 0 THEN 0 ELSE h[k - 1] + x[k]]
  <2>1. ASSUME NEW k \in 0 .. m, k # 0
        PROVE  f[k] = f[k - 1] + x[k] /\ k - 1 \in 0 .. m
    <3>1. k - 1 \in Nat /\ (k - 1) + 1 = k /\ k \in 1 .. n
      BY <2>1
    <3>2. f[k] = f[k - 1] + y(k)
      BY <1>4, <3>1
    <3> QED
      BY <3>1, <3>2
  <2>2. g = [k \in 0 .. m |-> IF k = 0 THEN 0 ELSE g[k - 1] + x[k]]
    <3>1. ASSUME NEW k \in 0 .. m
          PROVE  g[k] = IF k = 0 THEN 0 ELSE g[k - 1] + x[k]
      BY <1>3, <2>1
    <3> QED
      BY <3>1
  <2>3. sum = [k \in 0 .. m |-> IF k = 0 THEN 0 ELSE sum[k - 1] + x[k]]
    <3> HIDE DEF g
    <3> QED
      BY <2>2, Zenon
  <2>4. SumTo(x, m) = sum[m]
    BY Zenon DEF SumTo
  <2> HIDE DEF sum
  <2>5. sum[0] = f[0]
    BY <1>3, <2>3
  <2>6. ASSUME NEW k \in 0 .. m - 1, sum[k] = f[k]
        PROVE  sum[k + 1] = f[k + 1]
    <3>1. k + 1 \in 0 .. m /\ k + 1 # 0 /\ (k + 1) - 1 = k
      OBVIOUS
    <3>2. sum[k + 1] = sum[k] + x[k + 1]
      BY <2>3, <3>1
    <3>3. f[k + 1] = f[k] + x[k + 1]
      BY <2>1, <3>1
    <3> QED
      BY <2>6, <3>2, <3>3
  <2>7. sum[m] = f[m]
    <3>1. m \in Nat
      OBVIOUS
    <3> QED
      BY <2>5, <2>6, <3>1, Recursion!Agree, Zenon
  <2> QED
    BY <2>4, <2>7
<1>6. ASSUME NEW k \in 0 .. n - 1
      PROVE  SumTo(x, k + 1) = SumTo(x, k) + x[k + 1]
  <2>1. k \in 0 .. n /\ k + 1 \in 0 .. n /\ k + 1 \in 1 .. n /\ k \in Nat
    OBVIOUS
  <2>2. y(k + 1) = x[k + 1]
    BY <2>1
  <2> HIDE DEF y
  <2> QED
    BY <1>4, <1>5, <2>1, <2>2
<1>7. SumTo(x, 0) = 0
  BY <1>3, <1>5
<1>8. \A k \in 0 .. n : SumTo(x, k) \in Int
  BY <1>3, <1>5
<1> QED
  BY <1>6, <1>7, <1>8

\* The sum of two functions.
LEMMA SumAdds ==
    ASSUME NEW n \in Nat, NEW x \in [1 .. n -> Int], NEW y \in [1 .. n -> Int],
           NEW z \in [1 .. n -> Int], \A k \in 1 .. n : z[k] = x[k] + y[k]
    PROVE  SumTo(z, n) = SumTo(x, n) + SumTo(y, n)
<1> DEFINE f == [k \in 0 .. n |-> SumTo(z, k)]
           g == [k \in 0 .. n |-> SumTo(x, k) + SumTo(y, k)]
<1>1. /\ SumTo(x, 0) = 0 /\ \A k \in 0 .. n : SumTo(x, k) \in Int
      /\ \A k \in 0 .. n - 1 : SumTo(x, k + 1) = SumTo(x, k) + x[k + 1]
  BY SumToDef
<1>2. /\ SumTo(y, 0) = 0 /\ \A k \in 0 .. n : SumTo(y, k) \in Int
      /\ \A k \in 0 .. n - 1 : SumTo(y, k + 1) = SumTo(y, k) + y[k + 1]
  BY SumToDef
<1>3. /\ SumTo(z, 0) = 0 /\ \A k \in 0 .. n : SumTo(z, k) \in Int
      /\ \A k \in 0 .. n - 1 : SumTo(z, k + 1) = SumTo(z, k) + z[k + 1]
  BY SumToDef
<1>4. f[0] = g[0]
  BY <1>1, <1>2, <1>3
<1>5. ASSUME NEW k \in 0 .. n - 1, f[k] = g[k]
      PROVE  f[k + 1] = g[k + 1]
  <2>1. k \in 0 .. n /\ k + 1 \in 0 .. n /\ k + 1 \in 1 .. n
    OBVIOUS
  <2>2. SumTo(z, k) = SumTo(x, k) + SumTo(y, k)
    BY <1>5, <2>1
  <2>3. z[k + 1] = x[k + 1] + y[k + 1] /\ x[k + 1] \in Int /\ y[k + 1] \in Int
    BY <2>1
  <2>4. SumTo(z, k + 1) = SumTo(x, k + 1) + SumTo(y, k + 1)
    BY <1>1, <1>2, <1>3, <2>1, <2>2, <2>3
  <2> QED
    BY <2>1, <2>4
<1> HIDE DEF f, g
<1>6. f[n] = g[n]
  BY <1>4, <1>5, Recursion!Agree, Zenon
<1> QED
  BY <1>6 DEF f, g

\* A sum in which one element is less by d is less by d.
LEMMA SumPays ==
    ASSUME NEW n \in Nat, NEW x \in [1 .. n -> Int], NEW b \in 1 .. n, NEW d \in Int,
           NEW z \in [1 .. n -> Int], z[b] = x[b] - d, \A k \in 1 .. n : k # b => z[k] = x[k]
    PROVE  SumTo(z, n) = SumTo(x, n) - d
<1> DEFINE f == [k \in 0 .. n |-> SumTo(z, k)]
           g == [k \in 0 .. n |-> IF k < b THEN SumTo(x, k) ELSE SumTo(x, k) - d]
<1>1. /\ SumTo(x, 0) = 0 /\ \A k \in 0 .. n : SumTo(x, k) \in Int
      /\ \A k \in 0 .. n - 1 : SumTo(x, k + 1) = SumTo(x, k) + x[k + 1]
  BY SumToDef
<1>2. /\ SumTo(z, 0) = 0 /\ \A k \in 0 .. n : SumTo(z, k) \in Int
      /\ \A k \in 0 .. n - 1 : SumTo(z, k + 1) = SumTo(z, k) + z[k + 1]
  BY SumToDef
<1>3. f[0] = g[0]
  BY <1>1, <1>2
<1>4. ASSUME NEW k \in 0 .. n - 1, f[k] = g[k]
      PROVE  f[k + 1] = g[k + 1]
  <2>1. k \in 0 .. n /\ k + 1 \in 0 .. n /\ k + 1 \in 1 .. n /\ x[k + 1] \in Int
    OBVIOUS
  <2>2. SumTo(z, k) = IF k < b THEN SumTo(x, k) ELSE SumTo(x, k) - d
    BY <1>4, <2>1
  <2>3. SumTo(x, k + 1) = SumTo(x, k) + x[k + 1] /\ SumTo(z, k + 1) = SumTo(z, k) + z[k + 1]
        /\ SumTo(x, k) \in Int
    BY <1>1, <1>2, <2>1
  <2>4. CASE k + 1 < b
    <3>1. z[k + 1] = x[k + 1] /\ k < b
      BY <2>1, <2>4
    <3>2. SumTo(z, k + 1) = SumTo(x, k + 1)
      BY <2>2, <2>3, <3>1
    <3> QED
      BY <2>1, <2>4, <3>2
  <2>5. CASE k + 1 = b
    <3>1. z[k + 1] = x[k + 1] - d /\ k < b /\ ~(k + 1 < b)
      BY <2>1, <2>5
    <3>2. SumTo(z, k + 1) = SumTo(x, k + 1) - d
      BY <2>1, <2>2, <2>3, <3>1
    <3> QED
      BY <2>1, <3>1, <3>2
  <2>6. CASE b < k + 1
    <3>1. z[k + 1] = x[k + 1] /\ ~(k < b) /\ ~(k + 1 < b)
      BY <2>1, <2>6
    <3>2. SumTo(z, k + 1) = SumTo(x, k + 1) - d
      BY <2>1, <2>2, <2>3, <3>1
    <3> QED
      BY <2>1, <3>1, <3>2
  <2> QED
    BY <2>4, <2>5, <2>6
<1>5. ~(n < b)
  OBVIOUS
<1> HIDE DEF f, g
<1>6. f[n] = g[n]
  BY <1>3, <1>4, Recursion!Agree, Zenon
<1> QED
  BY <1>5, <1>6 DEF f, g

\* A sum of n numbers that are at least c, except that one is v, is at least
\* v + (n - 1) * c.
LEMMA SumAtLeast ==
    ASSUME NEW n \in Nat, NEW x \in [1 .. n -> Int], NEW b \in 1 .. n, NEW c \in Int,
           \A k \in 1 .. n : x[k] >= c
    PROVE  SumTo(x, n) >= x[b] + (n - 1) * c
<1> DEFINE low(k) == IF k < b THEN k * c ELSE x[b] + (k - 1) * c
           S == {k \in 0 .. n : SumTo(x, k) >= low(k)}
<1>1. /\ SumTo(x, 0) = 0 /\ \A k \in 0 .. n : SumTo(x, k) \in Int
      /\ \A k \in 0 .. n - 1 : SumTo(x, k + 1) = SumTo(x, k) + x[k + 1]
  BY SumToDef
<1>2. 0 \in S
  <2>1. 0 * c = 0
    OBVIOUS
  <2> QED
    BY <1>1, <2>1
<1>3. ASSUME NEW k \in 0 .. n - 1, k \in S
      PROVE  k + 1 \in S
  <2>1. k \in 0 .. n /\ k + 1 \in 0 .. n /\ k + 1 \in 1 .. n /\ x[k + 1] \in Int /\ x[k + 1] >= c
        /\ x[b] \in Int /\ k \in Int
    OBVIOUS
  <2>2. SumTo(x, k) \in Int /\ SumTo(x, k) >= low(k) /\ SumTo(x, k + 1) = SumTo(x, k) + x[k + 1]
        /\ SumTo(x, k + 1) \in Int
    BY <1>1, <1>3, <2>1
  <2>3. k * c \in Int /\ (k + 1) * c = k * c + c /\ (k - 1) * c \in Int
        /\ (k - 1) * c + c = k * c
    <3>1. \A i, j \in Int : i * j \in Int /\ (i + 1) * j = i * j + j
      OBVIOUS
    <3>2. k - 1 \in Int /\ (k - 1) + 1 = k
      BY <2>1
    <3> QED
      BY <2>1, <3>1, <3>2
  <2>4. CASE k + 1 < b
    <3>1. low(k) = k * c /\ low(k + 1) = k * c + c
      BY <2>1, <2>3, <2>4
    <3> QED
      BY <2>1, <2>2, <2>3, <3>1
  <2>5. CASE k + 1 = b
    <3>1. low(k) = k * c /\ low(k + 1) = x[b] + k * c
      BY <2>1, <2>3, <2>5
    <3> QED
      BY <2>1, <2>2, <2>3, <2>5, <3>1
  <2>6. CASE b < k + 1
    <3>1. low(k) = x[b] + (k - 1) * c /\ low(k + 1) = x[b] + k * c
      BY <2>1, <2>3, <2>6
    <3> QED
      BY <2>1, <2>2, <2>3, <3>1
  <2> QED
    BY <2>4, <2>5, <2>6
<1>4. low(n) = x[b] + (n - 1) * c
  OBVIOUS
<1> HIDE DEF S
<1>5. n \in S
  BY <1>2, <1>3, Recursion!Induct, Zenon
<1> QED
  BY <1>4, <1>5 DEF S

-----------------------------------------------------------------------------
(***************************************************************************)
(* The accumulator.                                                        *)
(***************************************************************************)
ValidatorSet(s) ==
    /\ Len(s.members) \in Nat \ {0}
    /\ DOMAIN s.members = 1 .. Len(s.members)
    /\ s.weights \in [1 .. Len(s.members) -> Nat \ {0}]

Priorities(s) == [1 .. Len(s.members) -> Int]

\* There is a first maximum.
LEMMA BestExists ==
    ASSUME NEW n \in Nat \ {0}, NEW q \in [1 .. n -> Int]
    PROVE  Best(q) \in 1 .. n /\ \A j \in 1 .. n : q[j] <= q[Best(q)]
<1> DEFINE Top(k, i) == \A j \in 1 .. k : q[j] <= q[i]
           S == {k \in Nat : k = 0 \/ k > n \/ \E i \in 1 .. k : Top(k, i)}
<1>1. 0 \in S
  OBVIOUS
<1>2. ASSUME NEW k \in 0 .. n - 1, k \in S
      PROVE  k + 1 \in S
  <2>1. CASE k = 0
    <3>1. Top(1, 1) /\ 1 \in 1 .. 1
      OBVIOUS
    <3> QED
      BY <2>1, <3>1
  <2>2. CASE k # 0
    <3>1. PICK i \in 1 .. k : Top(k, i)
      BY <1>2, <2>2
    <3>2. k + 1 \in 1 .. n /\ i \in 1 .. k + 1 /\ q[i] \in Int /\ q[k + 1] \in Int
          /\ \A j \in 1 .. k + 1 : (j \in 1 .. k \/ j = k + 1) /\ q[j] \in Int
      OBVIOUS
    <3>3. CASE q[k + 1] <= q[i]
      <4>1. Top(k + 1, i)
        BY <3>1, <3>2, <3>3
      <4> QED
        BY <3>2, <4>1
    <3>4. CASE q[i] < q[k + 1]
      <4>1. \A j \in 1 .. k : j \in 1 .. k + 1
        BY <3>2
      <4>2. Top(k + 1, k + 1)
        BY <3>1, <3>2, <3>4, <4>1
      <4>3. k + 1 \in 1 .. k + 1
        OBVIOUS
      <4> QED
        BY <4>2, <4>3
    <3> QED
      BY <3>2, <3>3, <3>4
  <2> QED
    BY <2>1, <2>2
<1> HIDE DEF S
<1>3. n \in S
  BY <1>1, <1>2, Recursion!Induct
<1> DEFINE Tops == {i \in 1 .. n : Top(n, i)}
<1>4. Tops \in SUBSET Nat /\ Tops # {}
  BY <1>3 DEF S
<1>5. PICK i \in Tops : \A j \in Tops : i <= j
  BY <1>4, Recursion!Least
<1>6. ASSUME NEW j \in 1 .. i - 1
      PROVE  q[j] < q[i]
  <2>1. j \in 1 .. n /\ q[j] \in Int /\ q[i] \in Int /\ j < i /\ q[j] <= q[i]
    OBVIOUS
  <2>2. q[j] # q[i]
    <3> SUFFICES ASSUME q[j] = q[i] PROVE FALSE
      OBVIOUS
    <3>1. j \in Tops
      BY <2>1
    <3> QED
      BY <1>5, <2>1, <3>1
  <2> QED
    BY <2>1, <2>2
<1>7. DOMAIN q = 1 .. n
  OBVIOUS
<1>8. i \in DOMAIN q /\ (\A j \in DOMAIN q : q[j] <= q[i]) /\ \A j \in 1 .. i - 1 : q[j] < q[i]
  BY <1>5, <1>6, <1>7
<1>9. Best(q) \in DOMAIN q /\ \A j \in DOMAIN q : q[j] <= q[Best(q)]
  BY <1>8 DEF Best
<1> QED
  BY <1>7, <1>9

\* What everybody gains.
LEMMA GainType ==
    ASSUME NEW s, ValidatorSet(s), NEW p \in Priorities(s)
    PROVE  /\ Gain(s, p) \in Priorities(s)
           /\ \A i \in 1 .. Len(s.members) :
                Gain(s, p)[i] = p[i] + s.weights[i] /\ p[i] \in Int /\ s.weights[i] \in Nat \ {0}
           /\ SumTo(Gain(s, p), Len(s.members)) = SumTo(p, Len(s.members)) + Total(s)
           /\ Total(s) \in Int /\ SumTo(p, Len(s.members)) \in Int
<1> DEFINE n == Len(s.members)
           g == Gain(s, p)
           w == s.weights
<1>1. n \in Nat \ {0} /\ DOMAIN s.members = 1 .. n /\ w \in [1 .. n -> Nat \ {0}] /\ p \in [1 .. n -> Int]
  BY DEF ValidatorSet, Priorities
<1>2. g = [i \in 1 .. n |-> p[i] + w[i]]
  BY <1>1 DEF Gain, Index
<1>3. Total(s) = SumTo(w, n)
  BY DEF Total
<1> HIDE DEF n, g, w
<1>4. \A i \in 1 .. n : g[i] = p[i] + w[i] /\ p[i] \in Int /\ w[i] \in Nat \ {0} /\ w[i] \in Int
  BY <1>1, <1>2
<1>5. g \in [1 .. n -> Int] /\ w \in [1 .. n -> Int] /\ n \in Nat /\ n \in 0 .. n
  BY <1>1, <1>2, <1>4
<1>6. SumTo(g, n) = SumTo(p, n) + SumTo(w, n)
  BY <1>1, <1>4, <1>5, SumAdds
<1>7. SumTo(p, n) \in Int /\ SumTo(w, n) \in Int
  BY <1>1, <1>5, SumToDef
<1> QED
  BY <1>3, <1>4, <1>5, <1>6, <1>7 DEF Priorities, n, g, w

\* accumulator_step: the leader pays the total, so that the sum of the priorities
\* does not change.
LEMMA StepFacts ==
    ASSUME NEW s, ValidatorSet(s), NEW p \in Priorities(s)
    PROVE  LET n == Len(s.members)
               g == Gain(s, p)
               b == Best(g)
               q == accumulator_step(s, p)
           IN /\ q \in Priorities(s) /\ b \in 1 .. n
              /\ \A j \in 1 .. n : g[j] <= g[b]
              /\ q[b] = g[b] - Total(s) /\ \A j \in 1 .. n : j # b => q[j] = g[j]
              /\ SumTo(q, n) = SumTo(p, n)
<1> DEFINE n == Len(s.members)
           g == Gain(s, p)
           b == Best(g)
           q == accumulator_step(s, p)
           t == Total(s)
<1>1. n \in Nat \ {0}
  BY DEF ValidatorSet
<1>2. g \in [1 .. n -> Int] /\ SumTo(g, n) = SumTo(p, n) + t /\ t \in Int /\ SumTo(p, n) \in Int
  BY GainType DEF Priorities
<1>3. q = [g EXCEPT ![b] = g[b] - t]
  BY DEF accumulator_step
<1> HIDE DEF n, g, q, t
<1>4. b \in 1 .. n /\ \A j \in 1 .. n : g[j] <= g[b]
  BY <1>1, <1>2, BestExists
<1> HIDE DEF b
<1>5. g[b] \in Int /\ g[b] - t \in Int
  BY <1>2, <1>4
<1>6. q \in [1 .. n -> Int] /\ q[b] = g[b] - t /\ \A j \in 1 .. n : j # b => q[j] = g[j]
  BY <1>2, <1>3, <1>4, <1>5
<1>7. SumTo(q, n) = SumTo(g, n) - t
  <2>1. n \in Nat
    BY <1>1
  <2> QED
    BY <1>2, <1>4, <1>6, <2>1, SumPays, Zenon
<1>8. SumTo(q, n) = SumTo(p, n)
  BY <1>2, <1>7
<1> QED
  BY <1>4, <1>6, <1>8 DEF Priorities, n, g, b, q, t

\* n steps of the accumulator, as one sequence: Walk does not depend on how far
\* it is meant to go.
LEMMA WalkIterates ==
    ASSUME NEW s, ValidatorSet(s), NEW p \in Priorities(s)
    PROVE  /\ \A n \in Nat : Walk(s, p, n) \in Priorities(s)
           /\ Walk(s, p, 0) = p
           /\ \A n \in Nat : Walk(s, p, n + 1) = accumulator_step(s, Walk(s, p, n))
<1> DEFINE X == Priorities(s)
           F == [k \in Nat |-> [q \in X |-> accumulator_step(s, q)]]
<1>1. \A q \in X : accumulator_step(s, q) \in X
  BY StepFacts
<1>2. F \in [Nat -> [X -> X]]
  BY <1>1
<1>3. \A k \in Nat, q \in X : F[k][q] = accumulator_step(s, q)
  OBVIOUS
<1> HIDE DEF F, X
<1>4. PICK f : Recursion!Iterates(f, X, p, F)
  BY <1>2, Recursion!Iterate, Zenon DEF X
<1>5. /\ f[0] = p /\ \A k \in Nat : f[k] \in X
      /\ \A k \in Nat : f[k + 1] = accumulator_step(s, f[k])
  BY <1>3, <1>4 DEF Recursion!Iterates
<1>6. ASSUME NEW n \in Nat
      PROVE  Walk(s, p, n) = f[n]
  <2> DEFINE g == [k \in 0 .. n |-> f[k]]
             walk == CHOOSE h : h = [k \in 0 .. n |->
                                       IF k = 0 THEN p ELSE accumulator_step(s, h[k - 1])]
  <2>1. ASSUME NEW k \in 0 .. n, k # 0
        PROVE  f[k] = accumulator_step(s, f[k - 1]) /\ k - 1 \in 0 .. n
    <3>1. k - 1 \in Nat /\ (k - 1) + 1 = k /\ k - 1 \in 0 .. n
      BY <2>1
    <3> QED
      BY <1>5, <3>1
  <2>2. g = [k \in 0 .. n |-> IF k = 0 THEN p ELSE accumulator_step(s, g[k - 1])]
    <3>1. ASSUME NEW k \in 0 .. n
          PROVE  g[k] = IF k = 0 THEN p ELSE accumulator_step(s, g[k - 1])
      BY <1>5, <2>1
    <3> QED
      BY <3>1
  <2>3. walk = [k \in 0 .. n |-> IF k = 0 THEN p ELSE accumulator_step(s, walk[k - 1])]
    <3> HIDE DEF g
    <3> QED
      BY <2>2, Zenon
  <2>4. Walk(s, p, n) = walk[n]
    BY Zenon DEF Walk
  <2> HIDE DEF walk
  <2>5. walk[0] = f[0]
    BY <1>5, <2>3
  <2>6. ASSUME NEW k \in 0 .. n - 1, walk[k] = f[k]
        PROVE  walk[k + 1] = f[k + 1]
    <3>1. k + 1 \in 0 .. n /\ k + 1 # 0 /\ (k + 1) - 1 = k
      OBVIOUS
    <3>2. walk[k + 1] = accumulator_step(s, walk[k])
      BY <2>3, <3>1
    <3>3. f[k + 1] = accumulator_step(s, f[k])
      BY <2>1, <3>1
    <3> QED
      BY <2>6, <3>2, <3>3
  <2>7. walk[n] = f[n]
    BY <2>5, <2>6, Recursion!Agree, Zenon
  <2> QED
    BY <2>4, <2>7
<1>7. ASSUME NEW n \in Nat
      PROVE  /\ Walk(s, p, n) \in Priorities(s)
             /\ Walk(s, p, n + 1) = accumulator_step(s, Walk(s, p, n))
  <2>1. n + 1 \in Nat
    OBVIOUS
  <2> QED
    BY <1>5, <1>6, <2>1 DEF X
<1>8. Walk(s, p, 0) = p
  BY <1>5, <1>6
<1> QED
  BY <1>7, <1>8

\* A walk can be continued.
LEMMA WalkOn ==
    ASSUME NEW s, ValidatorSet(s), NEW p \in Priorities(s), NEW a \in Nat, NEW b \in Nat
    PROVE  Walk(s, Walk(s, p, a), b) = Walk(s, p, a + b)
<1> DEFINE q == Walk(s, p, a)
           f == [k \in Nat |-> Walk(s, q, k)]
           g == [k \in Nat |-> Walk(s, p, a + k)]
<1>1. q \in Priorities(s)
  BY WalkIterates
<1> HIDE DEF q
<1>2. f[0] = g[0]
  <2>1. Walk(s, q, 0) = q
    BY <1>1, WalkIterates
  <2>2. a + 0 = a
    OBVIOUS
  <2> QED
    BY <2>1, <2>2 DEF q
<1>3. ASSUME NEW k \in 0 .. b - 1, f[k] = g[k]
      PROVE  f[k + 1] = g[k + 1]
  <2>1. k \in Nat /\ k + 1 \in Nat /\ a + k \in Nat /\ a + (k + 1) = (a + k) + 1
    OBVIOUS
  <2>2. Walk(s, q, k + 1) = accumulator_step(s, Walk(s, q, k))
    BY <1>1, <2>1, WalkIterates
  <2>3. Walk(s, p, (a + k) + 1) = accumulator_step(s, Walk(s, p, a + k))
    BY <2>1, WalkIterates
  <2>4. Walk(s, q, k) = Walk(s, p, a + k)
    BY <1>3, <2>1
  <2> QED
    BY <2>1, <2>2, <2>3, <2>4
<1> HIDE DEF f, g
<1>4. f[b] = g[b]
  BY <1>2, <1>3, Recursion!Agree, Zenon
<1> QED
  BY <1>4 DEF f, g, q

\* The pure rule is the walk from zero.
LEMMA RuleIsWalk ==
    ASSUME NEW s, NEW n
    PROVE  AccumulatorLeader(s, n) = Elected(s, Walk(s, NoPriorities(s), n))
BY Zenon DEF AccumulatorLeader, Walk

\* If nobody has more than zero, neither has everybody together.
LEMMA SumNotPositive ==
    ASSUME NEW n \in Nat, NEW x \in [1 .. n -> Int], \A k \in 1 .. n : x[k] <= 0
    PROVE  SumTo(x, n) <= 0
<1> DEFINE S == {k \in 0 .. n : SumTo(x, k) <= 0}
<1>1. /\ SumTo(x, 0) = 0 /\ \A k \in 0 .. n : SumTo(x, k) \in Int
      /\ \A k \in 0 .. n - 1 : SumTo(x, k + 1) = SumTo(x, k) + x[k + 1]
  BY SumToDef
<1>2. 0 \in S
  BY <1>1
<1>3. ASSUME NEW k \in 0 .. n - 1, k \in S
      PROVE  k + 1 \in S
  <2>1. k \in 0 .. n /\ k + 1 \in 0 .. n /\ k + 1 \in 1 .. n /\ x[k + 1] \in Int /\ x[k + 1] <= 0
    OBVIOUS
  <2>2. SumTo(x, k) \in Int /\ SumTo(x, k) <= 0 /\ SumTo(x, k + 1) = SumTo(x, k) + x[k + 1]
    BY <1>1, <1>3, <2>1
  <2> QED
    BY <2>1, <2>2
<1> HIDE DEF S
<1>4. n \in S
  BY <1>2, <1>3, Recursion!Induct, Zenon
<1> QED
  BY <1>4 DEF S

\* There is some stake.
LEMMA TotalPositive ==
    ASSUME NEW s, ValidatorSet(s)
    PROVE  Total(s) \in Nat \ {0}
<1> DEFINE n == Len(s.members)
           w == s.weights
<1>1. n \in Nat /\ 1 \in 1 .. n /\ w \in [1 .. n -> Int] /\ \A k \in 1 .. n : w[k] >= 1
  BY DEF ValidatorSet
<1>2. Total(s) = SumTo(w, n)
  BY DEF Total
<1> HIDE DEF n, w
<1>3. SumTo(w, n) >= w[1] + (n - 1) * 1
  <2>1. 1 \in Int
    OBVIOUS
  <2> QED
    BY <1>1, <2>1, SumAtLeast, Zenon
<1>4. SumTo(w, n) \in Int
  <2>1. n \in 0 .. n
    BY <1>1
  <2> QED
    BY <1>1, <2>1, SumToDef
<1>5. w[1] \in Int /\ w[1] >= 1 /\ n >= 1
  BY <1>1
<1> QED
  BY <1>1, <1>2, <1>3, <1>4, <1>5

\* The accounts after k views: the priorities add up to zero, nobody owes the
\* total stake, and everybody gained its weight k times and paid the total a
\* whole number of times.
Accounts(s, p, k) ==
    /\ SumTo(p, Len(s.members)) = 0
    /\ \A i \in 1 .. Len(s.members) : p[i] > -Total(s)
    /\ \A i \in 1 .. Len(s.members) : \E c \in Int : p[i] = k * s.weights[i] - Total(s) * c

LEMMA AccountsAtStart ==
    ASSUME NEW s, ValidatorSet(s)
    PROVE  NoPriorities(s) \in Priorities(s) /\ Accounts(s, NoPriorities(s), 0)
<1> DEFINE n == Len(s.members)
           p == NoPriorities(s)
           t == Total(s)
<1>1. n \in Nat /\ p = [i \in 1 .. n |-> 0] /\ s.weights \in [1 .. n -> Nat]
  BY DEF ValidatorSet, NoPriorities, Index
<1>2. t \in Nat \ {0}
  BY TotalPositive
<1> HIDE DEF n, p, t
<1>3. p \in [1 .. n -> Int] /\ (\A i \in 1 .. n : p[i] = 0) /\ n \in 0 .. n
  BY <1>1
<1>4. SumTo(p, n) = 0
  <2>1. SumTo(p, n) = SumTo(p, n) + SumTo(p, n)
    <3>1. \A i \in 1 .. n : p[i] = p[i] + p[i]
      BY <1>3
    <3> QED
      BY <1>1, <1>3, <3>1, SumAdds, Zenon
  <2>2. SumTo(p, n) \in Int
    BY <1>1, <1>3, SumToDef
  <2>3. \A x \in Int : x = x + x => x = 0
    OBVIOUS
  <2> QED
    BY <2>1, <2>2, <2>3, Zenon
<1>5. ASSUME NEW i \in 1 .. n
      PROVE  p[i] > -t /\ \E c \in Int : p[i] = 0 * s.weights[i] - t * c
  <2>1. p[i] = 0 /\ s.weights[i] \in Nat
    BY <1>1, <1>3
  <2>2. 0 * s.weights[i] = 0 /\ t * 0 = 0 /\ 0 \in Int
    BY <1>2, <2>1
  <2>3. p[i] = 0 * s.weights[i] - t * 0
    BY <2>1, <2>2
  <2> QED
    BY <1>2, <2>1, <2>2, <2>3
<1> QED
  BY <1>3, <1>4, <1>5 DEF Accounts, Priorities, n, p, t

LEMMA AccountsStep ==
    ASSUME NEW s, ValidatorSet(s), NEW p \in Priorities(s), NEW k \in Nat, Accounts(s, p, k)
    PROVE  Accounts(s, accumulator_step(s, p), k + 1)
<1> DEFINE n == Len(s.members)
           g == Gain(s, p)
           b == Best(g)
           q == accumulator_step(s, p)
           t == Total(s)
           w == s.weights
<1>1. n \in Nat \ {0} /\ t \in Nat \ {0}
  BY TotalPositive DEF ValidatorSet
<1>2. /\ g \in [1 .. n -> Int] /\ SumTo(g, n) = SumTo(p, n) + t
      /\ \A i \in 1 .. n : g[i] = p[i] + w[i] /\ p[i] \in Int /\ w[i] \in Nat \ {0}
  BY GainType DEF Priorities
<1>3. /\ b \in 1 .. n /\ \A j \in 1 .. n : g[j] <= g[b]
      /\ q[b] = g[b] - t /\ \A j \in 1 .. n : j # b => q[j] = g[j]
      /\ SumTo(q, n) = SumTo(p, n)
  BY StepFacts
<1>4. /\ SumTo(p, n) = 0 /\ \A i \in 1 .. n : p[i] > -t
      /\ \A i \in 1 .. n : \E c \in Int : p[i] = k * w[i] - t * c
  BY DEF Accounts
<1> HIDE DEF n, g, b, q, t, w
<1>5. g[b] > 0
  <2> SUFFICES ASSUME ~(g[b] > 0)
               PROVE  FALSE
    OBVIOUS
  <2>1. \A j \in 1 .. n : g[j] \in Int /\ g[j] <= 0
    BY <1>2, <1>3
  <2>2. n \in Nat
    BY <1>1
  <2>3. SumTo(g, n) <= 0
    BY <1>2, <2>1, <2>2, SumNotPositive, Zenon
  <2> QED
    BY <1>1, <1>2, <1>4, <2>3
<1>6. ASSUME NEW i \in 1 .. n
      PROVE  q[i] > -t /\ \E c \in Int : q[i] = (k + 1) * w[i] - t * c
  <2>1. PICK c \in Int : p[i] = k * w[i] - t * c
    BY <1>4
  <2>2. g[i] = p[i] + w[i] /\ p[i] \in Int /\ w[i] \in Nat \ {0} /\ p[i] > -t /\ t \in Int /\ k \in Int
    BY <1>1, <1>2, <1>4
  <2>3. (k + 1) * w[i] = k * w[i] + w[i] /\ t * (c + 1) = t * c + t /\ k * w[i] \in Int /\ t * c \in Int
    <3>1. \A x, y \in Int : x * y \in Int /\ (x + 1) * y = x * y + y /\ x * (y + 1) = x * y + x
      OBVIOUS
    <3> QED
      BY <2>2, <3>1
  <2>4. CASE i = b
    <3>1. q[i] = g[i] - t /\ g[i] > 0
      BY <1>3, <1>5, <2>4
    <3>2. q[i] = (k + 1) * w[i] - t * (c + 1)
      BY <2>1, <2>2, <2>3, <3>1
    <3>3. c + 1 \in Int
      OBVIOUS
    <3>4. q[i] > -t
      BY <2>2, <3>1
    <3> QED
      BY <3>2, <3>3, <3>4
  <2>5. CASE i # b
    <3>1. q[i] = g[i]
      BY <1>3, <2>5
    <3>2. q[i] = (k + 1) * w[i] - t * c
      BY <2>1, <2>2, <2>3, <3>1
    <3>3. q[i] > -t
      BY <2>2, <3>1
    <3> QED
      BY <3>2, <3>3
  <2> QED
    BY <2>4, <2>5
<1> QED
  BY <1>3, <1>4, <1>6 DEF Accounts, n, g, b, q, t, w

\* However far the walk from zero goes, its accounts are in order.
LEMMA AccountsHold ==
    ASSUME NEW s, ValidatorSet(s), NEW n \in Nat
    PROVE  /\ Walk(s, NoPriorities(s), n) \in Priorities(s)
           /\ Accounts(s, Walk(s, NoPriorities(s), n), n)
<1> DEFINE z == NoPriorities(s)
           S == {k \in Nat : Accounts(s, Walk(s, z, k), k)}
<1>1. z \in Priorities(s) /\ Accounts(s, z, 0)
  BY AccountsAtStart
<1> HIDE DEF z
<1>2. /\ \A k \in Nat : Walk(s, z, k) \in Priorities(s)
      /\ Walk(s, z, 0) = z
      /\ \A k \in Nat : Walk(s, z, k + 1) = accumulator_step(s, Walk(s, z, k))
  BY <1>1, WalkIterates
<1>3. 0 \in S
  BY <1>1, <1>2
<1>4. ASSUME NEW k \in 0 .. n - 1, k \in S
      PROVE  k + 1 \in S
  <2>1. k \in Nat /\ k + 1 \in Nat /\ Accounts(s, Walk(s, z, k), k)
    BY <1>4
  <2>2. Accounts(s, accumulator_step(s, Walk(s, z, k)), k + 1)
    BY <1>2, <2>1, AccountsStep
  <2> QED
    BY <1>2, <2>1, <2>2
<1> HIDE DEF S
<1>5. n \in S
  BY <1>3, <1>4, Recursion!Induct, Zenon
<1> QED
  BY <1>2, <1>5 DEF S, z

\* Nobody is owed more than all the others can owe.
LEMMA AccountsBounded ==
    ASSUME NEW s, ValidatorSet(s), NEW p \in Priorities(s), NEW k \in Nat, Accounts(s, p, k),
           NEW m \in 1 .. Len(s.members)
    PROVE  p[m] \in -(Total(s) - 1) .. (Len(s.members) - 1) * (Total(s) - 1)
<1> DEFINE n == Len(s.members)
           t == Total(s)
           d == t - 1
<1>1. n \in Nat \ {0} /\ t \in Nat \ {0} /\ p \in [1 .. n -> Int] /\ m \in 1 .. n
  BY TotalPositive DEF ValidatorSet, Priorities
<1>2. SumTo(p, n) = 0 /\ \A i \in 1 .. n : p[i] > -t
  BY DEF Accounts
<1> HIDE DEF n, t
<1>3. n \in Nat /\ d \in Int /\ -d \in Int /\ \A i \in 1 .. n : p[i] \in Int /\ p[i] >= -d
  BY <1>1, <1>2
<1> HIDE DEF d
<1>4. SumTo(p, n) >= p[m] + (n - 1) * (-d)
  BY <1>1, <1>3, SumAtLeast, Zenon
<1>5. (n - 1) * (-d) = -((n - 1) * d) /\ (n - 1) * d \in Int
  <2>1. \A x, y \in Int : x * (-y) = -(x * y) /\ x * y \in Int
    OBVIOUS
  <2> QED
    BY <1>3, <2>1
<1>6. p[m] <= (n - 1) * d /\ p[m] >= -d /\ p[m] \in Int
  BY <1>1, <1>2, <1>3, <1>4, <1>5
<1>7. p[m] \in -d .. (n - 1) * d
  BY <1>3, <1>5, <1>6
<1> QED
  BY <1>7 DEF n, t, d

\* After a whole number of periods all accounts are settled.
LEMMA AccountsSettled ==
    ASSUME NEW s, ValidatorSet(s), NEW p \in Priorities(s), NEW k \in Nat, Accounts(s, p, k),
           k % Total(s) = 0
    PROVE  p = NoPriorities(s)
<1> DEFINE n == Len(s.members)
           t == Total(s)
           w == s.weights
<1>1. /\ n \in Nat \ {0} /\ t \in Nat \ {0} /\ p \in [1 .. n -> Int]
      /\ w \in [1 .. n -> Nat] /\ k % t = 0 /\ Index(s) = 1 .. n
  BY TotalPositive DEF ValidatorSet, Priorities, Index
<1>2. /\ SumTo(p, n) = 0 /\ \A i \in 1 .. n : p[i] > -t
      /\ \A i \in 1 .. n : \E c \in Int : p[i] = k * w[i] - t * c
  BY DEF Accounts
<1> HIDE DEF n, t, w
<1>3. PICK r \in Int : k = t * r
  <2> DEFINE r == k \div t
  <2>1. k = t * r + (k % t) /\ r \in Int
    BY <1>1
  <2> HIDE DEF r
  <2>2. t * r \in Int
    BY <1>1, <2>1
  <2>3. k = t * r
    <3>1. \A x \in Int : x + 0 = x
      OBVIOUS
    <3>2. k = t * r + 0
      BY <1>1, <2>1, Zenon
    <3> QED
      BY <2>2, <3>1, <3>2, Zenon
  <2> QED
    BY <2>1, <2>3, Zenon
<1>4. ASSUME NEW i \in 1 .. n
      PROVE  p[i] >= 0
  <2>1. PICK c \in Int : p[i] = k * w[i] - t * c
    BY <1>2
  <2>2. w[i] \in Int /\ t \in Int /\ t > 0 /\ p[i] \in Int /\ p[i] > -t
    BY <1>1, <1>2
  <2> DEFINE e == r * w[i] - c
  <2>3. e \in Int /\ p[i] = t * e
    <3>1. \A x, y, z, u \in Int : (x * y) * z - x * u = x * (y * z - u) /\ y * z - u \in Int
      OBVIOUS
    <3>2. p[i] = (t * r) * w[i] - t * c
      BY <1>3, <2>1
    <3> QED
      BY <2>2, <3>1, <3>2
  <2> HIDE DEF e
  <2>4. e >= 0
    <3>1. \A x, y \in Int : x > 0 /\ x * y > -x => y >= 0
      OBVIOUS
    <3> QED
      BY <2>2, <2>3, <3>1
  <2> QED
    <3>1. \A x, y \in Int : x > 0 /\ y >= 0 => x * y >= 0
      OBVIOUS
    <3> QED
      BY <2>2, <2>3, <2>4, <3>1
<1>5. ASSUME NEW i \in 1 .. n
      PROVE  p[i] = 0
  <2>1. n \in Nat /\ 0 \in Int /\ p[i] \in Int /\ (n - 1) * 0 = 0
    BY <1>1
  <2>2. SumTo(p, n) >= p[i] + (n - 1) * 0
    BY <1>1, <1>4, <2>1, SumAtLeast, Zenon
  <2> QED
    BY <1>2, <1>4, <2>1, <2>2
<1>6. p = [i \in 1 .. n |-> 0]
  BY <1>1, <1>5
<1> QED
  BY <1>1, <1>6 DEF NoPriorities

-----------------------------------------------------------------------------
(***************************************************************************)
(* The cache.                                                              *)
(***************************************************************************)

\* The regimes are validator sets.
LEMMA RegimeSets ==
    ASSUME NEW i \in 1 .. Len(Regimes)
    PROVE  ValidatorSet(Regimes[i]) /\ Regimes[i].from \in Nat
                /\ Index(Regimes[i]) = 1 .. Len(Regimes[i].members)
<1>1. i \in DOMAIN Regimes
  BY RegimesOrdered
<1> QED
  BY <1>1, RegimesOrdered DEF ValidatorSet, Index

\* Every view lies in a regime that the node knows.
LEMMA RegimeInRange ==
    ASSUME NEW v \in Nat, NEW b \in 1 .. Len(Regimes)
    PROVE  /\ RegimeOf(v, b) \in 1 .. b /\ RegimeOf(v, b) \in 1 .. Len(Regimes)
           /\ Regimes[RegimeOf(v, b)].from <= v
<1> DEFINE S == {i \in 1 .. b : Regimes[i].from <= v}
           D == {d \in Nat : b - d \in S}
<1>1. Len(Regimes) \in Nat /\ b \in Nat /\ b <= Len(Regimes) /\ b >= 1
  BY RegimesOrdered
<1>2. 1 \in S
  <2>1. Regimes[1].from = 0
    BY RegimesOrdered
  <2> QED
    BY <1>1, <2>1
<1>3. D # {} /\ D \in SUBSET Nat
  <2>1. b - 1 \in Nat /\ b - (b - 1) = 1
    BY <1>1
  <2>2. b - 1 \in D
    BY <1>2, <2>1
  <2> QED
    BY <2>2
<1>4. PICK d \in D : \A e \in D : d <= e
  BY <1>3, Recursion!Least
<1>5. b - d \in S
  BY <1>4
<1>6. ASSUME NEW y \in S
      PROVE  b - d >= y
  <2>1. y \in 1 .. b /\ b - y \in Nat /\ b - (b - y) = y
    BY <1>1
  <2>2. b - y \in D
    BY <2>1
  <2>3. d <= b - y /\ d \in Nat
    BY <1>4, <2>2
  <2> HIDE DEF S, D
  <2> QED
    BY <1>1, <2>1, <2>3
<1>7. RegimeOf(v, b) = Max(S)
  BY DEF RegimeOf
<1> HIDE DEF S
<1>8. Max(S) \in S
  BY <1>5, <1>6 DEF Max
<1>9. RegimeOf(v, b) \in S
  BY <1>7, <1>8
<1> QED
  BY <1>1, <1>9 DEF S

(* The inductive invariant.  The selector was made for the boundaries the node
   knows; the priorities it caches for a regime are the ones that as many steps
   from zero give as there are views up to the cached one; and the latest reply
   names the leader of the pure rule. *)
CacheInv ==
    /\ known \in 1 .. Len(Regimes) /\ snapshot = known
    /\ DOMAIN frontier \subseteq 1 .. known
    /\ \A i \in DOMAIN frontier :
          /\ frontier[i].last \in Regimes[i].from .. LastView
          /\ frontier[i].priorities = Walk(Regimes[i], NoPriorities(Regimes[i]),
                                           frontier[i].last + 1 - Regimes[i].from)
    /\ reply.view \in 0 .. LastView /\ reply.boundaries \in 1 .. known
    /\ CacheTransparent

LEMMA CacheInvInit == Init => CacheInv
<1> SUFFICES ASSUME Init
             PROVE  CacheInv
  OBVIOUS
<1>1. known = 1 /\ snapshot = 1 /\ DOMAIN frontier = {}
  BY DEF Init, NoFrontier
<1>2. reply.view = 0 /\ reply.boundaries = 1 /\ reply.leader = LeaderOf(0, 1)
  BY DEF Init
<1>3. Len(Regimes) \in Nat \ {0} /\ LastView \in Nat
  BY RegimesOrdered
<1> QED
  BY <1>1, <1>2, <1>3 DEF CacheInv, CacheTransparent

LEMMA CacheInvQuery ==
    ASSUME CacheInv, NEW v \in 0 .. LastView, LeaderForView(v)
    PROVE  CacheInv'
<1> DEFINE i == RegimeOf(v, snapshot)
           s == Regimes[i]
           z == NoPriorities(s)
           f == IF i \in DOMAIN frontier THEN frontier[i] ELSE [last |-> s.from - 1, priorities |-> z]
           W(k) == Walk(s, z, k)
<1>1. /\ known \in 1 .. Len(Regimes) /\ snapshot = known /\ v \in Nat /\ LastView \in Nat
      /\ known \in Nat /\ LastView \in Int
  BY RegimesOrdered DEF CacheInv
<1>2. i \in 1 .. known /\ i \in 1 .. Len(Regimes) /\ s.from <= v
  BY <1>1, RegimeInRange
<1>3. ValidatorSet(s) /\ s.from \in Nat
  BY <1>2, RegimeSets
<1>4. z \in Priorities(s) /\ W(0) = z
  BY <1>3, AccountsAtStart, WalkIterates
<1>5. /\ f.last \in (s.from - 1) .. LastView /\ f.last \in Int /\ f.last >= s.from - 1
      /\ (i \in DOMAIN frontier => f.last >= s.from)
      /\ f.priorities = W(f.last + 1 - s.from)
  <2>1. CASE i \in DOMAIN frontier
    <3>1. frontier[i].last \in s.from .. LastView
          /\ frontier[i].priorities = W(frontier[i].last + 1 - s.from)
      BY <2>1 DEF CacheInv
    <3>2. f = frontier[i]
      BY <2>1
    <3> QED
      BY <1>1, <1>3, <3>1, <3>2
  <2>2. CASE i \notin DOMAIN frontier
    <3>1. f.last = s.from - 1 /\ f.priorities = z
      BY <2>2
    <3>2. (s.from - 1) + 1 - s.from = 0
      BY <1>3
    <3> QED
      BY <1>1, <1>2, <1>3, <1>4, <2>2, <3>1, <3>2
  <2> QED
    BY <2>1, <2>2
<1>6. LeaderOf(v, known) = Elected(s, W(v - s.from))
  BY <1>1, RuleIsWalk DEF LeaderOf
<1>7. /\ known' = known /\ snapshot' = snapshot
      /\ \/ /\ v <= f.last
            /\ reply' = [view |-> v, boundaries |-> known, leader |-> Elected(s, W(v - s.from))]
            /\ frontier' = Extend(frontier, i, f)
         \/ /\ ~(v <= f.last)
            /\ reply' = [view |-> v, boundaries |-> known,
                         leader |-> Elected(s, Walk(s, f.priorities, v - f.last - 1))]
            /\ frontier' = Extend(frontier, i,
                             [last |-> v,
                              priorities |-> accumulator_step(s, Walk(s, f.priorities, v - f.last - 1))])
  BY Zenon DEF LeaderForView
<1> HIDE DEF f
<1>8. \E x : /\ frontier' = Extend(frontier, i, x) /\ x.last \in s.from .. LastView
             /\ x.priorities = W(x.last + 1 - s.from)
             /\ reply' = [view |-> v, boundaries |-> known, leader |-> Elected(s, W(v - s.from))]
  <2>1. CASE v <= f.last
    <3>1. f.last \in s.from .. LastView
      BY <1>1, <1>2, <1>3, <1>5, <2>1
    <3> QED
      BY <1>5, <1>7, <2>1, <3>1
  <2>2. CASE ~(v <= f.last)
    <3> DEFINE a == f.last + 1 - s.from
               c == v - f.last - 1
               before == Walk(s, f.priorities, c)
               x == [last |-> v, priorities |-> accumulator_step(s, before)]
    <3>1. a \in Nat /\ c \in Nat /\ a + c = v - s.from /\ v - s.from \in Nat
          /\ (v - s.from) + 1 = v + 1 - s.from /\ v \in s.from .. LastView
      <4> DEFINE l == f.last
                 fr == s.from
      <4>1. l \in Int /\ l >= fr - 1 /\ fr \in Nat /\ v \in Nat /\ ~(v <= l) /\ fr <= v
            /\ v <= LastView /\ LastView \in Int
        BY <1>1, <1>2, <1>3, <1>5, <2>2
      <4> HIDE DEF l, fr
      <4>2. l + 1 - fr \in Nat /\ v - l - 1 \in Nat /\ (l + 1 - fr) + (v - l - 1) = v - fr
            /\ v - fr \in Nat /\ (v - fr) + 1 = v + 1 - fr /\ v \in fr .. LastView
        BY <4>1
      <4> QED
        BY <4>2 DEF l, fr
    <3>2. before = W(v - s.from)
      <4>1. f.priorities = W(a)
        BY <1>5
      <4>2. Walk(s, W(a), c) = W(a + c)
        BY <1>3, <1>4, <3>1, WalkOn
      <4> QED
        BY <3>1, <4>1, <4>2
    <3>3. W((v - s.from) + 1) = accumulator_step(s, W(v - s.from))
      BY <1>3, <1>4, <3>1, WalkIterates
    <3>4. x.last = v /\ x.priorities = W(v + 1 - s.from)
      BY <3>1, <3>2, <3>3
    <3>5. frontier' = Extend(frontier, i, x)
          /\ reply' = [view |-> v, boundaries |-> known, leader |-> Elected(s, before)]
      BY <1>7, <2>2
    <3> HIDE DEF x, before
    <3>6. x.last \in s.from .. LastView /\ x.priorities = W(x.last + 1 - s.from)
      BY <3>1, <3>4
    <3> QED
      BY <3>2, <3>5, <3>6
  <2> QED
    BY <2>1, <2>2
<1>9. PICK x : /\ frontier' = Extend(frontier, i, x) /\ x.last \in s.from .. LastView
               /\ x.priorities = W(x.last + 1 - s.from)
               /\ reply' = [view |-> v, boundaries |-> known, leader |-> Elected(s, W(v - s.from))]
  BY <1>8
<1>10. /\ reply'.view = v /\ reply'.boundaries = known
       /\ reply'.leader = LeaderOf(v, known)
  BY <1>6, <1>9
<1>11. CacheTransparent'
  BY <1>10 DEF CacheTransparent, LeaderOf, RegimeOf
<1>12. /\ DOMAIN frontier' = DOMAIN frontier \cup {i}
       /\ frontier'[i] = x
       /\ \A j \in DOMAIN frontier : j # i => frontier'[j] = frontier[j]
  BY <1>9 DEF Extend
<1>13. DOMAIN frontier' \subseteq 1 .. known
  BY <1>2, <1>12 DEF CacheInv
<1>14. ASSUME NEW j \in DOMAIN frontier'
       PROVE  /\ frontier'[j].last \in Regimes[j].from .. LastView
              /\ frontier'[j].priorities = Walk(Regimes[j], NoPriorities(Regimes[j]),
                                                frontier'[j].last + 1 - Regimes[j].from)
  <2>1. CASE j = i
    BY <1>9, <1>12, <2>1
  <2>2. CASE j # i
    BY <1>12, <2>2 DEF CacheInv
  <2> QED
    BY <2>1, <2>2
<1> QED
  BY <1>1, <1>7, <1>10, <1>11, <1>13, <1>14 DEF CacheInv

LEMMA CacheInvSetSelector ==
    ASSUME CacheInv, SetSelector
    PROVE  CacheInv'
<1>1. /\ known' = known + 1 /\ snapshot' = known + 1 /\ known < Len(Regimes)
      /\ DOMAIN frontier' = {} /\ reply' = reply
  BY DEF SetSelector, NoFrontier
<1>2. known \in 1 .. Len(Regimes) /\ Len(Regimes) \in Nat
  BY RegimesOrdered DEF CacheInv
<1>3. known' \in 1 .. Len(Regimes) /\ \A b \in 1 .. known : b \in 1 .. known'
  BY <1>1, <1>2
<1>4. CacheTransparent'
  BY <1>1 DEF CacheInv, CacheTransparent, LeaderOf, RegimeOf
<1>5. reply'.view \in 0 .. LastView /\ reply'.boundaries \in 1 .. known'
  BY <1>1, <1>3 DEF CacheInv
<1> QED
  BY <1>1, <1>3, <1>4, <1>5 DEF CacheInv

LEMMA CacheInvNext == CacheInv /\ [Next]_vars => CacheInv'
<1> SUFFICES ASSUME CacheInv, [Next]_vars
             PROVE  CacheInv'
  OBVIOUS
<1>1. CASE Next
  BY <1>1, CacheInvQuery, CacheInvSetSelector DEF Next
<1>2. CASE UNCHANGED vars
  BY <1>2 DEF vars, CacheInv, CacheTransparent, LeaderOf, RegimeOf
<1> QED
  BY <1>1, <1>2

\* A cached frontier is the end of a walk from zero through a known regime.
LEMMA FrontierIsWalk ==
    ASSUME CacheInv, NEW i \in DOMAIN frontier
    PROVE  LET s == Regimes[i]
               k == frontier[i].last + 1 - s.from
               p == frontier[i].priorities
           IN /\ i \in 1 .. Len(Regimes) /\ ValidatorSet(s) /\ s.from \in Nat
              /\ Index(s) = 1 .. Len(s.members)
              /\ frontier[i].last \in s.from .. LastView /\ k \in Nat
              /\ p \in Priorities(s) /\ Accounts(s, p, k)
<1> DEFINE s == Regimes[i]
           k == frontier[i].last + 1 - s.from
           p == frontier[i].priorities
<1>1. i \in 1 .. Len(Regimes)
  <2>1. known \in 1 .. Len(Regimes) /\ i \in 1 .. known
    BY DEF CacheInv
  <2> QED
    BY <2>1, RegimesOrdered
<1>2. ValidatorSet(s) /\ s.from \in Nat /\ Index(s) = 1 .. Len(s.members)
  BY <1>1, RegimeSets
<1>3. frontier[i].last \in s.from .. LastView /\ p = Walk(s, NoPriorities(s), k) /\ LastView \in Nat
  BY RegimesOrdered DEF CacheInv
<1>4. k \in Nat
  BY <1>2, <1>3
<1>5. p \in Priorities(s) /\ Accounts(s, p, k)
  BY <1>2, <1>3, <1>4, AccountsHold
<1> QED
  BY <1>1, <1>2, <1>3, <1>4, <1>5

LEMMA CacheInvImplies == CacheInv => TypeOK /\ Proportional /\ PrioritiesBounded
<1> SUFFICES ASSUME CacheInv
             PROVE  TypeOK /\ Proportional /\ PrioritiesBounded
  OBVIOUS
<1>1. TypeOK
  <2>1. ASSUME NEW i \in DOMAIN frontier
        PROVE  /\ frontier[i].last \in Regimes[i].from .. LastView
               /\ frontier[i].priorities \in [Index(Regimes[i]) -> Int]
    BY FrontierIsWalk DEF Priorities
  <2> QED
    BY <2>1 DEF TypeOK, CacheInv
<1>2. Proportional
  <2>1. ASSUME NEW i \in DOMAIN frontier,
               (frontier[i].last + 1 - Regimes[i].from) % Total(Regimes[i]) = 0
        PROVE  frontier[i].priorities = NoPriorities(Regimes[i])
    <3> DEFINE s == Regimes[i]
               k == frontier[i].last + 1 - s.from
               p == frontier[i].priorities
    <3>1. ValidatorSet(s) /\ p \in Priorities(s) /\ k \in Nat /\ Accounts(s, p, k) /\ k % Total(s) = 0
      BY <2>1, FrontierIsWalk
    <3> HIDE DEF s, k, p
    <3>2. p = NoPriorities(s)
      BY <3>1, AccountsSettled, Zenon
    <3> QED
      BY <3>2 DEF s, p
  <2> QED
    BY <2>1 DEF Proportional
<1>3. PrioritiesBounded
  <2>1. ASSUME NEW i \in DOMAIN frontier, NEW m \in Index(Regimes[i])
        PROVE  frontier[i].priorities[m]
                 \in -(Total(Regimes[i]) - 1)
                       .. (Len(Regimes[i].members) - 1) * (Total(Regimes[i]) - 1)
    <3> DEFINE s == Regimes[i]
               k == frontier[i].last + 1 - s.from
               p == frontier[i].priorities
    <3>1. ValidatorSet(s) /\ p \in Priorities(s) /\ k \in Nat /\ Accounts(s, p, k)
          /\ m \in 1 .. Len(s.members)
      BY <2>1, FrontierIsWalk
    <3> HIDE DEF s, k, p
    <3>2. p[m] \in -(Total(s) - 1) .. (Len(s.members) - 1) * (Total(s) - 1)
      BY <3>1, AccountsBounded, Zenon
    <3> QED
      BY <3>2 DEF s, p
  <2> QED
    BY <2>1, Zenon DEF PrioritiesBounded
<1> QED
  BY <1>1, <1>2, <1>3

LEMMA CacheInvAlways == Spec => []CacheInv
BY CacheInvInit, CacheInvNext, PTL DEF Spec

(* Whatever is asked and in whatever order, the state of
   WeightedAccumulatorSelector stays well formed: a cached frontier lies in its
   regime and has one priority per member. *)
THEOREM TypeCorrect == Spec => []TypeOK
BY CacheInvAlways, CacheInvImplies, PTL

(* leader_for_view is a pure function of the view and of the node's history: for
   every sequence of validator sets, every order of queries and every moment at
   which set_selector replaces the selector, it answers what the rule recomputed
   from the start of the regime answers, hence what every other node with the
   same history answers. *)
THEOREM CacheIsTransparent == Spec => []CacheTransparent
<1>1. CacheInv => CacheTransparent
  BY DEF CacheInv
<1> QED
  BY <1>1, CacheInvAlways, PTL

(* For all weights accumulator_step elects in proportion to stake: whenever the
   views of a regime make up a whole number of periods of total_weight views, all
   priorities are back at zero. *)
THEOREM LeadershipIsProportional == Spec => []Proportional
BY CacheInvAlways, CacheInvImplies, PTL

(* For all weights and however long a regime lasts, a priority of
   accumulator_step lies strictly above minus the total stake and is at most the
   number of the other validators times that: with i128 priorities and u64
   weights the saturating arithmetic never saturates. *)
THEOREM PrioritiesStayBounded == Spec => []PrioritiesBounded
BY CacheInvAlways, CacheInvImplies, PTL
=============================================================================
