----------------------------- MODULE LoopProofs ------------------------------
(***************************************************************************)
(* What a loop computes: facts about recursive functions on the natural    *)
(* numbers, and for the loops of the module Loops, with an arbitrary step, *)
(* the recurrence that they obey and the rule for a loop invariant.  A     *)
(* proof about a loop instantiates this module with its step and its       *)
(* invariant; so the lemmas are formulas without assumptions of their own. *)
(***************************************************************************)
EXTENDS Loops, WellFoundedInduction, NaturalsInduction, TLAPS

CONSTANTS
    Step(_, _, _),    \* Step(s, x, v): state s after element x, in the environment v
    Good(_, _, _)     \* Good(w, i, s): the invariant of state s after i elements

-----------------------------------------------------------------------------
(***************************************************************************)
(* Recursion over the natural numbers: induction for a set, and the        *)
(* existence and the uniqueness of what a recurrence defines.              *)
(***************************************************************************)
\* A set of natural numbers that is not empty has a least element.
LEMMA Least ==
    \A S \in SUBSET Nat : S # {} => \E m \in S : \A k \in S : m <= k
<1> SUFFICES ASSUME NEW S \in SUBSET Nat, S # {}
             PROVE  \E m \in S : \A k \in S : m <= k
  OBVIOUS
<1>1. PICK m \in S : \A k \in S : ~(<<k, m>> \in OpToRel(<, Nat))
  BY NatLessThanWellFounded, WFMin
<1>2. ASSUME NEW k \in S, ~(m <= k)
      PROVE  FALSE
  <2>1. k \in Nat /\ m \in Nat /\ k < m
    BY <1>2
  <2>2. <<k, m>> \in OpToRel(<, Nat)
    <3>1. <<k, m>> \in Nat \X Nat
      BY <2>1
    <3> QED
      BY <2>1, <3>1 DEF OpToRel
  <2> QED
    BY <1>1, <2>2
<1> QED
  BY <1>2

\* Induction for a set: what holds at 0 and is handed on holds everywhere.
LEMMA Induct ==
    \A S : \A n \in Nat :
        /\ 0 \in S
        /\ \A k \in 0 .. n - 1 : k \in S => k + 1 \in S
        => n \in S
<1> SUFFICES ASSUME NEW S, NEW n \in Nat, 0 \in S,
                    \A k \in 0 .. n - 1 : k \in S => k + 1 \in S
             PROVE  n \in S
  OBVIOUS
<1> DEFINE Bad == {k \in 0 .. n : k \notin S}
<1> SUFFICES ASSUME n \notin S
             PROVE  FALSE
  OBVIOUS
<1>1. Bad \in SUBSET Nat /\ Bad # {}
  OBVIOUS
<1>2. PICK m \in Bad : \A k \in Bad : m <= k
  BY <1>1, Least
<1>3. m \in 0 .. n /\ m \notin S /\ m # 0
  OBVIOUS
<1>4. m - 1 \in 0 .. n - 1 /\ m - 1 \notin Bad /\ (m - 1) + 1 = m
  BY <1>2, <1>3
<1>5. m - 1 \in S
  BY <1>4
<1> QED
  BY <1>3, <1>4, <1>5

\* Two functions that obey the same recurrence agree.
LEMMA Agree ==
    \A n \in Nat : \A f, g :
        /\ f[0] = g[0]
        /\ \A k \in 0 .. n - 1 : f[k] = g[k] => f[k + 1] = g[k + 1]
        => f[n] = g[n]
<1> SUFFICES ASSUME NEW n \in Nat, NEW f, NEW g, f[0] = g[0],
                    \A k \in 0 .. n - 1 : f[k] = g[k] => f[k + 1] = g[k + 1]
             PROVE  f[n] = g[n]
  OBVIOUS
<1> DEFINE S == {k \in 0 .. n : f[k] = g[k]}
<1>1. 0 \in S
  OBVIOUS
<1>2. \A k \in 0 .. n - 1 : k \in S => k + 1 \in S
  OBVIOUS
<1> HIDE DEF S
<1>3. n \in S
  BY <1>1, <1>2, Induct
<1> QED
  BY <1>3 DEF S

\* The sequence that starts with x and continues with F
Iterates(f, X, x, F) ==
    f \in [Nat -> X] /\ f[0] = x /\ \A k \in Nat : f[k + 1] = F[k][f[k]]

\* It exists.
LEMMA Iterate ==
    \A X : \A x \in X : \A F \in [Nat -> [X -> X]] : \E f : Iterates(f, X, x, F)
<1> SUFFICES ASSUME NEW X, NEW x \in X, NEW F \in [Nat -> [X -> X]]
             PROVE  \E f : Iterates(f, X, x, F)
  OBVIOUS
<1> DEFINE Upto(n, f) == /\ f \in [0 .. n -> X] /\ f[0] = x
                         /\ \A k \in 0 .. n - 1 : f[k + 1] = F[k][f[k]]
           S == {n \in Nat : \E f : Upto(n, f)}
<1>1. 0 \in S
  <2> DEFINE f == [k \in 0 .. 0 |-> x]
  <2>1. Upto(0, f)
    OBVIOUS
  <2> HIDE DEF Upto
  <2> QED
    BY <2>1
<1>2. ASSUME NEW n \in Nat, NEW f, Upto(n, f)
      PROVE  \E g : Upto(n + 1, g)
  <2> DEFINE y == F[n][f[n]]
             g == [k \in 0 .. n + 1 |-> IF k = n + 1 THEN y ELSE f[k]]
  <2>1. \A k \in 0 .. n : f[k] \in X
    BY <1>2
  <2>2. y \in X
    BY <2>1
  <2>3. \A k \in 0 .. n : g[k] = f[k]
    OBVIOUS
  <2>4. g[n + 1] = y
    OBVIOUS
  <2>5. g \in [0 .. n + 1 -> X]
    BY <2>1, <2>2
  <2>6. ASSUME NEW k \in 0 .. n
        PROVE  g[k + 1] = F[k][g[k]]
    <3>1. CASE k = n
      BY <2>3, <2>4, <3>1
    <3>2. CASE k # n
      <4>1. k \in 0 .. n - 1 /\ k + 1 \in 0 .. n
        BY <3>2
      <4> QED
        BY <1>2, <2>3, <4>1
    <3> QED
      BY <3>1, <3>2
  <2>7. g[0] = x
    BY <1>2, <2>3
  <2> HIDE DEF g
  <2>8. \A k \in 0 .. (n + 1) - 1 : g[k + 1] = F[k][g[k]]
    BY <2>6
  <2> QED
    BY <2>5, <2>7, <2>8
<1> HIDE DEF Upto
<1>3. \A k \in Nat : k \in S => k + 1 \in S
  BY <1>2
<1> HIDE DEF S
<1>4. ASSUME NEW n \in Nat PROVE \E f : Upto(n, f)
  <2>1. n \in S
    BY <1>1, <1>3, Induct
  <2> QED
    BY <2>1 DEF S
<1> DEFINE c(n) == CHOOSE f : Upto(n, f)
           h == [n \in Nat |-> c(n)[n]]
<1>5. ASSUME NEW n \in Nat PROVE Upto(n, c(n))
  BY <1>4
<1> HIDE DEF c
<1>6. ASSUME NEW n \in Nat
      PROVE  c(n + 1)[n] = c(n)[n]
  <2>1. Upto(n, c(n)) /\ Upto(n + 1, c(n + 1))
    BY <1>5
  <2> DEFINE f == c(n)
             g == c(n + 1)
  <2>2. /\ f[0] = x /\ g[0] = x
        /\ \A k \in 0 .. n - 1 : f[k + 1] = F[k][f[k]]
        /\ \A k \in 0 .. (n + 1) - 1 : g[k + 1] = F[k][g[k]]
    BY <2>1 DEF Upto
  <2> HIDE DEF f, g
  <2>3. ASSUME NEW k \in 0 .. n - 1, f[k] = g[k]
        PROVE  f[k + 1] = g[k + 1]
    <3>1. k \in 0 .. (n + 1) - 1
      OBVIOUS
    <3>2. f[k + 1] = F[k][f[k]] /\ g[k + 1] = F[k][g[k]]
      BY <2>2, <3>1
    <3> QED
      BY <2>3, <3>2
  <2>4. f[n] = g[n]
    BY <2>2, <2>3, Agree
  <2> QED
    BY <2>4 DEF f, g
<1>7. ASSUME NEW n \in Nat
      PROVE  c(n)[n] \in X /\ c(n + 1)[n + 1] = F[n][c(n + 1)[n]]
  BY <1>5 DEF Upto
<1>8. c(0)[0] = x
  BY <1>5 DEF Upto
<1>9. h \in [Nat -> X] /\ h[0] = x
  BY <1>7, <1>8
<1>10. ASSUME NEW k \in Nat PROVE h[k + 1] = F[k][h[k]]
  BY <1>6, <1>7
<1>11. Iterates(h, X, x, F)
  BY <1>9, <1>10 DEF Iterates
<1> QED
  BY <1>11

\* The rounds of a loop that is a recursive function on 0 .. n
Runs(g, X, x, n, F) ==
    g \in [0 .. n -> X] /\ g[0] = x /\ \A k \in 1 .. n : g[k] = F[k][g[k - 1]]

\* They exist if each stays in X.
LEMMA RunOf ==
    \A X : \A x \in X : \A n \in Nat : \A F \in [1 .. n -> [X -> X]] :
        \E g : Runs(g, X, x, n, F)
<1> SUFFICES ASSUME NEW X, NEW x \in X, NEW n \in Nat, NEW F \in [1 .. n -> [X -> X]]
             PROVE  \E g : Runs(g, X, x, n, F)
  OBVIOUS
<1> DEFINE G == [k \in Nat |-> IF k < n THEN F[k + 1] ELSE [y \in X |-> y]]
<1>1. G \in [Nat -> [X -> X]]
  OBVIOUS
<1>2. \A k \in 0 .. n - 1 : G[k] = F[k + 1]
  OBVIOUS
<1> HIDE DEF G
<1>3. PICK f : Iterates(f, X, x, G)
  BY <1>1, Iterate, Zenon
<1>4. f \in [Nat -> X] /\ f[0] = x /\ \A k \in Nat : f[k + 1] = G[k][f[k]]
  BY <1>3 DEF Iterates
<1> DEFINE g == [k \in 0 .. n |-> f[k]]
<1>5. g \in [0 .. n -> X] /\ g[0] = x
  BY <1>4
<1>6. ASSUME NEW k \in 1 .. n
      PROVE  g[k] = F[k][g[k - 1]]
  <2>1. k - 1 \in 0 .. n - 1 /\ k - 1 \in Nat /\ (k - 1) + 1 = k /\ k - 1 \in 0 .. n
    OBVIOUS
  <2>2. f[k] = F[k][f[k - 1]]
    BY <1>2, <1>4, <2>1
  <2> QED
    BY <2>1, <2>2
<1>7. Runs(g, X, x, n, F)
  BY <1>5, <1>6 DEF Runs
<1> QED
  BY <1>7

-----------------------------------------------------------------------------
(***************************************************************************)
(* Loops.                                                                  *)
(***************************************************************************)
\* The state after the first n elements
Pass(s, seq, v, n) == AlongTo(LAMBDA t, x : Step(t, x, v), s, seq, n)

\* f tabulates the states of the loop.
Table(f, s, seq, v, n) ==
    f = [k \in 0..n |-> IF k = 0 THEN s ELSE Step(f[k - 1], seq[k], v)]

\* The states of a loop can be tabulated, whatever values they have.
LEMMA TableExists ==
    ASSUME NEW s, NEW seq, NEW v, NEW n \in Nat
    PROVE  \E f : Table(f, s, seq, v, n)
<1> DEFINE S == {m \in 0..n : \E f : Table(f, s, seq, v, m)}
<1>1. 0 \in S
  <2> DEFINE f == [k \in 0..0 |-> s]
  <2>1. Table(f, s, seq, v, 0)
    BY DEF Table
  <2> QED
    BY <2>1
<1>2. ASSUME NEW m \in 0..n - 1, m \in S
      PROVE  m + 1 \in S
  <2>1. PICK f : Table(f, s, seq, v, m)
    BY <1>2
  <2> DEFINE g == [k \in 0..m + 1 |-> IF k = m + 1 THEN Step(f[m], seq[m + 1], v) ELSE f[k]]
  <2>2. ASSUME NEW k \in 0..m + 1
        PROVE  g[k] = IF k = 0 THEN s ELSE Step(g[k - 1], seq[k], v)
    <3>1. CASE k = 0
      BY <2>1, <3>1 DEF Table
    <3>2. CASE k = m + 1
      BY <3>2
    <3>3. CASE k \in 1..m
      <4>1. g[k] = f[k] /\ g[k - 1] = f[k - 1]
        BY <3>3
      <4>2. f[k] = Step(f[k - 1], seq[k], v)
        BY <2>1, <3>3 DEF Table
      <4> QED
        BY <4>1, <4>2, <3>3
    <3> QED
      BY <3>1, <3>2, <3>3
  <2>3. g = [k \in 0..m + 1 |-> g[k]]
    OBVIOUS
  <2> HIDE DEF g
  <2>4. Table(g, s, seq, v, m + 1)
    BY <2>2, <2>3 DEF Table
  <2> QED
    BY <2>4
<1> HIDE DEF S
<1>3. n \in S
  BY <1>1, <1>2, Induct
<1> QED
  BY <1>3 DEF S

\* The recursive function of a loop is the table of its states.
LEMMA PassIs ==
    ASSUME NEW s, NEW seq, NEW v, NEW n \in Nat, NEW f, Table(f, s, seq, v, n)
    PROVE  Pass(s, seq, v, n) = f[n]
<1> DEFINE at == CHOOSE h : h = [i \in 0..n |-> IF i = 0 THEN s ELSE Step(h[i - 1], seq[i], v)]
<1>1. f = [k \in 0..n |-> IF k = 0 THEN s ELSE Step(f[k - 1], seq[k], v)]
  BY DEF Table
<1>2. at = [k \in 0..n |-> IF k = 0 THEN s ELSE Step(at[k - 1], seq[k], v)]
  BY <1>1, Zenon
<1>3. Pass(s, seq, v, n) = at[n]
  BY DEF Pass, AlongTo
<1> HIDE DEF at
<1>4. ASSUME NEW k \in 0..n - 1, at[k] = f[k]
      PROVE  at[k + 1] = f[k + 1]
  <2>1. k + 1 \in 0..n /\ k + 1 # 0 /\ (k + 1) - 1 = k
    OBVIOUS
  <2> QED
    BY <2>1, <1>1, <1>2, <1>4
<1>5. at[0] = f[0]
  BY <1>1, <1>2
<1>6. at[n] = f[n]
  BY <1>4, <1>5, Agree
<1> QED
  BY <1>3, <1>6

\* A loop over no element changes nothing, and over one more element it takes
\* one more step.
LEMMA Recurrence ==
    \A s, seq, v :
        /\ Pass(s, seq, v, 0) = s
        /\ \A n \in Nat : Pass(s, seq, v, n + 1) = Step(Pass(s, seq, v, n), seq[n + 1], v)
<1> TAKE s, seq, v
<1>1. Pass(s, seq, v, 0) = s
  <2>1. PICK f : Table(f, s, seq, v, 0)
    BY TableExists
  <2>2. Pass(s, seq, v, 0) = f[0]
    BY <2>1, PassIs
  <2>3. f[0] = s
    BY <2>1 DEF Table
  <2> QED
    BY <2>2, <2>3
<1>2. ASSUME NEW n \in Nat
      PROVE  Pass(s, seq, v, n + 1) = Step(Pass(s, seq, v, n), seq[n + 1], v)
  <2>1. PICK f : Table(f, s, seq, v, n + 1)
    BY TableExists
  <2> DEFINE g == [k \in 0..n |-> f[k]]
  <2>2. g[n] = f[n] /\ f[n + 1] = Step(f[n], seq[n + 1], v)
    BY <2>1 DEF Table
  <2>3. Table(g, s, seq, v, n)
    <3>1. ASSUME NEW k \in 0..n
          PROVE  g[k] = IF k = 0 THEN s ELSE Step(g[k - 1], seq[k], v)
      BY <2>1 DEF Table
    <3> QED
      BY <3>1 DEF Table
  <2>4. Pass(s, seq, v, n) = g[n]
    BY <2>3, PassIs
  <2>5. Pass(s, seq, v, n + 1) = f[n + 1]
    BY <2>1, PassIs
  <2> QED
    BY <2>2, <2>4, <2>5
<1> QED
  BY <1>1, <1>2

\* What holds before a loop and is handed on by each of its steps holds
\* after it.
LEMMA Invariance ==
    \A s, seq, v, w : \A n \in Nat :
        /\ Good(w, 0, s)
        /\ \A i \in 1..n : \A t : Good(w, i - 1, t) => Good(w, i, Step(t, seq[i], v))
        => Good(w, n, Pass(s, seq, v, n))
<1> SUFFICES ASSUME NEW s, NEW seq, NEW v, NEW w, NEW n \in Nat, Good(w, 0, s),
                    \A i \in 1..n : \A t : Good(w, i - 1, t) => Good(w, i, Step(t, seq[i], v))
             PROVE  Good(w, n, Pass(s, seq, v, n))
  OBVIOUS
<1> DEFINE S == {k \in 0..n : Good(w, k, Pass(s, seq, v, k))}
<1>1. 0 \in S
  BY Recurrence
<1>2. ASSUME NEW k \in 0..n - 1, k \in S
      PROVE  k + 1 \in S
  <2>1. k \in Nat /\ k + 1 \in 1..n /\ k + 1 \in 0..n /\ (k + 1) - 1 = k
    OBVIOUS
  <2>2. Pass(s, seq, v, k + 1) = Step(Pass(s, seq, v, k), seq[k + 1], v)
    BY <2>1, Recurrence
  <2>3. Good(w, (k + 1) - 1, Pass(s, seq, v, k))
    BY <1>2, <2>1
  <2> QED
    BY <2>1, <2>2, <2>3
<1> HIDE DEF S
<1>3. n \in S
  BY <1>1, <1>2, Induct
<1> QED
  BY <1>3 DEF S
==============================================================================
