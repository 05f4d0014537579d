--------------------------- MODULE SnapshotProofs ---------------------------
(***************************************************************************)
(* Proofs about SnapshotRestore for any number of peers, chunks and        *)
(* blocks, any limits, and any number of crashes.                          *)
(***************************************************************************)
EXTENDS SnapshotRestore, FiniteSetTheorems, SequenceTheorems, TLAPS

\* Of the loops only the facts about recursive functions are used here.
SameState(s, x, v) == s

Recursion == INSTANCE LoopProofs WITH Step <- SameState, Good <- SameState

-----------------------------------------------------------------------------
(***************************************************************************)
(* Numbers and sequences.                                                  *)
(***************************************************************************)
LEMMA MinOf ==
    ASSUME NEW S \in SUBSET Nat, S # {}
    PROVE  Min(S) \in S /\ \A y \in S : Min(S) <= y
<1>1. PICK m \in S : \A y \in S : m <= y
  BY Recursion!Least
<1> QED
  BY <1>1 DEF Min

LEMMA MaxOf ==
    ASSUME NEW n \in Nat, NEW S \in SUBSET (0 .. n), S # {}
    PROVE  Max(S) \in S
<1> DEFINE D == {d \in 0 .. n : n - d \in S}
<1>1. D \in SUBSET Nat /\ D # {}
  <2>1. PICK x \in S : TRUE
    OBVIOUS
  <2>2. x \in 0 .. n /\ n - x \in 0 .. n /\ n - (n - x) = x
    OBVIOUS
  <2>3. n - x \in D
    BY <2>1, <2>2
  <2>4. D \in SUBSET Nat
    OBVIOUS
  <2> HIDE DEF D
  <2> QED
    BY <2>3, <2>4
<1>2. PICK d \in D : \A e \in D : d <= e
  BY <1>1, Recursion!Least
<1>3. ASSUME NEW y \in S
      PROVE  n - d >= y
  <2>1. y \in 0 .. n /\ n - y \in 0 .. n /\ n - (n - y) = y
    OBVIOUS
  <2>2. n - y \in D
    BY <2>1
  <2>3. d <= n - y /\ d \in 0 .. n
    BY <1>2, <2>2
  <2> QED
    BY <2>1, <2>3
<1>4. n - d \in S
  OBVIOUS
<1> QED
  BY <1>3, <1>4 DEF Max

\* A sequence of peers without duplicates
Lineup(s) == s \in Seq(Peer) /\ IsInjective(s)

LEMMA LineupSet ==
    ASSUME NEW s, Lineup(s)
    PROVE  /\ Len(s) \in Nat /\ DOMAIN s = 1 .. Len(s)
           /\ \A k \in 1 .. Len(s) : s[k] \in ToSet(s) /\ s[k] \in Peer
           /\ ToSet(s) \subseteq Peer
           /\ \A p \in ToSet(s) : \E k \in 1 .. Len(s) : s[k] = p
           /\ \A p : Contains(s, p) <=> p \in ToSet(s)
<1>1. s \in Seq(Peer) /\ Len(s) \in Nat /\ DOMAIN s = 1 .. Len(s) /\ \A k \in 1 .. Len(s) : s[k] \in Peer
  BY DEF Lineup
<1> QED
  BY <1>1 DEF ToSet, Contains

LEMMA LineupAppend ==
    ASSUME NEW s, Lineup(s), NEW p \in Peer, p \notin ToSet(s)
    PROVE  Lineup(Append(s, p)) /\ ToSet(Append(s, p)) = ToSet(s) \cup {p}
<1> DEFINE t == Append(s, p)
           n == Len(s)
<1>1. n \in Nat /\ DOMAIN s = 1 .. n /\ s \in Seq(Peer)
  BY DEF Lineup
<1>2. /\ t \in Seq(Peer) /\ DOMAIN t = 1 .. n + 1 /\ t[n + 1] = p
      /\ \A k \in 1 .. n : t[k] = s[k]
  BY <1>1
<1> HIDE DEF t
<1>3. ToSet(t) = ToSet(s) \cup {p}
  <2>1. \A k \in 1 .. n + 1 : k \in 1 .. n \/ k = n + 1
    BY <1>1
  <2>2. \A k \in 1 .. n : k \in 1 .. n + 1
    BY <1>1
  <2>3. n + 1 \in 1 .. n + 1
    BY <1>1
  <2> HIDE DEF n
  <2> QED
    BY <1>1, <1>2, <2>1, <2>2, <2>3 DEF ToSet
<1>4. IsInjective(t)
  <2> SUFFICES ASSUME NEW a \in DOMAIN t, NEW b \in DOMAIN t, t[a] = t[b]
               PROVE  a = b
    BY DEF IsInjective
  <2>1. \A k \in 1 .. n : s[k] # p
    BY <1>1 DEF ToSet
  <2>2. (a \in 1 .. n \/ a = n + 1) /\ (b \in 1 .. n \/ b = n + 1)
    BY <1>1, <1>2
  <2>3. \A i, j \in 1 .. n : s[i] = s[j] => i = j
    BY <1>1 DEF Lineup, IsInjective
  <2> QED
    BY <1>2, <2>1, <2>2, <2>3
<1> QED
  BY <1>2, <1>3, <1>4 DEF Lineup, t

\* retain keeps the others.
LEMMA LineupRemove ==
    ASSUME NEW s, Lineup(s), NEW p
    PROVE  Lineup(RemoveFirst(s, p)) /\ ToSet(RemoveFirst(s, p)) = ToSet(s) \ {p}
<1> DEFINE n == Len(s)
<1>1. n \in Nat /\ DOMAIN s = 1 .. n /\ s \in Seq(Peer) /\ \A i, j \in 1 .. n : s[i] = s[j] => i = j
  BY DEF Lineup, IsInjective
<1>2. CASE ~\E i \in 1 .. n : s[i] = p
  <2>1. RemoveFirst(s, p) = s
    BY <1>2 DEF RemoveFirst
  <2>2. p \notin ToSet(s)
    BY <1>1, <1>2 DEF ToSet
  <2> QED
    BY <2>1, <2>2
<1>3. CASE \E i \in 1 .. n : s[i] = p
  <2> DEFINE I == {i \in 1 .. n : s[i] = p}
             m == Min(I)
             t == SubSeq(s, 1, m - 1) \o SubSeq(s, m + 1, n)
  <2>1. RemoveFirst(s, p) = t
    BY <1>3 DEF RemoveFirst, RemoveAt, SelectInSeq
  <2>2. m \in 1 .. n /\ s[m] = p
    <3>1. I \in SUBSET Nat /\ I # {}
      BY <1>3
    <3> QED
      BY <3>1, MinOf
  <2> HIDE DEF I, m
  <2>3. /\ t \in Seq(Peer) /\ Len(t) = n - 1
        /\ \A k \in 1 .. n - 1 : t[k] = IF k < m THEN s[k] ELSE s[k + 1]
    <3> DEFINE a == SubSeq(s, 1, m - 1)
               b == SubSeq(s, m + 1, n)
    <3>1. a \in Seq(Peer) /\ Len(a) = m - 1 /\ \A k \in 1 .. m - 1 : a[k] = s[k]
      BY <1>1, <2>2
    <3>2. b \in Seq(Peer) /\ Len(b) = n - m /\ \A k \in 1 .. n - m : b[k] = s[m + k]
      <4>1. m + 1 \in Int /\ n \in Int /\ \A i \in m + 1 .. n : s[i] \in Peer
        BY <1>1, <2>2
      <4>2. /\ b \in Seq(Peer) /\ Len(b) = IF m + 1 <= n THEN n - (m + 1) + 1 ELSE 0
            /\ \A i \in 1 .. n - (m + 1) + 1 : b[i] = s[(m + 1) + i - 1]
        BY <4>1, SubSeqProperties
      <4> HIDE DEF b, n
      <4>2a. n \in Int /\ m \in Int /\ m <= n
        BY <1>1, <2>2
      <4>3. n - (m + 1) + 1 = n - m /\ (m + 1 <= n \/ n - m = 0)
        BY <4>2a
      <4>4. \A k \in 1 .. n - m : (m + 1) + k - 1 = m + k
        BY <4>2a
      <4> QED
        BY <4>2, <4>3, <4>4
    <3> HIDE DEF a, b
    <3>3. a \o b \in Seq(Peer) /\ Len(a \o b) = n - 1
      <4>1. a \o b \in Seq(Peer) /\ Len(a \o b) = Len(a) + Len(b)
        BY <3>1, <3>2, ConcatProperties
      <4> QED
        BY <1>1, <2>2, <3>1, <3>2, <4>1
    <3>4. ASSUME NEW k \in 1 .. n - 1
          PROVE  (a \o b)[k] = IF k < m THEN s[k] ELSE s[k + 1]
      <4>1. CASE k < m
        <5>1. k \in 1 .. Len(a) /\ k \in 1 .. m - 1
          BY <1>1, <2>2, <3>1, <4>1
        <5>2. (a \o b)[k] = a[k]
          BY <3>1, <3>2, <5>1
        <5> QED
          BY <3>1, <4>1, <5>1, <5>2
      <4>2. CASE ~(k < m)
        <5>1. k - (m - 1) \in 1 .. n - m /\ k > Len(a) /\ k \in 1 .. Len(a) + Len(b)
              /\ m + (k - (m - 1)) = k + 1
          BY <1>1, <2>2, <3>1, <3>2, <4>2
        <5>2. (a \o b)[k] = b[k - (m - 1)]
          BY <3>1, <3>2, <5>1
        <5> QED
          BY <3>2, <4>2, <5>1, <5>2
      <4> QED
        BY <4>1, <4>2
    <3> QED
      BY <3>3, <3>4 DEF a, b
  <2> HIDE DEF t
  <2>4. DOMAIN t = 1 .. n - 1
    BY <2>3
  <2>5. IsInjective(t)
    <3> SUFFICES ASSUME NEW a \in 1 .. n - 1, NEW b \in 1 .. n - 1, t[a] = t[b]
                 PROVE  a = b
      BY <2>4 DEF IsInjective
    <3> DEFINE up(k) == IF k < m THEN k ELSE k + 1
    <3>1. up(a) \in 1 .. n /\ up(b) \in 1 .. n /\ t[a] = s[up(a)] /\ t[b] = s[up(b)]
      BY <1>1, <2>2, <2>3
    <3>2. up(a) = up(b)
      BY <1>1, <3>1
    <3> QED
      BY <2>2, <3>2
  <2>6. ToSet(t) = ToSet(s) \ {p}
    <3>1. ASSUME NEW k \in 1 .. n - 1
          PROVE  \E i \in 1 .. n : t[k] = s[i] /\ i # m
      <4>1. CASE k < m
        BY <1>1, <2>2, <2>3, <4>1
      <4>2. CASE ~(k < m)
        <5>1. k + 1 \in 1 .. n /\ k + 1 # m /\ t[k] = s[k + 1]
          BY <1>1, <2>2, <2>3, <4>2
        <5> QED
          BY <5>1
      <4> QED
        BY <4>1, <4>2
    <3>2. ASSUME NEW i \in 1 .. n, i # m
          PROVE  \E k \in 1 .. n - 1 : t[k] = s[i]
      <4>1. CASE i < m
        BY <1>1, <2>2, <2>3, <4>1
      <4>2. CASE i > m
        <5>1. i - 1 \in 1 .. n - 1 /\ ~(i - 1 < m) /\ (i - 1) + 1 = i
          BY <1>1, <2>2, <4>2
        <5> QED
          BY <2>3, <5>1
      <4> QED
        BY <2>2, <3>2, <4>1, <4>2
    <3>3. ToSet(s) = {s[i] : i \in 1 .. n} /\ ToSet(t) = {t[k] : k \in 1 .. n - 1}
      BY <1>1, <2>4 DEF ToSet
    <3> HIDE DEF n
    <3>4. \A i \in 1 .. n : s[i] = p <=> i = m
      BY <1>1, <2>2
    <3> QED
      BY <3>1, <3>2, <3>3, <3>4
  <2> QED
    BY <2>1, <2>3, <2>5, <2>6 DEF Lineup
<1> QED
  BY <1>2, <1>3

\* InOrder lists every peer of the set once.
LEMMA LineupInOrder ==
    ASSUME NEW peers \in SUBSET Peer
    PROVE  Lineup(InOrder(peers)) /\ ToSet(InOrder(peers)) = peers
<1> DEFINE n == Len(PeerOrder)
           X == Seq(Peer)
           next(k, s) == IF k \in 1 .. n /\ PeerOrder[k] \in peers
                         THEN Append(s, PeerOrder[k]) ELSE s
           F == [k \in Nat |-> [s \in X |-> next(k + 1, s)]]
<1>1. /\ n \in Nat /\ PeerOrder \in Seq(Peer) /\ DOMAIN PeerOrder = 1 .. n
      /\ \A k \in 1 .. n : PeerOrder[k] \in Peer
      /\ \A i, j \in 1 .. n : PeerOrder[i] = PeerOrder[j] => i = j
      /\ Peer = {PeerOrder[k] : k \in 1 .. n}
  <2>1. PeerOrder \in Seq(Peer) /\ IsInjective(PeerOrder)
    BY SnapshotConstants
  <2>2. Peer = {PeerOrder[k] : k \in DOMAIN PeerOrder}
    BY DEF Peer, ToSet
  <2>3. n \in Nat /\ DOMAIN PeerOrder = 1 .. n
    BY <2>1
  <2> QED
    BY <2>1, <2>2, <2>3 DEF IsInjective
<1> HIDE DEF n
<1>2. \A k \in Nat, s \in X : next(k + 1, s) \in X
  BY <1>1
<1>3. F \in [Nat -> [X -> X]] /\ <<>> \in X
  BY <1>2
<1>4. \A k \in Nat, s \in X : F[k][s] = next(k + 1, s)
  OBVIOUS
<1> HIDE DEF F, X
<1>5. PICK f : Recursion!Iterates(f, X, <<>>, F)
  BY <1>3, Recursion!Iterate, Zenon
<1>6. /\ f[0] = <<>> /\ \A k \in Nat : f[k] \in X
      /\ \A k \in Nat : f[k + 1] = next(k + 1, f[k])
  BY <1>4, <1>5 DEF Recursion!Iterates
<1> DEFINE g == [k \in 0 .. n |-> f[k]]
           first == CHOOSE h : h = [k \in 0 .. n |->
                       IF k = 0 THEN <<>>
                       ELSE IF PeerOrder[k] \in peers THEN Append(h[k - 1], PeerOrder[k])
                       ELSE h[k - 1]]
<1>7. ASSUME NEW k \in 0 .. n, k # 0
      PROVE  /\ k - 1 \in 0 .. n
             /\ f[k] = IF PeerOrder[k] \in peers THEN Append(f[k - 1], PeerOrder[k]) ELSE f[k - 1]
  <2>1. k - 1 \in Nat /\ (k - 1) + 1 = k /\ k - 1 \in 0 .. n /\ k \in 1 .. n
    BY <1>1, <1>7
  <2>2. f[k] = next(k, f[k - 1])
    BY <1>6, <2>1
  <2> QED
    BY <2>1, <2>2
<1>8. g = [k \in 0 .. n |-> IF k = 0 THEN <<>>
                            ELSE IF PeerOrder[k] \in peers THEN Append(g[k - 1], PeerOrder[k])
                            ELSE g[k - 1]]
  <2>1. ASSUME NEW k \in 0 .. n
        PROVE  g[k] = IF k = 0 THEN <<>>
                      ELSE IF PeerOrder[k] \in peers THEN Append(g[k - 1], PeerOrder[k])
                      ELSE g[k - 1]
    BY <1>6, <1>7
  <2> QED
    BY <2>1
<1>9. first = [k \in 0 .. n |-> IF k = 0 THEN <<>>
                               ELSE IF PeerOrder[k] \in peers THEN Append(first[k - 1], PeerOrder[k])
                               ELSE first[k - 1]]
  <2> HIDE DEF g
  <2> QED
    BY <1>8, Zenon
<1>10. InOrder(peers) = first[n]
  BY Zenon DEF InOrder, n
<1> HIDE DEF first
<1> DEFINE Good(k) == Lineup(first[k]) /\ ToSet(first[k]) = {PeerOrder[j] : j \in 1 .. k} \cap peers
           S == {k \in 0 .. n : Good(k)}
<1>11. 0 \in S
  <2>1. first[0] = <<>>
    BY <1>1, <1>9
  <2>2. Lineup(<<>>) /\ ToSet(<<>>) = {}
    BY DEF Lineup, ToSet, IsInjective
  <2>3. {PeerOrder[j] : j \in 1 .. 0} = {}
    OBVIOUS
  <2> QED
    BY <1>1, <2>1, <2>2, <2>3
<1>12. ASSUME NEW k \in 0 .. n - 1, k \in S
       PROVE  k + 1 \in S
  <2> DEFINE q == PeerOrder[k + 1]
  <2>1. k \in 0 .. n /\ k + 1 \in 0 .. n /\ k + 1 # 0 /\ (k + 1) - 1 = k /\ k + 1 \in 1 .. n
    BY <1>1
  <2>2. first[k + 1] = IF q \in peers THEN Append(first[k], q) ELSE first[k]
    BY <1>9, <2>1
  <2>3. Lineup(first[k]) /\ ToSet(first[k]) = {PeerOrder[j] : j \in 1 .. k} \cap peers
    BY <1>12
  <2>4. \A j \in 1 .. k : PeerOrder[j] # q
    BY <1>1, <2>1
  <2>5. {PeerOrder[j] : j \in 1 .. k + 1} = {PeerOrder[j] : j \in 1 .. k} \cup {q}
    <3>1. \A j : j \in 1 .. k + 1 <=> j \in 1 .. k \/ j = k + 1
      BY <2>1
    <3> QED
      BY <3>1
  <2>6. q \in Peer
    BY <1>1, <2>1
  <2>7. CASE q \in peers
    <3>1. q \notin ToSet(first[k])
      BY <2>3, <2>4
    <3>2. Lineup(Append(first[k], q)) /\ ToSet(Append(first[k], q)) = ToSet(first[k]) \cup {q}
      BY <2>3, <2>6, <3>1, LineupAppend
    <3> QED
      BY <2>1, <2>2, <2>3, <2>5, <2>7, <3>2
  <2>8. CASE q \notin peers
    BY <2>1, <2>2, <2>3, <2>5, <2>8
  <2> QED
    BY <2>7, <2>8
<1> HIDE DEF S
<1>13. n \in S
  BY <1>1, <1>11, <1>12, Recursion!Induct, Zenon
<1>14. Lineup(first[n]) /\ ToSet(first[n]) = {PeerOrder[j] : j \in 1 .. n} \cap peers
  BY <1>13 DEF S
<1> QED
  BY <1>1, <1>10, <1>14

\* Nothing in flight at any peer is nothing in flight at all.
SumOf(counts, D) == MapThenSumSet(LAMBDA p : counts[p], D)

LEMMA SumOfNone ==
    ASSUME NEW D, IsFiniteSet(D), NEW counts, \A p \in D : counts[p] = 0
    PROVE  SumOf(counts, D) = 0
<1> DEFINE pick(s) == CHOOSE x \in s : TRUE
           iter == CHOOSE h : h = [s \in SUBSET D |->
                       IF s = {} THEN 0 ELSE counts[pick(s)] + h[s \ {pick(s)}]]
           g == [s \in SUBSET D |-> 0]
<1>1. \A s \in SUBSET D : s # {} => pick(s) \in s /\ counts[pick(s)] = 0 /\ s \ {pick(s)} \in SUBSET D
  OBVIOUS
<1> HIDE DEF pick
<1>2. g = [s \in SUBSET D |-> IF s = {} THEN 0 ELSE counts[pick(s)] + g[s \ {pick(s)}]]
  BY <1>1
<1>3. iter = [s \in SUBSET D |-> IF s = {} THEN 0 ELSE counts[pick(s)] + iter[s \ {pick(s)}]]
  <2> HIDE DEF g
  <2> QED
    BY <1>2, Zenon
<1>4. SumOf(counts, D) = iter[D]
  BY Zenon DEF SumOf, MapThenSumSet, MapThenFoldSet, pick
<1> HIDE DEF iter
<1> DEFINE Bad == {Cardinality(s) : s \in {t \in SUBSET D : iter[t] # 0}}
<1>5. Bad = {}
  <2> SUFFICES ASSUME Bad # {}
               PROVE  FALSE
    OBVIOUS
  <2>1. \A s \in SUBSET D : IsFiniteSet(s) /\ Cardinality(s) \in Nat
    BY FS_Subset, FS_CardinalityType
  <2>2. Bad \in SUBSET Nat
    BY <2>1
  <2>3. PICK m \in Bad : \A k \in Bad : m <= k
    BY <2>2, Recursion!Least
  <2>4. PICK s \in SUBSET D : iter[s] # 0 /\ m = Cardinality(s)
    OBVIOUS
  <2>5. s # {} /\ iter[s] = counts[pick(s)] + iter[s \ {pick(s)}]
    BY <1>3, <2>4
  <2> DEFINE t == s \ {pick(s)}
  <2>6. Cardinality(t) = Cardinality(s) - 1 /\ t \in SUBSET D /\ counts[pick(s)] = 0
    BY <1>1, <2>1, <2>5, FS_RemoveElement
  <2>7. iter[t] # 0
    BY <2>4, <2>5, <2>6
  <2>8. Cardinality(t) \in Bad
    BY <2>6, <2>7
  <2> HIDE DEF Bad, t
  <2> QED
    BY <2>1, <2>3, <2>4, <2>6, <2>8
<1> QED
  BY <1>4, <1>5

-----------------------------------------------------------------------------
(***************************************************************************)
(* The scheduler.                                                          *)
(***************************************************************************)

\* The states of the loop in schedule
Rounds(cands) == [counts : [ToSet(cands) -> Nat], slots : [Chunk -> Slot],
                  sent : SUBSET (Peer \X Chunk)]

\* Chunk i goes to peer p.
Assigns(cands, s, t, i, p) ==
    /\ p \in ToSet(cands) /\ s.slots[i].at = "pending" /\ p \notin s.slots[i].tried
    /\ s.counts[p] < PerPeerChunkConcurrency
    /\ t = [counts |-> [s.counts EXCEPT ![p] = @ + 1],
            slots  |-> [s.slots EXCEPT ![i].at = p],
            sent   |-> s.sent \cup {<<p, i>>}]

LEMMA ChunkFinite ==
    /\ IsFiniteSet(Chunk) /\ Chunk \subseteq Nat /\ Manifest \notin Chunk /\ 1 \in Chunk
    /\ \A S \in SUBSET Chunk : IsFiniteSet(S) /\ Cardinality(S) \in Nat
<1>1. ChunkCount \in Nat \ {0}
  BY StoreConstants
<1>2. IsFiniteSet(Chunk)
  BY <1>1, FS_Interval DEF Chunk
<1>3. \A S \in SUBSET Chunk : IsFiniteSet(S) /\ Cardinality(S) \in Nat
  BY <1>2, FS_Subset, FS_CardinalityType
<1> QED
  BY <1>1, <1>2, <1>3 DEF Chunk, Manifest

\* A round assigns a chunk or changes nothing; it changes something if nothing is
\* in flight and there is a candidate.
LEMMA AssignFacts ==
    ASSUME NEW cands, Lineup(cands), NEW s \in Rounds(cands)
    PROVE  /\ Assign(cands, s) \in Rounds(cands)
           /\ \/ Assign(cands, s) = s
              \/ \E i \in Chunk, p \in Peer : Assigns(cands, s, Assign(cands, s), i, p)
<1> DEFINE t == Assign(cands, s)
           ready == {i \in Chunk : Askable(cands, s, i) # {}}
<1>0. s.counts \in [ToSet(cands) -> Nat] /\ s.slots \in [Chunk -> Slot] /\ s.sent \subseteq Peer \X Chunk
      /\ s = [counts |-> s.counts, slots |-> s.slots, sent |-> s.sent]
  BY DEF Rounds
<1>1. CASE t = s
  BY <1>1
<1>2. CASE t # s
  <2> DEFINE i == Min(ready)
             c == Min(Askable(cands, s, i))
             p == cands[c]
  <2>1. /\ ready # {}
        /\ t = [counts |-> [s.counts EXCEPT ![p] = @ + 1],
                slots  |-> [s.slots EXCEPT ![i].at = p],
                sent   |-> s.sent \cup {<<p, i>>}]
    BY <1>2, Zenon DEF Assign
  <2>2. i \in Chunk /\ Askable(cands, s, i) # {}
    <3>1. ready \in SUBSET Nat
      BY ChunkFinite
    <3>2. i \in ready
      BY <2>1, <3>1, MinOf
    <3> QED
      BY <3>2
  <2> HIDE DEF i
  <2>3. DOMAIN cands = 1 .. Len(cands) /\ Len(cands) \in Nat
    BY LineupSet
  <2>4. c \in Askable(cands, s, i)
    <3>1. Askable(cands, s, i) \in SUBSET Nat
      BY <2>3 DEF Askable
    <3> QED
      BY <2>2, <3>1, MinOf
  <2> HIDE DEF c
  <2>5. c \in DOMAIN cands /\ s.slots[i].at = "pending" /\ p \notin s.slots[i].tried
        /\ s.counts[p] < PerPeerChunkConcurrency
    BY <2>4 DEF Askable
  <2>6. p \in ToSet(cands) /\ p \in Peer
    BY <2>3, <2>5, LineupSet
  <2> HIDE DEF p
  <2>7. Assigns(cands, s, t, i, p)
    BY <2>1, <2>5, <2>6 DEF Assigns
  <2>8. [s.counts EXCEPT ![p] = @ + 1] \in [ToSet(cands) -> Nat]
    BY <1>0, <2>6
  <2>9. [s.slots EXCEPT ![i].at = p] \in [Chunk -> Slot]
    BY <1>0, <2>2, <2>6 DEF Slot
  <2>10. s.sent \cup {<<p, i>>} \in SUBSET (Peer \X Chunk)
    BY <1>0, <2>2, <2>6
  <2> HIDE DEF t
  <2>11. t \in Rounds(cands)
    BY <2>1, <2>8, <2>9, <2>10 DEF Rounds
  <2> QED
    BY <2>2, <2>6, <2>7, <2>11 DEF t
<1> QED
  BY <1>1, <1>2

\* What the rounds keep, from the counts c and the slots l they start with: a slot
\* is what it was, or it was pending and goes to one candidate that has not failed
\* it; and what is counted against a peer is in flight there.
Capacity(counts, slots) ==
    \A p \in DOMAIN counts : counts[p] <= Cardinality({i \in Chunk : slots[i].at = p})

Scheduled(cands, c, l, s) ==
    /\ s \in Rounds(cands)
    /\ \A i \in Chunk :
          \/ s.slots[i] = l[i] /\ \A q \in Peer : <<q, i>> \notin s.sent
          \/ /\ l[i].at = "pending" /\ s.slots[i].at \in ToSet(cands)
             /\ s.slots[i].at \notin l[i].tried
             /\ s.slots[i].tried = l[i].tried /\ s.slots[i].attempts = l[i].attempts
             /\ \A q \in Peer : <<q, i>> \in s.sent <=> q = s.slots[i].at
    /\ \A p \in ToSet(cands) : s.counts[p] <= PerPeerChunkConcurrency
    /\ Capacity(s.counts, s.slots)

\* The counts c and the slots l that schedule starts with
Schedulable(cands, c, l) ==
    /\ Lineup(cands)
    /\ c \in [ToSet(cands) -> Nat] /\ l \in [Chunk -> Slot]
    /\ \A p \in ToSet(cands) : c[p] <= PerPeerChunkConcurrency
    /\ Capacity(c, l)

LEMMA NamesDistinct ==
    /\ "pending" \notin Peer /\ "received" \notin Peer /\ NoPeer \notin Peer
    /\ PerPeerChunkConcurrency \in Nat \ {0} /\ MaxConcurrentChunkRequests \in Nat \ {0}
    /\ PerChunkRetryBudget \in Nat \ {0}
BY SnapshotConstants

LEMMA ScheduledAssign ==
    ASSUME NEW cands, NEW c, NEW l, Schedulable(cands, c, l), NEW s, Scheduled(cands, c, l, s)
    PROVE  Scheduled(cands, c, l, Assign(cands, s))
<1> DEFINE t == Assign(cands, s)
<1>1. t \in Rounds(cands) /\ (t = s \/ \E i \in Chunk, p \in Peer : Assigns(cands, s, t, i, p))
  BY AssignFacts DEF Scheduled, Schedulable
<1>2. CASE t = s
  BY <1>2
<1>3. ASSUME NEW i \in Chunk, NEW p \in Peer, Assigns(cands, s, t, i, p)
      PROVE  Scheduled(cands, c, l, t)
  <2> HIDE DEF t
  <2>1. s.counts \in [ToSet(cands) -> Nat] /\ s.slots \in [Chunk -> Slot] /\ s.sent \subseteq Peer \X Chunk
    BY DEF Scheduled, Rounds
  <2>2. p \in ToSet(cands) /\ s.slots[i].at = "pending" /\ p \notin s.slots[i].tried
        /\ s.counts[p] < PerPeerChunkConcurrency
    BY <1>3 DEF Assigns
  <2>3. t.counts = [s.counts EXCEPT ![p] = @ + 1] /\ t.slots = [s.slots EXCEPT ![i].at = p]
        /\ t.sent = s.sent \cup {<<p, i>>}
    BY <1>3 DEF Assigns
  <2>4. /\ t.slots[i].at = p /\ t.slots[i].tried = s.slots[i].tried
        /\ t.slots[i].attempts = s.slots[i].attempts
        /\ \A j \in Chunk : j # i => t.slots[j] = s.slots[j]
    BY <2>1, <2>3 DEF Slot
  <2>5. t.counts[p] = s.counts[p] + 1 /\ \A q \in ToSet(cands) : q # p => t.counts[q] = s.counts[q]
    BY <2>1, <2>2, <2>3
  <2>6. s.slots[i] = l[i] /\ \A q \in Peer : <<q, i>> \notin s.sent
    <3>1. ToSet(cands) \subseteq Peer
      BY LineupSet DEF Schedulable
    <3> QED
      BY <2>2, <3>1, NamesDistinct DEF Scheduled
  <2>7. ASSUME NEW j \in Chunk
        PROVE  \/ t.slots[j] = l[j] /\ \A q \in Peer : <<q, j>> \notin t.sent
               \/ /\ l[j].at = "pending" /\ t.slots[j].at \in ToSet(cands)
                  /\ t.slots[j].at \notin l[j].tried
                  /\ t.slots[j].tried = l[j].tried /\ t.slots[j].attempts = l[j].attempts
                  /\ \A q \in Peer : <<q, j>> \in t.sent <=> q = t.slots[j].at
    <3>1. CASE j = i
      <4>1. \A q \in Peer : <<q, i>> \in t.sent <=> q = p
        BY <2>3, <2>6
      <4> QED
        BY <2>2, <2>4, <2>6, <3>1, <4>1
    <3>2. CASE j # i
      <4>1. t.slots[j] = s.slots[j] /\ \A q \in Peer : <<q, j>> \in t.sent <=> <<q, j>> \in s.sent
        BY <2>3, <2>4, <3>2
      <4> QED
        BY <4>1 DEF Scheduled
    <3> QED
      BY <3>1, <3>2
  <2>8. \A q \in ToSet(cands) : t.counts[q] <= PerPeerChunkConcurrency
    BY <2>1, <2>2, <2>5, NamesDistinct DEF Scheduled
  <2>9. Capacity(t.counts, t.slots)
    <3> DEFINE At(l0, q) == {j \in Chunk : l0[j].at = q}
    <3>1. DOMAIN t.counts = ToSet(cands) /\ DOMAIN s.counts = ToSet(cands)
      BY <2>1, <2>3
    <3>2. ASSUME NEW q \in ToSet(cands)
          PROVE  t.counts[q] <= Cardinality(At(t.slots, q))
      <4>1. s.counts[q] <= Cardinality(At(s.slots, q))
        BY <3>1 DEF Scheduled, Capacity
      <4>2. IsFiniteSet(At(s.slots, q)) /\ Cardinality(At(s.slots, q)) \in Nat
        BY ChunkFinite
      <4>3. CASE q = p
        <5>1. At(t.slots, q) = At(s.slots, q) \cup {i}
          BY <2>4, <4>3
        <5>2. p # "pending"
          BY NamesDistinct
        <5>3. i \notin At(s.slots, q)
          BY <2>2, <4>3, <5>2
        <5> HIDE DEF At
        <5>4. Cardinality(At(t.slots, q)) = Cardinality(At(s.slots, q)) + 1
          BY <4>2, <5>1, <5>3, FS_AddElement
        <5> QED
          BY <2>1, <2>5, <4>1, <4>2, <4>3, <5>4
      <4>4. CASE q # p
        <5>1. q # "pending"
          <6>1. ToSet(cands) \subseteq Peer
            BY LineupSet DEF Schedulable
          <6> QED
            BY <6>1, NamesDistinct
        <5>2. At(t.slots, q) = At(s.slots, q)
          BY <2>2, <2>4, <4>4, <5>1
        <5> HIDE DEF At
        <5> QED
          BY <2>5, <4>1, <4>4, <5>2
      <4> QED
        BY <4>3, <4>4
    <3> QED
      BY <3>1, <3>2 DEF Capacity
  <2> QED
    BY <1>1, <2>7, <2>8, <2>9 DEF Scheduled
<1> QED
  BY <1>1, <1>2, <1>3

\* schedule is a number of rounds, the first from the given counts and slots.
LEMMA ScheduleRounds ==
    ASSUME NEW cands, NEW c, NEW l, Schedulable(cands, c, l)
    PROVE  LET n == MaxConcurrentChunkRequests
               start == [counts |-> c, slots |-> l, sent |-> {}]
           IN \E f : /\ f[0] = start /\ \A k \in 0 .. n : Scheduled(cands, c, l, f[k])
                     /\ \A k \in 0 .. n - 1 : f[k + 1] = Assign(cands, f[k])
                     /\ schedule(cands, c, l) = f[n]
<1> DEFINE n == MaxConcurrentChunkRequests
           start == [counts |-> c, slots |-> l, sent |-> {}]
           X == {s \in Rounds(cands) : Scheduled(cands, c, l, s)}
           F == [k \in Nat |-> [s \in X |-> Assign(cands, s)]]
           round == CHOOSE h : h = [k \in 0 .. n |->
                       IF k = 0 THEN start
                       ELSE CHOOSE t \in {Assign(cands, s) : s \in {h[k - 1]}} : TRUE]
<1>1. n \in Nat \ {0}
  BY NamesDistinct
<1>2. start \in X
  <2>1. start \in Rounds(cands)
    BY DEF Rounds, Schedulable
  <2>2. start.counts = c /\ start.slots = l /\ start.sent = {}
    OBVIOUS
  <2> HIDE DEF start
  <2>3. Scheduled(cands, c, l, start)
    BY <2>1, <2>2 DEF Scheduled, Schedulable
  <2> QED
    BY <2>1, <2>3
<1> HIDE DEF start
<1>3. \A s \in X : Assign(cands, s) \in X
  <2>1. ASSUME NEW s \in X PROVE Scheduled(cands, c, l, Assign(cands, s))
    BY ScheduledAssign
  <2> QED
    BY <2>1 DEF Scheduled
<1>4. \A s \in X : Scheduled(cands, c, l, s)
  OBVIOUS
<1> HIDE DEF X
<1>5. F \in [Nat -> [X -> X]] /\ \A k \in Nat, s \in X : F[k][s] = Assign(cands, s)
  BY <1>3
<1> HIDE DEF F
<1>6. PICK f : Recursion!Iterates(f, X, start, F)
  BY <1>2, <1>5, Recursion!Iterate, Zenon
<1>7. /\ f[0] = start /\ \A k \in Nat : f[k] \in X
      /\ \A k \in Nat : f[k + 1] = Assign(cands, f[k])
  BY <1>5, <1>6 DEF Recursion!Iterates
<1>8. \A a : (CHOOSE t \in {Assign(cands, s) : s \in {a}} : TRUE) = Assign(cands, a)
  <2>1. ASSUME NEW a
        PROVE  (CHOOSE t \in {Assign(cands, s) : s \in {a}} : TRUE) = Assign(cands, a)
    <3>1. {Assign(cands, s) : s \in {a}} = {Assign(cands, a)}
      OBVIOUS
    <3>2. (CHOOSE t \in {Assign(cands, a)} : TRUE) \in {Assign(cands, a)}
      OBVIOUS
    <3> QED
      BY <3>1, <3>2, Zenon
  <2> QED
    BY <2>1, Zenon
<1> DEFINE g == [k \in 0 .. n |-> f[k]]
<1>9. ASSUME NEW k \in 0 .. n, k # 0
      PROVE  k - 1 \in 0 .. n /\ f[k] = Assign(cands, f[k - 1])
  <2>1. k - 1 \in Nat /\ (k - 1) + 1 = k /\ k - 1 \in 0 .. n
    BY <1>1, <1>9
  <2> QED
    BY <1>7, <2>1
<1>10. g = [k \in 0 .. n |-> IF k = 0 THEN start
                             ELSE CHOOSE t \in {Assign(cands, s) : s \in {g[k - 1]}} : TRUE]
  <2>1. ASSUME NEW k \in 0 .. n
        PROVE  g[k] = IF k = 0 THEN start
                      ELSE CHOOSE t \in {Assign(cands, s) : s \in {g[k - 1]}} : TRUE
    <3>1. CASE k = 0
      BY <1>7, <3>1
    <3>2. CASE k # 0
      <4>1. g[k] = f[k] /\ g[k - 1] = f[k - 1] /\ f[k] = Assign(cands, f[k - 1])
        BY <1>9, <3>2
      <4> HIDE DEF g
      <4>2. g[k] = CHOOSE t \in {Assign(cands, s) : s \in {g[k - 1]}} : TRUE
        BY <1>8, <4>1, Zenon
      <4> QED
        BY <3>2, <4>2, Zenon
    <3> QED
      BY <3>1, <3>2
  <2> QED
    BY <2>1, Zenon
<1>11. round = [k \in 0 .. n |-> IF k = 0 THEN start
                                 ELSE CHOOSE t \in {Assign(cands, s) : s \in {round[k - 1]}} : TRUE]
  <2> HIDE DEF g
  <2> QED
    BY <1>10, Zenon
<1>12. schedule(cands, c, l) = round[n]
  BY Zenon DEF schedule, start
<1> HIDE DEF round
<1>13. round[0] = f[0]
  BY <1>1, <1>7, <1>11
<1>14. ASSUME NEW k \in 0 .. n - 1, round[k] = f[k]
       PROVE  round[k + 1] = f[k + 1]
  <2>1. k + 1 \in 0 .. n /\ k + 1 # 0 /\ (k + 1) - 1 = k /\ k \in Nat
    BY <1>1
  <2>2. round[k + 1] = CHOOSE t \in {Assign(cands, s) : s \in {round[(k + 1) - 1]}} : TRUE
    BY <1>11, <2>1, Zenon
  <2>3. round[k + 1] = Assign(cands, round[k])
    BY <1>8, <2>1, <2>2, Zenon
  <2> QED
    BY <1>7, <1>14, <2>1, <2>3
<1>15. n \in Nat
  BY <1>1
<1> HIDE DEF n
<1>16. round[n] = f[n]
  BY <1>13, <1>14, <1>15, Recursion!Agree, Zenon
<1>17. /\ \A k \in 0 .. n : Scheduled(cands, c, l, f[k])
       /\ \A k \in 0 .. n - 1 : f[k + 1] = Assign(cands, f[k])
  <2>1. (\A k \in 0 .. n : k \in Nat) /\ \A k \in 0 .. n - 1 : k \in Nat
    OBVIOUS
  <2> QED
    BY <1>4, <1>7, <2>1
<1> QED
  BY <1>7, <1>12, <1>16, <1>17 DEF n, start

LEMMA ScheduleFacts ==
    ASSUME NEW cands, NEW c, NEW l, Schedulable(cands, c, l)
    PROVE  Scheduled(cands, c, l, schedule(cands, c, l))
<1>1. MaxConcurrentChunkRequests \in 0 .. MaxConcurrentChunkRequests
  BY NamesDistinct
<1> DEFINE n == MaxConcurrentChunkRequests
<1>2. PICK f : /\ f[0] = [counts |-> c, slots |-> l, sent |-> {}]
               /\ \A k \in 0 .. n : Scheduled(cands, c, l, f[k])
               /\ \A k \in 0 .. n - 1 : f[k + 1] = Assign(cands, f[k])
               /\ schedule(cands, c, l) = f[n]
  BY ScheduleRounds
<1> QED
  BY <1>1, <1>2

\* A fetch that starts asks for something.
LEMMA ScheduleStarts ==
    ASSUME NEW cands, Lineup(cands), cands # <<>>
    PROVE  LET c == [q \in ToSet(cands) |-> 0]
               l == [i \in Chunk |-> FreshSlot]
           IN Schedulable(cands, c, l) /\ \E i \in Chunk : schedule(cands, c, l).slots[i].at \in Peer
<1> DEFINE c == [q \in ToSet(cands) |-> 0]
           l == [i \in Chunk |-> FreshSlot]
           n == MaxConcurrentChunkRequests
           start == [counts |-> c, slots |-> l, sent |-> {}]
<1>1. Schedulable(cands, c, l)
  <2>1. FreshSlot \in Slot
    BY NamesDistinct DEF FreshSlot, Slot
  <2>2. l \in [Chunk -> Slot] /\ c \in [ToSet(cands) -> Nat] /\ \A p \in ToSet(cands) : c[p] = 0
    BY <2>1
  <2> HIDE DEF c, l
  <2>3. ASSUME NEW p \in ToSet(cands)
        PROVE  c[p] <= Cardinality({i \in Chunk : l[i].at = p})
    <3>1. Cardinality({i \in Chunk : l[i].at = p}) \in Nat
      BY ChunkFinite
    <3> QED
      BY <2>2, <3>1
  <2>4. Capacity(c, l)
    BY <2>2, <2>3 DEF Capacity
  <2> QED
    BY <2>2, <2>4, NamesDistinct DEF Schedulable
<1>2. n \in Nat \ {0}
  BY NamesDistinct
<1>3. PICK f : /\ f[0] = start /\ \A k \in 0 .. n : Scheduled(cands, c, l, f[k])
               /\ \A k \in 0 .. n - 1 : f[k + 1] = Assign(cands, f[k])
               /\ schedule(cands, c, l) = f[n]
  BY <1>1, ScheduleRounds
<1>4. start.counts = c /\ start.slots = l
  OBVIOUS
<1>5. /\ \A i \in Chunk : l[i].at = "pending" /\ l[i].tried = {}
      /\ \A p \in ToSet(cands) : c[p] = 0
      /\ DOMAIN c = ToSet(cands)
  BY DEF FreshSlot
<1> HIDE DEF c, l, start, n
<1>6. \E i \in Chunk : f[1].slots[i].at \in Peer
  <2>1. f[1] = Assign(cands, start)
    <3>1. 0 \in 0 .. n - 1 /\ 0 + 1 = 1
      BY <1>2
    <3> QED
      BY <1>3, <3>1
  <2>2. 1 \in DOMAIN cands /\ cands[1] \in ToSet(cands)
    <3>1. Len(cands) \in Nat /\ DOMAIN cands = 1 .. Len(cands) /\ cands \in Seq(Peer)
      BY LineupSet DEF Lineup
    <3>2. Len(cands) # 0
      BY <3>1
    <3>3. 1 \in 1 .. Len(cands)
      BY <3>1, <3>2
    <3> QED
      BY <3>1, <3>3, LineupSet
  <2>3. 1 \in Askable(cands, start, 1)
    BY <1>4, <1>5, <2>2, ChunkFinite, NamesDistinct DEF Askable
  <2>4. {i \in Chunk : Askable(cands, start, i) # {}} # {}
    BY <2>3, ChunkFinite
  <2>5. MapThenSumSet(LAMBDA p : start.counts[p], DOMAIN start.counts) = 0
    <3> DEFINE D == ToSet(cands)
    <3>1. IsFiniteSet(D)
      <4>1. D \subseteq Peer
        BY LineupSet
      <4>2. Lineup(PeerOrder)
        BY SnapshotConstants DEF Lineup
      <4>3. IsFiniteSet(Peer)
        <5>1. Len(PeerOrder) \in Nat /\ DOMAIN PeerOrder = 1 .. Len(PeerOrder)
          BY <4>2, LineupSet
        <5>2. IsFiniteSet(1 .. Len(PeerOrder))
          BY <5>1, FS_Interval
        <5>3. PeerOrder \in Surjection(1 .. Len(PeerOrder), Peer)
          <6>1. PeerOrder \in [1 .. Len(PeerOrder) -> Peer]
            BY <4>2 DEF Lineup
          <6>2. \A t \in Peer : \E s \in 1 .. Len(PeerOrder) : PeerOrder[s] = t
            BY <4>2, LineupSet DEF Peer
          <6> QED
            BY <6>1, <6>2 DEF Surjection
        <5> QED
          BY <5>2, <5>3, FS_Surjection
      <4> QED
        BY <4>1, <4>3, FS_Subset
    <3> HIDE DEF D
    <3>2. \A p \in D : start.counts[p] = 0
      BY <1>4, <1>5 DEF D
    <3>3. SumOf(start.counts, D) = 0
      BY <3>1, <3>2, SumOfNone
    <3>4. DOMAIN start.counts = D
      BY <1>4, <1>5 DEF D
    <3> QED
      BY <3>3, <3>4 DEF SumOf
  <2>6. Assign(cands, start) # start
    <3> DEFINE ready == {i \in Chunk : Askable(cands, start, i) # {}}
               i == Min(ready)
               p == cands[Min(Askable(cands, start, i))]
    <3>1. ~(0 >= n)
      BY <1>2
    <3>2. Assign(cands, start).slots = [start.slots EXCEPT ![i].at = p]
      <4>1. Assign(cands, start) = [counts |-> [start.counts EXCEPT ![p] = @ + 1],
                                    slots  |-> [start.slots EXCEPT ![i].at = p],
                                    sent   |-> start.sent \cup {<<p, i>>}]
        BY <2>4, <2>5, <3>1, Zenon DEF Assign, n
      <4> QED
        BY <4>1
    <3>3. i \in Chunk /\ p \in Peer
      <4>1. ready \in SUBSET Nat
        BY ChunkFinite
      <4>2. i \in ready
        BY <2>4, <4>1, MinOf
      <4>3. DOMAIN cands = 1 .. Len(cands) /\ Len(cands) \in Nat
        BY LineupSet
      <4>4. Askable(cands, start, i) \in SUBSET Nat /\ Askable(cands, start, i) # {}
        <5>1. Askable(cands, start, i) # {}
          BY <4>2
        <5> HIDE DEF i
        <5>2. Askable(cands, start, i) \subseteq DOMAIN cands
          BY DEF Askable
        <5> QED
          BY <4>3, <5>1, <5>2
      <4>5. Min(Askable(cands, start, i)) \in Askable(cands, start, i)
        BY <4>4, MinOf
      <4>6. Min(Askable(cands, start, i)) \in DOMAIN cands
        BY <4>5 DEF Askable
      <4> QED
        BY <4>2, <4>3, <4>6, LineupSet
    <3> HIDE DEF i, p
    <3>4. start.slots \in [Chunk -> Slot] /\ start.slots[i].at = "pending"
      BY <1>1, <1>4, <1>5, <3>3 DEF Schedulable
    <3>5. Assign(cands, start).slots[i].at = p
      BY <3>2, <3>3, <3>4 DEF Slot
    <3> QED
      BY <3>3, <3>4, <3>5, NamesDistinct
  <2>7. start \in Rounds(cands)
    <3>1. 0 \in 0 .. n
      BY <1>2
    <3> QED
      BY <1>3, <3>1 DEF Scheduled
  <2>8. PICK i \in Chunk, p \in Peer : Assigns(cands, start, f[1], i, p)
    BY <2>1, <2>6, <2>7, AssignFacts
  <2>9. f[1].slots[i].at = p
    <3>1. f[1].slots = [start.slots EXCEPT ![i].at = p] /\ start.slots \in [Chunk -> Slot]
      BY <2>7, <2>8 DEF Assigns, Rounds
    <3> QED
      BY <3>1 DEF Slot
  <2> QED
    BY <2>9
<1> DEFINE Busy(s) == \E i \in Chunk : s.slots[i].at \in Peer
           S == {k \in 0 .. n : k = 0 \/ Busy(f[k])}
<1>7. 0 \in S
  BY <1>2
<1>8. ASSUME NEW k \in 0 .. n - 1, k \in S
      PROVE  k + 1 \in S
  <2>1. k \in 0 .. n /\ k + 1 \in 0 .. n /\ f[k + 1] = Assign(cands, f[k])
    BY <1>2, <1>3
  <2>2. CASE k = 0
    BY <1>6, <2>1, <2>2
  <2>3. CASE k # 0
    <3>1. PICK i \in Chunk : f[k].slots[i].at \in Peer
      BY <1>8, <2>3
    <3>2. f[k] \in Rounds(cands)
      BY <1>3, <2>1 DEF Scheduled
    <3>3. CASE f[k + 1] = f[k]
      BY <2>1, <3>1, <3>3
    <3>4. CASE f[k + 1] # f[k]
      <4>1. PICK j \in Chunk, p \in Peer : Assigns(cands, f[k], f[k + 1], j, p)
        BY <2>1, <3>2, <3>4, AssignFacts
      <4>2. f[k + 1].slots = [f[k].slots EXCEPT ![j].at = p] /\ f[k].slots \in [Chunk -> Slot]
        BY <3>2, <4>1 DEF Assigns, Rounds
      <4>3. f[k + 1].slots[j].at = p
        BY <4>2 DEF Slot
      <4> QED
        BY <2>1, <4>3
    <3> QED
      BY <3>3, <3>4
  <2> QED
    BY <2>2, <2>3
<1> HIDE DEF S
<1>9. n \in S
  BY <1>2, <1>7, <1>8, Recursion!Induct
<1>10. Busy(f[n])
  BY <1>2, <1>9 DEF S
<1>11. \E i \in Chunk : schedule(cands, c, l).slots[i].at \in Peer
  BY <1>3, <1>10
<1> QED
  BY <1>1, <1>11 DEF c, l

-----------------------------------------------------------------------------
(***************************************************************************)
(* The fetch.                                                              *)
(***************************************************************************)

\* A peer that was asked for a chunk has it still in flight, has failed, or the
\* chunk is there.
Remembered(slots, requests) ==
    \A i \in Chunk, p \in Peer :
        <<p, i>> \in requests => p \in slots[i].tried \/ slots[i].at \in {p, "received"}

(* The invariant of the fetch: the state is well formed, without a fetch there is
   nothing of one, every request is remembered in the slot of its chunk, a
   fetch has something in flight, and what is counted against a peer is. *)
FetchInv ==
    /\ SyncTypeOK /\ Lineup(candidates) /\ inFlight \in [ToSet(candidates) -> Nat]
    /\ phase # "fetching" => candidates = <<>> /\ chunks = [i \in Chunk |-> FreshSlot]
    /\ phase = "fetching" => Remembered(chunks, asked)
    /\ phase \in {"idle", "pending"} => asked \subseteq Peer \X {Manifest}
    /\ NeverIdle /\ NoCapacityLeak

\* What NeverAskedAgain says of a step
AskStep ==
    \A i \in Chunk : (chunks'[i].at \in Peer /\ chunks'[i].at # chunks[i].at)
        => <<chunks'[i].at, i>> \notin asked

LEMMA FetchFacts ==
    ASSUME FetchInv
    PROVE  /\ Lineup(candidates) /\ chunks \in [Chunk -> Slot]
           /\ inFlight \in [ToSet(candidates) -> Nat]
           /\ \A p \in ToSet(candidates) : inFlight[p] <= PerPeerChunkConcurrency
           /\ Capacity(inFlight, chunks)
           /\ \A i \in Chunk : /\ chunks[i].at \in Peer \cup {"pending", "received"}
                               /\ chunks[i].tried \subseteq Peer
                               /\ chunks[i].attempts \in 0 .. PerChunkRetryBudget - 1
           /\ open \subseteq asked /\ asked \subseteq Peer \X ({Manifest} \cup Chunk)
           /\ connected \subseteq Peer /\ observed \subseteq Peer
           /\ primary \in Peer \cup {NoPeer}
<1>1. SyncTypeOK /\ NoCapacityLeak /\ Lineup(candidates)
  BY DEF FetchInv
<1>2. inFlight \in [ToSet(candidates) -> Nat]
      /\ \A p \in ToSet(candidates) : inFlight[p] <= PerPeerChunkConcurrency
  <2>1. DOMAIN inFlight = ToSet(candidates)
        /\ \A p \in DOMAIN inFlight : inFlight[p] \in 0 .. PerPeerChunkConcurrency
    BY <1>1 DEF SyncTypeOK
  <2>2. inFlight \in [ToSet(candidates) -> Nat]
    BY DEF FetchInv
  <2> QED
    BY <2>1, <2>2, NamesDistinct
<1>3. Capacity(inFlight, chunks)
  BY <1>1 DEF NoCapacityLeak, Capacity
<1>4. chunks \in [Chunk -> Slot]
  BY <1>1 DEF SyncTypeOK
<1>5. \A i \in Chunk : /\ chunks[i].at \in Peer \cup {"pending", "received"}
                       /\ chunks[i].tried \subseteq Peer
                       /\ chunks[i].attempts \in 0 .. PerChunkRetryBudget - 1
  BY <1>4 DEF Slot
<1> QED
  BY <1>1, <1>2, <1>3, <1>4, <1>5 DEF SyncTypeOK

\* The requests of schedule keep the invariant, if something is in flight then.
LEMMA FetchStep ==
    ASSUME FetchInv, NEW cands, NEW c, NEW l, Schedulable(cands, c, l), Remembered(l, asked),
           \A i \in Chunk : l[i].at \in Peer => l[i].at = chunks[i].at,
           NEW left, left \subseteq open, connected' \subseteq Peer,
           \E i \in Chunk : schedule(cands, c, l).slots[i].at \in Peer,
           Fetch(cands, schedule(cands, c, l), left)
    PROVE  FetchInv' /\ AskStep
<1> DEFINE s == schedule(cands, c, l)
<1>1. Scheduled(cands, c, l, s)
  BY ScheduleFacts
<1>2. /\ phase' = "fetching" /\ primary' = NoPeer /\ observed' = {} /\ candidates' = cands
      /\ inFlight' = s.counts /\ chunks' = s.slots /\ asked' = asked \cup s.sent
      /\ open' \subseteq left \cup s.sent
  BY DEF Fetch, Delivered
<1>3. \E i \in Chunk : s.slots[i].at \in Peer
  OBVIOUS
<1> HIDE DEF s
<1>4. s.counts \in [ToSet(cands) -> Nat] /\ s.slots \in [Chunk -> Slot] /\ s.sent \subseteq Peer \X Chunk
  BY <1>1 DEF Scheduled, Rounds
<1>5. Lineup(cands) /\ ToSet(cands) \subseteq Peer
  BY LineupSet DEF Schedulable
<1>6. SyncTypeOK'
  <2>1. open' \subseteq asked' /\ asked' \subseteq Peer \X ({Manifest} \cup Chunk)
    BY <1>2, <1>4, FetchFacts
  <2>2. \A p \in DOMAIN inFlight' : inFlight'[p] \in 0 .. PerPeerChunkConcurrency
    <3>1. \A p \in ToSet(cands) : s.counts[p] \in Nat /\ s.counts[p] <= PerPeerChunkConcurrency
      BY <1>1, <1>4 DEF Scheduled
    <3> QED
      BY <1>2, <1>4, <3>1, NamesDistinct
  <2> QED
    BY <1>2, <1>4, <1>5, <2>1, <2>2 DEF SyncTypeOK, Lineup
<1>7. Remembered(chunks', asked')
  <2> SUFFICES ASSUME NEW i \in Chunk, NEW p \in Peer, <<p, i>> \in asked \cup s.sent
               PROVE  p \in s.slots[i].tried \/ s.slots[i].at \in {p, "received"}
    BY <1>2 DEF Remembered
  <2>1. CASE <<p, i>> \in s.sent
    BY <1>1, <2>1 DEF Scheduled
  <2>2. CASE <<p, i>> \in asked
    <3>1. p \in l[i].tried \/ l[i].at \in {p, "received"}
      BY <2>2 DEF Remembered
    <3>2. l[i].at = "pending" => p \in l[i].tried
      BY <3>1, NamesDistinct
    <3> QED
      BY <1>1, <3>1, <3>2 DEF Scheduled
  <2> QED
    BY <2>1, <2>2
<1>8. NeverIdle' /\ NoCapacityLeak'
  BY <1>1, <1>2, <1>3 DEF NeverIdle, NoCapacityLeak, Scheduled, Capacity
<1>9. AskStep
  <2> SUFFICES ASSUME NEW i \in Chunk, s.slots[i].at \in Peer, s.slots[i].at # chunks[i].at
               PROVE  <<s.slots[i].at, i>> \notin asked
    BY <1>2 DEF AskStep
  <2>1. s.slots[i] # l[i]
    OBVIOUS
  <2>2. l[i].at = "pending" /\ s.slots[i].at \notin l[i].tried
    BY <1>1, <2>1 DEF Scheduled
  <2> QED
    BY <2>2, NamesDistinct DEF Remembered
<1> QED
  BY <1>2, <1>4, <1>5, <1>6, <1>7, <1>8, <1>9 DEF FetchInv

\* So does the end of a fetch.
LEMMA FinishStep ==
    ASSUME FetchInv, NEW as \in {"done", "aborted"}, NEW left, left \subseteq open,
           connected' \subseteq Peer, Finish(as, left)
    PROVE  FetchInv' /\ AskStep
<1>1. /\ phase' = as /\ primary' = NoPeer /\ observed' = {} /\ candidates' = <<>>
      /\ inFlight' = NoCounts /\ chunks' = [i \in Chunk |-> FreshSlot]
      /\ open' = left /\ asked' = asked
  BY DEF Finish
<1>2. FreshSlot \in Slot /\ FreshSlot.at = "pending"
  BY NamesDistinct DEF FreshSlot, Slot
<1>3. Lineup(<<>>) /\ ToSet(<<>>) = {}
  BY DEF Lineup, ToSet, IsInjective
<1>4. NoCounts \in [{} -> Nat] /\ DOMAIN NoCounts = {}
  BY DEF NoCounts
<1>5. SyncTypeOK'
  BY <1>1, <1>2, <1>3, <1>4, FetchFacts DEF SyncTypeOK, Lineup
<1>6. NeverIdle' /\ NoCapacityLeak' /\ AskStep
  BY <1>1, <1>2, <1>4, NamesDistinct DEF NeverIdle, NoCapacityLeak, AskStep
<1> QED
  BY <1>1, <1>3, <1>4, <1>5, <1>6 DEF FetchInv

\* So does a step that takes no part in the fetch.
LEMMA AsideStep ==
    ASSUME FetchInv, UNCHANGED <<phase, candidates, inFlight, chunks, asked>>,
           open' \subseteq open, observed' \subseteq Peer, primary' \in Peer \cup {NoPeer},
           connected' \subseteq Peer
    PROVE  FetchInv' /\ AskStep
<1>1. SyncTypeOK'
  BY DEF FetchInv, SyncTypeOK
<1>2. NeverIdle' /\ NoCapacityLeak' /\ AskStep
  BY DEF FetchInv, NeverIdle, NoCapacityLeak, AskStep
<1> QED
  BY <1>1, <1>2 DEF FetchInv, Remembered, Lineup

\* schedule leaves in flight what is, and what is not received does not become so.
LEMMA ScheduleKeeps ==
    ASSUME NEW cands, NEW c, NEW l, Schedulable(cands, c, l), NEW i \in Chunk
    PROVE  LET s == schedule(cands, c, l)
           IN /\ l[i].at \in Peer => s.slots[i].at \in Peer
              /\ l[i].at # "received" => s.slots[i].at # "received"
              /\ s.slots[i].at \in Peer \cup {"pending", "received"}
<1> DEFINE s == schedule(cands, c, l)
<1>1. Scheduled(cands, c, l, s)
  BY ScheduleFacts
<1> HIDE DEF s
<1>2. ToSet(cands) \subseteq Peer
  BY LineupSet DEF Schedulable
<1>3. s.slots[i] \in Slot
  BY <1>1 DEF Scheduled, Rounds
<1> QED
  BY <1>1, <1>2, <1>3, NamesDistinct DEF Scheduled, Slot, s

LEMMA ScheduleOrAbortStep ==
    ASSUME FetchInv, NEW cands, NEW c, NEW l, Schedulable(cands, c, l), Remembered(l, asked),
           \A i \in Chunk : l[i].at \in Peer => l[i].at = chunks[i].at,
           \E i \in Chunk : l[i].at # "received",
           NEW left, left \subseteq open, connected' \subseteq Peer,
           schedule_or_abort(cands, c, l, left)
    PROVE  FetchInv' /\ AskStep
<1> DEFINE s == schedule(cands, c, l)
<1>1. CASE (\E i \in Chunk : s.slots[i].at = "pending")
           /\ \A i \in Chunk : s.slots[i].at \in {"pending", "received"}
  <2>1. Finish("aborted", left)
    BY <1>1 DEF schedule_or_abort
  <2> QED
    BY <2>1, FinishStep
<1>2. CASE ~((\E i \in Chunk : s.slots[i].at = "pending")
           /\ \A i \in Chunk : s.slots[i].at \in {"pending", "received"})
  <2>1. Fetch(cands, s, left)
    BY <1>2 DEF schedule_or_abort
  <2>2. PICK i \in Chunk : l[i].at # "received"
    OBVIOUS
  <2>3. \A j \in Chunk : s.slots[j].at \in Peer \cup {"pending", "received"}
    BY ScheduleKeeps
  <2>4. s.slots[i].at # "received"
    BY <2>2, ScheduleKeeps
  <2> HIDE DEF s
  <2>5. \E j \in Chunk : s.slots[j].at \in Peer
    BY <1>2, <2>3, <2>4
  <2> QED
    BY <2>1, <2>5, FetchStep DEF s
<1> QED
  BY <1>1, <1>2

-----------------------------------------------------------------------------
(***************************************************************************)
(* What the handlers give to schedule.                                     *)
(***************************************************************************)
LEMMA CountsType ==
    ASSUME NEW slots, NEW p
    PROVE  /\ IsFiniteSet({i \in Chunk : slots[i].at = p})
           /\ Cardinality({i \in Chunk : slots[i].at = p}) \in Nat
BY ChunkFinite

LEMMA WithPeerSchedulable ==
    ASSUME FetchInv, NEW p \in Peer
    PROVE  /\ Schedulable(WithPeer(p), WithCount(p), chunks)
           /\ ToSet(WithPeer(p)) = ToSet(candidates) \cup {p}
<1> DEFINE D == ToSet(candidates)
           c == WithCount(p)
<1>1. Lineup(WithPeer(p)) /\ ToSet(WithPeer(p)) = D \cup {p}
  <2>1. Lineup(candidates) /\ (Contains(candidates, p) <=> p \in D)
    BY FetchFacts, LineupSet
  <2>2. CASE p \in D
    BY <2>1, <2>2 DEF WithPeer
  <2>3. CASE p \notin D
    BY <2>1, <2>3, LineupAppend DEF WithPeer
  <2> QED
    BY <2>2, <2>3
<1>2. inFlight \in [D -> Nat] /\ \A q \in D : inFlight[q] <= PerPeerChunkConcurrency
  BY FetchFacts
<1>3. c = [q \in D \cup {p} |-> IF q \in D THEN inFlight[q] ELSE 0]
  BY <1>2 DEF WithCount
<1> HIDE DEF c, D
<1>4. c \in [D \cup {p} -> Nat] /\ \A q \in D \cup {p} : c[q] = IF q \in D THEN inFlight[q] ELSE 0
  BY <1>2, <1>3
<1>5. \A q \in D \cup {p} : c[q] <= PerPeerChunkConcurrency
  BY <1>2, <1>4, NamesDistinct
<1>6. Capacity(c, chunks)
  <2>1. ASSUME NEW q \in D \cup {p}
        PROVE  c[q] <= Cardinality({i \in Chunk : chunks[i].at = q})
    <3>1. CASE q \in D
      <4>1. inFlight[q] <= Cardinality({i \in Chunk : chunks[i].at = q})
        BY <1>2, <3>1, FetchFacts DEF Capacity
      <4> QED
        BY <1>4, <3>1, <4>1
    <3>2. CASE q \notin D
      <4>1. c[q] = 0
        BY <1>4, <3>2
      <4>2. Cardinality({i \in Chunk : chunks[i].at = q}) \in Nat
        BY CountsType
      <4> QED
        BY <4>1, <4>2
    <3> QED
      BY <3>1, <3>2
  <2> QED
    BY <1>4, <2>1 DEF Capacity
<1> QED
  BY <1>1, <1>4, <1>5, <1>6, FetchFacts DEF Schedulable, c, D

\* An answer: the chunk is not in flight any more.
LEMMA AnsweredSchedulable ==
    ASSUME FetchInv, NEW i \in Chunk, NEW p \in Peer, chunks[i].at = p, NEW x \in Slot, x.at \notin Peer
    PROVE  Schedulable(candidates, Answered(p), [chunks EXCEPT ![i] = x])
<1> DEFINE D == ToSet(candidates)
           c == Answered(p)
           l == [chunks EXCEPT ![i] = x]
           At(slots, q) == {j \in Chunk : slots[j].at = q}
<1>1. /\ inFlight \in [D -> Nat] /\ \A q \in D : inFlight[q] <= PerPeerChunkConcurrency
      /\ chunks \in [Chunk -> Slot] /\ Lineup(candidates) /\ D \subseteq Peer
  BY FetchFacts, LineupSet
<1>2. /\ c \in [D -> Nat] /\ \A q \in D : q # p => c[q] = inFlight[q]
      /\ p \in D => c[p] = IF inFlight[p] > 0 THEN inFlight[p] - 1 ELSE 0
  BY <1>1 DEF Answered
<1>3. l \in [Chunk -> Slot] /\ l[i] = x /\ \A j \in Chunk : j # i => l[j] = chunks[j]
  BY <1>1
<1> HIDE DEF D, c, l
<1>4. \A q \in D : c[q] <= PerPeerChunkConcurrency
  BY <1>1, <1>2, NamesDistinct
<1>5. ASSUME NEW q \in D
      PROVE  c[q] <= Cardinality(At(l, q))
  <2>1. inFlight[q] <= Cardinality(At(chunks, q)) /\ inFlight[q] \in Nat
    BY <1>1, FetchFacts DEF Capacity, D
  <2>2. IsFiniteSet(At(chunks, q)) /\ Cardinality(At(chunks, q)) \in Nat
    BY CountsType
  <2>3. CASE q = p
    <3>1. At(l, q) = At(chunks, q) \ {i} /\ i \in At(chunks, q)
      BY <1>3, <2>3
    <3> HIDE DEF At
    <3>2. Cardinality(At(l, q)) = Cardinality(At(chunks, q)) - 1 /\ Cardinality(At(l, q)) \in Nat
      BY <2>2, <3>1, FS_RemoveElement, FS_CardinalityType
    <3> QED
      BY <1>2, <2>1, <2>2, <2>3, <3>2
  <2>4. CASE q # p
    <3>1. q \in Peer
      BY <1>1
    <3>2. At(l, q) = At(chunks, q)
      BY <1>3, <2>4, <3>1
    <3> HIDE DEF At
    <3> QED
      BY <1>2, <2>1, <2>4, <3>2
  <2> QED
    BY <2>3, <2>4
<1>6. Capacity(c, l)
  BY <1>2, <1>5 DEF Capacity
<1> QED
  BY <1>1, <1>2, <1>3, <1>4, <1>6 DEF Schedulable, D, c, l

\* A peer is dropped: its chunks may change, those of the others stay.
LEMMA WithoutSchedulable ==
    ASSUME FetchInv, NEW p, NEW l \in [Chunk -> Slot],
           \A i \in Chunk : chunks[i].at # p => l[i] = chunks[i],
           \A i \in Chunk : chunks[i].at = p => l[i].at \notin Peer \/ l[i].at = p
    PROVE  Schedulable(RemoveFirst(candidates, p), Without(inFlight, p), l)
<1> DEFINE D == ToSet(candidates)
           c == Without(inFlight, p)
           At(slots, q) == {j \in Chunk : slots[j].at = q}
<1>1. /\ inFlight \in [D -> Nat] /\ \A q \in D : inFlight[q] <= PerPeerChunkConcurrency
      /\ Lineup(candidates) /\ D \subseteq Peer
  BY FetchFacts, LineupSet
<1>2. Lineup(RemoveFirst(candidates, p)) /\ ToSet(RemoveFirst(candidates, p)) = D \ {p}
  BY <1>1, LineupRemove
<1>3. c \in [D \ {p} -> Nat] /\ \A q \in D \ {p} : c[q] = inFlight[q]
  BY <1>1 DEF Without
<1> HIDE DEF D, c
<1>4. ASSUME NEW q \in D \ {p}
      PROVE  c[q] <= Cardinality(At(l, q))
  <2>1. inFlight[q] <= Cardinality(At(chunks, q))
    BY <1>1, FetchFacts DEF Capacity, D
  <2>2. q \in Peer
    BY <1>1
  <2>3. At(l, q) = At(chunks, q)
    BY <2>2
  <2> HIDE DEF At
  <2> QED
    BY <1>3, <2>1, <2>3
<1>5. Capacity(c, l)
  BY <1>3, <1>4 DEF Capacity
<1> QED
  BY <1>1, <1>2, <1>3, <1>5 DEF Schedulable, c

\* A chunk that failed, and not for the last time
LEMMA FailedSlot ==
    ASSUME FetchInv, NEW i \in Chunk, NEW p \in Peer, NEW cands,
           ~check_chunk_abort(Failed(chunks[i], p), cands)
    PROVE  /\ Failed(chunks[i], p) \in Slot /\ Failed(chunks[i], p).at = "pending"
           /\ Failed(chunks[i], p).tried = chunks[i].tried \cup {p}
<1>1. chunks[i].tried \subseteq Peer /\ chunks[i].attempts \in 0 .. PerChunkRetryBudget - 1
  BY FetchFacts
<1>2. ~(chunks[i].attempts + 1 >= PerChunkRetryBudget)
  BY DEF check_chunk_abort, Failed
<1>3. chunks[i].attempts + 1 \in 0 .. PerChunkRetryBudget - 1
  BY <1>1, <1>2, NamesDistinct
<1> QED
  BY <1>1, <1>3 DEF Failed, Slot

-----------------------------------------------------------------------------
(***************************************************************************)
(* The handlers.                                                           *)
(***************************************************************************)

\* Of the candidates of a fetch that goes on, a step takes away `gone` at most.
Drops(gone) ==
    phase' = "fetching" =>
        phase = "fetching" /\ ToSet(candidates) \ ToSet(candidates') \subseteq gone

\* A new candidate, by a proposal or by a connection
LEMMA NewCandidateStep ==
    ASSUME FetchInv, phase = "fetching", NEW p \in Peer, connected' \subseteq Peer,
           Fetch(WithPeer(p), schedule(WithPeer(p), WithCount(p), chunks), open)
    PROVE  FetchInv' /\ AskStep /\ Drops({})
<1>1. Schedulable(WithPeer(p), WithCount(p), chunks) /\ ToSet(WithPeer(p)) = ToSet(candidates) \cup {p}
  BY WithPeerSchedulable
<1>2. PICK i \in Chunk : chunks[i].at \in Peer
  BY DEF FetchInv, NeverIdle
<1>3. schedule(WithPeer(p), WithCount(p), chunks).slots[i].at \in Peer
  BY <1>1, <1>2, ScheduleKeeps
<1>4. Remembered(chunks, asked)
  BY DEF FetchInv
<1>5. FetchInv' /\ AskStep
  BY <1>1, <1>3, <1>4, FetchStep
<1>6. candidates' = WithPeer(p)
  BY DEF Fetch
<1> QED
  BY <1>1, <1>5, <1>6 DEF Drops

LEMMA ObserveStep ==
    ASSUME FetchInv, NEW p \in Peer, NEW lags \in BOOLEAN, ObserveProposal(p, lags)
    PROVE  FetchInv' /\ AskStep /\ Drops({})
<1>1. connected' = connected /\ connected \subseteq Peer /\ observed \subseteq Peer
      /\ primary \in Peer \cup {NoPeer}
  BY FetchFacts DEF ObserveProposal
<1>2. CASE phase = "idle" /\ ~lags
  <2>1. UNCHANGED <<phase, primary, candidates, inFlight, chunks, asked, open>>
        /\ observed' = observed \cup {p}
    BY <1>2 DEF ObserveProposal
  <2>2. FetchInv' /\ AskStep
    BY <1>1, <2>1, AsideStep
  <2> QED
    BY <1>2, <2>1, <2>2 DEF Drops
<1>3. CASE phase = "idle" /\ lags
  <2>1. /\ phase' = "pending" /\ primary' = p /\ observed' = observed \cup {p}
        /\ asked' = asked \cup {<<p, Manifest>>} /\ open' \subseteq open \cup {<<p, Manifest>>}
        /\ UNCHANGED <<candidates, inFlight, chunks>>
    BY <1>3 DEF ObserveProposal, Delivered
  <2>2. SyncTypeOK'
    BY <1>1, <2>1 DEF FetchInv, SyncTypeOK
  <2>3. NeverIdle' /\ NoCapacityLeak' /\ AskStep
    BY <2>1 DEF FetchInv, NeverIdle, NoCapacityLeak, AskStep
  <2>4. asked' \subseteq Peer \X {Manifest}
    BY <1>3, <2>1 DEF FetchInv
  <2> QED
    BY <1>3, <2>1, <2>2, <2>3, <2>4 DEF FetchInv, Drops
<1>4. CASE phase = "pending"
  <2>1. UNCHANGED <<phase, primary, candidates, inFlight, chunks, asked, open>>
        /\ observed' = observed \cup {p}
    BY <1>4 DEF ObserveProposal
  <2>2. FetchInv' /\ AskStep
    BY <1>1, <2>1, AsideStep
  <2> QED
    BY <1>4, <2>1, <2>2 DEF Drops
<1>5. CASE phase = "fetching"
  <2>1. Fetch(WithPeer(p), schedule(WithPeer(p), WithCount(p), chunks), open)
    BY <1>5 DEF ObserveProposal
  <2> QED
    BY <1>1, <1>5, <2>1, NewCandidateStep
<1>6. CASE phase \notin {"idle", "pending", "fetching"}
  <2>1. UNCHANGED <<phase, primary, observed, candidates, inFlight, chunks, asked, open>>
    BY <1>6 DEF ObserveProposal
  <2>2. FetchInv' /\ AskStep
    BY <1>1, <2>1, AsideStep
  <2> QED
    BY <1>6, <2>1, <2>2 DEF Drops
<1> QED
  BY <1>2, <1>3, <1>4, <1>5, <1>6

LEMMA AddStep ==
    ASSUME FetchInv, NEW p \in Peer, AddCandidate(p)
    PROVE  FetchInv' /\ AskStep /\ Drops({})
<1>1. connected' = connected \cup {p} /\ connected' \subseteq Peer /\ observed \subseteq Peer
      /\ primary \in Peer \cup {NoPeer}
  BY FetchFacts DEF AddCandidate
<1>2. CASE phase = "fetching"
  <2>1. Fetch(WithPeer(p), schedule(WithPeer(p), WithCount(p), chunks), open)
    BY <1>2 DEF AddCandidate
  <2> QED
    BY <1>1, <1>2, <2>1, NewCandidateStep
<1>3. CASE phase # "fetching"
  <2>1. UNCHANGED <<phase, primary, observed, candidates, inFlight, chunks, asked, open>>
    BY <1>3 DEF AddCandidate
  <2>2. FetchInv' /\ AskStep
    BY <1>1, <2>1, AsideStep
  <2> QED
    BY <1>3, <2>1, <2>2 DEF Drops
<1> QED
  BY <1>2, <1>3

\* The manifest: a fetch starts, is given up, or the answer is ignored.
LEMMA ManifestStep ==
    ASSUME FetchInv, NEW p \in Peer, NEW kind, OnManifestResponse(p, kind)
    PROVE  /\ FetchInv' /\ AskStep
           /\ phase = "pending" => phase' \in {"pending", "aborted"} \/ (phase' = "fetching" /\ kind = "valid")
           /\ phase # "pending" => Drops({})
<1> DEFINE left == open \ {<<p, Manifest>>}
           peers == observed \cup {p}
           cands == InOrder(peers)
           c == [q \in peers |-> 0]
           l == [i \in Chunk |-> FreshSlot]
<1>1. connected' = connected /\ connected \subseteq Peer /\ observed \subseteq Peer
      /\ primary \in Peer \cup {NoPeer} /\ left \subseteq open
  BY FetchFacts DEF OnManifestResponse
<1>2. CASE phase = "pending" /\ p = primary /\ kind = "valid"
  <2>1. Fetch(cands, schedule(cands, c, l), left)
    BY <1>2 DEF OnManifestResponse
  <2>2. Lineup(cands) /\ ToSet(cands) = peers
    BY <1>1, LineupInOrder
  <2>3. cands # <<>>
    <3>1. ToSet(<<>>) = {}
      BY DEF ToSet
    <3> QED
      BY <2>2, <3>1
  <2>4. Schedulable(cands, c, l) /\ \E i \in Chunk : schedule(cands, c, l).slots[i].at \in Peer
    BY <2>2, <2>3, ScheduleStarts
  <2>5. \A i \in Chunk : l[i].at = "pending"
    BY DEF FreshSlot
  <2>6. asked \subseteq Peer \X {Manifest}
    BY <1>2 DEF FetchInv
  <2>7. Remembered(l, asked)
    BY <2>6, ChunkFinite DEF Remembered
  <2>8. phase' = "fetching"
    BY <2>1 DEF Fetch
  <2> HIDE DEF l, c, cands, left
  <2>9. FetchInv' /\ AskStep
    BY <1>1, <2>1, <2>4, <2>5, <2>7, FetchStep, NamesDistinct
  <2> QED
    BY <1>2, <2>8, <2>9
<1>3. CASE phase = "pending" /\ p = primary /\ kind # "valid"
  <2>1. Finish("aborted", left)
    BY <1>3 DEF OnManifestResponse
  <2>2. FetchInv' /\ AskStep
    BY <1>1, <2>1, FinishStep
  <2>3. phase' = "aborted"
    BY <2>1 DEF Finish
  <2> QED
    BY <1>3, <2>2, <2>3
<1>4. CASE ~(phase = "pending" /\ p = primary)
  <2>1. open' = left /\ UNCHANGED <<phase, primary, observed, candidates, inFlight, chunks, asked>>
    BY <1>4 DEF OnManifestResponse
  <2>2. FetchInv' /\ AskStep
    BY <1>1, <2>1, AsideStep
  <2> QED
    BY <2>1, <2>2 DEF Drops
<1> QED
  BY <1>2, <1>3, <1>4

\* What schedule_or_abort leaves of the candidates
LEMMA ScheduleOrAbortCandidates ==
    ASSUME NEW cands, NEW c, NEW l, NEW left, schedule_or_abort(cands, c, l, left)
    PROVE  phase' = "fetching" => candidates' = cands
BY DEF schedule_or_abort, Finish, Fetch

\* The answer of a peer for a chunk
LEMMA ChunkStep ==
    ASSUME FetchInv, NEW p \in Peer, NEW i \in Chunk, NEW kind \in {"good", "damaged", "none"},
           OnChunkResponse(p, i, kind)
    PROVE  FetchInv' /\ AskStep /\ Drops(IF kind = "damaged" THEN {p} ELSE {})
<1> DEFINE left == open \ {<<p, i>>}
           failed == [chunks EXCEPT ![i] = Failed(@, p)]
           trusted == RemoveFirst(candidates, p)
<1>1. connected' = connected /\ connected \subseteq Peer /\ observed \subseteq Peer
      /\ primary \in Peer \cup {NoPeer} /\ left \subseteq open /\ chunks \in [Chunk -> Slot]
  BY FetchFacts DEF OnChunkResponse
<1>2. CASE phase # "fetching" \/ chunks[i].at # p
  <2>1. open' = left /\ UNCHANGED <<phase, primary, observed, candidates, inFlight, chunks, asked>>
    BY <1>2 DEF OnChunkResponse
  <2>2. FetchInv' /\ AskStep
    BY <1>1, <2>1, AsideStep
  <2> QED
    BY <2>1, <2>2 DEF Drops
<1> DEFINE now == phase = "fetching" /\ chunks[i].at = p
<1>3. CASE now /\ kind = "good"
  <2> DEFINE x == [chunks[i] EXCEPT !.at = "received"]
             l == [chunks EXCEPT ![i] = x]
             c == Answered(p)
  <2>1. try_finish_or_schedule(candidates, c, l, left)
    BY <1>1, <1>3 DEF OnChunkResponse
  <2>2. x \in Slot /\ x.at = "received"
    BY <1>1 DEF Slot
  <2>3. Schedulable(candidates, c, l)
    <3> HIDE DEF x
    <3> QED
      BY <1>3, <2>2, AnsweredSchedulable, NamesDistinct
  <2>4. l[i].at = "received" /\ \A j \in Chunk : j # i => l[j] = chunks[j]
    BY <1>1, <2>2
  <2>5. Remembered(chunks, asked)
    BY <1>3 DEF FetchInv
  <2> HIDE DEF l, c, left
  <2>6. Remembered(l, asked)
    BY <2>4, <2>5 DEF Remembered
  <2>7. CASE \A j \in Chunk : l[j].at = "received"
    <3>1. Finish("done", left)
      BY <2>1, <2>7 DEF try_finish_or_schedule
    <3>2. FetchInv' /\ AskStep
      BY <1>1, <3>1, FinishStep
    <3>3. phase' = "done"
      BY <3>1 DEF Finish
    <3> QED
      BY <3>2, <3>3 DEF Drops
  <2>8. CASE ~\A j \in Chunk : l[j].at = "received"
    <3>1. schedule_or_abort(candidates, c, l, left)
      BY <2>1, <2>8 DEF try_finish_or_schedule
    <3>2. \A j \in Chunk : l[j].at \in Peer => l[j].at = chunks[j].at
      BY <2>4, NamesDistinct
    <3>3. FetchInv' /\ AskStep
      BY <1>1, <2>3, <2>6, <2>8, <3>1, <3>2, ScheduleOrAbortStep
    <3>4. phase' = "fetching" => candidates' = candidates
      BY <3>1, ScheduleOrAbortCandidates
    <3> QED
      BY <1>3, <3>3, <3>4 DEF Drops
  <2> QED
    BY <2>7, <2>8
<1>4. ASSUME NEW cands, now, ~check_chunk_abort(failed[i], cands)
      PROVE  /\ Failed(chunks[i], p) \in Slot /\ failed \in [Chunk -> Slot]
             /\ failed = [chunks EXCEPT ![i] = Failed(chunks[i], p)]
             /\ failed[i].at = "pending" /\ \A j \in Chunk : j # i => failed[j] = chunks[j]
             /\ Remembered(failed, asked)
             /\ \A j \in Chunk : failed[j].at \in Peer => failed[j].at = chunks[j].at
             /\ \E j \in Chunk : failed[j].at # "received"
  <2>1. /\ failed = [chunks EXCEPT ![i] = Failed(chunks[i], p)]
        /\ failed[i] = Failed(chunks[i], p) /\ \A j \in Chunk : j # i => failed[j] = chunks[j]
    BY <1>1
  <2>2. /\ Failed(chunks[i], p) \in Slot /\ Failed(chunks[i], p).at = "pending"
        /\ Failed(chunks[i], p).tried = chunks[i].tried \cup {p}
    BY <1>4, <2>1, FailedSlot
  <2>3. failed \in [Chunk -> Slot]
    BY <1>1, <2>1, <2>2
  <2>4. Remembered(chunks, asked)
    BY <1>4 DEF FetchInv
  <2> HIDE DEF failed
  <2>5. Remembered(failed, asked)
    <3> SUFFICES ASSUME NEW j \in Chunk, NEW q \in Peer, <<q, j>> \in asked
                 PROVE  q \in failed[j].tried \/ failed[j].at \in {q, "received"}
      BY DEF Remembered
    <3>1. q \in chunks[j].tried \/ chunks[j].at \in {q, "received"}
      BY <2>4 DEF Remembered
    <3> QED
      BY <1>4, <2>1, <2>2, <3>1, NamesDistinct
  <2> QED
    BY <2>1, <2>2, <2>3, <2>5, NamesDistinct
<1>5. CASE now /\ kind = "damaged"
  <2>1. CASE check_chunk_abort(failed[i], trusted)
    <3>1. Finish("aborted", left)
      BY <1>5, <2>1 DEF OnChunkResponse
    <3>2. FetchInv' /\ AskStep
      BY <1>1, <3>1, FinishStep
    <3>3. phase' = "aborted"
      BY <3>1 DEF Finish
    <3> QED
      BY <3>2, <3>3 DEF Drops
  <2>2. CASE ~check_chunk_abort(failed[i], trusted)
    <3>1. schedule_or_abort(trusted, Without(inFlight, p), failed, left)
      BY <1>5, <2>2 DEF OnChunkResponse
    <3>2. /\ failed \in [Chunk -> Slot] /\ Remembered(failed, asked)
          /\ failed[i].at = "pending" /\ \A j \in Chunk : j # i => failed[j] = chunks[j]
          /\ \A j \in Chunk : failed[j].at \in Peer => failed[j].at = chunks[j].at
          /\ \E j \in Chunk : failed[j].at # "received"
      BY <1>4, <1>5, <2>2
    <3> HIDE DEF failed, left
    <3>3. \A j \in Chunk : chunks[j].at # p => failed[j] = chunks[j]
      BY <1>5, <3>2
    <3>4. \A j \in Chunk : chunks[j].at = p => failed[j].at \notin Peer \/ failed[j].at = p
      BY <3>2
    <3>5. Schedulable(trusted, Without(inFlight, p), failed)
      BY <3>2, <3>3, <3>4, WithoutSchedulable
    <3>6. ToSet(trusted) = ToSet(candidates) \ {p}
      BY FetchFacts, LineupRemove
    <3> HIDE DEF trusted
    <3>7. FetchInv' /\ AskStep
      BY <1>1, <3>1, <3>2, <3>5, ScheduleOrAbortStep
    <3>8. phase' = "fetching" => candidates' = trusted
      BY <3>1, ScheduleOrAbortCandidates
    <3> QED
      BY <1>5, <3>6, <3>7, <3>8 DEF Drops
  <2> QED
    BY <2>1, <2>2
<1>6. CASE now /\ kind = "none"
  <2>1. CASE check_chunk_abort(failed[i], candidates)
    <3>1. Finish("aborted", left)
      BY <1>6, <2>1 DEF OnChunkResponse
    <3>2. FetchInv' /\ AskStep
      BY <1>1, <3>1, FinishStep
    <3>3. phase' = "aborted"
      BY <3>1 DEF Finish
    <3> QED
      BY <3>2, <3>3 DEF Drops
  <2>2. CASE ~check_chunk_abort(failed[i], candidates)
    <3>1. schedule_or_abort(candidates, Answered(p), failed, left)
      BY <1>6, <2>2 DEF OnChunkResponse
    <3>2. /\ Failed(chunks[i], p) \in Slot /\ failed = [chunks EXCEPT ![i] = Failed(chunks[i], p)]
          /\ failed[i].at = "pending" /\ Remembered(failed, asked)
          /\ \A j \in Chunk : failed[j].at \in Peer => failed[j].at = chunks[j].at
          /\ \E j \in Chunk : failed[j].at # "received"
      BY <1>4, <1>6, <2>2
    <3>3. Failed(chunks[i], p).at \notin Peer
      BY NamesDistinct DEF Failed
    <3> HIDE DEF failed, left
    <3>4. Schedulable(candidates, Answered(p), failed)
      BY <1>6, <3>2, <3>3, AnsweredSchedulable
    <3>5. FetchInv' /\ AskStep
      BY <1>1, <3>1, <3>2, <3>4, ScheduleOrAbortStep
    <3>6. phase' = "fetching" => candidates' = candidates
      BY <3>1, ScheduleOrAbortCandidates
    <3> QED
      BY <1>6, <3>5, <3>6 DEF Drops
  <2> QED
    BY <2>1, <2>2
<1> QED
  BY <1>2, <1>3, <1>5, <1>6

\* A peer disconnects: it is no candidate, and what was in flight at it failed.
LEMMA DisconnectStep ==
    ASSUME FetchInv, NEW p, OnPeerDisconnected(p)
    PROVE  FetchInv' /\ AskStep /\ Drops({p}) /\ p \in Peer /\ connected' = connected \ {p}
<1> DEFINE left == {r \in open : r[1] # p}
           cands == RemoveFirst(candidates, p)
           lost == {i \in Chunk : chunks[i].at = p}
           failed == [i \in Chunk |-> IF i \in lost THEN Failed(chunks[i], p) ELSE chunks[i]]
<1>1. /\ p \in Peer /\ connected' = connected \ {p} /\ connected' \subseteq Peer
      /\ connected \subseteq Peer /\ observed \subseteq Peer
      /\ primary \in Peer \cup {NoPeer} /\ left \subseteq open /\ chunks \in [Chunk -> Slot]
  BY FetchFacts DEF OnPeerDisconnected
<1>2. CASE phase = "pending" /\ p = primary
  <2>1. Finish("aborted", left)
    BY <1>2 DEF OnPeerDisconnected
  <2>2. FetchInv' /\ AskStep
    BY <1>1, <2>1, FinishStep
  <2>3. phase' = "aborted"
    BY <2>1 DEF Finish
  <2> QED
    BY <1>1, <2>2, <2>3 DEF Drops
<1>3. CASE phase \in {"idle", "pending"} /\ p # primary
  <2>1. /\ open' = left /\ observed' = observed \ {p}
        /\ UNCHANGED <<phase, primary, candidates, inFlight, chunks, asked>>
    BY <1>3 DEF OnPeerDisconnected
  <2>2. FetchInv' /\ AskStep
    BY <1>1, <2>1, AsideStep
  <2> QED
    BY <1>1, <2>1, <2>2 DEF Drops
<1>4. CASE phase = "fetching" /\ Contains(candidates, p)
  <2>1. CASE \E i \in lost : check_chunk_abort(failed[i], cands)
    <3>1. Finish("aborted", left)
      BY <1>4, <2>1 DEF OnPeerDisconnected
    <3>2. FetchInv' /\ AskStep
      BY <1>1, <3>1, FinishStep
    <3>3. phase' = "aborted"
      BY <3>1 DEF Finish
    <3> QED
      BY <1>1, <3>2, <3>3 DEF Drops
  <2>2. CASE ~\E i \in lost : check_chunk_abort(failed[i], cands)
    <3>1. schedule_or_abort(cands, Without(inFlight, p), failed, left)
      BY <1>4, <2>2 DEF OnPeerDisconnected
    <3>2. ASSUME NEW i \in lost
          PROVE  /\ failed[i] \in Slot /\ failed[i].at = "pending"
                 /\ failed[i].tried = chunks[i].tried \cup {p}
      <4>1. failed[i] = Failed(chunks[i], p) /\ i \in Chunk
        BY <3>2
      <4>2. ~check_chunk_abort(Failed(chunks[i], p), cands)
        BY <2>2, <3>2, <4>1
      <4> QED
        BY <1>1, <4>1, <4>2, FailedSlot
    <3>3. \A i \in Chunk : i \notin lost => failed[i] = chunks[i]
      OBVIOUS
    <3>4. \A i \in Chunk : i \in lost <=> chunks[i].at = p
      OBVIOUS
    <3>5. DOMAIN failed = Chunk /\ failed = [i \in Chunk |-> failed[i]]
      OBVIOUS
    <3> HIDE DEF failed, lost, left
    <3>6. failed \in [Chunk -> Slot]
      <4>1. \A i \in Chunk : failed[i] \in Slot
        BY <1>1, <3>2, <3>3
      <4> QED
        BY <3>5, <4>1
    <3>7. Remembered(failed, asked)
      <4> SUFFICES ASSUME NEW j \in Chunk, NEW q \in Peer, <<q, j>> \in asked
                   PROVE  q \in failed[j].tried \/ failed[j].at \in {q, "received"}
        BY DEF Remembered
      <4>1. q \in chunks[j].tried \/ chunks[j].at \in {q, "received"}
        BY <1>4 DEF FetchInv, Remembered
      <4> QED
        BY <1>1, <3>2, <3>3, <3>4, <4>1, NamesDistinct
    <3>8. \A j \in Chunk : failed[j].at \in Peer => failed[j].at = chunks[j].at
      BY <3>2, <3>3, NamesDistinct
    <3>9. Schedulable(cands, Without(inFlight, p), failed)
      <4>1. \A j \in Chunk : chunks[j].at # p => failed[j] = chunks[j]
        BY <3>3, <3>4
      <4>2. \A j \in Chunk : chunks[j].at = p => failed[j].at \notin Peer \/ failed[j].at = p
        BY <3>2, <3>4, NamesDistinct
      <4> QED
        BY <3>6, <4>1, <4>2, WithoutSchedulable
    <3>10. \E j \in Chunk : failed[j].at # "received"
      <4>1. PICK j \in Chunk : chunks[j].at \in Peer
        BY <1>4 DEF FetchInv, NeverIdle
      <4> QED
        BY <3>2, <3>3, <4>1, NamesDistinct
    <3>11. ToSet(cands) = ToSet(candidates) \ {p}
      BY FetchFacts, LineupRemove
    <3> HIDE DEF cands
    <3>12. FetchInv' /\ AskStep
      BY <1>1, <3>1, <3>7, <3>8, <3>9, <3>10, ScheduleOrAbortStep
    <3>13. phase' = "fetching" => candidates' = cands
      BY <3>1, ScheduleOrAbortCandidates
    <3> QED
      BY <1>1, <1>4, <3>11, <3>12, <3>13 DEF Drops
  <2> QED
    BY <2>1, <2>2
<1>5. CASE /\ ~(phase = "pending" /\ p = primary) /\ ~(phase \in {"idle", "pending"} /\ p # primary)
           /\ ~(phase = "fetching" /\ Contains(candidates, p))
  <2>1. open' = left /\ UNCHANGED <<phase, primary, observed, candidates, inFlight, chunks, asked>>
    BY <1>5 DEF OnPeerDisconnected
  <2>2. FetchInv' /\ AskStep
    BY <1>1, <2>1, AsideStep
  <2> QED
    BY <1>1, <2>1, <2>2 DEF Drops
<1> QED
  BY <1>2, <1>3, <1>4, <1>5

\* The start, and a restart
LEMMA FetchInit ==
    ASSUME SyncInit
    PROVE  FetchInv
<1>1. FreshSlot \in Slot /\ FreshSlot.at = "pending"
  BY NamesDistinct DEF FreshSlot, Slot
<1>2. Lineup(<<>>) /\ ToSet(<<>>) = {}
  BY DEF Lineup, ToSet, IsInjective
<1>3. NoCounts \in [{} -> Nat] /\ DOMAIN NoCounts = {}
  BY DEF NoCounts
<1>4. SyncTypeOK
  BY <1>1, <1>2, <1>3 DEF SyncInit, SyncTypeOK, Lineup
<1>5. NeverIdle /\ NoCapacityLeak
  BY <1>3 DEF SyncInit, NeverIdle, NoCapacityLeak
<1> QED
  BY <1>2, <1>3, <1>4, <1>5 DEF SyncInit, FetchInv

LEMMA FetchCrash ==
    ASSUME FetchInv, Crash
    PROVE  FetchInv' /\ AskStep /\ Drops({})
<1>0. connected' = connected /\ connected \subseteq Peer
  BY FetchFacts DEF Crash
<1>1. FreshSlot \in Slot /\ FreshSlot.at = "pending"
  BY NamesDistinct DEF FreshSlot, Slot
<1>2. Lineup(<<>>) /\ ToSet(<<>>) = {}
  BY DEF Lineup, ToSet, IsInjective
<1>3. NoCounts \in [{} -> Nat] /\ DOMAIN NoCounts = {}
  BY DEF NoCounts
<1>4. SyncTypeOK'
  BY <1>0, <1>1, <1>2, <1>3 DEF Crash, SyncTypeOK, Lineup
<1>5. NeverIdle' /\ NoCapacityLeak' /\ AskStep
  BY <1>1, <1>3, NamesDistinct DEF Crash, NeverIdle, NoCapacityLeak, AskStep
<1> QED
  BY <1>2, <1>3, <1>4, <1>5 DEF Crash, FetchInv, Drops

LEMMA FetchStutter ==
    ASSUME FetchInv, UNCHANGED syncVars
    PROVE  FetchInv' /\ AskStep /\ Drops({})
<1>1. connected \subseteq Peer /\ observed \subseteq Peer /\ primary \in Peer \cup {NoPeer}
  BY FetchFacts
<1>2. FetchInv' /\ AskStep
  BY <1>1, AsideStep DEF syncVars
<1> QED
  BY <1>2 DEF Drops, syncVars

-----------------------------------------------------------------------------
(***************************************************************************)
(* A batch, all of whose keys are different.                               *)
(***************************************************************************)
Touched(ops, n) == {ops[j][1] : j \in 1 .. n}
Written(ops, n) == {ops[j][1] : j \in {i \in 1 .. n : ops[i][2] # Gone}}
ValueIn(ops, k) == ops[CHOOSE j \in 1 .. Len(ops) : ops[j][1] = k][2]
KeysDiffer(ops) ==
    Len(ops) \in Nat /\ \A i, j \in 1 .. Len(ops) : ops[i][1] = ops[j][1] => i = j

\* The store after the first n operations of the batch
After(kv, ops, n) ==
    [k \in (DOMAIN kv \ Touched(ops, n)) \cup Written(ops, n) |->
        IF k \in Touched(ops, n) THEN ValueIn(ops, k) ELSE kv[k]]

LEMMA AfterOne ==
    ASSUME NEW kv, NEW ops, KeysDiffer(ops), NEW n \in 1 .. Len(ops)
    PROVE  After(kv, ops, n) = apply_op(After(kv, ops, n - 1), ops[n])
<1> DEFINE key == ops[n][1]
           old == After(kv, ops, n - 1)
<1>1. /\ n \in Nat /\ n - 1 \in Nat /\ Len(ops) \in Nat
      /\ \A j : j \in 1 .. n <=> (j \in 1 .. n - 1 \/ j = n)
      /\ \A j \in 1 .. n : j \in 1 .. Len(ops)
  BY DEF KeysDiffer
<1>2. Touched(ops, n) = Touched(ops, n - 1) \cup {key}
  BY <1>1 DEF Touched
<1>3. Written(ops, n) = Written(ops, n - 1) \cup (IF ops[n][2] # Gone THEN {key} ELSE {})
  BY <1>1 DEF Written
<1>4. key \notin Touched(ops, n - 1) /\ Written(ops, n - 1) \subseteq Touched(ops, n - 1)
  BY <1>1 DEF Touched, Written, KeysDiffer
<1>5. ValueIn(ops, key) = ops[n][2]
  <2>1. n \in 1 .. Len(ops) /\ \A j \in 1 .. Len(ops) : ops[j][1] = key <=> j = n
    BY <1>1 DEF KeysDiffer
  <2>2. (CHOOSE j \in 1 .. Len(ops) : ops[j][1] = key) = n
    BY <2>1
  <2> QED
    BY <2>2 DEF ValueIn
<1>6. DOMAIN old = (DOMAIN kv \ Touched(ops, n - 1)) \cup Written(ops, n - 1)
      /\ \A k \in DOMAIN old : old[k] = IF k \in Touched(ops, n - 1) THEN ValueIn(ops, k) ELSE kv[k]
  BY DEF After
<1>7. After(kv, ops, n) = [k \in (DOMAIN kv \ Touched(ops, n)) \cup Written(ops, n) |->
                              IF k \in Touched(ops, n) THEN ValueIn(ops, k) ELSE kv[k]]
  BY DEF After
<1> HIDE DEF key, old
<1>8. CASE ops[n][2] = Gone
  <2>1. apply_op(old, ops[n]) = [k \in DOMAIN old \ {key} |-> old[k]]
    BY <1>8 DEF apply_op, delete, Restrict, key
  <2>2. (DOMAIN kv \ Touched(ops, n)) \cup Written(ops, n) = DOMAIN old \ {key}
    BY <1>2, <1>3, <1>4, <1>6, <1>8
  <2>3. \A k \in DOMAIN old \ {key} :
           old[k] = IF k \in Touched(ops, n) THEN ValueIn(ops, k) ELSE kv[k]
    BY <1>2, <1>6
  <2> QED
    BY <1>7, <2>1, <2>2, <2>3 DEF old
<1>9. CASE ops[n][2] # Gone
  <2>1. apply_op(old, ops[n]) = [k \in DOMAIN old \cup {key} |-> IF k = key THEN ops[n][2] ELSE old[k]]
    BY <1>9 DEF apply_op, put, key
  <2>2. (DOMAIN kv \ Touched(ops, n)) \cup Written(ops, n) = DOMAIN old \cup {key}
    BY <1>2, <1>3, <1>4, <1>6, <1>9
  <2>3. \A k \in DOMAIN old \cup {key} :
           (IF k = key THEN ops[n][2] ELSE old[k])
              = IF k \in Touched(ops, n) THEN ValueIn(ops, k) ELSE kv[k]
    BY <1>2, <1>4, <1>5, <1>6
  <2> QED
    BY <1>7, <2>1, <2>2, <2>3 DEF old
<1> QED
  BY <1>8, <1>9

\* What a batch comes to
LEMMA Batch ==
    ASSUME NEW kv, kv = [k \in DOMAIN kv |-> kv[k]], NEW ops, KeysDiffer(ops)
    PROVE  apply_batch(kv, ops) = After(kv, ops, Len(ops))
<1> DEFINE N == Len(ops)
           g == [n \in 0 .. N |-> After(kv, ops, n)]
           after == CHOOSE h : h = [n \in 0 .. N |->
                        IF n = 0 THEN kv ELSE apply_op(h[n - 1], ops[n])]
<1>1. N \in Nat
  BY DEF KeysDiffer
<1>2. apply_batch(kv, ops) = after[N]
  BY Zenon DEF apply_batch
<1>3. After(kv, ops, 0) = kv
  <2>1. Touched(ops, 0) = {} /\ Written(ops, 0) = {}
    BY DEF Touched, Written
  <2> QED
    BY <2>1 DEF After
<1>4. \A n \in 0 .. N : n # 0 => n - 1 \in 0 .. N /\ n \in 1 .. N
  BY <1>1
<1>4a. \A n \in 1 .. N : After(kv, ops, n) = apply_op(After(kv, ops, n - 1), ops[n])
  BY AfterOne
<1> HIDE DEF N
<1>5. g = [n \in 0 .. N |-> IF n = 0 THEN kv ELSE apply_op(g[n - 1], ops[n])]
  <2>1. \A n \in 0 .. N : g[n] = IF n = 0 THEN kv ELSE apply_op(g[n - 1], ops[n])
    BY <1>3, <1>4, <1>4a
  <2> QED
    BY <2>1
<1>6. after = [n \in 0 .. N |-> IF n = 0 THEN kv ELSE apply_op(after[n - 1], ops[n])]
  <2> HIDE DEF g
  <2> QED
    BY <1>5, Zenon
<1> HIDE DEF after
<1>7. after[0] = g[0]
  BY <1>1, <1>3, <1>6
<1>8. ASSUME NEW k \in 0 .. N - 1, after[k] = g[k]
      PROVE  after[k + 1] = g[k + 1]
  <2>1. k + 1 \in 0 .. N /\ k + 1 # 0 /\ (k + 1) - 1 = k
    BY <1>1
  <2> HIDE DEF g
  <2>2. after[k + 1] = apply_op(after[k], ops[k + 1])
    BY <1>6, <2>1
  <2>3. g[k + 1] = apply_op(g[k], ops[k + 1])
    BY <1>5, <2>1
  <2> QED
    BY <1>8, <2>2, <2>3
<1>9. after[N] = g[N]
  <2> HIDE DEF g
  <2> QED
    BY <1>1, <1>7, <1>8, Recursion!Agree
<1> QED
  BY <1>1, <1>2, <1>9 DEF N

\* A sequence between two elements
LEMMA Between ==
    ASSUME NEW X, NEW a \in X, NEW b \in X, NEW s \in Seq(X)
    PROVE  LET t == <<a>> \o s \o <<b>> IN
           /\ Len(s) \in Nat /\ Len(t) = Len(s) + 2 /\ t[1] = a /\ t[Len(s) + 2] = b
           /\ \A j \in 1 .. Len(s) : t[j + 1] = s[j]
<1> DEFINE u == <<a>> \o s
           n == Len(s)
<1>1. <<a>> \in Seq(X) /\ Len(<<a>>) = 1 /\ <<b>> \in Seq(X) /\ Len(<<b>>) = 1 /\ n \in Nat
  OBVIOUS
<1>2. u \in Seq(X) /\ Len(u) = n + 1 /\ u[1] = a
  BY <1>1
<1>3. \A j \in 1 .. n : u[j + 1] = s[j]
  BY <1>1
<1> HIDE DEF u
<1>4. Len(u \o <<b>>) = n + 2 /\ (u \o <<b>>)[n + 2] = b
      /\ \A j \in 1 .. n + 1 : (u \o <<b>>)[j] = u[j]
  BY <1>1, <1>2
<1>5. 1 \in 1 .. n + 1 /\ \A j \in 1 .. n : j + 1 \in 1 .. n + 1
  BY <1>1
<1> QED
  BY <1>1, <1>2, <1>3, <1>4, <1>5 DEF u

-----------------------------------------------------------------------------
(***************************************************************************)
(* The store of a node that has the snapshots of the heights K, the latest *)
(* one of height t, where M has the manifest of each height.               *)
(***************************************************************************)
ChunkKeys(K) == {chunk_key(h, i) : h \in K, i \in Chunk}
Keys(K) == {manifest_key(h) : h \in K} \cup {chunk_key(h, i) : h \in K, i \in Chunk}
               \cup (IF K = {} THEN {} ELSE {latest_key})
Held(t, M, k) ==
    IF k[1] = "latest" THEN t ELSE IF k[1] = "manifest" THEN M[k[2]] ELSE <<k[2], k[3]>>
Holding(K, t, M) == [k \in Keys(K) |-> Held(t, M, k)]

\* What M has for a height is a manifest of it.
Catalogue(M) == \A h \in 1 .. MaxHeight : M[h].height = h /\ M[h] # Gone

LEMMA KeyFacts ==
    ASSUME NEW h, NEW i
    PROVE  /\ manifest_key(h)[1] = "manifest" /\ manifest_key(h)[2] = h /\ Len(manifest_key(h)) = 2
           /\ chunk_key(h, i)[1] = "chunk" /\ chunk_key(h, i)[2] = h /\ chunk_key(h, i)[3] = i
           /\ Len(chunk_key(h, i)) = 3
           /\ latest_key[1] = "latest" /\ Len(latest_key) = 1
BY DEF manifest_key, chunk_key, latest_key

LEMMA HoldingFacts ==
    ASSUME NEW K, NEW t, NEW M
    PROVE  /\ DOMAIN Holding(K, t, M) = Keys(K)
           /\ Holding(K, t, M) = [k \in Keys(K) |-> Holding(K, t, M)[k]]
           /\ \A h : manifest_key(h) \in Keys(K) <=> h \in K
           /\ \A h, i : chunk_key(h, i) \in Keys(K) <=> h \in K /\ i \in Chunk
           /\ latest_key \in Keys(K) <=> K # {}
           /\ \A h \in K : Holding(K, t, M)[manifest_key(h)] = M[h]
           /\ \A h \in K, i \in Chunk : Holding(K, t, M)[chunk_key(h, i)] = <<h, i>>
           /\ K # {} => Holding(K, t, M)[latest_key] = t
<1>1. /\ DOMAIN Holding(K, t, M) = Keys(K)
      /\ \A k \in Keys(K) : Holding(K, t, M)[k] = Held(t, M, k)
      /\ Holding(K, t, M) = [k \in Keys(K) |-> Holding(K, t, M)[k]]
  BY DEF Holding
<1>2. \A h : manifest_key(h) \in Keys(K) <=> h \in K
  BY KeyFacts DEF Keys
<1>3. \A h, i : chunk_key(h, i) \in Keys(K) <=> h \in K /\ i \in Chunk
  BY KeyFacts DEF Keys
<1>4. latest_key \in Keys(K) <=> K # {}
  BY KeyFacts DEF Keys
<1>5. \A h \in K : Held(t, M, manifest_key(h)) = M[h]
  BY KeyFacts DEF Held
<1>6. \A h \in K, i \in Chunk : Held(t, M, chunk_key(h, i)) = <<h, i>>
  BY KeyFacts DEF Held
<1>7. Held(t, M, latest_key) = t
  BY KeyFacts DEF Held
<1> QED
  BY <1>1, <1>2, <1>3, <1>4, <1>5, <1>6, <1>7

LEMMA PrefixOne ==
    ASSUME NEW a, NEW X, NEW k \in Seq(X), Len(k) >= 1
    PROVE  IsPrefix(<<a>>, k) <=> k[1] = a
<1>1. Len(<<a>>) = 1 /\ <<a>>[1] = a /\ <<a>> \in Seq({a})
  OBVIOUS
<1>1a. \A i \in 1 .. 1 : <<a>>[i] \in {a}
  BY <1>1
<1>1b. SubSeq(<<a>>, 1, 1) \in Seq({a}) /\ Len(SubSeq(<<a>>, 1, 1)) = 1 /\ SubSeq(<<a>>, 1, 1)[1] = a
  BY <1>1, <1>1a, SubSeqProperties
<1>2. Len(k) \in Nat /\ k[1] \in X
  OBVIOUS
<1>3. \A i \in 1 .. 1 : k[i] \in X
  BY <1>2
<1>4. SubSeq(k, 1, 1) \in Seq(X) /\ Len(SubSeq(k, 1, 1)) = 1 /\ SubSeq(k, 1, 1)[1] = k[1]
  BY <1>3, SubSeqProperties
<1>5. SubSeq(<<a>>, 1, 1) = SubSeq(k, 1, 1) <=> k[1] = a
  <2>1. ASSUME k[1] = a
        PROVE  SubSeq(<<a>>, 1, 1) = SubSeq(k, 1, 1)
    <3>1. \A i \in 1 .. 1 : SubSeq(<<a>>, 1, 1)[i] = SubSeq(k, 1, 1)[i]
      BY <1>1b, <1>4, <2>1
    <3> QED
      BY <1>1b, <1>4, <3>1, SeqEqual
  <2> QED
    BY <1>1b, <1>4, <2>1
<1> QED
  BY <1>1, <1>2, <1>5 DEF IsPrefix

LEMMA PrefixTwo ==
    ASSUME NEW a, NEW b, NEW X, NEW k \in Seq(X)
    PROVE  IsPrefix(<<a, b>>, k) <=> Len(k) >= 2 /\ k[1] = a /\ k[2] = b
<1> DEFINE s == <<a, b>>
<1>1. Len(s) = 2 /\ s[1] = a /\ s[2] = b
  OBVIOUS
<1>1a. \A i \in 1 .. 2 : s[i] \in {a, b}
  BY <1>1
<1> HIDE DEF s
<1>1b. /\ SubSeq(s, 1, 2) \in Seq({a, b}) /\ Len(SubSeq(s, 1, 2)) = 2
       /\ SubSeq(s, 1, 2)[1] = a /\ SubSeq(s, 1, 2)[2] = b
  <2>1. /\ SubSeq(s, 1, 2) \in Seq({a, b}) /\ Len(SubSeq(s, 1, 2)) = IF 1 <= 2 THEN 2 - 1 + 1 ELSE 0
        /\ \A i \in 1 .. 2 - 1 + 1 : SubSeq(s, 1, 2)[i] = s[1 + i - 1]
    BY <1>1a, SubSeqProperties
  <2> QED
    BY <1>1, <2>1
<1>2. CASE Len(k) >= 2
  <2>2. Len(k) \in Nat /\ k[1] \in X /\ k[2] \in X
    BY <1>2
  <2>3. \A i \in 1 .. 2 : k[i] \in X
    BY <2>2
  <2>4. /\ SubSeq(k, 1, 2) \in Seq(X) /\ Len(SubSeq(k, 1, 2)) = 2
        /\ SubSeq(k, 1, 2)[1] = k[1] /\ SubSeq(k, 1, 2)[2] = k[2]
    <3>1. /\ SubSeq(k, 1, 2) \in Seq(X) /\ Len(SubSeq(k, 1, 2)) = IF 1 <= 2 THEN 2 - 1 + 1 ELSE 0
          /\ \A i \in 1 .. 2 - 1 + 1 : SubSeq(k, 1, 2)[i] = k[1 + i - 1]
      BY <2>3, SubSeqProperties
    <3> QED
      BY <3>1
  <2>5. SubSeq(s, 1, 2) = SubSeq(k, 1, 2) <=> k[1] = a /\ k[2] = b
    <3>1. ASSUME k[1] = a, k[2] = b
          PROVE  SubSeq(s, 1, 2) = SubSeq(k, 1, 2)
      <4>1. \A i \in 1 .. 2 : SubSeq(s, 1, 2)[i] = SubSeq(k, 1, 2)[i]
        BY <1>1b, <2>4, <3>1
      <4> QED
        BY <1>1b, <2>4, <4>1, SeqEqual
    <3> QED
      BY <1>1b, <2>4, <3>1
  <2> QED
    BY <1>1, <1>2, <2>2, <2>5 DEF IsPrefix, s
<1>3. CASE ~(Len(k) >= 2)
  <2>1. Len(k) \in Nat
    OBVIOUS
  <2> QED
    BY <1>1, <1>3, <2>1 DEF IsPrefix, s
<1> QED
  BY <1>2, <1>3

\* What the scans find
LEMMA Scans ==
    ASSUME NEW K, NEW t, NEW M
    PROVE  /\ list_heights(Holding(K, t, M)) = K
           /\ \A h : scan_prefix(Holding(K, t, M), <<"chunk", h>>)
                        = ChunkKeys(K \cap {h})
           /\ scan_prefix(Holding(K, t, M), <<"chunk">>) = ChunkKeys(K)
<1> DEFINE kv == Holding(K, t, M)
<1>1. DOMAIN kv = Keys(K)
  BY HoldingFacts
<1>2. \A h : manifest_key(h) \in Seq({"manifest", h})
  BY DEF manifest_key
<1>3. \A h, i : chunk_key(h, i) \in Seq({"chunk", h, i})
  BY DEF chunk_key
<1>4. latest_key \in Seq({"latest"})
  BY DEF latest_key
<1>5. ASSUME NEW a
      PROVE  /\ \A h : IsPrefix(<<a>>, manifest_key(h)) <=> a = "manifest"
             /\ \A h, i : IsPrefix(<<a>>, chunk_key(h, i)) <=> a = "chunk"
             /\ IsPrefix(<<a>>, latest_key) <=> a = "latest"
  <2>1. ASSUME NEW h
        PROVE  IsPrefix(<<a>>, manifest_key(h)) <=> a = "manifest"
    <3>1. Len(manifest_key(h)) >= 1 /\ manifest_key(h)[1] = "manifest"
      BY KeyFacts
    <3> QED
      BY <1>2, <3>1, PrefixOne
  <2>2. ASSUME NEW h, NEW i
        PROVE  IsPrefix(<<a>>, chunk_key(h, i)) <=> a = "chunk"
    <3>1. Len(chunk_key(h, i)) >= 1 /\ chunk_key(h, i)[1] = "chunk"
      BY KeyFacts
    <3> QED
      BY <1>3, <3>1, PrefixOne
  <2>3. IsPrefix(<<a>>, latest_key) <=> a = "latest"
    <3>1. Len(latest_key) >= 1 /\ latest_key[1] = "latest"
      BY KeyFacts
    <3> QED
      BY <1>4, <3>1, PrefixOne
  <2> QED
    BY <2>1, <2>2, <2>3
<1>6. ASSUME NEW b
      PROVE  /\ \A h : ~IsPrefix(<<"chunk", b>>, manifest_key(h))
             /\ \A h, i : IsPrefix(<<"chunk", b>>, chunk_key(h, i)) <=> b = h
             /\ ~IsPrefix(<<"chunk", b>>, latest_key)
  <2>1. ASSUME NEW h
        PROVE  ~IsPrefix(<<"chunk", b>>, manifest_key(h))
    <3>1. manifest_key(h)[1] # "chunk"
      BY KeyFacts
    <3>2. manifest_key(h) \in Seq({"manifest", h})
      BY <1>2
    <3>3. IsPrefix(<<"chunk", b>>, manifest_key(h)) => manifest_key(h)[1] = "chunk"
      BY <3>2, PrefixTwo
    <3> QED
      BY <3>1, <3>3
  <2>2. ASSUME NEW h, NEW i
        PROVE  IsPrefix(<<"chunk", b>>, chunk_key(h, i)) <=> b = h
    <3>1. Len(chunk_key(h, i)) >= 2 /\ chunk_key(h, i)[1] = "chunk" /\ chunk_key(h, i)[2] = h
      BY KeyFacts
    <3>2. chunk_key(h, i) \in Seq({"chunk", h, i})
      BY <1>3
    <3>3. IsPrefix(<<"chunk", b>>, chunk_key(h, i)) <=> Len(chunk_key(h, i)) >= 2
             /\ chunk_key(h, i)[1] = "chunk" /\ chunk_key(h, i)[2] = b
      BY <3>2, PrefixTwo
    <3> QED
      BY <3>1, <3>3
  <2>3. ~IsPrefix(<<"chunk", b>>, latest_key)
    <3>1. latest_key[1] # "chunk"
      BY KeyFacts
    <3> QED
      BY <1>4, <3>1, PrefixTwo
  <2> QED
    BY <2>1, <2>2, <2>3
<1>7. scan_prefix(kv, <<"manifest">>) = {manifest_key(h) : h \in K}
  BY <1>1, <1>5 DEF scan_prefix, Keys
<1>8. scan_prefix(kv, <<"chunk">>) = ChunkKeys(K)
  BY <1>1, <1>5 DEF scan_prefix, Keys, ChunkKeys
<1>9. ASSUME NEW h
      PROVE  scan_prefix(kv, <<"chunk", h>>) = ChunkKeys(K \cap {h})
  BY <1>1, <1>6 DEF scan_prefix, Keys, ChunkKeys
<1>10. list_heights(kv) = K
  <2>1. \A h : manifest_key(h)[2] = h
    BY KeyFacts
  <2> HIDE DEF kv
  <2> QED
    BY <1>7, <2>1 DEF list_heights
<1> QED
  BY <1>8, <1>9, <1>10

\* SetToSeq lists the set.
LEMMA Listing ==
    ASSUME NEW S, IsFiniteSet(S)
    PROVE  /\ SetToSeq(S) \in Seq(S) /\ Len(SetToSeq(S)) \in Nat
           /\ \A i, j \in 1 .. Len(SetToSeq(S)) : SetToSeq(S)[i] = SetToSeq(S)[j] => i = j
           /\ S = {SetToSeq(S)[j] : j \in 1 .. Len(SetToSeq(S))}
<1> DEFINE n == Cardinality(S)
           f == SetToSeq(S)
<1>1. n \in Nat /\ ExistsBijection(1 .. n, S)
  BY FS_CardinalityType
<1>2. \E g \in [1 .. n -> S] : IsInjective(g)
  BY <1>1 DEF ExistsBijection, Bijection, Injection
<1>3. f \in [1 .. n -> S] /\ IsInjective(f)
  BY <1>2 DEF SetToSeq
<1> HIDE DEF f
<1>4. f \in Seq(S) /\ Len(f) = n
  BY <1>1, <1>3
<1> DEFINE T == {f[j] : j \in 1 .. n}
<1>5. T = S
  <2>1. T \subseteq S
    BY <1>3
  <2>2. f \in Surjection(1 .. n, T) /\ f \in Injection(1 .. n, T)
    BY <1>3 DEF Surjection, Injection
  <2>3. IsFiniteSet(1 .. n) /\ Cardinality(1 .. n) = n
    BY <1>1, FS_Interval
  <2> HIDE DEF T
  <2>4. Cardinality(T) = Cardinality(1 .. n)
    BY <2>2, <2>3, FS_Surjection
  <2> QED
    BY <2>1, <2>3, <2>4, FS_Subset
<1> QED
  BY <1>1, <1>3, <1>4, <1>5 DEF IsInjective, f

LEMMA ValueAt ==
    ASSUME NEW ops, KeysDiffer(ops), NEW n \in 1 .. Len(ops)
    PROVE  ValueIn(ops, ops[n][1]) = ops[n][2]
<1> DEFINE key == ops[n][1]
<1>1. n \in 1 .. Len(ops) /\ \A j \in 1 .. Len(ops) : ops[j][1] = key <=> j = n
  BY DEF KeysDiffer
<1>2. (CHOOSE j \in 1 .. Len(ops) : ops[j][1] = key) = n
  BY <1>1
<1> QED
  BY <1>2 DEF ValueIn

\* What a batch ops of an operation a, those of s, and b comes to
Comes(ops, a, b, s) ==
    /\ KeysDiffer(ops)
    /\ Touched(ops, Len(ops)) = {a[1], b[1]} \cup {s[j][1] : j \in 1 .. Len(s)}
    /\ \A k : k \in Written(ops, Len(ops)) <=>
          \/ k = a[1] /\ a[2] # Gone
          \/ k = b[1] /\ b[2] # Gone
          \/ \E j \in 1 .. Len(s) : s[j][2] # Gone /\ k = s[j][1]
    /\ ValueIn(ops, a[1]) = a[2] /\ ValueIn(ops, b[1]) = b[2]
    /\ \A j \in 1 .. Len(s) : ValueIn(ops, s[j][1]) = s[j][2]

\* A batch as save and delete build it
LEMMA BatchBetween ==
    ASSUME NEW X, NEW a \in X, NEW b \in X, NEW s \in Seq(X), a[1] # b[1],
           \A i, j \in 1 .. Len(s) : s[i][1] = s[j][1] => i = j,
           \A j \in 1 .. Len(s) : s[j][1] # a[1] /\ s[j][1] # b[1],
           NEW ops, ops = <<a>> \o s \o <<b>>
    PROVE  Comes(ops, a, b, s)
<1> DEFINE n == Len(s)
<1>1. /\ n \in Nat /\ Len(ops) = n + 2 /\ ops[1] = a /\ ops[n + 2] = b
      /\ \A j \in 1 .. n : ops[j + 1] = s[j]
  BY Between
<1>2. /\ 1 \in 1 .. Len(ops) /\ n + 2 \in 1 .. Len(ops)
      /\ \A j \in 1 .. n : j + 1 \in 1 .. Len(ops)
  BY <1>1
<1>3. \A i \in 1 .. Len(ops) : i = 1 \/ i = n + 2 \/ (i - 1 \in 1 .. n /\ i = (i - 1) + 1)
  BY <1>1
<1>3a. /\ \A i, j \in 1 .. n : s[i][1] = s[j][1] => i = j
       /\ \A j \in 1 .. n : s[j][1] # a[1] /\ s[j][1] # b[1]
  OBVIOUS
<1> HIDE DEF n
<1>4. \A i \in 1 .. Len(ops) : \/ i = 1 /\ ops[i] = a
                               \/ i = n + 2 /\ ops[i] = b
                               \/ \E j \in 1 .. n : i = j + 1 /\ ops[i] = s[j]
  <2>1. ASSUME NEW i \in 1 .. Len(ops), i - 1 \in 1 .. n, i = (i - 1) + 1
        PROVE  \E j \in 1 .. n : i = j + 1 /\ ops[i] = s[j]
    <3>1. ops[(i - 1) + 1] = s[i - 1]
      BY <1>1, <2>1
    <3> QED
      BY <2>1, <3>1
  <2> SUFFICES ASSUME NEW i \in 1 .. Len(ops)
               PROVE  \/ i = 1 /\ ops[i] = a
                      \/ i = n + 2 /\ ops[i] = b
                      \/ \E j \in 1 .. n : i = j + 1 /\ ops[i] = s[j]
    OBVIOUS
  <2>2. CASE i = 1
    BY <1>1, <2>2
  <2>3. CASE i = n + 2
    BY <1>1, <2>3
  <2> QED
    BY <1>3, <2>1, <2>2, <2>3
<1>5. KeysDiffer(ops)
  <2> SUFFICES ASSUME NEW i \in 1 .. Len(ops), NEW j \in 1 .. Len(ops), ops[i][1] = ops[j][1]
               PROVE  i = j
    BY <1>1 DEF KeysDiffer
  <2>1. CASE ops[i] = a /\ i = 1
    BY <1>3a, <1>4, <2>1
  <2>2. CASE ops[i] = b /\ i = n + 2
    BY <1>3a, <1>4, <2>2
  <2>3. ASSUME NEW x \in 1 .. n, i = x + 1, ops[i] = s[x]
        PROVE  i = j
    BY <1>3a, <1>4, <2>3
  <2> QED
    BY <1>4, <2>1, <2>2, <2>3
<1>6. Touched(ops, Len(ops)) = {a[1], b[1]} \cup {s[j][1] : j \in 1 .. n}
  <2>1. \A i \in 1 .. Len(ops) : ops[i][1] \in {a[1], b[1]} \cup {s[j][1] : j \in 1 .. n}
    BY <1>1, <1>4
  <2>2. /\ \E i \in 1 .. Len(ops) : a[1] = ops[i][1]
        /\ \E i \in 1 .. Len(ops) : b[1] = ops[i][1]
        /\ \A j \in 1 .. n : \E i \in 1 .. Len(ops) : s[j][1] = ops[i][1]
    BY <1>1, <1>2
  <2>3. Touched(ops, Len(ops)) \subseteq {a[1], b[1]} \cup {s[j][1] : j \in 1 .. n}
    BY <2>1, Zenon DEF Touched
  <2>4. {a[1], b[1]} \cup {s[j][1] : j \in 1 .. n} \subseteq Touched(ops, Len(ops))
    <3>1. \A i \in 1 .. Len(ops) : ops[i][1] \in Touched(ops, Len(ops))
      BY DEF Touched
    <3>2. \A j \in 1 .. n : s[j][1] \in Touched(ops, Len(ops))
      BY <2>2, <3>1
    <3> QED
      BY <2>2, <3>1, <3>2
  <2> QED
    BY <2>3, <2>4, Zenon
<1>7. ASSUME NEW k
      PROVE  k \in Written(ops, Len(ops)) <=>
                 \/ k = a[1] /\ a[2] # Gone
                 \/ k = b[1] /\ b[2] # Gone
                 \/ \E j \in 1 .. n : s[j][2] # Gone /\ k = s[j][1]
  <2>1. k \in Written(ops, Len(ops)) <=> \E i \in 1 .. Len(ops) : ops[i][2] # Gone /\ k = ops[i][1]
    BY DEF Written
  <2>2. ASSUME k \in Written(ops, Len(ops))
        PROVE  \/ k = a[1] /\ a[2] # Gone
               \/ k = b[1] /\ b[2] # Gone
               \/ \E j \in 1 .. n : s[j][2] # Gone /\ k = s[j][1]
    <3>1. PICK i \in 1 .. Len(ops) : ops[i][2] # Gone /\ k = ops[i][1]
      BY <2>1, <2>2
    <3> QED
      BY <1>4, <3>1, Zenon
  <2>3. ASSUME k = a[1], a[2] # Gone
        PROVE  k \in Written(ops, Len(ops))
    BY <1>1, <1>2, <2>1, <2>3, Zenon
  <2>4. ASSUME k = b[1], b[2] # Gone
        PROVE  k \in Written(ops, Len(ops))
    BY <1>1, <1>2, <2>1, <2>4, Zenon
  <2>5. ASSUME NEW j \in 1 .. n, s[j][2] # Gone, k = s[j][1]
        PROVE  k \in Written(ops, Len(ops))
    BY <1>1, <1>2, <2>1, <2>5, Zenon
  <2> QED
    BY <2>2, <2>3, <2>4, <2>5, Zenon
<1>8. \A i \in 1 .. Len(ops) : ValueIn(ops, ops[i][1]) = ops[i][2]
  BY <1>5, ValueAt
<1>9. ValueIn(ops, a[1]) = a[2] /\ ValueIn(ops, b[1]) = b[2]
  BY <1>1, <1>2, <1>8
<1>10. ASSUME NEW j \in 1 .. n
       PROVE  ValueIn(ops, s[j][1]) = s[j][2]
  <2>1. ops[j + 1] = s[j] /\ j + 1 \in 1 .. Len(ops)
    BY <1>1, <1>2
  <2> QED
    BY <1>8, <2>1
<1> QED
  BY <1>5, <1>6, <1>7, <1>9, <1>10 DEF n, Comes

LEMMA ValuesAreThere ==
    /\ \A h \in 1 .. MaxHeight : h # Gone
    /\ \A h \in 1 .. MaxHeight, i \in Chunk : <<h, i>> # Gone
    /\ MaxHeight \in Nat
BY RestoreConstants DEF Height

LEMMA SaveHolding ==
    ASSUME NEW K \in SUBSET (1 .. MaxHeight), NEW t, NEW M, Catalogue(M), NEW h \in 1 .. MaxHeight
    PROVE  save(Holding(K, t, M), M[h], chunk_snapshot(h)) = Holding(K \cup {h}, h, M)
<1> DEFINE kv == Holding(K, t, M)
           a == <<manifest_key(h), M[h]>>
           b == <<latest_key, h>>
           s == [i \in Chunk |-> <<chunk_key(h, i), <<h, i>>>>]
           ops == <<a>> \o s \o <<b>>
           X == {a, b} \cup {s[i] : i \in Chunk}
<1>1. M[h].height = h /\ M[h] # Gone /\ h # Gone /\ \A i \in Chunk : <<h, i>> # Gone
  BY ValuesAreThere DEF Catalogue
<1>2. save(kv, M[h], chunk_snapshot(h)) = apply_batch(kv, ops)
  <2>1. s = [i \in Chunk |-> <<chunk_key(h, i), chunk_snapshot(h)[i]>>]
    BY DEF chunk_snapshot
  <2> HIDE DEF kv, s
  <2> QED
    BY <1>1, <2>1 DEF save
<1>3. s \in Seq(X) /\ Len(s) = ChunkCount /\ 1 .. Len(s) = Chunk
  <2>1. ChunkCount \in Nat
    BY StoreConstants
  <2>2. s \in [1 .. ChunkCount -> X]
    BY DEF Chunk
  <2> HIDE DEF s, X
  <2> QED
    BY <2>1, <2>2 DEF Chunk
<1>4. a \in X /\ b \in X /\ \A i \in Chunk : s[i][1] = chunk_key(h, i) /\ s[i][2] = <<h, i>>
  OBVIOUS
<1>5. a[1] = manifest_key(h) /\ a[2] = M[h] /\ b[1] = latest_key /\ b[2] = h
  OBVIOUS
<1>5a. ops = <<a>> \o s \o <<b>>
  OBVIOUS
<1> HIDE DEF s, X, a, b, ops
<1>6. /\ a[1] # b[1] /\ \A i, j \in 1 .. Len(s) : s[i][1] = s[j][1] => i = j
      /\ \A j \in 1 .. Len(s) : s[j][1] # a[1] /\ s[j][1] # b[1]
  BY <1>3, <1>4, <1>5, KeyFacts
<1>7. /\ KeysDiffer(ops)
      /\ Touched(ops, Len(ops)) = {a[1], b[1]} \cup {s[j][1] : j \in 1 .. Len(s)}
      /\ \A k : k \in Written(ops, Len(ops)) <=>
            \/ k = a[1] /\ a[2] # Gone
            \/ k = b[1] /\ b[2] # Gone
            \/ \E j \in 1 .. Len(s) : s[j][2] # Gone /\ k = s[j][1]
      /\ ValueIn(ops, a[1]) = a[2] /\ ValueIn(ops, b[1]) = b[2]
      /\ \A j \in 1 .. Len(s) : ValueIn(ops, s[j][1]) = s[j][2]
  <2>1. Comes(ops, a, b, s)
    BY <1>3, <1>4, <1>5a, <1>6, BatchBetween, Zenon
  <2> QED
    BY <2>1, Zenon DEF Comes
<1>8. apply_batch(kv, ops) = After(kv, ops, Len(ops))
  BY <1>7, Batch, HoldingFacts
<1> DEFINE T == Keys({h})
<1>9. T = {manifest_key(h), latest_key} \cup {chunk_key(h, i) : i \in Chunk}
  BY DEF Keys
<1> HIDE DEF T
<1>10. Touched(ops, Len(ops)) = T
  BY <1>3, <1>4, <1>5, <1>7, <1>9
<1>11. Written(ops, Len(ops)) = T
  <2>1. \A k : k \in Written(ops, Len(ops)) <=>
           k = manifest_key(h) \/ k = latest_key \/ \E j \in Chunk : k = chunk_key(h, j)
    <3> SUFFICES ASSUME NEW k
                 PROVE  k \in Written(ops, Len(ops)) <=>
           k = manifest_key(h) \/ k = latest_key \/ \E j \in Chunk : k = chunk_key(h, j)
      OBVIOUS
    <3>1. (\E j \in 1 .. Len(s) : s[j][2] # Gone /\ k = s[j][1]) <=> \E j \in Chunk : k = chunk_key(h, j)
      BY <1>1, <1>3, <1>4
    <3> QED
      BY <1>1, <1>5, <1>7, <3>1
  <2> QED
    BY <1>9, <2>1
<1>12. ASSUME NEW k \in T
       PROVE  ValueIn(ops, k) = Held(h, M, k)
  <2>1. Held(h, M, manifest_key(h)) = M[h] /\ Held(h, M, latest_key) = h
        /\ \A i \in Chunk : Held(h, M, chunk_key(h, i)) = <<h, i>>
    BY KeyFacts DEF Held
  <2>2. CASE k = manifest_key(h)
    BY <1>5, <1>7, <2>1, <2>2
  <2>3. CASE k = latest_key
    BY <1>5, <1>7, <2>1, <2>3
  <2>4. ASSUME NEW i \in Chunk, k = chunk_key(h, i)
        PROVE  ValueIn(ops, k) = Held(h, M, k)
    <3>1. ValueIn(ops, chunk_key(h, i)) = <<h, i>>
      BY <1>3, <1>4, <1>7, Zenon
    <3> QED
      BY <2>1, <2>4, <3>1
  <2> QED
    BY <1>9, <2>2, <2>3, <2>4
<1>13. Keys(K) \cup T = Keys(K \cup {h})
  BY <1>9 DEF Keys
<1>14. ASSUME NEW k \in Keys(K), k \notin T
       PROVE  Held(t, M, k) = Held(h, M, k)
  <2>1. k # latest_key
    BY <1>9, <1>14
  <2>2. k[1] # "latest"
    BY <2>1, KeyFacts DEF Keys
  <2> QED
    BY <2>2 DEF Held
<1>15. DOMAIN kv = Keys(K) /\ \A k \in Keys(K) : kv[k] = Held(t, M, k)
  BY DEF Holding
<1> HIDE DEF kv
<1>16. After(kv, ops, Len(ops)) = [k \in Keys(K \cup {h}) |-> Held(h, M, k)]
  <2>1. After(kv, ops, Len(ops)) = [k \in (DOMAIN kv \ T) \cup T |-> IF k \in T THEN ValueIn(ops, k) ELSE kv[k]]
    BY <1>10, <1>11 DEF After
  <2>2. (DOMAIN kv \ T) \cup T = Keys(K \cup {h})
    BY <1>13, <1>15
  <2>3. \A k \in Keys(K \cup {h}) : (IF k \in T THEN ValueIn(ops, k) ELSE kv[k]) = Held(h, M, k)
    BY <1>12, <1>13, <1>14, <1>15
  <2> QED
    BY <2>1, <2>2, <2>3
<1> QED
  BY <1>2, <1>8, <1>16 DEF Holding, kv

\* Also of a height there is no snapshot of
LEMMA DeleteHolding ==
    ASSUME NEW K \in SUBSET (1 .. MaxHeight), NEW t, NEW M, NEW h
    PROVE  /\ delete_snapshot(Holding(K, t, M), h) = Holding(K \ {h}, Max(K \ {h}), M)
           /\ K \ {h} # {} => Max(K \ {h}) \in K \ {h}
<1> DEFINE kv == Holding(K, t, M)
           L == K \ {h}
           u == Max(L)
           newest == IF L = {} THEN Gone ELSE u
           C == ChunkKeys(K \cap {h})
           D == {<<k, Gone>> : k \in C}
           a == <<manifest_key(h), Gone>>
           b == <<latest_key, newest>>
           s == SetToSeq(D)
           ops == <<a>> \o s \o <<b>>
           X == {a, b} \cup D
<1>1. L # {} => u \in L /\ u # Gone
  <2>1. MaxHeight \in Nat
    BY ValuesAreThere
  <2>2. \A x \in 1 .. MaxHeight : x \in 0 .. MaxHeight
    BY <2>1
  <2>3. L \in SUBSET (0 .. MaxHeight)
    BY <2>2
  <2>4. L # {} => u \in L
    BY <2>1, <2>3, MaxOf
  <2>5. \A x \in L : x # Gone
    BY ValuesAreThere
  <2> QED
    BY <2>4, <2>5
<1>2. delete_snapshot(kv, h) = apply_batch(kv, ops)
  <2>1. list_heights(kv) = K /\ scan_prefix(kv, <<"chunk", h>>) = C
    BY Scans
  <2> HIDE DEF kv, C
  <2> QED
    BY <2>1 DEF delete_snapshot
<1>3. IsFiniteSet(D)
  <2>1. CASE h \in K
    <3> DEFINE f == [i \in Chunk |-> <<chunk_key(h, i), Gone>>]
    <3>0. C = {chunk_key(h, i) : i \in Chunk}
      BY <2>1 DEF ChunkKeys
    <3>1. D = {f[i] : i \in Chunk}
      <4> HIDE DEF C
      <4> QED
        BY <3>0
    <3>1a. DOMAIN f = Chunk /\ f = [i \in Chunk |-> f[i]]
      OBVIOUS
    <3> HIDE DEF f, D
    <3>2. f \in Surjection(Chunk, D)
      <4>1. f \in [Chunk -> D] /\ \A d \in D : \E i \in Chunk : f[i] = d
        BY <3>1, <3>1a
      <4> QED
        BY <4>1 DEF Surjection
    <3> QED
      BY <3>2, ChunkFinite, FS_Surjection
  <2>2. CASE h \notin K
    <3>1. D = {}
      BY <2>2 DEF ChunkKeys
    <3> QED
      BY <3>1, FS_EmptySet
  <2> QED
    BY <2>1, <2>2
<1>4. /\ s \in Seq(D) /\ Len(s) \in Nat
      /\ \A i, j \in 1 .. Len(s) : s[i] = s[j] => i = j
      /\ D = {s[j] : j \in 1 .. Len(s)}
  <2> HIDE DEF D
  <2> QED
    BY <1>3, Listing
<1>5. /\ a[1] = manifest_key(h) /\ a[2] = Gone /\ b[1] = latest_key /\ b[2] = newest
      /\ \A d \in D : d[1] \in C /\ d[2] = Gone /\ d = <<d[1], Gone>>
      /\ \A k \in C : <<k, Gone>> \in D /\ <<k, Gone>>[1] = k
      /\ a \in X /\ b \in X /\ D \subseteq X
  OBVIOUS
<1>6. \A k \in C : k[1] = "chunk"
  BY KeyFacts DEF ChunkKeys
<1>7. s \in Seq(X)
  <2> HIDE DEF s, X, D
  <2> QED
    BY <1>4, <1>5, SeqMonotonic
<1>7a. ops = <<a>> \o s \o <<b>>
  OBVIOUS
<1> HIDE DEF s, X, a, b, D, ops
<1>8. \A j \in 1 .. Len(s) : s[j] \in D
  BY <1>4
<1>9. /\ a[1] # b[1] /\ \A i, j \in 1 .. Len(s) : s[i][1] = s[j][1] => i = j
      /\ \A j \in 1 .. Len(s) : s[j][1] # a[1] /\ s[j][1] # b[1]
  <2> HIDE DEF C, newest
  <2>1. \A j \in 1 .. Len(s) : s[j][1] \in C /\ s[j] = <<s[j][1], Gone>>
    BY <1>5, <1>8
  <2>2. \A k \in C : k # manifest_key(h) /\ k # latest_key
    BY <1>6, KeyFacts
  <2>3. manifest_key(h) # latest_key
    BY KeyFacts
  <2>4. \A i, j \in 1 .. Len(s) : s[i][1] = s[j][1] => s[i] = s[j]
    BY <2>1, Zenon
  <2> QED
    BY <1>4, <1>5, <2>1, <2>2, <2>3, <2>4, Zenon
<1>10. /\ KeysDiffer(ops)
       /\ Touched(ops, Len(ops)) = {a[1], b[1]} \cup {s[j][1] : j \in 1 .. Len(s)}
       /\ \A k : k \in Written(ops, Len(ops)) <=>
             \/ k = a[1] /\ a[2] # Gone
             \/ k = b[1] /\ b[2] # Gone
             \/ \E j \in 1 .. Len(s) : s[j][2] # Gone /\ k = s[j][1]
       /\ ValueIn(ops, a[1]) = a[2] /\ ValueIn(ops, b[1]) = b[2]
       /\ \A j \in 1 .. Len(s) : ValueIn(ops, s[j][1]) = s[j][2]
  <2>1. Comes(ops, a, b, s)
    BY <1>5, <1>7, <1>7a, <1>9, BatchBetween, Zenon
  <2> QED
    BY <2>1, Zenon DEF Comes
<1>11. apply_batch(kv, ops) = After(kv, ops, Len(ops))
  BY <1>10, Batch, HoldingFacts
<1>12. Touched(ops, Len(ops)) = {manifest_key(h), latest_key} \cup C
  <2>1. {s[j][1] : j \in 1 .. Len(s)} = C
    <3> HIDE DEF C, newest
    <3>1. \A k \in C : \E j \in 1 .. Len(s) : s[j] = <<k, Gone>> /\ s[j][1] = k
      BY <1>4, <1>5
    <3> QED
      BY <1>5, <1>8, <3>1
  <2> HIDE DEF C, newest
  <2> QED
    BY <1>5, <1>10, <2>1
<1>13. Written(ops, Len(ops)) = IF L = {} THEN {} ELSE {latest_key}
  <2> HIDE DEF C, L, u
  <2>1. \A j \in 1 .. Len(s) : s[j][2] = Gone
    BY <1>5, <1>8
  <2>2. newest # Gone <=> L # {}
    BY <1>1
  <2> HIDE DEF newest
  <2>3. \A k : k \in Written(ops, Len(ops)) <=> k = latest_key /\ L # {}
    BY <1>5, <1>10, <2>1, <2>2
  <2> QED
    BY <2>3
<1>14. ValueIn(ops, latest_key) = newest
  BY <1>5, <1>10
<1>15. DOMAIN kv = Keys(K) /\ \A k \in Keys(K) : kv[k] = Held(t, M, k)
  BY DEF Holding
<1> DEFINE T == {manifest_key(h), latest_key} \cup C
           W == IF L = {} THEN {} ELSE {latest_key}
<1>16. (Keys(K) \ T) \cup W = Keys(L)
  <2>1. ASSUME NEW k \in Keys(K), k \notin T
        PROVE  k \in Keys(L)
    BY <2>1 DEF Keys, ChunkKeys
  <2>2. W \subseteq Keys(L)
    BY DEF Keys
  <2>3. ASSUME NEW k \in Keys(L), k \notin W
        PROVE  k \in Keys(K) /\ k \notin T
    <3>1. k # latest_key /\ k \in Keys(K)
      BY <2>3, KeyFacts DEF Keys
    <3>2. CASE \E g \in L : k = manifest_key(g)
      <4>1. PICK g \in L : k = manifest_key(g)
        BY <3>2
      <4>2. k[1] = "manifest" /\ k[2] = g /\ g # h
        BY <4>1, KeyFacts
      <4>3. k # manifest_key(h)
        BY <4>2, KeyFacts
      <4> HIDE DEF C
      <4> QED
        BY <1>6, <3>1, <4>2, <4>3
    <3>3. CASE \E g \in L, i \in Chunk : k = chunk_key(g, i)
      <4>1. PICK g \in L, i \in Chunk : k = chunk_key(g, i)
        BY <3>3
      <4>2. k[1] = "chunk" /\ k[2] = g /\ g # h
        BY <4>1, KeyFacts
      <4>3. k # manifest_key(h)
        BY <4>2, KeyFacts
      <4>4. \A x \in C : x[2] = h
        BY KeyFacts DEF ChunkKeys
      <4> HIDE DEF C
      <4> QED
        BY <3>1, <4>2, <4>3, <4>4
    <3> QED
      BY <2>3, <3>1, <3>2, <3>3 DEF Keys
  <2> HIDE DEF T, W, L
  <2> QED
    BY <2>1, <2>2, <2>3
<1>17. ASSUME NEW k \in Keys(L)
       PROVE  (IF k \in T THEN ValueIn(ops, k) ELSE kv[k]) = Held(u, M, k)
  <2>1. CASE k = latest_key
    <3>1. L # {}
      BY <2>1, HoldingFacts
    <3>2. Held(u, M, latest_key) = u
      BY KeyFacts DEF Held
    <3> QED
      BY <1>14, <2>1, <3>1, <3>2
  <2>2. CASE k # latest_key
    <3>1. k \in Keys(K) /\ k \notin T
      <4>1. k \notin W
        BY <2>2
      <4> HIDE DEF T, W, L
      <4> QED
        BY <1>16, <4>1
    <3>2. k[1] # "latest"
      BY <2>2, KeyFacts DEF Keys
    <3> HIDE DEF T, kv, L, u
    <3> QED
      BY <1>15, <3>1, <3>2 DEF Held
  <2> QED
    BY <2>1, <2>2
<1>18. After(kv, ops, Len(ops)) = [k \in (DOMAIN kv \ T) \cup W |-> IF k \in T THEN ValueIn(ops, k) ELSE kv[k]]
  <2> HIDE DEF kv, C, L
  <2> QED
    BY <1>12, <1>13 DEF After
<1> HIDE DEF T, W, kv, L, u
<1>19. After(kv, ops, Len(ops)) = [k \in Keys(L) |-> Held(u, M, k)]
  BY <1>15, <1>16, <1>17, <1>18
<1> QED
  BY <1>1, <1>2, <1>11, <1>19 DEF Holding, kv, L, u

\* The stores a node can have
Stores(M) ==
    {Holding(x[1], x[2], M) : x \in {y \in (SUBSET (1 .. MaxHeight)) \X Height : y[1] = {} \/ y[2] \in y[1]}}

LEMMA StoresIntro ==
    ASSUME NEW M, NEW K \in SUBSET (1 .. MaxHeight), NEW t, K = {} \/ t \in K
    PROVE  Holding(K, t, M) \in Stores(M)
<1>1. MaxHeight \in Nat
  BY ValuesAreThere
<1>2. 0 \in Height /\ \A h \in K : h \in Height
  BY <1>1 DEF Height
<1> DEFINE u == IF K = {} THEN 0 ELSE t
           x == <<K, u>>
<1>3. x \in (SUBSET (1 .. MaxHeight)) \X Height /\ (x[1] = {} \/ x[2] \in x[1])
  BY <1>2
<1>4. Holding(x[1], x[2], M) = Holding(K, u, M)
  OBVIOUS
<1>5. Holding(K, u, M) = Holding(K, t, M)
  <2>1. CASE K = {}
    <3>1. Keys(K) = {}
      BY <2>1 DEF Keys
    <3> QED
      BY <3>1 DEF Holding
  <2>2. CASE K # {}
    BY <2>2
  <2> QED
    BY <2>1, <2>2
<1> HIDE DEF x, u
<1>6. Holding(x[1], x[2], M) \in Stores(M)
  BY <1>3 DEF Stores
<1> QED
  BY <1>4, <1>5, <1>6

LEMMA StoresElim ==
    ASSUME NEW M, NEW kv \in Stores(M)
    PROVE  \E K \in SUBSET (1 .. MaxHeight), t \in Height : (K = {} \/ t \in K) /\ kv = Holding(K, t, M)
BY DEF Stores

LEMMA SaveStores ==
    ASSUME NEW M, Catalogue(M), NEW kv \in Stores(M), NEW h \in 1 .. MaxHeight
    PROVE  save(kv, M[h], chunk_snapshot(h)) \in Stores(M)
<1>1. PICK K \in SUBSET (1 .. MaxHeight), t \in Height : (K = {} \/ t \in K) /\ kv = Holding(K, t, M)
  BY StoresElim
<1>2. save(kv, M[h], chunk_snapshot(h)) = Holding(K \cup {h}, h, M)
  BY <1>1, SaveHolding
<1>3. K \cup {h} \in SUBSET (1 .. MaxHeight) /\ h \in K \cup {h}
  OBVIOUS
<1> QED
  BY <1>2, <1>3, StoresIntro

LEMMA DeleteStores ==
    ASSUME NEW M, NEW kv \in Stores(M), NEW h
    PROVE  delete_snapshot(kv, h) \in Stores(M)
<1>1. PICK K \in SUBSET (1 .. MaxHeight), t \in Height : (K = {} \/ t \in K) /\ kv = Holding(K, t, M)
  BY StoresElim
<1> DEFINE L == K \ {h}
<1>2. delete_snapshot(kv, h) = Holding(L, Max(L), M) /\ (L # {} => Max(L) \in L)
  <2>1. /\ delete_snapshot(Holding(K, t, M), h) = Holding(K \ {h}, Max(K \ {h}), M)
        /\ K \ {h} # {} => Max(K \ {h}) \in K \ {h}
    BY DeleteHolding
  <2> QED
    BY <1>1, <2>1
<1>3. L \in SUBSET (1 .. MaxHeight)
  OBVIOUS
<1> HIDE DEF L
<1> QED
  BY <1>2, <1>3, StoresIntro

LEMMA PruneStores ==
    ASSUME NEW M, NEW kv \in Stores(M), NEW n \in Nat
    PROVE  prune_older_than(kv, n) \in Stores(M)
<1> DEFINE X == Stores(M)
           F == [k \in Nat |-> [s \in X |-> delete_snapshot(s, prune_targets(kv)[k + 1])]]
<1>1. F \in [Nat -> [X -> X]]
  BY DeleteStores
<1>2. \A k \in Nat, s \in X : F[k][s] = delete_snapshot(s, prune_targets(kv)[k + 1])
  OBVIOUS
<1>2a. kv \in X
  OBVIOUS
<1> HIDE DEF F, X
<1>3. PICK f : Recursion!Iterates(f, X, kv, F)
  BY <1>1, <1>2a, Recursion!Iterate, Zenon
<1>4. /\ f[0] = kv /\ \A k \in Nat : f[k] \in X
      /\ \A k \in Nat : f[k + 1] = delete_snapshot(f[k], prune_targets(kv)[k + 1])
  BY <1>2, <1>3 DEF Recursion!Iterates
<1> DEFINE g == [k \in 0 .. n |-> f[k]]
           left == CHOOSE h : h = [k \in 0 .. n |->
                       IF k = 0 THEN kv ELSE delete_snapshot(h[k - 1], prune_targets(kv)[k])]
<1>5. ASSUME NEW k \in 0 .. n, k # 0
      PROVE  k - 1 \in 0 .. n /\ f[k] = delete_snapshot(f[k - 1], prune_targets(kv)[k])
  <2>1. k - 1 \in Nat /\ (k - 1) + 1 = k /\ k - 1 \in 0 .. n
    BY <1>5
  <2>2. f[(k - 1) + 1] = delete_snapshot(f[k - 1], prune_targets(kv)[(k - 1) + 1])
    BY <1>4, <2>1
  <2> QED
    BY <2>1, <2>2
<1>6. g = [k \in 0 .. n |-> IF k = 0 THEN kv ELSE delete_snapshot(g[k - 1], prune_targets(kv)[k])]
  <2>1. \A k \in 0 .. n : g[k] = IF k = 0 THEN kv ELSE delete_snapshot(g[k - 1], prune_targets(kv)[k])
    BY <1>4, <1>5
  <2> QED
    BY <2>1
<1>7. left = [k \in 0 .. n |-> IF k = 0 THEN kv ELSE delete_snapshot(left[k - 1], prune_targets(kv)[k])]
  <2> HIDE DEF g
  <2> QED
    BY <1>6, Zenon
<1>8. prune_older_than(kv, n) = left[n]
  BY Zenon DEF prune_older_than
<1> HIDE DEF left
<1> DEFINE S == {k \in 0 .. n : left[k] \in X}
<1>9. 0 \in S
  BY <1>2a, <1>7
<1>10. ASSUME NEW k \in 0 .. n - 1, k \in S
       PROVE  k + 1 \in S
  <2>1. k + 1 \in 0 .. n /\ k + 1 # 0 /\ (k + 1) - 1 = k /\ left[k] \in X
    BY <1>10
  <2>2. left[k + 1] = delete_snapshot(left[k], prune_targets(kv)[k + 1])
    BY <1>7, <2>1
  <2>3. left[k + 1] \in X
    BY <2>1, <2>2, DeleteStores DEF X
  <2> QED
    BY <2>1, <2>3
<1> HIDE DEF S
<1>11. n \in S
  BY <1>9, <1>10, Recursion!Induct, Zenon
<1> QED
  BY <1>8, <1>11 DEF S, X

\* What a node reads in its store
LEMMA Reads ==
    ASSUME NEW M, Catalogue(M), NEW kv \in Stores(M)
    PROVE  /\ list_heights(kv) \subseteq 1 .. MaxHeight
           /\ \A h \in list_heights(kv) : export_snapshot(kv, h) = [manifest |-> M[h], chunks |-> chunk_snapshot(h)]
           /\ \A h, i : load_chunk(kv, h, i) \in {Gone, <<h, i>>}
           /\ list_heights(kv) # {} => latest_height(kv) \in list_heights(kv)
           /\ list_heights(kv) = {} => latest_height(kv) = Gone
           /\ \A h \in list_heights(kv) : load_manifest(kv, h) = M[h]
           /\ {<<k[2], k[3]>> : k \in scan_prefix(kv, <<"chunk">>)} = list_heights(kv) \X Chunk
<1>1. PICK K \in SUBSET (1 .. MaxHeight), t \in Height : (K = {} \/ t \in K) /\ kv = Holding(K, t, M)
  BY StoresElim
<1>2. list_heights(kv) = K /\ scan_prefix(kv, <<"chunk">>) = ChunkKeys(K)
  BY <1>1, Scans
<1>3. /\ DOMAIN kv = Keys(K)
      /\ \A h : manifest_key(h) \in Keys(K) <=> h \in K
      /\ \A h, i : chunk_key(h, i) \in Keys(K) <=> h \in K /\ i \in Chunk
      /\ latest_key \in Keys(K) <=> K # {}
      /\ \A h \in K : kv[manifest_key(h)] = M[h]
      /\ \A h \in K, i \in Chunk : kv[chunk_key(h, i)] = <<h, i>>
      /\ K # {} => kv[latest_key] = t
  BY <1>1, HoldingFacts
<1>4. \A h \in K : load_manifest(kv, h) = M[h] /\ M[h] # Gone
  BY <1>3 DEF load_manifest, get, Catalogue
<1>5. \A h, i : load_chunk(kv, h, i) = IF h \in K /\ i \in Chunk THEN <<h, i>> ELSE Gone
  BY <1>3 DEF load_chunk, get
<1>6. \A h \in K, i \in Chunk : <<h, i>> # Gone /\ h # Gone
  BY ValuesAreThere
<1>7. ASSUME NEW h \in K
      PROVE  export_snapshot(kv, h) = [manifest |-> M[h], chunks |-> chunk_snapshot(h)]
  <2> DEFINE c == [i \in Chunk |-> load_chunk(kv, h, i)]
  <2>1. c = chunk_snapshot(h)
    BY <1>5 DEF chunk_snapshot
  <2>2. \A i \in Chunk : c[i] # Gone
    BY <1>5, <1>6
  <2> HIDE DEF c
  <2>3. export_snapshot(kv, h) = [manifest |-> M[h], chunks |-> c]
    BY <1>4, <2>2 DEF export_snapshot, c
  <2> QED
    BY <2>1, <2>3
<1>8. CASE K = {}
  <2>1. latest_height(kv) = Gone
    BY <1>3, <1>8 DEF latest_height, get
  <2>2. ChunkKeys(K) = {} /\ K \X Chunk = {}
    BY <1>8 DEF ChunkKeys
  <2> QED
    BY <1>2, <1>4, <1>5, <1>7, <1>8, <2>1, <2>2
<1>9. CASE K # {}
  <2>1. t \in K /\ t # Gone
    BY <1>1, <1>9, ValuesAreThere
  <2>2. get(kv, latest_key) = t
    BY <1>3, <1>9 DEF get
  <2>3. latest_height(kv) = t
    BY <1>4, <2>1, <2>2 DEF latest_height
  <2>4. {<<k[2], k[3]>> : k \in ChunkKeys(K)} = K \X Chunk
    <3>1. \A h \in K, i \in Chunk : chunk_key(h, i) \in ChunkKeys(K)
             /\ chunk_key(h, i)[2] = h /\ chunk_key(h, i)[3] = i
      BY KeyFacts DEF ChunkKeys
    <3>2. \A k \in ChunkKeys(K) : k[2] \in K /\ k[3] \in Chunk
      BY KeyFacts DEF ChunkKeys
    <3>3. {<<k[2], k[3]>> : k \in ChunkKeys(K)} \subseteq K \X Chunk
      BY <3>2
    <3>4. ASSUME NEW h \in K, NEW i \in Chunk
          PROVE  <<h, i>> \in {<<k[2], k[3]>> : k \in ChunkKeys(K)}
      <4>1. chunk_key(h, i) \in ChunkKeys(K) /\ <<h, i>> = <<chunk_key(h, i)[2], chunk_key(h, i)[3]>>
        BY <3>1
      <4> QED
        BY <4>1
    <3>5. K \X Chunk \subseteq {<<k[2], k[3]>> : k \in ChunkKeys(K)}
      <4>1. ASSUME NEW x \in K \X Chunk
            PROVE  x \in {<<k[2], k[3]>> : k \in ChunkKeys(K)}
        <5>1. x = <<x[1], x[2]>> /\ x[1] \in K /\ x[2] \in Chunk
          OBVIOUS
        <5>2. <<x[1], x[2]>> \in {<<k[2], k[3]>> : k \in ChunkKeys(K)}
          BY <3>4, <5>1
        <5> QED
          BY <5>1, <5>2, Zenon
      <4> QED
        BY <4>1
    <3> QED
      BY <3>3, <3>5
  <2> QED
    BY <1>2, <1>4, <1>5, <1>7, <1>9, <2>1, <2>3, <2>4
<1> QED
  BY <1>8, <1>9

-----------------------------------------------------------------------------
(***************************************************************************)
(* The peers and the lagging node.                                         *)
(***************************************************************************)
Manifests == [h \in 1 .. MaxHeight |-> ManifestOf(h)]

\* Peers: each has whole snapshots with the manifests of the chain.
PeerInv ==
    /\ chain \in [1 .. MaxHeight -> Kinds \cup {"none"}]
    /\ tip \in [Peer -> Height]
    /\ store \in [Peer -> Stores(Manifests)]

\* The manifest of a fetch or a restore is the one of some block, and verified.
WantedInv ==
    /\ \/ wanted = NoManifest
       \/ \E h \in 1 .. MaxHeight : wanted = ManifestOf(h) /\ wanted.hist = wanted.claim
    /\ phase = "fetching" \/ stage # "none" => wanted # NoManifest
    /\ stage \in {"none", "adopt", "install", "set", "keys"}

RecordInv ==
    /\ mem \in Records /\ disk \in Records
    /\ RecordsAgree
    /\ crashes \in Nat

(* The invariant of the restore. *)
RestoreInv == PeerInv /\ WantedInv /\ RecordInv

\* What the action properties say of a step
MemoryStep == crashes' = crashes => mem'.voted >= mem.voted /\ mem'.height >= mem.height
HistoryStep ==
    stage = "install" /\ stage' = "set" =>
        mem'.hist \ OfOperators(mem'.hist) = Changes(wanted.height, {"keys", "set"})
SoundStep ==
    phase' = "fetching" =>
        ToSet(candidates) \ ToSet(candidates') \subseteq Damaged \cup (Peer \ connected')

StepOK == FetchInv' /\ RestoreInv' /\ AskStep /\ MemoryStep /\ HistoryStep /\ SoundStep

LEMMA ManifestFacts ==
    ASSUME NEW h \in 1 .. MaxHeight
    PROVE  /\ h \in Height /\ ManifestOf(h).height = h /\ ManifestOf(h) # Gone
           /\ ManifestOf(h).hist = Changes(h - 1, Kinds)
           /\ ManifestOf(h).claim = HeaderClaim(h)
           /\ Changes(h - 1, Kinds) \subseteq 1 .. MaxHeight
<1>1. MaxHeight \in Nat /\ h \in Height /\ h \in Nat
  BY RestoreConstants DEF Height
<1>2. ManifestOf(h) = [height |-> h, hist |-> Changes(h - 1, Kinds), claim |-> HeaderClaim(h)]
  BY DEF ManifestOf
<1>3. Changes(h - 1, Kinds) \subseteq 1 .. h - 1
  BY DEF Changes
<1>4. 1 .. h - 1 \subseteq 1 .. MaxHeight /\ 1 .. MaxHeight \subseteq Height
  BY <1>1 DEF Height
<1>5. HeaderClaim(h) \subseteq Height
  <2> DEFINE k == IF h > CommitLag THEN h - CommitLag - 1 ELSE 0
  <2>1. CommitLag \in Nat
    BY RestoreConstants
  <2>2. k \in 0 .. MaxHeight
    BY <1>1, <2>1 DEF Height
  <2>3. 1 .. k \subseteq Height
    BY <1>1, <2>2 DEF Height
  <2>4. HeaderClaim(h) \subseteq (1 .. k) \cup {h}
    BY DEF HeaderClaim, Changes
  <2> QED
    BY <1>1, <2>3, <2>4
<1> HIDE DEF ManifestOf
<1>6. ManifestOf(h) # Gone
  BY <1>1, <1>2, <1>3, <1>4, <1>5, RestoreConstants
<1> QED
  BY <1>1, <1>2, <1>3, <1>4, <1>6

LEMMA ManifestsFacts ==
    Catalogue(Manifests) /\ \A h \in 1 .. MaxHeight : Manifests[h] = ManifestOf(h)
<1>1. \A h \in 1 .. MaxHeight : Manifests[h] = ManifestOf(h)
  BY DEF Manifests
<1> QED
  BY <1>1, ManifestFacts DEF Catalogue

LEMMA ChainFixed ==
    ASSUME chain' = chain
    PROVE  Manifests' = Manifests /\ \A h \in 1 .. MaxHeight : ManifestOf(h)' = ManifestOf(h)
<1>1. \A h \in 1 .. MaxHeight : ManifestOf(h)' = ManifestOf(h)
  BY DEF ManifestOf, Changes, HeaderClaim
<1> QED
  BY <1>1 DEF Manifests, ManifestOf, Changes, HeaderClaim

LEMMA PeerKept ==
    ASSUME PeerInv, UNCHANGED <<chain, tip, store>>
    PROVE  PeerInv'
BY ChainFixed DEF PeerInv

LEMMA WantedKept ==
    ASSUME WantedInv, UNCHANGED <<chain, wanted, stage>>, phase' = "fetching" => phase = "fetching"
    PROVE  WantedInv'
BY ChainFixed DEF WantedInv, NoManifest

LEMMA RecordKept ==
    ASSUME RecordInv, UNCHANGED <<mem, disk, crashes>>
    PROVE  RecordInv' /\ MemoryStep
<1>1. mem.voted \in Nat /\ mem.height \in Nat
  BY DEF RecordInv, Records
<1> QED
  BY <1>1 DEF RecordInv, RecordsAgree, MemoryStep

LEMMA MaxPair ==
    ASSUME NEW a \in Nat, NEW b \in Nat
    PROVE  /\ Max({a, b}) \in Nat /\ Max({a, b}) >= a /\ Max({a, b}) >= b
           /\ Max({a, b}) = IF a >= b THEN a ELSE b
<1> DEFINE m == IF a >= b THEN a ELSE b
<1>1. m \in {a, b} /\ \A y \in {a, b} : m >= y
  OBVIOUS
<1>2. \A x \in {a, b} : (\A y \in {a, b} : x >= y) => x = m
  OBVIOUS
<1>3. Max({a, b}) = m
  BY <1>1, <1>2 DEF Max
<1> QED
  BY <1>3

LEMMA CommitKeeps ==
    ASSUME PeerInv, NEW p \in Peer, NEW cached, NEW n \in Nat, CommitAt(p, cached, n), chain' = chain
    PROVE  PeerInv'
<1> DEFINE h == tip[p] + 1
           kv == save(store[p], ManifestOf(h), chunk_snapshot(h))
<1>1. MaxHeight \in Nat
  BY ValuesAreThere
<1>2. tip[p] \in Height /\ tip[p] < MaxHeight /\ tip' = [tip EXCEPT ![p] = h]
  BY DEF PeerInv, CommitAt
<1>3. h \in 1 .. MaxHeight /\ h \in Height
  BY <1>1, <1>2 DEF Height
<1>4. tip' \in [Peer -> Height]
  BY <1>2, <1>3 DEF PeerInv
<1>5. kv \in Stores(Manifests)
  <2>1. store[p] \in Stores(Manifests)
    BY DEF PeerInv
  <2> HIDE DEF h
  <2>2. save(store[p], Manifests[h], chunk_snapshot(h)) \in Stores(Manifests)
    BY <1>3, <2>1, SaveStores, ManifestsFacts
  <2>3. Manifests[h] = ManifestOf(h)
    BY <1>3, ManifestsFacts
  <2> QED
    BY <2>2, <2>3
<1>6. store' = [store EXCEPT ![p] = prune_older_than(kv, n)] \/ store' = store
  BY DEF CommitAt
<1> HIDE DEF kv
<1>7. prune_older_than(kv, n) \in Stores(Manifests)
  BY <1>5, PruneStores
<1>8. store' \in [Peer -> Stores(Manifests)]
  BY <1>6, <1>7 DEF PeerInv
<1>9. Manifests' = Manifests
  BY ChainFixed
<1> QED
  BY <1>4, <1>8, <1>9 DEF PeerInv

LEMMA CopyKeeps ==
    ASSUME PeerInv, NEW p \in Peer, NEW q \in Peer, CopySnapshot(p, q)
    PROVE  PeerInv'
<1>1. PICK h \in list_heights(store[p]) :
          store' = [store EXCEPT ![q] = import_snapshot(store[q], export_snapshot(store[p], h))]
  BY DEF CopySnapshot, PeerInv
<1>2. store[p] \in Stores(Manifests) /\ store[q] \in Stores(Manifests)
  BY DEF PeerInv
<1>3. /\ h \in 1 .. MaxHeight
      /\ export_snapshot(store[p], h) = [manifest |-> Manifests[h], chunks |-> chunk_snapshot(h)]
  BY <1>2, Reads, ManifestsFacts
<1>4. import_snapshot(store[q], export_snapshot(store[p], h)) = save(store[q], Manifests[h], chunk_snapshot(h))
  BY <1>3 DEF import_snapshot
<1>5. save(store[q], Manifests[h], chunk_snapshot(h)) \in Stores(Manifests)
  BY <1>2, <1>3, SaveStores, ManifestsFacts
<1>6. store' \in [Peer -> Stores(Manifests)]
  BY <1>1, <1>4, <1>5 DEF PeerInv
<1>7. chain' = chain /\ tip' = tip
  BY DEF CopySnapshot
<1> QED
  BY <1>6, <1>7, ChainFixed DEF PeerInv

\* What a peer serves is right, or nothing.
LEMMA Serves ==
    ASSUME PeerInv, NEW p \in Peer
    PROVE  /\ ServedManifest(p) = NoManifest \/ \E h \in 1 .. MaxHeight : ServedManifest(p) = ManifestOf(h)
           /\ \A i : ServedChunk(p, i) \in {Gone, <<wanted.height, i>>}
<1>1. store[p] \in Stores(Manifests)
  BY DEF PeerInv
<1> DEFINE kv == store[p]
<1>2. /\ list_heights(kv) \subseteq 1 .. MaxHeight
      /\ \A h, i : load_chunk(kv, h, i) \in {Gone, <<h, i>>}
      /\ list_heights(kv) # {} => latest_height(kv) \in list_heights(kv)
      /\ list_heights(kv) = {} => latest_height(kv) = Gone
      /\ \A h \in list_heights(kv) : load_manifest(kv, h) = Manifests[h]
  BY <1>1, Reads, ManifestsFacts
<1>3. \A i : ServedChunk(p, i) \in {Gone, <<wanted.height, i>>}
  BY <1>2 DEF ServedChunk
<1>4. CASE list_heights(kv) = {}
  BY <1>2, <1>3, <1>4 DEF ServedManifest
<1>5. CASE list_heights(kv) # {}
  <2> DEFINE h == latest_height(kv)
  <2>1. h \in 1 .. MaxHeight /\ load_manifest(kv, h) = ManifestOf(h)
    BY <1>2, <1>5, ManifestsFacts
  <2>2. h # Gone
    BY <2>1, ValuesAreThere
  <2>3. ServedManifest(p) = ManifestOf(h)
    BY <2>1, <2>2 DEF ServedManifest
  <2> HIDE DEF h
  <2> QED
    BY <1>3, <2>1, <2>3
<1> QED
  BY <1>4, <1>5

-----------------------------------------------------------------------------
(***************************************************************************)
(* The steps.                                                              *)
(***************************************************************************)
LEMMA DropsSound ==
    ASSUME NEW gone, Drops(gone), gone \subseteq Damaged \cup (Peer \ connected')
    PROVE  SoundStep /\ (phase' = "fetching" => phase = "fetching")
BY DEF Drops, SoundStep

LEMMA PeerCommitsStep ==
    ASSUME FetchInv, RestoreInv, NEW p \in Peer, PeerCommits(p)
    PROVE  StepOK
<1>1. UNCHANGED <<syncVars, chain, wanted, stage, mem, disk, crashes, copies>>
  BY DEF PeerCommits
<1>2. FetchInv' /\ AskStep /\ Drops({})
  BY <1>1, FetchStutter
<1>3. SoundStep /\ (phase' = "fetching" => phase = "fetching")
  BY <1>2, DropsSound
<1>4. PICK cached \in BOOLEAN, n \in 0 .. MaxHeight : CommitAt(p, cached, n)
  BY DEF PeerCommits
<1>5. PeerInv'
  <2>1. n \in Nat /\ chain' = chain /\ PeerInv
    BY <1>1 DEF RestoreInv
  <2> QED
    BY <1>4, <2>1, CommitKeeps, Zenon
<1>6. WantedInv' /\ RecordInv' /\ MemoryStep /\ HistoryStep
  BY <1>1, <1>3, WantedKept, RecordKept DEF RestoreInv, HistoryStep
<1> QED
  BY <1>2, <1>3, <1>5, <1>6 DEF StepOK, RestoreInv

LEMMA PeerCrashesStep ==
    ASSUME FetchInv, RestoreInv, NEW p \in Peer, PeerCrashes(p)
    PROVE  StepOK
<1>1. UNCHANGED <<chain, wanted, stage, mem, disk, crashes, copies>> /\ OnPeerDisconnected(p)
  BY DEF PeerCrashes
<1>2. FetchInv' /\ AskStep /\ Drops({p}) /\ connected' = connected \ {p}
  BY <1>1, DisconnectStep
<1>3. SoundStep /\ (phase' = "fetching" => phase = "fetching")
  BY <1>2, DropsSound
<1>4. PICK n \in 0 .. MaxHeight : CommitAt(p, TRUE, n)
  BY DEF PeerCrashes
<1>5. PeerInv'
  <2>1. n \in Nat /\ chain' = chain /\ PeerInv
    BY <1>1 DEF RestoreInv
  <2> QED
    BY <1>4, <2>1, CommitKeeps, Zenon
<1>6. WantedInv' /\ RecordInv' /\ MemoryStep /\ HistoryStep
  BY <1>1, <1>3, WantedKept, RecordKept DEF RestoreInv, HistoryStep
<1> QED
  BY <1>2, <1>3, <1>5, <1>6 DEF StepOK, RestoreInv

LEMMA CopyStep ==
    ASSUME FetchInv, RestoreInv, NEW p \in Peer, NEW q \in Peer, CopySnapshot(p, q)
    PROVE  StepOK
<1>1. UNCHANGED <<syncVars, chain, tip, wanted, stage, mem, disk, crashes>>
  BY DEF CopySnapshot
<1>2. FetchInv' /\ AskStep /\ Drops({})
  BY <1>1, FetchStutter
<1>3. SoundStep /\ (phase' = "fetching" => phase = "fetching")
  BY <1>2, DropsSound
<1>5. PeerInv'
  BY CopyKeeps DEF RestoreInv
<1>6. WantedInv' /\ RecordInv' /\ MemoryStep /\ HistoryStep
  BY <1>1, <1>3, WantedKept, RecordKept DEF RestoreInv, HistoryStep
<1> QED
  BY <1>2, <1>3, <1>5, <1>6 DEF StepOK, RestoreInv

LEMMA ProposalStep ==
    ASSUME FetchInv, RestoreInv, NEW p \in Peer, Proposal(p)
    PROVE  StepOK
<1> DEFINE lags == tip[p] + CommitLag + 1 >= mem.height + IntervalBlocks
<1>1. UNCHANGED <<chain, tip, store, wanted, stage, mem, disk, crashes, copies>>
      /\ ObserveProposal(p, lags)
  BY DEF Proposal
<1>2. FetchInv' /\ AskStep /\ Drops({})
  <2>1. lags \in BOOLEAN
    OBVIOUS
  <2> HIDE DEF lags
  <2> QED
    BY <1>1, <2>1, ObserveStep
<1>3. SoundStep /\ (phase' = "fetching" => phase = "fetching")
  BY <1>2, DropsSound
<1>4. PeerInv' /\ WantedInv' /\ RecordInv' /\ MemoryStep /\ HistoryStep
  BY <1>1, <1>3, PeerKept, WantedKept, RecordKept DEF RestoreInv, HistoryStep
<1> QED
  BY <1>2, <1>3, <1>4 DEF StepOK, RestoreInv

LEMMA PeerAddedStep ==
    ASSUME FetchInv, RestoreInv, NEW p \in Peer, PeerAdded(p)
    PROVE  StepOK
<1>1. UNCHANGED <<chain, tip, store, wanted, stage, mem, disk, crashes, copies>> /\ AddCandidate(p)
  BY DEF PeerAdded
<1>2. FetchInv' /\ AskStep /\ Drops({})
  BY <1>1, AddStep
<1>3. SoundStep /\ (phase' = "fetching" => phase = "fetching")
  BY <1>2, DropsSound
<1>4. PeerInv' /\ WantedInv' /\ RecordInv' /\ MemoryStep /\ HistoryStep
  BY <1>1, <1>3, PeerKept, WantedKept, RecordKept DEF RestoreInv, HistoryStep
<1> QED
  BY <1>2, <1>3, <1>4 DEF StepOK, RestoreInv

LEMMA PeerRemovedStep ==
    ASSUME FetchInv, RestoreInv, NEW p \in Peer, PeerRemoved(p)
    PROVE  StepOK
<1>1. UNCHANGED <<chain, tip, store, wanted, stage, mem, disk, crashes, copies>> /\ OnPeerDisconnected(p)
  BY DEF PeerRemoved
<1>2. FetchInv' /\ AskStep /\ Drops({p}) /\ connected' = connected \ {p}
  BY <1>1, DisconnectStep
<1>3. SoundStep /\ (phase' = "fetching" => phase = "fetching")
  BY <1>2, DropsSound
<1>4. PeerInv' /\ WantedInv' /\ RecordInv' /\ MemoryStep /\ HistoryStep
  BY <1>1, <1>3, PeerKept, WantedKept, RecordKept DEF RestoreInv, HistoryStep
<1> QED
  BY <1>2, <1>3, <1>4 DEF StepOK, RestoreInv

LEMMA AnswerDroppedStep ==
    ASSUME FetchInv, RestoreInv, NEW p \in Peer, NEW i \in {Manifest} \cup Chunk, AnswerDropped(p, i)
    PROVE  StepOK
<1>1. /\ UNCHANGED <<phase, primary, observed, candidates, inFlight, chunks, asked, connected>>
      /\ UNCHANGED <<chain, tip, store, wanted, stage, mem, disk, crashes, copies>>
      /\ open' \subseteq open
  BY DEF AnswerDropped
<1>2. FetchInv' /\ AskStep
  BY <1>1, FetchFacts, AsideStep
<1>3. Drops({})
  BY <1>1 DEF Drops
<1>4. SoundStep /\ (phase' = "fetching" => phase = "fetching")
  BY <1>3, DropsSound
<1>5. PeerInv' /\ WantedInv' /\ RecordInv' /\ MemoryStep /\ HistoryStep
  BY <1>1, <1>4, PeerKept, WantedKept, RecordKept DEF RestoreInv, HistoryStep
<1> QED
  BY <1>2, <1>4, <1>5 DEF StepOK, RestoreInv

LEMMA ManifestAnsweredStep ==
    ASSUME FetchInv, RestoreInv, NEW p \in Peer, ManifestAnswered(p)
    PROVE  StepOK
<1> DEFINE m == ServedManifest(p)
           kind == IF m = NoManifest THEN "none" ELSE IF verify(m) THEN "valid" ELSE "invalid"
<1>1. /\ UNCHANGED <<chain, tip, store, stage, mem, disk, crashes, copies>>
      /\ stage = "none" /\ OnManifestResponse(p, kind)
      /\ wanted' = IF phase = "pending" /\ phase' = "fetching" THEN m ELSE wanted
  BY DEF ManifestAnswered
<1>2. m = NoManifest \/ \E h \in 1 .. MaxHeight : m = ManifestOf(h)
  BY Serves DEF RestoreInv
<1>3. kind = "valid" => m # NoManifest /\ m.hist = m.claim
  BY DEF verify
<1> HIDE DEF m, kind
<1>4. /\ FetchInv' /\ AskStep
      /\ phase = "pending" => phase' \in {"pending", "aborted"} \/ (phase' = "fetching" /\ kind = "valid")
      /\ phase # "pending" => Drops({})
  BY <1>1, ManifestStep
<1>5. PeerInv' /\ RecordInv' /\ MemoryStep /\ HistoryStep
  BY <1>1, PeerKept, RecordKept DEF RestoreInv, HistoryStep
<1>6. CASE phase = "pending" /\ phase' = "fetching"
  <2>1. candidates = <<>>
    BY <1>6 DEF FetchInv
  <2>2. SoundStep
    <3>1. ToSet(<<>>) = {}
      BY DEF ToSet
    <3> QED
      BY <2>1, <3>1 DEF SoundStep
  <2>3. PICK h \in 1 .. MaxHeight : m = ManifestOf(h)
    BY <1>2, <1>3, <1>4, <1>6
  <2>4. wanted' = m /\ m # NoManifest /\ m.hist = m.claim
    BY <1>1, <1>3, <1>4, <1>6
  <2>5. WantedInv'
    <3>1. wanted' = ManifestOf(h)' /\ wanted'.hist = wanted'.claim
      BY <1>1, <2>3, <2>4, ChainFixed
    <3>2. wanted' # NoManifest' /\ stage' = "none"
      BY <1>1, <2>4 DEF NoManifest
    <3> QED
      BY <3>1, <3>2 DEF WantedInv
  <2> QED
    BY <1>4, <1>5, <2>2, <2>5 DEF StepOK, RestoreInv
<1>7. CASE ~(phase = "pending" /\ phase' = "fetching")
  <2>1. wanted' = wanted
    BY <1>1, <1>7
  <2>2. SoundStep /\ (phase' = "fetching" => phase = "fetching")
    <3>1. CASE phase = "pending"
      BY <1>7, <3>1 DEF SoundStep
    <3>2. CASE phase # "pending"
      BY <1>4, <3>2, DropsSound
    <3> QED
      BY <3>1, <3>2
  <2>3. WantedInv'
    BY <1>1, <2>1, <2>2, WantedKept DEF RestoreInv
  <2> QED
    BY <1>4, <1>5, <2>2, <2>3 DEF StepOK, RestoreInv
<1> QED
  BY <1>6, <1>7

LEMMA ChunkAnsweredStep ==
    ASSUME FetchInv, RestoreInv, NEW p \in Peer, NEW i \in Chunk, ChunkAnswered(p, i)
    PROVE  StepOK
<1>1. /\ UNCHANGED <<chain, tip, store, wanted, mem, disk, crashes, copies>>
      /\ stage = "none"
      /\ stage' = IF phase = "fetching" /\ phase' = "done" THEN "adopt" ELSE stage
  BY DEF ChunkAnswered
<1>2. PICK kind \in IF wanted = NoManifest THEN {"none"} ELSE ChunkKinds(p, i) :
         OnChunkResponse(p, i, kind)
  BY DEF ChunkAnswered
<1>3. kind \in {"good", "damaged", "none"} /\ (kind = "damaged" => p \in Damaged)
  <2>1. ServedChunk(p, i) \in {Gone, <<wanted.height, i>>}
    BY Serves DEF RestoreInv
  <2> QED
    BY <1>2, <2>1 DEF ChunkKinds
<1> DEFINE gone == IF kind = "damaged" THEN {p} ELSE {}
<1>4. FetchInv' /\ AskStep /\ Drops(gone)
  BY <1>2, <1>3, ChunkStep
<1>5. gone \subseteq Damaged
  BY <1>3
<1> HIDE DEF gone
<1>6. SoundStep /\ (phase' = "fetching" => phase = "fetching")
  BY <1>4, <1>5, DropsSound
<1>7. PeerInv' /\ RecordInv' /\ MemoryStep /\ HistoryStep
  BY <1>1, PeerKept, RecordKept DEF RestoreInv, HistoryStep
<1>8. WantedInv'
  <2>1. \/ wanted' = NoManifest'
        \/ \E h \in 1 .. MaxHeight : wanted' = ManifestOf(h)' /\ wanted'.hist = wanted'.claim
    BY <1>1, ChainFixed DEF RestoreInv, WantedInv, NoManifest
  <2>2. phase' = "fetching" \/ stage' # "none" => wanted' # NoManifest'
    BY <1>1, <1>6 DEF RestoreInv, WantedInv, NoManifest
  <2>3. stage' \in {"none", "adopt", "install", "set", "keys"}
    BY <1>1
  <2> QED
    BY <2>1, <2>2, <2>3 DEF WantedInv
<1> QED
  BY <1>4, <1>6, <1>7, <1>8 DEF StepOK, RestoreInv

\* The manifest of a restore
LEMMA Restoring ==
    ASSUME RestoreInv, stage # "none"
    PROVE  /\ wanted.height \in Nat
           /\ wanted.hist \subseteq 1 .. MaxHeight
           /\ wanted.hist = Changes(wanted.height, Kinds)
<1>1. PICK h \in 1 .. MaxHeight : wanted = ManifestOf(h) /\ wanted.hist = wanted.claim
  BY DEF RestoreInv, WantedInv
<1>2. /\ h \in Height /\ wanted.height = h /\ wanted.hist = Changes(h - 1, Kinds)
      /\ wanted.claim = HeaderClaim(h) /\ wanted.hist \subseteq 1 .. MaxHeight
  BY <1>1, ManifestFacts
<1>3. h \in Nat /\ MaxHeight \in Nat
  BY ValuesAreThere
\* A block that changed a history would be in the claim of its header.
<1>4. chain[h] = "none"
  <2> SUFFICES ASSUME chain[h] # "none"
               PROVE  FALSE
    OBVIOUS
  <2>1. h \in HeaderClaim(h)
    BY DEF HeaderClaim
  <2>2. h \in Changes(h - 1, Kinds)
    BY <1>1, <1>2, <2>1
  <2>3. h \in 1 .. h - 1
    BY <2>2 DEF Changes
  <2> QED
    BY <1>3, <2>3
<1>5. Changes(h, Kinds) = Changes(h - 1, Kinds)
  <2>1. \A c : c \in 1 .. h <=> c \in 1 .. h - 1 \/ c = h
    BY <1>3
  <2> QED
    BY <1>4, <2>1 DEF Changes, Kinds
<1> QED
  BY <1>2, <1>3, <1>5

\* The steps of the lagging node alone leave the fetch and the peers as they are.
LEMMA NodeStep ==
    ASSUME FetchInv, RestoreInv, UNCHANGED <<syncVars, chain, tip, store, wanted>>,
           RecordInv', MemoryStep, HistoryStep,
           stage' \in {"none", "adopt", "install", "set", "keys"},
           stage' # "none" => stage # "none"
    PROVE  StepOK
<1>1. FetchInv' /\ AskStep /\ Drops({})
  BY FetchStutter
<1>2. SoundStep /\ (phase' = "fetching" => phase = "fetching")
  BY <1>1, DropsSound
<1>3. PeerInv'
  BY PeerKept DEF RestoreInv
<1>4. WantedInv'
  <2>1. \/ wanted' = NoManifest'
        \/ \E h \in 1 .. MaxHeight : wanted' = ManifestOf(h)' /\ wanted'.hist = wanted'.claim
    BY ChainFixed DEF RestoreInv, WantedInv, NoManifest
  <2>2. phase' = "fetching" \/ stage' # "none" => wanted' # NoManifest'
    BY <1>2 DEF RestoreInv, WantedInv, NoManifest
  <2> QED
    BY <2>1, <2>2 DEF WantedInv
<1> QED
  BY <1>1, <1>2, <1>3, <1>4 DEF StepOK, RestoreInv

LEMMA AdoptsStep ==
    ASSUME FetchInv, RestoreInv, RestoreAdopts
    PROVE  StepOK
<1>1. /\ stage = "adopt" /\ stage' = "install" /\ mem' = Adopt(mem, wanted)
      /\ disk' = RestoreBatch(disk, wanted)
      /\ UNCHANGED <<syncVars, chain, tip, store, wanted, crashes, copies>>
  BY DEF RestoreAdopts
<1>2. wanted.height \in Nat
  BY <1>1, Restoring
<1> DEFINE w == wanted.height
<1>3. mem \in Records /\ disk \in Records /\ crashes \in Nat
  BY DEF RestoreInv, RecordInv
<1>4. /\ Max({mem.height, w}) \in Nat /\ Max({mem.height, w}) >= mem.height
      /\ Max({mem.voted, w}) \in Nat /\ Max({mem.voted, w}) >= mem.voted
  BY <1>2, <1>3, MaxPair DEF Records
<1>5. /\ mem' = [mem EXCEPT !.height = Max({mem.height, w}), !.locked = w, !.voted = Max({mem.voted, w})]
      /\ disk' = [disk EXCEPT !.height = w, !.locked = w, !.voted = w]
  BY <1>1, <1>3 DEF Adopt, RestoreBatch, Records
<1>6. mem' \in Records /\ disk' \in Records
      /\ mem'.height = Max({mem.height, w}) /\ mem'.voted = Max({mem.voted, w})
      /\ disk'.height = w /\ disk'.locked = w /\ disk'.voted = w
  BY <1>2, <1>3, <1>4, <1>5 DEF Records
<1>7. RecordInv' /\ MemoryStep
  BY <1>1, <1>2, <1>3, <1>4, <1>6 DEF RecordInv, RecordsAgree, MemoryStep
<1>8. HistoryStep
  BY <1>1 DEF HistoryStep
<1> QED
  BY <1>1, <1>7, <1>8, NodeStep

LEMMA InstallsStep ==
    ASSUME FetchInv, RestoreInv, RestoreInstalls
    PROVE  StepOK
<1> DEFINE new == OfOperators(mem.hist) \cup (wanted.hist \ OfOperators(wanted.hist))
<1>1. /\ stage = "install" /\ stage' \in {"set", "none"}
      /\ \/ mem' = [mem EXCEPT !.hist = new] /\ stage' = "set"
         \/ stage' = "none" /\ mem' = mem
      /\ UNCHANGED <<syncVars, chain, tip, store, wanted, disk, crashes, copies>>
  BY DEF RestoreInstalls
<1>2. /\ wanted.hist \subseteq 1 .. MaxHeight
      /\ wanted.hist = Changes(wanted.height, Kinds)
  BY <1>1, Restoring
<1>3. mem \in Records /\ disk \in Records /\ crashes \in Nat /\ RecordsAgree
  BY DEF RestoreInv, RecordInv
\* What the node keeps of its own is of the operators, and nothing else is.
<1>4. new \ OfOperators(new) = Changes(wanted.height, {"keys", "set"})
  BY <1>2 DEF OfOperators, Changes, Kinds
<1>5. new \subseteq 1 .. MaxHeight
  <2>1. mem.hist \subseteq 1 .. MaxHeight
    BY <1>3 DEF Records
  <2> QED
    BY <1>2, <2>1 DEF OfOperators
<1> HIDE DEF new
<1>6. mem' \in Records /\ mem'.height = mem.height /\ mem'.voted = mem.voted
      /\ (stage' = "set" => mem'.hist = new)
  BY <1>1, <1>3, <1>5 DEF Records
<1>7. mem.height \in Nat /\ mem.voted \in Nat
  BY <1>3 DEF Records
<1>8. RecordInv' /\ MemoryStep
  BY <1>1, <1>3, <1>6, <1>7 DEF RecordInv, RecordsAgree, MemoryStep
<1>9. HistoryStep
  BY <1>4, <1>6 DEF HistoryStep
<1> QED
  BY <1>1, <1>8, <1>9, NodeStep

LEMMA PutsStep ==
    ASSUME FetchInv, RestoreInv, NEW kind \in {"set", "keys"}, NEW next \in {"none", "keys"},
           RestorePuts(kind, next)
    PROVE  StepOK
<1>1. /\ stage = kind /\ stage' = next
      /\ \/ disk' = [disk EXCEPT !.hist = {c \in disk.hist : chain[c] # kind} \cup {c \in mem.hist : chain[c] = kind}]
         \/ disk' = disk
      /\ UNCHANGED <<syncVars, chain, tip, store, wanted, mem, crashes, copies>>
  <2>1. disk \in Records
    BY DEF RestoreInv, RecordInv
  <2> QED
    BY <2>1 DEF RestorePuts, Records
<1>3. mem \in Records /\ disk \in Records /\ crashes \in Nat /\ RecordsAgree
  BY DEF RestoreInv, RecordInv
<1> DEFINE hist == {c \in disk.hist : chain[c] # kind} \cup {c \in mem.hist : chain[c] = kind}
<1>4. hist \subseteq 1 .. MaxHeight
  BY <1>3 DEF Records
<1> HIDE DEF hist
<1>5. disk' = [disk EXCEPT !.hist = hist] \/ disk' = disk
  BY <1>1 DEF hist
<1>6. disk' \in Records /\ disk'.height = disk.height /\ disk'.locked = disk.locked /\ disk'.voted = disk.voted
  BY <1>3, <1>4, <1>5 DEF Records
<1>7. mem.height \in Nat /\ mem.voted \in Nat
  BY <1>3 DEF Records
<1>8. RecordInv' /\ MemoryStep
  BY <1>1, <1>3, <1>6, <1>7 DEF RecordInv, RecordsAgree, MemoryStep
<1>9. HistoryStep
  BY <1>1 DEF HistoryStep
<1>10. stage' \in {"none", "adopt", "install", "set", "keys"} /\ stage # "none"
  BY <1>1
<1> QED
  BY <1>1, <1>8, <1>9, <1>10, NodeStep

LEMMA CatchUpStep ==
    ASSUME FetchInv, RestoreInv, CatchUp
    PROVE  StepOK
<1> DEFINE h == mem.height + 1
           new == {c \in {h} : chain[c] # "none"}
           grown(r) == [height |-> h, locked |-> Max({r.locked, h + CommitLag}),
                        voted |-> Max({r.voted, h + CommitLag + 1}), hist |-> r.hist \cup new]
<1>1. /\ stage = "none" /\ stage' = "none" /\ mem' = grown(mem) /\ disk' = grown(disk)
      /\ UNCHANGED <<syncVars, chain, tip, store, wanted, crashes, copies>>
  BY DEF CatchUp
<1>2. PICK p \in Peer : h <= tip[p]
  BY DEF CatchUp
<1>3. mem \in Records /\ disk \in Records /\ crashes \in Nat /\ RecordsAgree
  BY DEF RestoreInv, RecordInv
<1>4. h \in 1 .. MaxHeight /\ h \in Nat
  <2>1. tip[p] \in Height /\ MaxHeight \in Nat /\ mem.height \in Nat
    BY <1>3, RestoreConstants DEF RestoreInv, PeerInv, Records
  <2> QED
    BY <1>2, <2>1 DEF Height
<1>5. h + CommitLag \in Nat /\ h + CommitLag + 1 \in Nat /\ h <= h + CommitLag
      /\ h + CommitLag <= h + CommitLag + 1
  BY <1>4, RestoreConstants
<1>6. new \subseteq 1 .. MaxHeight
  BY <1>4
<1>7. ASSUME NEW r \in Records
      PROVE  /\ grown(r) \in Records /\ grown(r).height = h
             /\ grown(r).voted >= r.voted
             /\ grown(r).height <= grown(r).locked
             /\ r.locked <= r.voted => grown(r).locked <= grown(r).voted
  <2> DEFINE l == h + CommitLag
             v == h + CommitLag + 1
  <2>1. r.locked \in Nat /\ r.voted \in Nat /\ r.hist \subseteq 1 .. MaxHeight
    BY DEF Records
  <2> HIDE DEF l, v, h, new
  <2>2. l \in Nat /\ v \in Nat /\ h <= l /\ l <= v /\ h \in Nat
    BY <1>4, <1>5 DEF l, v
  <2>3. /\ Max({r.locked, l}) = IF r.locked >= l THEN r.locked ELSE l
        /\ Max({r.voted, v}) = IF r.voted >= v THEN r.voted ELSE v
    BY <2>1, <2>2, MaxPair
  <2>4. /\ grown(r).height = h /\ grown(r).locked = Max({r.locked, l})
        /\ grown(r).voted = Max({r.voted, v}) /\ grown(r).hist = r.hist \cup new
        /\ grown(r) = [height |-> h, locked |-> Max({r.locked, l}), voted |-> Max({r.voted, v}), hist |-> r.hist \cup new]
    BY DEF l, v
  <2>5. Max({r.locked, l}) \in Nat /\ Max({r.voted, v}) \in Nat /\ r.hist \cup new \subseteq 1 .. MaxHeight
    BY <1>6, <2>1, <2>2, <2>3
  <2>6. grown(r) \in Records
    BY <2>2, <2>4, <2>5 DEF Records
  <2> HIDE DEF grown
  <2> QED
    BY <2>1, <2>2, <2>3, <2>4, <2>6
<1>8. mem'.height = h /\ mem'.voted >= mem.voted /\ mem' \in Records /\ disk' \in Records
      /\ disk'.height <= disk'.locked /\ disk'.locked <= disk'.voted
  <2> HIDE DEF grown, h
  <2> QED
    BY <1>1, <1>3, <1>7 DEF RecordsAgree
<1>9. h >= mem.height
  BY <1>3 DEF Records
<1>10. RecordInv' /\ MemoryStep
  BY <1>1, <1>3, <1>8, <1>9 DEF RecordInv, RecordsAgree, MemoryStep
<1>11. HistoryStep
  BY <1>1 DEF HistoryStep
<1> QED
  BY <1>1, <1>10, <1>11, NodeStep

LEMMA CrashStep ==
    ASSUME FetchInv, RestoreInv, Crash
    PROVE  StepOK
<1>1. /\ crashes' = crashes + 1 /\ mem' = disk /\ stage' = "none" /\ wanted' = NoManifest
      /\ phase' = "idle" /\ UNCHANGED <<chain, tip, store, disk>>
  BY DEF Crash
<1>2. FetchInv' /\ AskStep /\ Drops({})
  BY FetchCrash
<1>3. SoundStep /\ (phase' = "fetching" => phase = "fetching")
  BY <1>2, DropsSound
<1>4. PeerInv'
  BY <1>1, PeerKept DEF RestoreInv
<1>5. WantedInv' /\ HistoryStep
  BY <1>1 DEF WantedInv, HistoryStep, NoManifest
<1>6. RecordInv' /\ MemoryStep
  BY <1>1 DEF RestoreInv, RecordInv, RecordsAgree, MemoryStep
<1> QED
  BY <1>2, <1>3, <1>4, <1>5, <1>6 DEF StepOK, RestoreInv

LEMMA StutterStep ==
    ASSUME FetchInv, RestoreInv, UNCHANGED vars
    PROVE  StepOK
<1>1. RecordInv' /\ MemoryStep /\ HistoryStep
  BY RecordKept DEF RestoreInv, HistoryStep, vars
<1>2. stage \in {"none", "adopt", "install", "set", "keys"}
  BY DEF RestoreInv, WantedInv
<1> QED
  BY <1>1, <1>2, NodeStep DEF vars

\* Every step keeps the invariants, and does what the action properties say.
LEMMA EveryStep ==
    ASSUME FetchInv, RestoreInv, [Next]_vars
    PROVE  StepOK
<1>1. ASSUME NEW p \in Peer, PeerCommits(p) PROVE StepOK
  BY <1>1, PeerCommitsStep
<1>2. ASSUME NEW p \in Peer, PeerCrashes(p) PROVE StepOK
  BY <1>2, PeerCrashesStep
<1>3. ASSUME NEW p \in Peer, Proposal(p) PROVE StepOK
  BY <1>3, ProposalStep
<1>4. ASSUME NEW p \in Peer, PeerAdded(p) PROVE StepOK
  BY <1>4, PeerAddedStep
<1>5. ASSUME NEW p \in Peer, PeerRemoved(p) PROVE StepOK
  BY <1>5, PeerRemovedStep
<1>6. ASSUME NEW p \in Peer, ManifestAnswered(p) PROVE StepOK
  BY <1>6, ManifestAnsweredStep
<1>7. ASSUME NEW p \in Peer, NEW i \in Chunk, ChunkAnswered(p, i) PROVE StepOK
  BY <1>7, ChunkAnsweredStep
<1>8. ASSUME NEW p \in Peer, NEW q \in Peer, CopySnapshot(p, q) PROVE StepOK
  BY <1>8, CopyStep
<1>9. CASE RestoreAdopts
  BY <1>9, AdoptsStep
<1>10. CASE RestoreInstalls
  BY <1>10, InstallsStep
<1>11. CASE RestorePuts("set", "keys")
  BY <1>11, PutsStep
<1>12. CASE RestorePuts("keys", "none")
  BY <1>12, PutsStep
<1>13. CASE CatchUp
  BY <1>13, CatchUpStep
<1>14. CASE Crash
  BY <1>14, CrashStep
<1>15. CASE UNCHANGED vars
  BY <1>15, StutterStep
<1>16. ASSUME NEW p \in Peer, NEW i \in {Manifest} \cup Chunk, AnswerDropped(p, i) PROVE StepOK
  BY <1>16, AnswerDroppedStep
<1> QED
  BY <1>1, <1>2, <1>3, <1>4, <1>5, <1>6, <1>7, <1>8, <1>9, <1>10, <1>11, <1>12, <1>13, <1>14, <1>15,
     <1>16 DEF Next

LEMMA RestoreInit ==
    ASSUME Init
    PROVE  FetchInv /\ RestoreInv
<1>1. FetchInv
  BY FetchInit DEF Init
<1>2. PeerInv
  <2>1. Empty \in Stores(Manifests)
    <3>1. Keys({}) = {} /\ {} \in SUBSET (1 .. MaxHeight)
      BY DEF Keys
    <3>2. Holding({}, 0, Manifests) = Empty
      BY <3>1 DEF Holding, Empty
    <3>3. Holding({}, 0, Manifests) \in Stores(Manifests)
      BY <3>1, StoresIntro
    <3> QED
      BY <3>2, <3>3
  <2>2. 0 \in Height
    BY RestoreConstants DEF Height
  <2>3. chain \in [1 .. MaxHeight -> Kinds \cup {"none"}]
    BY RestoreConstants DEF Init
  <2> QED
    BY <2>1, <2>2, <2>3 DEF Init, PeerInv
<1>3. WantedInv
  BY DEF Init, SyncInit, WantedInv
<1>4. RecordInv
  <2>1. PICK h \in StartHeight : mem = Committed(h)
    BY DEF Init
  <2>2. h \in Height /\ CommitLag \in Nat /\ MaxHeight \in Nat
    BY RestoreConstants
  <2>3. h \in Nat /\ h <= MaxHeight
    BY <2>2 DEF Height
  <2>4. Changes(h, Kinds) \subseteq 1 .. MaxHeight
    BY <2>2, <2>3 DEF Changes
  <2>5. mem \in Records /\ mem.height = h /\ mem.locked = h + CommitLag /\ mem.voted = h + CommitLag + 1
    BY <2>1, <2>2, <2>3, <2>4 DEF Committed, Records
  <2>6. disk = mem /\ crashes = 0
    BY DEF Init
  <2> QED
    BY <2>2, <2>3, <2>5, <2>6 DEF RecordInv, RecordsAgree
<1> QED
  BY <1>1, <1>2, <1>3, <1>4 DEF RestoreInv

-----------------------------------------------------------------------------
(***************************************************************************)
(* The theorems.                                                           *)
(***************************************************************************)
LEMMA Invariance == Spec => [](FetchInv /\ RestoreInv)
<1>1. Init => FetchInv /\ RestoreInv
  BY RestoreInit
<1>2. FetchInv /\ RestoreInv /\ [Next]_vars => (FetchInv /\ RestoreInv)'
  BY EveryStep DEF StepOK
<1> QED
  BY <1>1, <1>2, PTL DEF Spec

(* Whatever the peers answer and whenever anything crashes, the state of the
   fetch, of the peers and of the restore stays well formed: no chunk exceeds
   its retry budget, no peer its share, a fetch has its manifest, and the
   records of the node are records. *)
THEOREM TypeCorrect == Spec => []TypeOK
<1>1. FetchInv /\ RestoreInv => TypeOK
  <2> SUFFICES ASSUME FetchInv, RestoreInv
               PROVE  TypeOK
    OBVIOUS
  <2>1. wanted = NoManifest \/ wanted.height \in Height
    BY ManifestFacts DEF RestoreInv, WantedInv
  <2>2. {mem, disk} \subseteq Records
    BY DEF RestoreInv, RecordInv
  <2> QED
    BY <2>1, <2>2 DEF FetchInv, RestoreInv, PeerInv, WantedInv, TypeOK
<1> QED
  BY <1>1, Invariance, PTL

(* schedule_or_abort never leaves a fetch without a request in flight, for any
   number of peers and chunks, any limits and any retry budget. *)
THEOREM FetchNeverIdle == Spec => []NeverIdle
<1>1. FetchInv => NeverIdle
  BY DEF FetchInv
<1> QED
  BY <1>1, Invariance, PTL

(* in_flight_per_peer never counts more for a peer than it has to answer. *)
THEOREM CapacityNeverLeaks == Spec => []NoCapacityLeak
<1>1. FetchInv => NoCapacityLeak
  BY DEF FetchInv
<1> QED
  BY <1>1, Invariance, PTL

(* SnapshotStore: saves, imports and the deletions of a pruning that a crash cuts
   off keep the manifests, the chunks and the latest height in step. *)
THEOREM StoreStaysWhole == Spec => []StoreWhole
<1>1. RestoreInv => StoreWhole
  <2> SUFFICES ASSUME RestoreInv, NEW p \in Peer
               PROVE  /\ list_heights(store[p]) # {} => latest_height(store[p]) \in list_heights(store[p])
                      /\ {<<k[2], k[3]>> : k \in scan_prefix(store[p], <<"chunk">>)}
                            = list_heights(store[p]) \X Chunk
    BY DEF StoreWhole
  <2>1. store[p] \in Stores(Manifests)
    BY DEF RestoreInv, PeerInv
  <2> QED
    BY <2>1, Reads, ManifestsFacts
<1> QED
  BY <1>1, Invariance, PTL

(* restore_from_snapshot writes the record of the commit with those of
   adopt_snapshot, so that no crash finds a lock below the last commit. *)
THEOREM RecordsAlwaysAgree == Spec => []RecordsAgree
<1>1. RestoreInv => RecordsAgree
  BY DEF RestoreInv, RecordInv
<1> QED
  BY <1>1, Invariance, PTL

(* The slot of a chunk remembers every peer the chunk was asked of, so that
   none is asked for it twice. *)
THEOREM PeersNeverAskedAgain == Spec => NeverAskedAgain
<1>1. FetchInv /\ RestoreInv /\ [Next]_vars =>
         [\A i \in Chunk : (chunks'[i].at \in Peer /\ chunks'[i].at # chunks[i].at)
              => <<chunks'[i].at, i>> \notin asked]_syncVars
  BY EveryStep DEF StepOK, AskStep
<1> QED
  BY <1>1, Invariance, PTL DEF Spec, NeverAskedAgain

(* Between two crashes the node forgets no vote and no commit, whichever of
   block sync and the snapshot is ahead. *)
THEOREM VotesAreKept == Spec => MemoryKeepsVotes
<1>1. FetchInv /\ RestoreInv /\ [Next]_vars =>
         [crashes' = crashes => mem'.voted >= mem.voted /\ mem'.height >= mem.height]_vars
  BY EveryStep DEF StepOK, MemoryStep
<1> QED
  BY <1>1, Invariance, PTL DEF Spec, MemoryKeepsVotes

(* SnapshotManifest::verify lets only the manifests of blocks through that change
   no history, and these carry the histories of their block; a restore installs
   those of the validator sets and of their keys. *)
THEOREM HistoriesAreRestored == Spec => RestoredHistories
<1>1. FetchInv /\ RestoreInv /\ [Next]_vars =>
         [stage = "install" /\ stage' = "set" =>
             mem'.hist \ OfOperators(mem'.hist) = Changes(wanted.height, {"keys", "set"})]_vars
  BY EveryStep DEF StepOK, HistoryStep
<1> QED
  BY <1>1, Invariance, PTL DEF Spec, RestoredHistories

(* A peer that only serves what it has stored is never dropped from the
   candidates while it is connected: it serves the chunk asked for, or none. *)
THEOREM SoundPeersStay == Spec => SoundPeersKept
<1>1. FetchInv /\ RestoreInv /\ [Next]_vars =>
         [phase' = "fetching" =>
             ToSet(candidates) \ ToSet(candidates') \subseteq Damaged \cup (Peer \ connected')]_vars
  BY EveryStep DEF StepOK, SoundStep
<1> QED
  BY <1>1, Invariance, PTL DEF Spec, SoundPeersKept
=============================================================================
