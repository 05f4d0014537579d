---------------------------- MODULE StakingProofs ----------------------------
(***************************************************************************)
(* Proofs about Staking.                                                   *)
(***************************************************************************)
EXTENDS Staking, FiniteSetTheorems, SequenceTheorems, TLAPS

-----------------------------------------------------------------------------
(***************************************************************************)
(* Sequences of anything.                                                  *)
(***************************************************************************)
IsSeq(s) == s \in Seq(ToSet(s))

LEMMA SeqIs ==
    ASSUME NEW S, NEW s \in Seq(S)
    PROVE  IsSeq(s)
BY DEF IsSeq, ToSet

LEMMA SeqParts ==
    ASSUME NEW s, IsSeq(s)
    PROVE  /\ Len(s) \in Nat /\ DOMAIN s = 1..Len(s)
           /\ s # <<>> => Len(s) >= 1 /\ Last(s) = s[Len(s)]
BY DEF IsSeq, Last

LEMMA SeqAppend ==
    ASSUME NEW s, IsSeq(s), NEW e
    PROVE  /\ IsSeq(Append(s, e))
           /\ Append(s, e) # <<>>
           /\ Len(Append(s, e)) = Len(s) + 1
           /\ DOMAIN Append(s, e) = 1..Len(s) + 1
           /\ \A i \in 1..Len(s) : Append(s, e)[i] = s[i]
           /\ Append(s, e)[Len(s) + 1] = e
           /\ Last(Append(s, e)) = e
           /\ Front(Append(s, e)) = s
<1> DEFINE S == ToSet(s) \cup {e}
<1>1. s \in Seq(S) /\ e \in S
  BY DEF IsSeq, ToSet
<1>2. Len(s) \in Nat /\ DOMAIN s = 1..Len(s)
  BY SeqParts
<1> HIDE DEF S
<1>3. Append(s, e) \in Seq(S)
  BY <1>1
<1>4. /\ Len(Append(s, e)) = Len(s) + 1
      /\ \A i \in 1..Len(s) : Append(s, e)[i] = s[i]
      /\ Append(s, e)[Len(s) + 1] = e
  BY <1>1
<1>5. IsSeq(Append(s, e))
  BY <1>3, SeqIs
<1>6. DOMAIN Append(s, e) = 1..Len(s) + 1
  BY <1>4, <1>5, SeqParts
<1>7. Last(Append(s, e)) = e
  BY <1>4 DEF Last
<1>8. Front(Append(s, e)) = s
  <2>1. Front(Append(s, e)) = SubSeq(Append(s, e), 1, Len(s))
    BY <1>2, <1>4 DEF Front
  <2> DEFINE t == SubSeq(Append(s, e), 1, Len(s))
  <2>2. t \in Seq(S) /\ Len(t) = Len(s) /\ \A i \in 1..Len(s) : t[i] = Append(s, e)[i]
    BY <1>2, <1>3, <1>4
  <2> HIDE DEF t
  <2>3. t = s
    BY <1>1, <1>4, <2>2, SeqEqual
  <2> QED
    BY <2>1, <2>3 DEF t
<1>9. Append(s, e) # <<>>
  BY <1>2, <1>4
<1> QED
  BY <1>4, <1>5, <1>6, <1>7, <1>8, <1>9

LEMMA AppendSet ==
    ASSUME NEW s, IsSeq(s), NEW e
    PROVE  ToSet(Append(s, e)) = ToSet(s) \cup {e}
<1> DEFINE n == Len(s)
           t == Append(s, e)
<1>1. n \in Nat /\ DOMAIN s = 1..n
  BY SeqParts
<1>2. DOMAIN t = 1..n + 1 /\ t[n + 1] = e /\ \A i \in 1..n : t[i] = s[i]
  BY SeqAppend
<1> HIDE DEF t
<1>3. 1..n + 1 = (1..n) \cup {n + 1}
  BY <1>1
<1>4. ToSet(t) = ToSet(s) \cup {e}
  BY <1>1, <1>2, <1>3 DEF ToSet
<1> QED
  BY <1>4 DEF t

LEMMA SeqEmpty == IsSeq(<<>>) /\ Len(<<>>) = 0 /\ DOMAIN <<>> = {} /\ ToSet(<<>>) = {}
<1>1. <<>> \in Seq({}) /\ Len(<<>>) = 0 /\ DOMAIN <<>> = {}
  OBVIOUS
<1>2. IsSeq(<<>>)
  BY <1>1, SeqIs
<1> QED
  BY <1>1, <1>2 DEF ToSet

LEMMA SeqConcat ==
    ASSUME NEW s, IsSeq(s), NEW t, IsSeq(t)
    PROVE  /\ IsSeq(s \o t)
           /\ Len(s \o t) = Len(s) + Len(t)
           /\ \A i \in 1..Len(s) : (s \o t)[i] = s[i]
           /\ \A i \in 1..Len(t) : (s \o t)[Len(s) + i] = t[i]
<1> DEFINE S == ToSet(s) \cup ToSet(t)
<1>1. s \in Seq(S) /\ t \in Seq(S)
  BY DEF IsSeq, ToSet
<1> HIDE DEF S
<1>2. s \o t \in Seq(S)
  BY <1>1
<1>3. IsSeq(s \o t)
  BY <1>2, SeqIs
<1>4. /\ Len(s \o t) = Len(s) + Len(t)
      /\ \A i \in 1..Len(s) : (s \o t)[i] = s[i]
      /\ \A i \in 1..Len(t) : (s \o t)[Len(s) + i] = t[i]
  BY <1>1
<1> QED
  BY <1>3, <1>4

\* A function on an initial segment
LEMMA SegmentSeq ==
    ASSUME NEW n \in Nat, NEW S, NEW s \in [1..n -> S]
    PROVE  IsSeq(s) /\ Len(s) = n
<1>1. s \in Seq(S)
  OBVIOUS
<1>2. IsSeq(s)
  BY <1>1, SeqIs
<1>3. DOMAIN s = 1..n
  OBVIOUS
<1>4. Len(s) = n
  BY <1>1, <1>3, LenProperties
<1> QED
  BY <1>2, <1>4

-----------------------------------------------------------------------------
(***************************************************************************)
(* A loop that takes up weights: each validator gets its last update.      *)
(***************************************************************************)
UpdateStep(w, u, v) == With(w, u.id, u.weight)

UpdateGood(w, i, t) ==
    /\ DOMAIN t = DOMAIN w.start \cup {w.u[k].id : k \in 1..i}
    /\ \A id \in DOMAIN w.start : (\A k \in 1..i : w.u[k].id # id) => t[id] = w.start[id]
    /\ \A k \in 1..i : (\A j \in k + 1..i : w.u[j].id # w.u[k].id)
                          => t[w.u[k].id] = w.u[k].weight

UpdateLoop == INSTANCE LoopProofs WITH Step <- UpdateStep, Good <- UpdateGood

\* The last element for an id
LastAt(s, k) == \A j \in k + 1..Len(s) : s[j].id # s[k].id

LEMMA LastFor ==
    ASSUME NEW s, IsSeq(s), NEW id \in Ids(s)
    PROVE  \E k \in 1..Len(s) : s[k].id = id /\ LastAt(s, k)
<1> DEFINE n == Len(s)
           I == {m \in 0..n - 1 : s[n - m].id = id}
<1>1. n \in Nat /\ DOMAIN s = 1..n
  BY SeqParts
<1>2. PICK i \in 1..n : s[i].id = id
  BY <1>1 DEF Ids
<1>3. n - i \in I /\ I \in SUBSET Nat
  <2>1. n - i \in 0..n - 1 /\ n - (n - i) = i
    BY <1>1
  <2> QED
    BY <1>1, <1>2, <2>1
<1>4. PICK m \in I : \A k \in I : m <= k
  BY <1>3, UpdateLoop!Least
<1>5. n - m \in 1..n /\ s[n - m].id = id
  BY <1>1, <1>4
<1>6. ASSUME NEW j \in n - m + 1..n, s[j].id = id
      PROVE  FALSE
  <2>1. n - j \in 0..n - 1 /\ n - (n - j) = j /\ n - j < m
    BY <1>1, <1>4
  <2>2. n - j \in I
    BY <1>6, <2>1
  <2> QED
    BY <1>4, <2>1, <2>2
<1> QED
  BY <1>5, <1>6 DEF LastAt

\* The weights w after the updates
Updated(w, updates) == Along(LAMBDA t, u : With(t, u.id, u.weight), w, updates)

IsUpdated(t, w, updates) ==
    /\ DOMAIN t = DOMAIN w \cup Ids(updates)
    /\ \A id \in DOMAIN w \ Ids(updates) : t[id] = w[id]
    /\ \A k \in 1..Len(updates) : LastAt(updates, k) => t[updates[k].id] = updates[k].weight

LEMMA UpdatedWeights ==
    ASSUME NEW w, NEW updates, IsSeq(updates)
    PROVE  IsUpdated(Updated(w, updates), w, updates)
<1> DEFINE n == Len(updates)
           e == [start |-> w, u |-> updates]
<1>1. n \in Nat /\ DOMAIN updates = 1..n
  BY SeqParts
<1>2. e.start = w /\ e.u = updates
  OBVIOUS
<1> HIDE DEF e
<1>3. UpdateGood(e, 0, w)
  BY <1>2 DEF UpdateGood
<1>4. ASSUME NEW i \in 1..n, NEW t, UpdateGood(e, i - 1, t)
      PROVE  UpdateGood(e, i, UpdateStep(t, updates[i], 0))
  <2> DEFINE x == updates[i].id
             s == UpdateStep(t, updates[i], 0)
  <2>1. i - 1 \in Nat /\ 1..i = 1..i - 1 \cup {i} /\ i \notin 1..i - 1
    BY <1>1
  <2>2. DOMAIN s = DOMAIN t \cup {x} /\ s[x] = updates[i].weight
        /\ \A id \in DOMAIN t : id # x => s[id] = t[id]
    BY DEF UpdateStep, With
  <2>3. /\ DOMAIN t = DOMAIN w \cup {updates[k].id : k \in 1..i - 1}
        /\ \A id \in DOMAIN w : (\A k \in 1..i - 1 : updates[k].id # id) => t[id] = w[id]
        /\ \A k \in 1..i - 1 : (\A j \in k + 1..i - 1 : updates[j].id # updates[k].id)
                              => t[updates[k].id] = updates[k].weight
    BY <1>2, <1>4 DEF UpdateGood
  <2> HIDE DEF s, x
  <2>4. DOMAIN s = DOMAIN w \cup {updates[k].id : k \in 1..i}
    BY <2>1, <2>2, <2>3 DEF x
  <2>5. ASSUME NEW id \in DOMAIN w, \A k \in 1..i : updates[k].id # id
        PROVE  s[id] = w[id]
    <3>1. id # x /\ \A k \in 1..i - 1 : updates[k].id # id
      BY <2>1, <2>5 DEF x
    <3> QED
      BY <2>2, <2>3, <3>1
  <2>6. ASSUME NEW k \in 1..i, \A j \in k + 1..i : updates[j].id # updates[k].id
        PROVE  s[updates[k].id] = updates[k].weight
    <3>1. CASE k = i
      BY <2>2, <3>1 DEF x
    <3>2. CASE k # i
      <4>1. k \in 1..i - 1 /\ i \in k + 1..i /\ \A j \in k + 1..i - 1 : j \in k + 1..i
        BY <2>1, <3>2
      <4>2. t[updates[k].id] = updates[k].weight /\ updates[k].id # x
        BY <2>3, <2>6, <4>1 DEF x
      <4>3. updates[k].id \in DOMAIN t
        BY <2>3, <4>1
      <4> QED
        BY <2>2, <4>2, <4>3
    <3> QED
      BY <3>1, <3>2
  <2>7. UpdateGood(e, i, s)
    BY <1>2, <2>4, <2>5, <2>6 DEF UpdateGood
  <2> QED
    BY <2>7 DEF s
<1>5. UpdateGood(e, n, UpdateLoop!Pass(w, updates, 0, n))
  BY <1>1, <1>3, <1>4, UpdateLoop!Invariance
<1>6. Updated(w, updates) = UpdateLoop!Pass(w, updates, 0, n)
  BY DEF Updated, Along, AlongTo, UpdateLoop!Pass, UpdateLoop!AlongTo, UpdateStep
<1>7. Ids(updates) = {updates[k].id : k \in 1..n}
  BY <1>1 DEF Ids
<1> QED
  BY <1>2, <1>5, <1>6, <1>7 DEF UpdateGood, LastAt, IsUpdated

-----------------------------------------------------------------------------
(***************************************************************************)
(* The ledger.  The last of the pending updates of a validator is its      *)
(* stake, and a stake that changes is among the pending updates.           *)
(***************************************************************************)
Announced(l) ==
    \A k \in 1..Len(l.pending) :
        LastAt(l.pending, k) => l.pending[k].weight = stake_of(l, l.pending[k].id)

IsLedger(l) ==
    /\ DOMAIN l = {"stake", "unbonding", "height", "pending"}
    /\ \A id \in DOMAIN l.stake : l.stake[id] \in 1..U64Max
    /\ \A id \in DOMAIN l.unbonding : IsSeq(l.unbonding[id]) /\ l.unbonding[id] # <<>>
    /\ IsSeq(l.pending)
    /\ Announced(l)

Tracks(l, m) ==
    /\ Ids(l.pending) \subseteq Ids(m.pending)
    /\ \A id : id \notin Ids(m.pending) => stake_of(m, id) = stake_of(l, id)

LEMMA TracksTrans ==
    ASSUME NEW k, NEW l, NEW m, Tracks(k, l), Tracks(l, m)
    PROVE  Tracks(k, m)
BY DEF Tracks

LEMMA StakeIs ==
    ASSUME NEW l, IsLedger(l), NEW id
    PROVE  stake_of(l, id) \in 0..U64Max
BY StakeLedgerAssumption DEF IsLedger, stake_of

\* A stake that is set and announced
LEMMA Booked ==
    ASSUME NEW l, IsLedger(l), NEW id, NEW amount \in 0..U64Max, NEW m,
           DOMAIN m = DOMAIN l,
           m.stake = SetStake(l.stake, id, amount),
           \A x \in DOMAIN m.unbonding : IsSeq(m.unbonding[x]) /\ m.unbonding[x] # <<>>,
           m.pending = Append(l.pending, Update(id, amount))
    PROVE  IsLedger(m) /\ Tracks(l, m)
<1> DEFINE n == Len(l.pending)
           u == Update(id, amount)
<1>1. u.id = id /\ u.weight = amount
  BY DEF Update
<1> HIDE DEF u
<1>2. IsSeq(l.pending) /\ n \in Nat /\ DOMAIN l.pending = 1..n
  BY SeqParts DEF IsLedger
<1>3. /\ IsSeq(m.pending) /\ Len(m.pending) = n + 1 /\ DOMAIN m.pending = 1..n + 1
      /\ \A i \in 1..n : m.pending[i] = l.pending[i]
      /\ m.pending[n + 1] = u
  BY <1>2, SeqAppend DEF u
<1>4. ASSUME NEW x
      PROVE  stake_of(m, x) = IF x = id THEN amount ELSE stake_of(l, x)
  BY DEF stake_of, SetStake, With, Without
<1>5. ASSUME NEW x \in DOMAIN m.stake
      PROVE  m.stake[x] \in 1..U64Max
  BY DEF SetStake, With, Without, IsLedger
<1>6. Ids(m.pending) = Ids(l.pending) \cup {id}
  <2>1. ASSUME NEW i \in 1..n + 1
        PROVE  m.pending[i].id \in Ids(l.pending) \cup {id}
    <3>1. CASE i = n + 1
      BY <1>1, <1>3, <3>1
    <3>2. CASE i # n + 1
      <4>1. i \in 1..n
        BY <1>2, <3>2
      <4> QED
        BY <1>2, <1>3, <4>1 DEF Ids
    <3> QED
      BY <3>1, <3>2
  <2>2. ASSUME NEW i \in 1..n
        PROVE  l.pending[i].id \in Ids(m.pending)
    <3>1. i \in 1..n + 1
      BY <1>2
    <3> QED
      BY <1>3, <3>1 DEF Ids
  <2>3. id \in Ids(m.pending)
    <3>1. n + 1 \in 1..n + 1
      BY <1>2
    <3> QED
      BY <1>1, <1>3, <3>1 DEF Ids
  <2> QED
    BY <1>2, <1>3, <2>1, <2>2, <2>3 DEF Ids
<1>7. Tracks(l, m)
  BY <1>4, <1>6 DEF Tracks
<1>8. ASSUME NEW k \in 1..n + 1, \A j \in k + 1..n + 1 : m.pending[j].id # m.pending[k].id
      PROVE  m.pending[k].weight = stake_of(m, m.pending[k].id)
  <2>1. CASE k = n + 1
    BY <1>1, <1>3, <1>4, <2>1
  <2>2. CASE k # n + 1
    <3>1. k \in 1..n /\ n + 1 \in k + 1..n + 1
      BY <1>2, <2>2
    <3>2. m.pending[k] = l.pending[k] /\ l.pending[k].id # id
      BY <1>1, <1>3, <1>8, <3>1
    <3>3. ASSUME NEW j \in k + 1..n
          PROVE  l.pending[j].id # l.pending[k].id
      <4>1. j \in 1..n /\ j \in k + 1..n + 1
        BY <1>2, <3>1
      <4> QED
        BY <1>3, <1>8, <3>2, <4>1
    <3>4. l.pending[k].weight = stake_of(l, l.pending[k].id)
      BY <3>1, <3>3 DEF IsLedger, Announced, LastAt
    <3> QED
      BY <1>4, <3>2, <3>4
  <2> QED
    BY <2>1, <2>2
<1>9. Announced(m)
  BY <1>3, <1>8 DEF Announced, LastAt
<1> QED
  BY <1>3, <1>5, <1>7, <1>9 DEF IsLedger

LEMMA ApplyOpKeeps ==
    ASSUME NEW l, IsLedger(l), NEW o, o.amount \in Nat
    PROVE  IsLedger(ApplyOp(l, o)) /\ Tracks(l, ApplyOp(l, o))
<1> DEFINE id == o.id
           amount == o.amount
<1>1. stake_of(l, id) \in 0..U64Max /\ U64Max \in Nat
  BY StakeIs, StakeLedgerAssumption
<1>2. Tracks(l, l)
  BY DEF Tracks
<1>3. IsLedger(Bond(l, id, amount)) /\ Tracks(l, Bond(l, id, amount))
  <2> DEFINE next == SmallerOf(stake_of(l, id) + amount, U64Max)
             m == [l EXCEPT !.stake = SetStake(@, id, next),
                            !.pending = Append(@, Update(id, next))]
  <2>1. next \in 0..U64Max
    BY <1>1 DEF SmallerOf
  <2>2. CASE next = stake_of(l, id)
    BY <1>2, <2>2 DEF Bond
  <2>3. CASE next # stake_of(l, id)
    <3> HIDE DEF next
    <3>1. /\ DOMAIN m = DOMAIN l /\ m.stake = SetStake(l.stake, id, next)
          /\ m.unbonding = l.unbonding /\ m.pending = Append(l.pending, Update(id, next))
      BY DEF IsLedger
    <3> HIDE DEF m
    <3>2. \A x \in DOMAIN m.unbonding : IsSeq(m.unbonding[x]) /\ m.unbonding[x] # <<>>
      BY <3>1 DEF IsLedger
    <3>3. IsLedger(m) /\ Tracks(l, m)
      BY <2>1, <3>1, <3>2, Booked
    <3>4. Bond(l, id, amount) = m
      BY <2>3 DEF Bond, m, next
    <3> QED
      BY <3>3, <3>4
  <2> QED
    BY <2>2, <2>3
<1>4. IsLedger(Unbond(l, id, amount)) /\ Tracks(l, Unbond(l, id, amount))
  <2> DEFINE moved == SmallerOf(amount, stake_of(l, id))
             next == stake_of(l, id) - moved
             queue == Append(Unbonding(l, id),
                             [amount |-> moved, mature_at |-> l.height + UNBONDING_DELAY])
             m == [l EXCEPT !.stake = SetStake(@, id, next),
                            !.unbonding = With(@, id, queue),
                            !.pending = Append(@, Update(id, next))]
  <2>1. next \in 0..U64Max
    BY <1>1 DEF SmallerOf
  <2>2. CASE moved = 0
    BY <1>2, <2>2 DEF Unbond
  <2>3. CASE moved # 0
    <3>0. IsSeq(queue) /\ queue # <<>>
      <4>1. IsSeq(Unbonding(l, id))
        BY SeqEmpty DEF IsLedger, Unbonding
      <4> QED
        BY <4>1, SeqAppend
    <3> HIDE DEF next, queue
    <3>1. /\ DOMAIN m = DOMAIN l /\ m.stake = SetStake(l.stake, id, next)
          /\ m.unbonding = With(l.unbonding, id, queue)
          /\ m.pending = Append(l.pending, Update(id, next))
      BY DEF IsLedger
    <3> HIDE DEF m
    <3>2. \A x \in DOMAIN m.unbonding : IsSeq(m.unbonding[x]) /\ m.unbonding[x] # <<>>
      BY <3>0, <3>1 DEF IsLedger, With
    <3>3. IsLedger(m) /\ Tracks(l, m)
      BY <2>1, <3>1, <3>2, Booked
    <3>4. Unbond(l, id, amount) = m
      BY <2>3 DEF Unbond, m, next, queue
    <3> QED
      BY <3>3, <3>4
  <2> QED
    BY <2>2, <2>3
<1> QED
  BY <1>3, <1>4 DEF ApplyOp

LEMMA SlashKeeps ==
    ASSUME NEW l, IsLedger(l), NEW id
    PROVE  IsLedger(slash(l, id)) /\ Tracks(l, slash(l, id))
<1> DEFINE m == slash(l, id)
<1>1. /\ DOMAIN m = DOMAIN l /\ m.stake = Without(l.stake, {id})
      /\ m.unbonding = Without(l.unbonding, {id})
      /\ m.pending = IF stake_of(l, id) > 0 THEN Append(l.pending, Update(id, 0)) ELSE l.pending
  BY DEF slash, IsLedger
<1> HIDE DEF m
<1>2. stake_of(l, id) \in 0..U64Max /\ U64Max \in Nat
  BY StakeIs, StakeLedgerAssumption
<1>3. \A x \in DOMAIN m.unbonding : IsSeq(m.unbonding[x]) /\ m.unbonding[x] # <<>>
  BY <1>1 DEF IsLedger, Without
<1>4. CASE stake_of(l, id) > 0
  <2>1. m.stake = SetStake(l.stake, id, 0) /\ 0 \in 0..U64Max
    BY <1>1, <1>2 DEF SetStake
  <2> QED
    BY <1>1, <1>3, <1>4, <2>1, Booked DEF m
<1>5. CASE ~(stake_of(l, id) > 0)
  <2>1. stake_of(l, id) = 0 /\ m.pending = l.pending
    BY <1>1, <1>2, <1>5
  <2>2. \A x : stake_of(m, x) = stake_of(l, x)
    BY <1>1, <2>1 DEF stake_of, Without
  <2>3. \A x \in DOMAIN m.stake : m.stake[x] \in 1..U64Max
    BY <1>1 DEF IsLedger, Without
  <2>4. Announced(m)
    BY <2>1, <2>2 DEF IsLedger, Announced
  <2> QED
    BY <1>1, <1>3, <2>1, <2>2, <2>3, <2>4 DEF IsLedger, Tracks, m
<1> QED
  BY <1>4, <1>5

WaitingStep(q, u, h) == IF u.mature_at > h THEN Append(q, u) ELSE q

SeqGood(w, i, t) == IsSeq(t)

WaitingLoop == INSTANCE LoopProofs WITH Step <- WaitingStep, Good <- SeqGood

LEMMA WaitingSeq ==
    ASSUME NEW queue, IsSeq(queue), NEW h
    PROVE  IsSeq(Waiting(queue, h))
<1> DEFINE n == Len(queue)
<1>1. n \in Nat
  BY SeqParts
<1>2. SeqGood(0, 0, <<>>)
  BY SeqEmpty DEF SeqGood
<1>3. ASSUME NEW i \in 1..n, NEW t, SeqGood(0, i - 1, t)
      PROVE  SeqGood(0, i, WaitingStep(t, queue[i], h))
  BY <1>3, SeqAppend DEF SeqGood, WaitingStep
<1>4. SeqGood(0, n, WaitingLoop!Pass(<<>>, queue, h, n))
  BY <1>1, <1>2, <1>3, WaitingLoop!Invariance
<1>5. Waiting(queue, h) = WaitingLoop!Pass(<<>>, queue, h, n)
  BY DEF Waiting, Along, AlongTo, WaitingLoop!Pass, WaitingLoop!AlongTo, WaitingStep
<1> QED
  BY <1>4, <1>5 DEF SeqGood

LEMMA AdvanceKeeps ==
    ASSUME NEW l, IsLedger(l), NEW h
    PROVE  IsLedger(advance_to_height(l, h)) /\ Tracks(l, advance_to_height(l, h))
<1> DEFINE left == [id \in DOMAIN l.unbonding |-> Waiting(l.unbonding[id], h)]
           m == advance_to_height(l, h)
<1>1. /\ DOMAIN m = DOMAIN l /\ m.stake = l.stake /\ m.pending = l.pending
      /\ m.unbonding = Without(left, {id \in DOMAIN left : left[id] = <<>>})
  BY DEF advance_to_height, IsLedger
<1>2. DOMAIN left = DOMAIN l.unbonding /\ \A x \in DOMAIN left : IsSeq(left[x])
  BY WaitingSeq DEF IsLedger
<1> HIDE DEF m, left
<1>2a. \A x \in DOMAIN m.unbonding : IsSeq(m.unbonding[x]) /\ m.unbonding[x] # <<>>
  BY <1>1, <1>2 DEF Without
<1>3. \A x : stake_of(m, x) = stake_of(l, x)
  BY <1>1 DEF stake_of
<1>4. Announced(m)
  BY <1>1, <1>3 DEF IsLedger, Announced
<1> QED
  BY <1>1, <1>2a, <1>3, <1>4 DEF IsLedger, Tracks, m

\* Nothing is pending after the updates are taken.
LEMMA TakenKeeps ==
    ASSUME NEW l, IsLedger(l)
    PROVE  /\ IsLedger(take_updates(l)) /\ take_updates(l).pending = <<>>
           /\ \A id : stake_of(take_updates(l), id) = stake_of(l, id)
<1> DEFINE m == take_updates(l)
<1>1. /\ DOMAIN m = DOMAIN l /\ m.stake = l.stake /\ m.unbonding = l.unbonding
      /\ m.pending = <<>>
  BY DEF take_updates, IsLedger
<1> HIDE DEF m
<1>2. IsSeq(m.pending) /\ Len(m.pending) = 0
  BY <1>1, SeqEmpty
<1>3. Announced(m)
  BY <1>2 DEF Announced
<1>4. \A x : stake_of(m, x) = stake_of(l, x)
  BY <1>1 DEF stake_of
<1> QED
  BY <1>1, <1>2, <1>3, <1>4 DEF IsLedger, m

-----------------------------------------------------------------------------
(***************************************************************************)
(* The logs of a block, the backfill and the commit of the application.    *)
(***************************************************************************)
\* A reconfiguration has finitely many new members.
IsCmd(c) == c.kind = "reconfig" => IsFiniteSet(Ids(c.adds))

IsCmds(q) == IsSeq(q) /\ \A i \in DOMAIN q : IsCmd(q[i])

LEMMA CmdsConcat ==
    ASSUME NEW p, IsCmds(p), NEW q, IsCmds(q)
    PROVE  IsCmds(p \o q)
<1> DEFINE r == p \o q
<1>1. /\ Len(p) \in Nat /\ DOMAIN p = 1..Len(p) /\ Len(q) \in Nat /\ DOMAIN q = 1..Len(q)
  BY SeqParts DEF IsCmds
<1>2. /\ IsSeq(r) /\ Len(r) = Len(p) + Len(q)
      /\ \A i \in 1..Len(p) : r[i] = p[i]
      /\ \A i \in 1..Len(q) : r[Len(p) + i] = q[i]
  BY SeqConcat DEF IsCmds
<1>3. DOMAIN r = 1..Len(p) + Len(q)
  BY <1>2, SeqParts
<1> HIDE DEF r
<1>4. ASSUME NEW i \in DOMAIN r
      PROVE  IsCmd(r[i])
  <2>1. CASE i <= Len(p)
    BY <1>1, <1>2, <1>3, <2>1 DEF IsCmds
  <2>2. CASE ~(i <= Len(p))
    <3>1. i - Len(p) \in 1..Len(q) /\ Len(p) + (i - Len(p)) = i
      BY <1>1, <1>3, <2>2
    <3>2. r[i] = q[i - Len(p)]
      BY <1>2, <3>1
    <3> QED
      BY <1>1, <3>1, <3>2 DEF IsCmds
  <2> QED
    BY <2>1, <2>2
<1> QED
  BY <1>2, <1>4 DEF IsCmds, r

LEMMA NoCmds == IsCmds(<<>>)
BY SeqEmpty DEF IsCmds

WellLogs(block) ==
    /\ IsSeq(block.ops) /\ IsSeq(block.slashed) /\ IsCmds(block.approved)
    /\ \A i \in DOMAIN block.ops :
          DOMAIN block.ops[i] = {"id", "op", "amount"} /\ block.ops[i].amount \in Nat

LedgerGood(w, i, t) == IsLedger(t) /\ Tracks(w, t)

OpStep(l, o, v) == ApplyOp(l, o)

SlashStep(l, id, v) == slash(l, id)

\* v has the chain and the logs that cannot be read.
LogsStep(l, h, v) == ApplyLogs(l, v.chain, h, v.missed)

EffectStep(e, h, v) == e \o derive_predeploy_effects(v.chain, h, v.missed)

EffectGood(w, i, t) == IsCmds(t)

OpLoop == INSTANCE LoopProofs WITH Step <- OpStep, Good <- LedgerGood
SlashLoop == INSTANCE LoopProofs WITH Step <- SlashStep, Good <- LedgerGood
LogsLoop == INSTANCE LoopProofs WITH Step <- LogsStep, Good <- LedgerGood
EffectLoop == INSTANCE LoopProofs WITH Step <- EffectStep, Good <- EffectGood

LEMMA ReadLogs ==
    ASSUME NEW ch, NEW h, WellLogs(ch[h]), NEW missed
    PROVE  /\ IsSeq(get_logs_retry(ch, h, "ops", missed))
           /\ IsSeq(get_logs_retry(ch, h, "slashed", missed))
           /\ IsCmds(derive_predeploy_effects(ch, h, missed))
           /\ \A i \in DOMAIN get_logs_retry(ch, h, "ops", missed) :
                 LET o == get_logs_retry(ch, h, "ops", missed)[i]
                 IN DOMAIN o = {"id", "op", "amount"} /\ o.amount \in Nat
BY SeqEmpty, NoCmds DEF get_logs_retry, derive_predeploy_effects, WellLogs

LEMMA ParsedLogs ==
    ASSUME NEW ch, NEW h, WellLogs(ch[h]), NEW missed
    PROVE  LET ops == parse_stake_logs(get_logs_retry(ch, h, "ops", missed))
           IN Len(ops) \in Nat /\ \A i \in 1..Len(ops) : ops[i].amount \in Nat
<1> DEFINE logs == get_logs_retry(ch, h, "ops", missed)
           ops == parse_stake_logs(logs)
           n == Len(logs)
<1>1. /\ IsSeq(logs) /\ n \in Nat /\ DOMAIN logs = 1..n
      /\ \A i \in 1..n : DOMAIN logs[i] = {"id", "op", "amount"} /\ logs[i].amount \in Nat
  <2>1. /\ IsSeq(logs)
        /\ \A i \in DOMAIN logs : DOMAIN logs[i] = {"id", "op", "amount"}
                                   /\ logs[i].amount \in Nat
    BY ReadLogs
  <2> HIDE DEF logs
  <2> QED
    BY <2>1, SeqParts
<1> HIDE DEF logs
<1>2. ops = [i \in 1..n |-> [logs[i] EXCEPT !.amount = SmallerOf(@, U64Max)]]
  BY <1>1 DEF parse_stake_logs, data_word_to_u64
<1>3. ASSUME NEW i \in 1..n
      PROVE  ops[i].amount \in Nat
  <2>1. ops[i] = [logs[i] EXCEPT !.amount = SmallerOf(@, U64Max)]
    BY <1>2
  <2>2. ops[i].amount = SmallerOf(logs[i].amount, U64Max)
    BY <1>1, <2>1
  <2> QED
    BY <1>1, <2>2, StakeLedgerAssumption DEF SmallerOf
<1>4. ops \in [1..n -> {ops[i] : i \in 1..n}]
  BY <1>2
<1>5. Len(ops) = n
  BY <1>1, <1>4, SegmentSeq
<1> QED
  BY <1>1, <1>3, <1>5 DEF logs

LEMMA LogsKeep ==
    ASSUME NEW l, IsLedger(l), NEW ch, NEW h, WellLogs(ch[h]), NEW missed
    PROVE  /\ IsLedger(ApplyLogs(l, ch, h, missed))
           /\ Tracks(l, ApplyLogs(l, ch, h, missed))
<1> DEFINE ops == parse_stake_logs(get_logs_retry(ch, h, "ops", missed))
           slashed == get_logs_retry(ch, h, "slashed", missed)
           l1 == advance_to_height(l, h)
           l2 == OpLoop!Pass(l1, ops, 0, Len(ops))
           l3 == SlashLoop!Pass(l2, slashed, 0, Len(slashed))
<1>1. Len(ops) \in Nat /\ \A i \in 1..Len(ops) : ops[i].amount \in Nat
  BY ParsedLogs
<1>2. IsSeq(slashed)
  BY ReadLogs
<1>3. Len(slashed) \in Nat
  BY <1>2, SeqParts
<1> HIDE DEF ops, slashed, l1
<1>4. IsLedger(l1) /\ Tracks(l, l1)
  BY AdvanceKeeps DEF l1
<1>5. LedgerGood(l, Len(ops), l2)
  <2>1. LedgerGood(l, 0, l1)
    BY <1>4 DEF LedgerGood
  <2>2. ASSUME NEW i \in 1..Len(ops), NEW t, LedgerGood(l, i - 1, t)
        PROVE  LedgerGood(l, i, OpStep(t, ops[i], 0))
    BY <1>1, <2>2, ApplyOpKeeps, TracksTrans DEF LedgerGood, OpStep
  <2> QED
    BY <1>1, <2>1, <2>2, OpLoop!Invariance
<1> HIDE DEF l2
<1>6. LedgerGood(l, Len(slashed), l3)
  <2>1. LedgerGood(l, 0, l2)
    BY <1>5 DEF LedgerGood
  <2>2. ASSUME NEW i \in 1..Len(slashed), NEW t, LedgerGood(l, i - 1, t)
        PROVE  LedgerGood(l, i, SlashStep(t, slashed[i], 0))
    BY <2>2, SlashKeeps, TracksTrans DEF LedgerGood, SlashStep
  <2> QED
    BY <1>3, <2>1, <2>2, SlashLoop!Invariance
<1> HIDE DEF l3
<1>7. ApplyLogs(l, ch, h, missed) = l3
  <2>1. Along(ApplyOp, l1, ops) = l2
    BY DEF Along, AlongTo, l2, OpLoop!Pass, OpLoop!AlongTo, OpStep
  <2>2. Along(slash, l2, slashed) = l3
    BY DEF Along, AlongTo, l3, SlashLoop!Pass, SlashLoop!AlongTo, SlashStep
  <2>3. ApplyLogs(l, ch, h, missed) = Along(slash, Along(ApplyOp, l1, ops), slashed)
    BY DEF ApplyLogs, ops, slashed, l1
  <2> QED
    BY <2>1, <2>2, <2>3
<1> QED
  BY <1>6, <1>7 DEF LedgerGood

LEMMA HeightsAre ==
    ASSUME NEW a \in Int, NEW b \in Int
    PROVE  /\ IsSeq(Heights(a, b))
           /\ Len(Heights(a, b)) = LargerOf(0, b - a + 1)
           /\ Len(Heights(a, b)) \in Nat
           /\ \A i \in 1..Len(Heights(a, b)) :
                 Heights(a, b)[i] = a + i - 1 /\ Heights(a, b)[i] \in a..b
<1> DEFINE n == LargerOf(0, b - a + 1)
           s == Heights(a, b)
<1>1. n \in Nat
  BY DEF LargerOf
<1>2. s = [i \in 1..n |-> a + i - 1]
  BY DEF Heights
<1>3. \A i \in 1..n : a + i - 1 \in a..b
  BY DEF LargerOf
<1> HIDE DEF n, s
<1>4. s \in [1..n -> Int]
  BY <1>1, <1>2
<1>5. IsSeq(s) /\ Len(s) = n
  BY <1>1, <1>4, SegmentSeq
<1> QED
  BY <1>1, <1>2, <1>3, <1>5 DEF s, n

IsApp(a) ==
    /\ a = [executed |-> a.executed, ledger |-> a.ledger, weights |-> a.weights, ring |-> a.ring]
    /\ DOMAIN a = {"executed", "ledger", "weights", "ring"}
    /\ a.executed \in Nat /\ IsLedger(a.ledger)

\* What the commit of block h makes of the application
CommitIs(r, a, carried, h) ==
    /\ IsApp(r.app) /\ r.app.executed = h
    /\ r.heights = Append(Heights(a.executed + 1, h - 1), h)
    /\ IsSeq(r.updates) /\ IsCmds(r.effects)
    /\ \E l : /\ IsLedger(l) /\ Tracks(a.ledger, l)
              /\ r.app.ledger = take_updates(l) /\ r.updates = l.pending
              /\ r.app.weights = reconcile_pending_weights(a.weights, carried, l.pending)

LEMMA CommitOf ==
    ASSUME NEW a, IsApp(a), NEW ch, NEW n \in Nat, \A j \in 1..n : WellLogs(ch[j]),
           NEW h \in 1..n, NEW missed
    PROVE  CommitIs(Committed(a, ch, h, missed), a, ch[h].registry.weights, h)
<1> DEFINE gap == Heights(a.executed + 1, h - 1)
           m == Len(gap)
           b == backfill_self_synced_gap(a, ch, h, missed)
           l == ApplyLogs(b.ledger, ch, h, missed)
           r == Committed(a, ch, h, missed)
           v == [chain |-> ch, missed |-> missed]
           approved == derive_predeploy_effects(ch, h, missed)
<1>1. /\ IsSeq(gap) /\ m \in Nat
      /\ \A i \in 1..m : gap[i] \in 1..n
  <2>1. a.executed + 1 \in Int /\ h - 1 \in Int /\ a.executed \in Nat
    BY DEF IsApp
  <2>2. IsSeq(gap) /\ m \in Nat /\ \A i \in 1..m : gap[i] \in a.executed + 1..h - 1
    BY <2>1, HeightsAre
  <2> QED
    BY <2>1, <2>2
<1>2. /\ b.ledger = Along(LAMBDA k, i : ApplyLogs(k, ch, i, missed), a.ledger, gap)
      /\ b.heights = gap
      /\ b.effects = Along(LAMBDA e, i : e \o derive_predeploy_effects(ch, i, missed),
                           <<>>, gap)
  BY DEF backfill_self_synced_gap
<1>2a. v.chain = ch /\ v.missed = missed
  OBVIOUS
<1>2b. IsCmds(approved)
  BY ReadLogs
<1> HIDE DEF gap, m, b, v, approved
<1>3. IsLedger(b.ledger) /\ Tracks(a.ledger, b.ledger)
  <2>1. LedgerGood(a.ledger, 0, a.ledger)
    BY DEF LedgerGood, IsApp, Tracks
  <2>2. ASSUME NEW i \in 1..m, NEW t, LedgerGood(a.ledger, i - 1, t)
        PROVE  LedgerGood(a.ledger, i, LogsStep(t, gap[i], v))
    BY <1>1, <1>2a, <2>2, LogsKeep, TracksTrans DEF LedgerGood, LogsStep
  <2>3. LedgerGood(a.ledger, m, LogsLoop!Pass(a.ledger, gap, v, m))
    BY <1>1, <2>1, <2>2, LogsLoop!Invariance
  <2>4. b.ledger = LogsLoop!Pass(a.ledger, gap, v, m)
    BY <1>2, <1>2a DEF Along, AlongTo, LogsLoop!Pass, LogsLoop!AlongTo, LogsStep, m
  <2> QED
    BY <2>3, <2>4 DEF LedgerGood
<1>4. IsCmds(b.effects)
  <2>1. EffectGood(0, 0, <<>>)
    BY NoCmds DEF EffectGood
  <2>2. ASSUME NEW i \in 1..m, NEW t, EffectGood(0, i - 1, t)
        PROVE  EffectGood(0, i, EffectStep(t, gap[i], v))
    <3>1. IsCmds(derive_predeploy_effects(ch, gap[i], missed))
      BY <1>1, ReadLogs
    <3> QED
      BY <1>2a, <2>2, <3>1, CmdsConcat DEF EffectGood, EffectStep
  <2>3. EffectGood(0, m, EffectLoop!Pass(<<>>, gap, v, m))
    BY <1>1, <2>1, <2>2, EffectLoop!Invariance
  <2>4. b.effects = EffectLoop!Pass(<<>>, gap, v, m)
    BY <1>2, <1>2a DEF Along, AlongTo, EffectLoop!Pass, EffectLoop!AlongTo, EffectStep, m
  <2> QED
    BY <2>3, <2>4 DEF EffectGood
<1>5. IsLedger(l) /\ Tracks(a.ledger, l)
  BY <1>3, LogsKeep, TracksTrans
<1>6. /\ r.app = [executed |-> h, ledger |-> take_updates(l),
                  weights |-> reconcile_pending_weights(
                                  a.weights, ch[h].registry.weights, l.pending),
                  ring |-> Ringed(a.ring, h)]
      /\ r.heights = Append(b.heights, h)
      /\ r.updates = l.pending /\ r.effects = b.effects \o approved
  BY DEF Committed, b, approved
<1> HIDE DEF l, r
<1>7. IsApp(r.app) /\ r.app.executed = h /\ r.app.ledger = take_updates(l)
      /\ r.app.weights = reconcile_pending_weights(
                             a.weights, ch[h].registry.weights, l.pending)
  BY <1>5, <1>6, TakenKeeps DEF IsApp
<1>8. IsSeq(r.updates) /\ IsCmds(r.effects)
  BY <1>2b, <1>4, <1>5, <1>6, CmdsConcat DEF IsLedger
<1>9. r.heights = Append(gap, h)
  BY <1>2, <1>6
<1> QED
  BY <1>5, <1>6, <1>7, <1>8, <1>9 DEF r, gap, CommitIs

-----------------------------------------------------------------------------
(***************************************************************************)
(* The tracker: an observation enters the counts of its members, and leaves *)
(* them when it leaves the window.                                         *)
(***************************************************************************)
MemberAt(obs, id) == {i \in DOMAIN obs : id \in obs[i].members}

CreditedAt(obs, id) == {i \in DOMAIN obs : id \in obs[i].credited}

\* The places of an element when one place is added at the end
LEMMA PlacesAdded ==
    ASSUME NEW n \in Nat, NEW I \in SUBSET (1..n)
    PROVE  /\ Cardinality(I) \in Nat /\ (Cardinality(I) = 0 <=> I = {})
           /\ Cardinality(I \cup {n + 1}) = Cardinality(I) + 1
<1>1. IsFiniteSet(1..n)
  BY FS_Interval
<1>2. IsFiniteSet(I)
  BY <1>1, FS_Subset
<1>3. Cardinality(I) \in Nat /\ (Cardinality(I) = 0 <=> I = {})
  BY <1>2, FS_CardinalityType, FS_EmptySet
<1>4. n + 1 \notin I
  OBVIOUS
<1> QED
  BY <1>2, <1>3, <1>4, FS_AddElement

\* and when the first place falls away
LEMMA PlacesShifted ==
    ASSUME NEW n \in Nat, NEW I \in SUBSET (1..n), NEW J \in SUBSET (1..n - 1),
           \A i \in 1..n - 1 : i \in J <=> i + 1 \in I
    PROVE  /\ Cardinality(J) \in Nat
           /\ 1 \in I => Cardinality(I) = Cardinality(J) + 1
           /\ 1 \notin I => Cardinality(I) = Cardinality(J)
<1> DEFINE K == I \ {1}
           f == [i \in J |-> i + 1]
<1>1. IsFiniteSet(1..n) /\ IsFiniteSet(1..n - 1)
  BY FS_Interval
<1>2. IsFiniteSet(I) /\ IsFiniteSet(J)
  BY <1>1, FS_Subset
<1>3. f \in [J -> K]
  OBVIOUS
<1>4. \A a, b \in J : f[a] = f[b] => a = b
  OBVIOUS
<1>5. \A k \in K : \E j \in J : f[j] = k
  <2> TAKE k \in K
  <2>1. k - 1 \in J /\ (k - 1) + 1 = k
    OBVIOUS
  <2> QED
    BY <2>1
<1>6. f \in Bijection(J, K)
  <2>1. DOMAIN f = J
    OBVIOUS
  <2> HIDE DEF f, K
  <2> QED
    BY <1>3, <1>4, <1>5, <2>1 DEF Bijection, Injection, Surjection, IsInjective
<1> HIDE DEF f
<1>7. Cardinality(K) = Cardinality(J)
  BY <1>2, <1>6, FS_Bijection DEF ExistsBijection
<1>8. Cardinality(J) \in Nat /\ Cardinality(I) \in Nat
  BY <1>2, FS_CardinalityType
<1>9. Cardinality(K) = IF 1 \in I THEN Cardinality(I) - 1 ELSE Cardinality(I)
  BY <1>2, FS_RemoveElement
<1> QED
  BY <1>7, <1>8, <1>9

\* How often id is a member, and how often it is credited
CountAt(obs, id) == [member   |-> Cardinality(MemberAt(obs, id)),
                     credited |-> Cardinality(CreditedAt(obs, id))]

Counts(obs, counts) ==
    /\ DOMAIN counts = UNION {obs[i].members : i \in DOMAIN obs}
    /\ \A id \in DOMAIN counts : counts[id] = CountAt(obs, id)

Observed(obs) == IsSeq(obs) /\ \A i \in DOMAIN obs : obs[i].credited \subseteq obs[i].members

IsTracker(t) ==
    DOMAIN t = {"obs", "counts"} /\ Observed(t.obs) /\ Len(t.obs) <= Window
    /\ Counts(t.obs, t.counts)

LEMMA CountsTotal ==
    ASSUME NEW obs, Observed(obs), NEW counts, Counts(obs, counts), NEW id
    PROVE  /\ CountOf(counts, id) = CountAt(obs, id)
           /\ Cardinality(MemberAt(obs, id)) \in Nat
           /\ Cardinality(CreditedAt(obs, id)) \in Nat
           /\ id \in DOMAIN counts <=> Cardinality(MemberAt(obs, id)) # 0
           /\ Cardinality(MemberAt(obs, id)) = 0 => Cardinality(CreditedAt(obs, id)) = 0
<1>1. Len(obs) \in Nat /\ DOMAIN obs = 1..Len(obs)
  BY SeqParts DEF Observed
<1>2. /\ MemberAt(obs, id) \in SUBSET (1..Len(obs))
      /\ CreditedAt(obs, id) \in SUBSET (1..Len(obs))
  BY <1>1 DEF MemberAt, CreditedAt
<1>3. /\ Cardinality(MemberAt(obs, id)) \in Nat
      /\ Cardinality(CreditedAt(obs, id)) \in Nat
      /\ Cardinality(MemberAt(obs, id)) = 0 <=> MemberAt(obs, id) = {}
      /\ Cardinality(CreditedAt(obs, id)) = 0 <=> CreditedAt(obs, id) = {}
  BY <1>1, <1>2, PlacesAdded
<1>4. id \in DOMAIN counts <=> MemberAt(obs, id) # {}
  BY DEF Counts, MemberAt
<1>5. MemberAt(obs, id) = {} => CreditedAt(obs, id) = {}
  BY DEF MemberAt, CreditedAt, Observed
<1>6. CountOf(counts, id) = CountAt(obs, id)
  <2>1. CASE id \in DOMAIN counts
    BY <2>1 DEF Counts, CountOf
  <2>2. CASE id \notin DOMAIN counts
    BY <1>3, <1>4, <1>5, <2>2 DEF CountOf, CountAt, NoCount
  <2> QED
    BY <2>1, <2>2
<1> QED
  BY <1>3, <1>4, <1>5, <1>6

LEMMA CountsPlus ==
    ASSUME NEW obs, Observed(obs), NEW counts, Counts(obs, counts), NEW o,
           o.credited \subseteq o.members
    PROVE  Observed(Append(obs, o)) /\ Counts(Append(obs, o), Plus(counts, o))
<1> DEFINE n == Len(obs)
           more == Append(obs, o)
           c == Plus(counts, o)
<1>1. IsSeq(obs) /\ n \in Nat /\ DOMAIN obs = 1..n
  BY SeqParts DEF Observed
<1>2. /\ IsSeq(more) /\ DOMAIN more = 1..n + 1
      /\ \A i \in 1..n : more[i] = obs[i]
      /\ more[n + 1] = o
  BY <1>1, SeqAppend
<1>3. DOMAIN more = 1..n \cup {n + 1}
  BY <1>1, <1>2
<1> HIDE DEF more, n
<1>4. ASSUME NEW id
      PROVE  CountAt(more, id) =
                 [member   |-> Cardinality(MemberAt(obs, id))
                               + (IF id \in o.members THEN 1 ELSE 0),
                  credited |-> Cardinality(CreditedAt(obs, id))
                               + (IF id \in o.credited THEN 1 ELSE 0)]
  <2>1. /\ MemberAt(more, id) = MemberAt(obs, id) \cup
                                (IF id \in o.members THEN {n + 1} ELSE {})
        /\ CreditedAt(more, id) = CreditedAt(obs, id) \cup
                                  (IF id \in o.credited THEN {n + 1} ELSE {})
    BY <1>1, <1>2, <1>3 DEF MemberAt, CreditedAt
  <2>2. MemberAt(obs, id) \in SUBSET (1..n) /\ CreditedAt(obs, id) \in SUBSET (1..n)
    BY <1>1 DEF MemberAt, CreditedAt
  <2> DEFINE I == MemberAt(obs, id)
             J == CreditedAt(obs, id)
  <2> HIDE DEF I, J
  <2>3. Cardinality(MemberAt(more, id)) = Cardinality(I) +
                                          (IF id \in o.members THEN 1 ELSE 0)
    <3>1. Cardinality(I) \in Nat /\ Cardinality(I \cup {n + 1}) = Cardinality(I) + 1
      BY <1>1, <2>2, PlacesAdded DEF I
    <3>2. MemberAt(more, id) = IF id \in o.members THEN I \cup {n + 1} ELSE I
      BY <2>1 DEF I
    <3> QED
      BY <3>1, <3>2
  <2>4. Cardinality(CreditedAt(more, id)) = Cardinality(J) +
                                            (IF id \in o.credited THEN 1 ELSE 0)
    <3>1. Cardinality(J) \in Nat /\ Cardinality(J \cup {n + 1}) = Cardinality(J) + 1
      BY <1>1, <2>2, PlacesAdded DEF J
    <3>2. CreditedAt(more, id) = IF id \in o.credited THEN J \cup {n + 1} ELSE J
      BY <2>1 DEF J
    <3> QED
      BY <3>1, <3>2
  <2> QED
    BY <2>3, <2>4 DEF CountAt, I, J
<1>5. DOMAIN c = UNION {more[i].members : i \in DOMAIN more}
  <2>1. DOMAIN c = DOMAIN counts \cup o.members
    BY DEF Plus
  <2>2. DOMAIN counts = UNION {obs[i].members : i \in 1..n}
    BY <1>1 DEF Counts
  <2>3. ASSUME NEW id
        PROVE  id \in DOMAIN c <=> \E i \in DOMAIN more : id \in more[i].members
    BY <1>2, <1>3, <2>1, <2>2
  <2> HIDE DEF c
  <2> QED
    BY <2>3
<1>6. ASSUME NEW id \in DOMAIN c
      PROVE  c[id] = CountAt(more, id)
  <2>1. CountOf(counts, id) = CountAt(obs, id)
    BY CountsTotal
  <2>2. c[id] = [member   |-> CountOf(counts, id).member + (IF id \in o.members THEN 1 ELSE 0),
                 credited |-> CountOf(counts, id).credited
                              + (IF id \in o.credited THEN 1 ELSE 0)]
    BY DEF Plus
  <2> QED
    BY <1>4, <2>1, <2>2 DEF CountAt
<1>7. Observed(more)
  BY <1>1, <1>2, <1>3 DEF Observed
<1> QED
  BY <1>5, <1>6, <1>7 DEF Counts, more

LEMMA CountsMinus ==
    ASSUME NEW obs, Observed(obs), obs # <<>>, NEW counts, Counts(obs, counts)
    PROVE  /\ Observed(Tail(obs)) /\ Len(Tail(obs)) = Len(obs) - 1
           /\ Counts(Tail(obs), Minus(counts, Head(obs)))
<1> DEFINE n == Len(obs)
           o == Head(obs)
           rest == Tail(obs)
           less == [id \in DOMAIN counts |->
                       [member   |-> Decrease(counts[id].member, id \in o.members),
                        credited |-> Decrease(counts[id].credited, id \in o.credited)]]
           c == Minus(counts, o)
<1>1. obs \in Seq(ToSet(obs)) /\ n \in Nat /\ n >= 1 /\ DOMAIN obs = 1..n
  BY SeqParts DEF Observed, IsSeq
<1>2. /\ rest \in Seq(ToSet(obs)) /\ Len(rest) = n - 1 /\ o = obs[1]
      /\ \A i \in 1..n - 1 : rest[i] = obs[i + 1]
  BY <1>1
<1>3. IsSeq(rest) /\ DOMAIN rest = 1..n - 1
  BY <1>1, <1>2, SeqIs, SeqParts
<1>4. c = Without(less, {id \in DOMAIN less : less[id] = NoCount})
  BY DEF Minus
<1> HIDE DEF n, o, rest, c
<1>5. Observed(rest)
  <2>1. ASSUME NEW i \in 1..n - 1
        PROVE  rest[i].credited \subseteq rest[i].members
    <3>1. i + 1 \in DOMAIN obs /\ rest[i] = obs[i + 1]
      BY <1>1, <1>2
    <3> QED
      BY <3>1 DEF Observed
  <2> QED
    BY <1>3, <2>1 DEF Observed
<1>6. ASSUME NEW id
      PROVE  /\ Cardinality(MemberAt(obs, id)) = Cardinality(MemberAt(rest, id))
                                                 + (IF id \in o.members THEN 1 ELSE 0)
             /\ Cardinality(CreditedAt(obs, id)) = Cardinality(CreditedAt(rest, id))
                                                   + (IF id \in o.credited THEN 1 ELSE 0)
             /\ Cardinality(MemberAt(rest, id)) \in Nat
             /\ Cardinality(CreditedAt(rest, id)) \in Nat
  <2>1. MemberAt(obs, id) \in SUBSET (1..n) /\ CreditedAt(obs, id) \in SUBSET (1..n)
    BY <1>1 DEF MemberAt, CreditedAt
  <2>2. /\ MemberAt(rest, id) \in SUBSET (1..n - 1)
        /\ CreditedAt(rest, id) \in SUBSET (1..n - 1)
        /\ \A i \in 1..n - 1 : i \in MemberAt(rest, id) <=> i + 1 \in MemberAt(obs, id)
        /\ \A i \in 1..n - 1 : i \in CreditedAt(rest, id) <=> i + 1 \in CreditedAt(obs, id)
    BY <1>1, <1>2, <1>3 DEF MemberAt, CreditedAt
  <2>3. (1 \in MemberAt(obs, id) <=> id \in o.members)
        /\ (1 \in CreditedAt(obs, id) <=> id \in o.credited)
    BY <1>1, <1>2 DEF MemberAt, CreditedAt
  <2>4. /\ Cardinality(MemberAt(obs, id)) = Cardinality(MemberAt(rest, id))
                                            + (IF id \in o.members THEN 1 ELSE 0)
        /\ Cardinality(MemberAt(rest, id)) \in Nat
    <3> DEFINE I == MemberAt(obs, id)
               J == MemberAt(rest, id)
    <3> HIDE DEF I, J
    <3>1. I \in SUBSET (1..n) /\ J \in SUBSET (1..n - 1)
          /\ \A i \in 1..n - 1 : i \in J <=> i + 1 \in I
      BY <2>1, <2>2 DEF I, J
    <3>2. /\ Cardinality(J) \in Nat
          /\ 1 \in I => Cardinality(I) = Cardinality(J) + 1
          /\ 1 \notin I => Cardinality(I) = Cardinality(J)
      BY <1>1, <3>1, PlacesShifted
    <3>3. 1 \in I <=> id \in o.members
      BY <2>3 DEF I
    <3> QED
      BY <3>2, <3>3 DEF I, J
  <2>5. /\ Cardinality(CreditedAt(obs, id)) = Cardinality(CreditedAt(rest, id))
                                            + (IF id \in o.credited THEN 1 ELSE 0)
        /\ Cardinality(CreditedAt(rest, id)) \in Nat
    <3> DEFINE I == CreditedAt(obs, id)
               J == CreditedAt(rest, id)
    <3> HIDE DEF I, J
    <3>1. I \in SUBSET (1..n) /\ J \in SUBSET (1..n - 1)
          /\ \A i \in 1..n - 1 : i \in J <=> i + 1 \in I
      BY <2>1, <2>2 DEF I, J
    <3>2. /\ Cardinality(J) \in Nat
          /\ 1 \in I => Cardinality(I) = Cardinality(J) + 1
          /\ 1 \notin I => Cardinality(I) = Cardinality(J)
      BY <1>1, <3>1, PlacesShifted
    <3>3. 1 \in I <=> id \in o.credited
      BY <2>3 DEF I
    <3> QED
      BY <3>2, <3>3 DEF I, J
  <2> QED
    BY <2>4, <2>5
<1>7. ASSUME NEW id \in DOMAIN counts
      PROVE  less[id] = CountAt(rest, id)
  <2>0. counts[id] = CountAt(obs, id)
    BY DEF Counts
  <2>1. counts[id].member = Cardinality(MemberAt(obs, id))
        /\ counts[id].credited = Cardinality(CreditedAt(obs, id))
    BY <2>0 DEF CountAt
  <2>2. Decrease(counts[id].member, id \in o.members) = Cardinality(MemberAt(rest, id))
    BY <1>6, <2>1 DEF Decrease
  <2>3. Decrease(counts[id].credited, id \in o.credited) = Cardinality(CreditedAt(rest, id))
    BY <1>6, <2>1 DEF Decrease
  <2> QED
    BY <2>2, <2>3 DEF CountAt
<1>8. DOMAIN less = DOMAIN counts
  OBVIOUS
<1> HIDE DEF less
<1>9. DOMAIN counts = UNION {obs[i].members : i \in 1..n}
  BY <1>1 DEF Counts
<1>10. ASSUME NEW id \in DOMAIN counts
       PROVE  less[id] = NoCount <=> MemberAt(rest, id) = {}
  <2>1. MemberAt(rest, id) \in SUBSET (1..n - 1) /\ CreditedAt(rest, id) \in SUBSET (1..n - 1)
        /\ n - 1 \in Nat
    BY <1>1, <1>3 DEF MemberAt, CreditedAt
  <2>2. /\ Cardinality(MemberAt(rest, id)) = 0 <=> MemberAt(rest, id) = {}
        /\ Cardinality(CreditedAt(rest, id)) = 0 <=> CreditedAt(rest, id) = {}
    BY <2>1, PlacesAdded
  <2>3. MemberAt(rest, id) = {} => CreditedAt(rest, id) = {}
    BY <1>5 DEF Observed, MemberAt, CreditedAt
  <2> DEFINE m == Cardinality(MemberAt(rest, id))
             c0 == Cardinality(CreditedAt(rest, id))
  <2> HIDE DEF m, c0
  <2>4. less[id] = [member |-> m, credited |-> c0]
    BY <1>7 DEF CountAt, m, c0
  <2>5. less[id] = NoCount <=> m = 0 /\ c0 = 0
    BY <2>4 DEF NoCount
  <2> QED
    BY <2>2, <2>3, <2>5 DEF m, c0
<1>11. DOMAIN c = UNION {rest[i].members : i \in DOMAIN rest}
  <2>1. DOMAIN c = {id \in DOMAIN counts : less[id] # NoCount}
    BY <1>4, <1>8 DEF Without
  <2>2. \A id \in DOMAIN counts : less[id] # NoCount <=> \E i \in DOMAIN rest : id \in rest[i].members
    BY <1>10 DEF MemberAt
  <2>3. \A i \in DOMAIN rest : rest[i].members \subseteq DOMAIN counts
    <3> TAKE i \in DOMAIN rest
    <3>1. i \in 1..n - 1 /\ i + 1 \in 1..n
      BY <1>1, <1>3
    <3> QED
      BY <1>2, <1>9, <3>1
  <2> QED
    BY <2>1, <2>2, <2>3
<1>12. ASSUME NEW id \in DOMAIN c
       PROVE  c[id] = CountAt(rest, id)
  BY <1>4, <1>7, <1>8 DEF Without
<1> QED
  BY <1>2, <1>5, <1>11, <1>12 DEF Counts, rest, c, o, n

LEMMA ObserveKeeps ==
    ASSUME NEW t, IsTracker(t), NEW members, NEW signers
    PROVE  IsTracker(observe(t, members, signers))
<1> DEFINE o == [members |-> members, credited |-> signers \cap members]
           obs == Append(t.obs, o)
           counts == Plus(t.counts, o)
<1>1. o.credited \subseteq o.members
  OBVIOUS
<1> HIDE DEF o
<1>2. Observed(obs) /\ Counts(obs, counts)
  BY <1>1, CountsPlus DEF IsTracker
<1>3. Len(obs) = Len(t.obs) + 1 /\ obs # <<>> /\ Len(t.obs) \in Nat
  BY SeqAppend, SeqParts DEF IsTracker, Observed
<1>4. Window \in Nat
  BY StakeLedgerAssumption
<1>5. observe(t, members, signers) =
          IF Len(obs) > Window THEN [obs |-> Tail(obs), counts |-> Minus(counts, Head(obs))]
                               ELSE [obs |-> obs, counts |-> counts]
  BY DEF observe, o
<1> HIDE DEF obs, counts
<1>6. CASE Len(obs) > Window
  <2>1. /\ Observed(Tail(obs)) /\ Len(Tail(obs)) = Len(obs) - 1
        /\ Counts(Tail(obs), Minus(counts, Head(obs)))
    BY <1>2, <1>3, CountsMinus
  <2>2. Len(t.obs) <= Window
    BY DEF IsTracker
  <2>3. Len(Tail(obs)) <= Window
    BY <1>3, <1>4, <2>1, <2>2
  <2> QED
    BY <1>5, <1>6, <2>1, <2>3 DEF IsTracker
<1>7. CASE ~(Len(obs) > Window)
  <2>1. Len(obs) <= Window
    BY <1>3, <1>4, <1>7
  <2> QED
    BY <1>2, <1>5, <1>7, <2>1 DEF IsTracker
<1> QED
  BY <1>6, <1>7

-----------------------------------------------------------------------------
(***************************************************************************)
(* Finite sets and the sequences that list them.                           *)
(***************************************************************************)
LEMMA FiniteImage ==
    ASSUME NEW S, IsFiniteSet(S), NEW f, S \subseteq DOMAIN f
    PROVE  /\ IsFiniteSet({f[x] : x \in S})
           /\ Cardinality({f[x] : x \in S}) \in Nat
           /\ Cardinality({f[x] : x \in S}) <= Cardinality(S)
<1> DEFINE T == {f[x] : x \in S}
           g == [x \in S |-> f[x]]
<1>1. g \in Surjection(S, T)
  BY DEF Surjection
<1>2. IsFiniteSet(T) /\ Cardinality(T) <= Cardinality(S)
  BY <1>1, FS_Surjection
<1> QED
  BY <1>2, FS_CardinalityType

LEMMA FiniteElements ==
    ASSUME NEW s, IsSeq(s)
    PROVE  IsFiniteSet(ToSet(s)) /\ IsFiniteSet(Ids(s))
<1> DEFINE n == Len(s)
           f == [i \in 1..n |-> s[i].id]
           g == [i \in 1..n |-> s[i]]
<1>1. n \in Nat /\ DOMAIN s = 1..n
  BY SeqParts
<1>2. IsFiniteSet(1..n)
  BY <1>1, FS_Interval
<1>3. DOMAIN f = 1..n /\ DOMAIN g = 1..n
  OBVIOUS
<1>4. IsFiniteSet({f[i] : i \in 1..n}) /\ IsFiniteSet({g[i] : i \in 1..n})
  BY <1>2, <1>3, FiniteImage
<1>5. {f[i] : i \in 1..n} = Ids(s) /\ {g[i] : i \in 1..n} = ToSet(s)
  BY <1>1 DEF Ids, ToSet
<1> QED
  BY <1>4, <1>5

LEMMA ListedIs ==
    ASSUME NEW S, IsFiniteSet(S)
    PROVE  /\ IsSeq(Listed(S)) /\ ToSet(Listed(S)) = S
           /\ Len(Listed(S)) = Cardinality(S) /\ Cardinality(S) \in Nat
<1> DEFINE n == Cardinality(S)
           s == Listed(S)
<1>1. n \in Nat /\ ExistsBijection(1..n, S)
  BY FS_CardinalityType
<1>2. \E f \in [1..n -> S] : IsInjective(f)
  BY <1>1 DEF ExistsBijection, Bijection, Injection
<1>3. s \in [1..n -> S] /\ IsInjective(s)
  BY <1>2 DEF Listed, SetToSeq
<1> HIDE DEF s
<1>4. IsSeq(s) /\ Len(s) = n
  BY <1>1, <1>3, SegmentSeq
<1>5. s \in Injection(1..n, S)
  BY <1>3 DEF Injection
<1>6. IsFiniteSet(1..n) /\ Cardinality(1..n) = n
  BY <1>1, FS_Interval
<1>7. s \in Surjection(1..n, S)
  BY <1>5, <1>6, FS_Injection
<1>8. ToSet(s) = S
  <2>1. DOMAIN s = 1..n
    BY <1>3
  <2> QED
    BY <1>3, <1>7, <2>1 DEF Surjection, ToSet
<1> QED
  BY <1>1, <1>4, <1>8 DEF s

LEMMA TruncatedIs ==
    ASSUME NEW S, IsFiniteSet(S), NEW k \in Nat
    PROVE  /\ Truncated(S, k) \subseteq S /\ IsFiniteSet(Truncated(S, k))
           /\ Cardinality(Truncated(S, k)) \in Nat /\ Cardinality(Truncated(S, k)) <= k
<1> DEFINE s == Listed(S)
           m == SmallerOf(k, Cardinality(S))
           t == SubSeq(s, 1, m)
<1>1. IsSeq(s) /\ ToSet(s) = S /\ Len(s) = Cardinality(S) /\ Cardinality(S) \in Nat
  BY ListedIs
<1>2. m \in Nat /\ m <= k /\ m <= Len(s)
  BY <1>1 DEF SmallerOf
<1> HIDE DEF s, m
<1>3. s \in Seq(S) /\ DOMAIN s = 1..Len(s)
  BY <1>1, SeqParts DEF IsSeq
<1>4. t \in Seq(S) /\ Len(t) = m
  BY <1>2, <1>3
<1> HIDE DEF t
<1>5. DOMAIN t = 1..m
  BY <1>4
<1>6. IsFiniteSet(1..m) /\ Cardinality(1..m) = m
  BY <1>2, FS_Interval
<1>7. /\ IsFiniteSet({t[i] : i \in 1..m}) /\ Cardinality({t[i] : i \in 1..m}) \in Nat
      /\ Cardinality({t[i] : i \in 1..m}) <= m
  BY <1>5, <1>6, FiniteImage
<1>8. ToSet(t) = {t[i] : i \in 1..m}
  BY <1>5 DEF ToSet
<1>9. ToSet(t) \subseteq S
  BY <1>4, <1>5, <1>8
<1>10. Truncated(S, k) = ToSet(t)
  BY DEF Truncated, t, s, m
<1> QED
  BY <1>2, <1>7, <1>8, <1>9, <1>10

-----------------------------------------------------------------------------
(***************************************************************************)
(* What a node keeps: validator sets that are finite and not empty, and    *)
(* queues of commands.                                                     *)
(***************************************************************************)
IsSets(s) ==
    /\ IsSeq(s) /\ s # <<>> /\ s[1].from = 0
    /\ \A i \in DOMAIN s : DOMAIN s[i].val # {} /\ IsFiniteSet(DOMAIN s[i].val)

LEMMA SetAt ==
    ASSUME NEW s, IsSets(s), NEW view \in Nat
    PROVE  IsFiniteSet(DOMAIN set_at(s, view)) /\ DOMAIN set_at(s, view) # {}
<1> DEFINE I == {i \in DOMAIN s : s[i].from <= view}
           n == Len(s)
<1>1. n \in Nat /\ n >= 1 /\ DOMAIN s = 1..n
  BY SeqParts DEF IsSets
<1>2. 1 \in I
  BY <1>1 DEF IsSets
<1>3. IsFiniteSet(1..n) /\ Cardinality(1..n) = n
  BY <1>1, FS_Interval
<1>4. I \subseteq 1..n
  BY <1>1
<1>5. IsFiniteSet(I) /\ Cardinality(I) <= n
  BY <1>3, <1>4, FS_Subset
<1>6. Cardinality(I) \in Nat /\ Cardinality(I) # 0
  BY <1>2, <1>5, FS_CardinalityType, FS_EmptySet
<1>7. Started(s, view) = Cardinality(I)
  BY DEF Started
<1> HIDE DEF I
<1>8. Started(s, view) \in DOMAIN s
  BY <1>1, <1>5, <1>6, <1>7
<1> QED
  BY <1>8 DEF IsSets, set_at, At

LEMMA GenesisSets == IsSets(from_genesis(Genesis))
<1> DEFINE e == Entry(0, Genesis)
<1>1. e.from = 0 /\ e.val = Genesis
  BY DEF Entry
<1> HIDE DEF e
<1>2. <<e>> \in Seq({e}) /\ <<e>>[1] = e /\ <<e>> # <<>> /\ DOMAIN <<e>> = {1}
  OBVIOUS
<1>3. IsSeq(<<e>>)
  BY <1>2, SeqIs
<1> QED
  BY <1>1, <1>2, <1>3, StakingAssumption DEF IsSets, from_genesis, e

LEMMA BoundarySets ==
    ASSUME NEW s, IsSets(s), NEW from, NEW set, DOMAIN set # {}, IsFiniteSet(DOMAIN set)
    PROVE  IsSets(insert_boundary(s, from, set))
<1> DEFINE e == Entry(from, set)
           n == Len(s)
           t == Append(s, e)
<1>1. e.from = from /\ e.val = set
  BY DEF Entry
<1> HIDE DEF e
<1>2. IsSeq(s) /\ n \in Nat /\ DOMAIN s = 1..n /\ n >= 1
  BY SeqParts DEF IsSets
<1>3. /\ IsSeq(t) /\ t # <<>> /\ DOMAIN t = 1..n + 1
      /\ \A i \in 1..n : t[i] = s[i]
      /\ t[n + 1] = e
  BY <1>2, SeqAppend
<1> HIDE DEF t
<1>4. ASSUME NEW i \in 1..n + 1
      PROVE  DOMAIN t[i].val # {} /\ IsFiniteSet(DOMAIN t[i].val)
  <2>1. CASE i = n + 1
    BY <1>1, <1>3, <2>1
  <2>2. CASE i # n + 1
    <3>1. i \in 1..n
      BY <1>2, <2>2
    <3> QED
      BY <1>2, <1>3, <3>1 DEF IsSets
  <2> QED
    BY <2>1, <2>2
<1>5. t[1].from = 0
  BY <1>2, <1>3 DEF IsSets
<1>6. IsSets(t)
  BY <1>3, <1>4, <1>5 DEF IsSets
<1> QED
  BY <1>6 DEF insert_boundary, t, e

LEMMA NextSetIs ==
    ASSUME NEW cmd, cmd.kind = "reconfig", IsCmd(cmd), NEW set, IsFiniteSet(DOMAIN set),
           NEW view, validate_against(cmd, set, view)
    PROVE  DOMAIN NextSet(cmd, set) # {} /\ IsFiniteSet(DOMAIN NextSet(cmd, set))
<1> DEFINE D == (DOMAIN set \ ToSet(cmd.removes)) \cup Ids(cmd.adds)
<1>1. DOMAIN NextSet(cmd, set) = D
  BY DEF NextSet
<1>2. Cardinality(D) >= MIN_VALIDATOR_FLOOR
  BY DEF validate_against
<1>3. D # {}
  BY <1>2, FS_EmptySet DEF MIN_VALIDATOR_FLOOR
<1>4. IsFiniteSet(DOMAIN set \ ToSet(cmd.removes)) /\ IsFiniteSet(Ids(cmd.adds))
  BY FS_Difference DEF IsCmd
<1>5. IsFiniteSet(D)
  BY <1>4, FS_Union
<1> QED
  BY <1>1, <1>3, <1>5

IsNode(n) ==
    /\ DOMAIN n = {"sets", "evidence", "staged", "effects", "approved", "pool",
                   "minted", "tracker"}
    /\ IsSets(n.sets) /\ IsSeq(n.staged)
    /\ IsCmds(n.effects) /\ IsCmds(n.approved) /\ IsCmds(n.pool)
    /\ IsTracker(n.tracker)

-----------------------------------------------------------------------------
(***************************************************************************)
(* Minting.                                                                *)
(***************************************************************************)
\* The offenders that a validator set can spare, besides those that the
\* application removes
LEMMA JailBudget ==
    ASSUME NEW n, IsSeq(n.staged), NEW current, IsFiniteSet(DOMAIN current)
    PROVE  LET jail == jail_removes(n, current)
               asked == {i \in DOMAIN n.staged :
                             n.staged[i].weight = 0 /\ n.staged[i].id \in DOMAIN current}
           IN /\ jail \subseteq n.evidence \cap DOMAIN current
              /\ IsFiniteSet(jail) /\ IsFiniteSet(asked)
              /\ Cardinality(jail) \in Nat /\ Cardinality(asked) \in Nat
              /\ jail # {} => Cardinality(jail) + Cardinality(asked) + MIN_VALIDATOR_FLOOR
                                  <= Cardinality(DOMAIN current)
<1> DEFINE asked == {i \in DOMAIN n.staged :
                         n.staged[i].weight = 0 /\ n.staged[i].id \in DOMAIN current}
           budget == Cardinality(DOMAIN current) - MIN_VALIDATOR_FLOOR - Cardinality(asked)
           S == n.evidence \cap DOMAIN current
           k == LargerOf(0, budget)
           jail == jail_removes(n, current)
<1>1. Len(n.staged) \in Nat /\ DOMAIN n.staged = 1..Len(n.staged)
  BY SeqParts
<1>2. IsFiniteSet(1..Len(n.staged))
  BY <1>1, FS_Interval
<1>3. IsFiniteSet(asked)
  BY <1>1, <1>2, FS_Subset
<1>4. Cardinality(asked) \in Nat /\ Cardinality(DOMAIN current) \in Nat
  BY <1>3, FS_CardinalityType
<1> HIDE DEF asked
<1>5. budget \in Int /\ k \in Nat /\ (k > 0 => k = budget)
  BY <1>4 DEF LargerOf, MIN_VALIDATOR_FLOOR
<1>6. IsFiniteSet(S)
  BY FS_Subset
<1>7. jail = Truncated(S, k)
  BY DEF jail_removes, asked
<1> HIDE DEF k, jail, S
<1>8. /\ jail \subseteq S /\ IsFiniteSet(jail)
      /\ Cardinality(jail) \in Nat /\ Cardinality(jail) <= k
  BY <1>5, <1>6, <1>7, TruncatedIs
<1>9. ASSUME jail # {}
      PROVE  Cardinality(jail) + Cardinality(asked) + MIN_VALIDATOR_FLOOR
                 <= Cardinality(DOMAIN current)
  <2>1. Cardinality(jail) # 0
    BY <1>8, <1>9, FS_EmptySet
  <2>2. k > 0 /\ k = budget
    BY <1>5, <1>8, <2>1
  <2> QED
    BY <1>4, <1>8, <2>2 DEF MIN_VALIDATOR_FLOOR
<1> QED
  BY <1>3, <1>4, <1>8, <1>9 DEF asked, jail, S

\* The updates that a reconfiguration is minted from
MintUpdates(n, current) ==
    n.staged \o Listed({Update(id, 0) : id \in jail_removes(n, current)})

LEMMA MintUpdatesAre ==
    ASSUME NEW n, IsSeq(n.staged), NEW current, IsFiniteSet(DOMAIN current)
    PROVE  LET u == MintUpdates(n, current)
               jail == jail_removes(n, current)
           IN /\ IsSeq(u)
              /\ \A i \in DOMAIN u : \/ \E j \in DOMAIN n.staged : u[i] = n.staged[j]
                                     \/ \E id \in jail : u[i] = Update(id, 0)
<1> DEFINE jail == jail_removes(n, current)
           S == {Update(id, 0) : id \in jail}
           f == [id \in jail |-> Update(id, 0)]
           L == Listed(S)
           u == MintUpdates(n, current)
<1>1. IsFiniteSet(jail)
  BY JailBudget
<1> HIDE DEF jail
<1>2. DOMAIN f = jail /\ S = {f[id] : id \in jail}
  OBVIOUS
<1>3. IsFiniteSet(S)
  <2> HIDE DEF f, S
  <2> QED
    BY <1>1, <1>2, FiniteImage
<1>4. IsSeq(L) /\ ToSet(L) = S
  BY <1>3, ListedIs
<1>5. u = n.staged \o L
  BY DEF MintUpdates, jail
<1> HIDE DEF L, u
<1>6. /\ Len(n.staged) \in Nat /\ DOMAIN n.staged = 1..Len(n.staged)
      /\ Len(L) \in Nat /\ DOMAIN L = 1..Len(L)
  BY <1>4, SeqParts
<1>7. /\ IsSeq(u) /\ Len(u) = Len(n.staged) + Len(L)
      /\ \A i \in 1..Len(n.staged) : u[i] = n.staged[i]
      /\ \A i \in 1..Len(L) : u[Len(n.staged) + i] = L[i]
  BY <1>4, <1>5, SeqConcat
<1>8. DOMAIN u = 1..Len(n.staged) + Len(L)
  BY <1>7, SeqParts
<1>9. ASSUME NEW i \in DOMAIN u
      PROVE  \/ \E j \in DOMAIN n.staged : u[i] = n.staged[j]
             \/ \E id \in jail : u[i] = Update(id, 0)
  <2>1. CASE i <= Len(n.staged)
    BY <1>6, <1>7, <1>8, <2>1
  <2>2. CASE ~(i <= Len(n.staged))
    <3> DEFINE k == i - Len(n.staged)
    <3>1. k \in 1..Len(L) /\ Len(n.staged) + k = i
      BY <1>6, <1>8, <2>2
    <3>2. u[i] = L[k] /\ L[k] \in S
      <4>1. L[k] \in ToSet(L)
        BY <1>6, <3>1 DEF ToSet
      <4> QED
        BY <1>4, <1>7, <3>1, <4>1
    <3> QED
      BY <3>2
  <2> QED
    BY <2>1, <2>2
<1> QED
  BY <1>7, <1>9 DEF u, jail

\* A reconfiguration of a validator set, from updates
LEMMA ReconfigIs ==
    ASSUME NEW updates, IsSeq(updates), NEW current, NEW v_eff, NEW cmd,
           cmd = staged_updates_to_reconfig(updates, current, v_eff)
    PROVE  /\ IsCmd(cmd) /\ cmd.kind = "reconfig" /\ IsFiniteSet(ToSet(cmd.removes))
           /\ \A id \in ToSet(cmd.removes) : id \in DOMAIN current /\
                  \E k \in DOMAIN updates : updates[k].id = id /\ updates[k].weight = 0
<1> DEFINE w == [id \in {} |-> 0]
           t == Updated(w, updates)
           R == {id \in DOMAIN t \cap DOMAIN current : t[id] = 0}
           C == [id \in {x \in DOMAIN t \cap DOMAIN current : t[x] > 0} |-> t[id]]
           L == Listed(R)
           M == Listed({Update(id, C[id]) : id \in DOMAIN C})
<1>1. Target(updates) = t
  BY DEF Target, Updated
<1>2. DOMAIN w = {}
  OBVIOUS
<1> HIDE DEF w, t, R, C, L, M
<1>3. /\ DOMAIN t = DOMAIN w \cup Ids(updates)
      /\ \A k \in 1..Len(updates) :
            LastAt(updates, k) => t[updates[k].id] = updates[k].weight
  <2>1. IsUpdated(t, w, updates)
    BY UpdatedWeights DEF t
  <2> QED
    BY <2>1 DEF IsUpdated
<1>3a. DOMAIN t = Ids(updates)
  BY <1>2, <1>3
<1> USE DEF R, C, L, M
<1>4. cmd = Reconfig(R, C, v_eff)
  BY <1>1 DEF staged_updates_to_reconfig
<1>5. IsFiniteSet(Ids(updates)) /\ DOMAIN updates = 1..Len(updates)
  BY FiniteElements, SeqParts
<1>6. IsFiniteSet(R)
  BY <1>3a, <1>5, FS_Subset
<1>6a. ToSet(L) = R
  BY <1>6, ListedIs
<1>6b. cmd = [kind |-> "reconfig", adds |-> <<>>, removes |-> L, changes |-> M, v_eff |-> v_eff]
  BY <1>4 DEF Reconfig
<1> HIDE DEF C, L, M
<1>7. ToSet(cmd.removes) = R /\ cmd.kind = "reconfig" /\ cmd.adds = <<>>
  BY <1>6a, <1>6b
<1>8. Ids(<<>>) = {}
  BY SeqEmpty DEF Ids
<1>9. IsCmd(cmd)
  BY <1>7, <1>8, FS_EmptySet DEF IsCmd
<1>10. ASSUME NEW id \in R
       PROVE  \E k \in DOMAIN updates : updates[k].id = id /\ updates[k].weight = 0
  <2>1. PICK k \in 1..Len(updates) : updates[k].id = id /\ LastAt(updates, k)
    BY <1>3a, LastFor
  <2>2. t[id] = updates[k].weight
    BY <1>3, <2>1
  <2> QED
    BY <1>5, <2>1, <2>2
<1> QED
  BY <1>6, <1>7, <1>9, <1>10

\* A minted reconfiguration that jails leaves the floor.
LEMMA JailFloor ==
    ASSUME NEW n, IsSeq(n.staged), NEW current, IsFiniteSet(DOMAIN current), NEW v_eff,
           NEW id \in ToSet(staged_updates_to_reconfig(MintUpdates(n, current), current,
                                                      v_eff).removes),
           \A j \in DOMAIN n.staged : n.staged[j].id # id
    PROVE  Cardinality(DOMAIN current \ ToSet(staged_updates_to_reconfig(
                           MintUpdates(n, current), current, v_eff).removes))
               >= MIN_VALIDATOR_FLOOR
<1> DEFINE u == MintUpdates(n, current)
           jail == jail_removes(n, current)
           R == ToSet(staged_updates_to_reconfig(u, current, v_eff).removes)
           asked == {i \in DOMAIN n.staged :
                         n.staged[i].weight = 0 /\ n.staged[i].id \in DOMAIN current}
           f == [i \in DOMAIN n.staged |-> n.staged[i].id]
           A == {f[i] : i \in asked}
           D == DOMAIN current
<1>1. /\ jail \subseteq D /\ IsFiniteSet(jail) /\ IsFiniteSet(asked)
      /\ Cardinality(jail) \in Nat /\ Cardinality(asked) \in Nat
      /\ jail # {} => Cardinality(jail) + Cardinality(asked) + MIN_VALIDATOR_FLOOR
                          <= Cardinality(D)
  BY JailBudget
<1>2. /\ IsSeq(u)
      /\ \A i \in DOMAIN u : \/ \E j \in DOMAIN n.staged : u[i] = n.staged[j]
                             \/ \E x \in jail : u[i] = Update(x, 0)
  BY MintUpdatesAre
<1>3. IsFiniteSet(R)
      /\ \A x \in R : x \in D /\ \E k \in DOMAIN u : u[k].id = x /\ u[k].weight = 0
  BY <1>2, ReconfigIs
<1>4. id \in R
  OBVIOUS
<1>5. \A x : Update(x, 0).id = x
  BY DEF Update
<1> HIDE DEF R, u, jail
<1>6. ASSUME NEW x \in R
      PROVE  x \in jail \cup A
  <2>1. PICK k \in DOMAIN u : u[k].id = x /\ u[k].weight = 0
    BY <1>3
  <2>2. CASE \E y \in jail : u[k] = Update(y, 0)
    BY <1>5, <2>1, <2>2
  <2>3. CASE \E j \in DOMAIN n.staged : u[k] = n.staged[j]
    <3>1. PICK j \in DOMAIN n.staged : u[k] = n.staged[j]
      BY <2>3
    <3>2. j \in asked /\ f[j] = x
      BY <1>3, <2>1, <3>1
    <3> QED
      BY <3>2
  <2> QED
    BY <1>2, <2>2, <2>3
<1>7. jail # {}
  <2>1. PICK k \in DOMAIN u : u[k].id = id
    BY <1>3, <1>4
  <2> QED
    BY <1>2, <2>1
<1>8. asked \subseteq DOMAIN f
  OBVIOUS
<1> HIDE DEF f, asked
<1>9. IsFiniteSet(A) /\ Cardinality(A) \in Nat /\ Cardinality(A) <= Cardinality(asked)
  BY <1>1, <1>8, FiniteImage
<1> HIDE DEF A
<1>10. IsFiniteSet(jail \cup A) /\ Cardinality(jail \cup A) <= Cardinality(jail) + Cardinality(A)
  <2>1. IsFiniteSet(jail \cap A)
    BY <1>1, FS_Intersection
  <2>2. Cardinality(jail \cap A) \in Nat
    BY <2>1, FS_CardinalityType
  <2>3. IsFiniteSet(jail \cup A) /\ Cardinality(jail \cup A) =
            Cardinality(jail) + Cardinality(A) - Cardinality(jail \cap A)
    BY <1>1, <1>9, FS_Union
  <2> QED
    BY <1>1, <1>9, <2>2, <2>3
<1>11. Cardinality(R) <= Cardinality(jail \cup A) /\ Cardinality(R) \in Nat
       /\ Cardinality(jail \cup A) \in Nat
  BY <1>3, <1>6, <1>10, FS_Subset, FS_CardinalityType
<1>12. Cardinality(D \ R) = Cardinality(D) - Cardinality(R) /\ Cardinality(D) \in Nat
  <2>1. D \cap R = R
    BY <1>3
  <2> QED
    BY <2>1, FS_Difference, FS_CardinalityType
<1>13. Cardinality(D \ R) >= MIN_VALIDATOR_FLOOR
  BY <1>1, <1>7, <1>9, <1>10, <1>11, <1>12 DEF MIN_VALIDATOR_FLOOR
<1> QED
  BY <1>13 DEF R, u

LEMMA InsertKeeps ==
    ASSUME NEW pool, IsCmds(pool), NEW cmd, IsCmd(cmd)
    PROVE  /\ IsCmds(Insert(pool, cmd))
           /\ \A c \in ToSet(Insert(pool, cmd)) : c \in ToSet(pool) \/ c = cmd
<1>1. CASE cmd \in ToSet(pool)
  BY <1>1 DEF Insert
<1>2. CASE cmd \notin ToSet(pool)
  <2> DEFINE n == Len(pool)
             t == Append(pool, cmd)
  <2>1. Insert(pool, cmd) = t /\ n \in Nat /\ DOMAIN pool = 1..n
    BY <1>2, SeqParts DEF Insert, IsCmds
  <2>2. IsSeq(t) /\ DOMAIN t = 1..n + 1 /\ (\A i \in 1..n : t[i] = pool[i]) /\ t[n + 1] = cmd
    BY SeqAppend DEF IsCmds
  <2> HIDE DEF t
  <2>3. ASSUME NEW i \in 1..n + 1
        PROVE  IsCmd(t[i]) /\ (t[i] \in ToSet(pool) \/ t[i] = cmd)
    <3>1. CASE i = n + 1
      BY <2>2, <3>1
    <3>2. CASE i # n + 1
      <4>1. i \in 1..n
        BY <2>1, <3>2
      <4> QED
        BY <2>1, <2>2, <4>1 DEF IsCmds, ToSet
    <3> QED
      BY <3>1, <3>2
  <2> QED
    BY <2>1, <2>2, <2>3 DEF IsCmds, ToSet
<1> QED
  BY <1>1, <1>2

\* What minting leaves alone
Keeps(n, m) ==
    m.sets = n.sets /\ m.evidence = n.evidence /\ m.tracker = n.tracker

\* A command minted from the updates of a node
Mintable(n, view, cmd) ==
    \E v_eff : LET current == set_at(n.sets, view)
               IN cmd = staged_updates_to_reconfig(MintUpdates(n, current), current, v_eff)

LEMMA MintReconfigKeeps ==
    ASSUME NEW n, IsNode(n), NEW view \in Nat
    PROVE  LET m == mint_staged_reconfig(n, view)
           IN /\ IsNode(m) /\ Keeps(n, m)
              /\ m.effects = n.effects /\ m.approved = n.approved
              /\ \A c \in ToSet(m.pool) : c \in ToSet(n.pool) \/ Mintable(n, view, c)
<1> DEFINE current == set_at(n.sets, view)
           u == MintUpdates(n, current)
           v_eff == view + LargerOf(LargerOf(min_v_eff_delay, MIN_V_EFF_DELAY),
                                    APP_RECONFIG_SETTLE_VIEWS)
           cmd == staged_updates_to_reconfig(u, current, v_eff)
           m == mint_staged_reconfig(n, view)
<1>1. \/ m = n
      \/ m = [n EXCEPT !.staged = <<>>]
      \/ m = [n EXCEPT !.pool = Insert(@, cmd)]
  BY DEF mint_staged_reconfig, MintUpdates
<1>2. IsFiniteSet(DOMAIN current) /\ IsSeq(n.staged)
  BY SetAt DEF IsNode
<1>3. IsSeq(u)
  BY <1>2, MintUpdatesAre
<1>4. IsCmd(cmd)
  BY <1>3, ReconfigIs
<1>5. Mintable(n, view, cmd)
  BY DEF Mintable
<1> HIDE DEF m, cmd
<1>6. CASE m = n
  BY <1>6 DEF Keeps, m
<1>7. CASE m = [n EXCEPT !.staged = <<>>]
  <2>1. /\ DOMAIN m = DOMAIN n /\ m.staged = <<>> /\ m.sets = n.sets
        /\ m.evidence = n.evidence /\ m.effects = n.effects /\ m.approved = n.approved
        /\ m.pool = n.pool /\ m.minted = n.minted /\ m.tracker = n.tracker
    BY <1>7 DEF IsNode
  <2> QED
    BY <2>1, SeqEmpty DEF IsNode, Keeps, m
<1>8. CASE m = [n EXCEPT !.pool = Insert(@, cmd)]
  <2>1. /\ DOMAIN m = DOMAIN n /\ m.staged = n.staged /\ m.sets = n.sets
        /\ m.evidence = n.evidence /\ m.effects = n.effects /\ m.approved = n.approved
        /\ m.pool = Insert(n.pool, cmd) /\ m.minted = n.minted /\ m.tracker = n.tracker
    BY <1>8 DEF IsNode
  <2>2. /\ IsCmds(m.pool)
        /\ \A c \in ToSet(m.pool) : c \in ToSet(n.pool) \/ c = cmd
    BY <1>4, <2>1, InsertKeeps DEF IsNode
  <2> QED
    BY <1>5, <2>1, <2>2 DEF IsNode, Keeps, m
<1> QED
  BY <1>1, <1>6, <1>7, <1>8

\* A queue of one command
LEMMA OneCmd ==
    ASSUME NEW c, IsCmd(c)
    PROVE  IsCmds(<<c>>) /\ <<c>>[1] = c /\ ToSet(<<c>>) = {c}
<1>1. <<c>> \in Seq({c}) /\ <<c>>[1] = c /\ DOMAIN <<c>> = {1}
  OBVIOUS
<1>2. IsSeq(<<c>>)
  BY <1>1, SeqIs
<1> QED
  BY <1>1, <1>2 DEF IsCmds, ToSet

LEMMA FirstCmd ==
    ASSUME NEW q, IsCmds(q), q # <<>>
    PROVE  /\ IsCmd(q[1]) /\ q[1] \in ToSet(q)
           /\ IsCmd(Last(q)) /\ Last(q) \in ToSet(q)
<1>1. Len(q) \in Nat /\ DOMAIN q = 1..Len(q) /\ Len(q) >= 1 /\ Last(q) = q[Len(q)]
  BY SeqParts DEF IsCmds
<1>2. 1 \in DOMAIN q /\ Len(q) \in DOMAIN q
  BY <1>1
<1> QED
  BY <1>1, <1>2 DEF IsCmds, ToSet

LEMMA MintedKeeps ==
    ASSUME NEW n, IsNode(n), NEW view \in Nat
    PROVE  LET m == Minted(n, view)
           IN /\ IsNode(m) /\ Keeps(n, m)
              /\ \A c \in ToSet(m.pool) : \/ c \in ToSet(n.pool) \/ Mintable(n, view, c)
                                          \/ c \in ToSet(n.approved) \cup ToSet(n.effects)
<1> DEFINE a == mint_staged_reconfig(n, view)
           b == mint_staged_effects(a)
           m == Minted(n, view)
<1>1. /\ IsNode(a) /\ Keeps(n, a) /\ a.effects = n.effects /\ a.approved = n.approved
      /\ \A c \in ToSet(a.pool) : c \in ToSet(n.pool) \/ Mintable(n, view, c)
  BY MintReconfigKeeps
<1> HIDE DEF a
<1>2. b = [a EXCEPT !.effects = <<>>,
                    !.approved = IF a.effects = <<>> THEN a.approved ELSE <<Last(a.effects)>>]
  BY DEF mint_staged_effects
<1> HIDE DEF b
<1>3. /\ DOMAIN b = DOMAIN a /\ b.staged = a.staged /\ b.sets = a.sets
      /\ b.evidence = a.evidence /\ b.effects = <<>>
      /\ b.approved = (IF a.effects = <<>> THEN a.approved ELSE <<Last(a.effects)>>)
      /\ b.pool = a.pool /\ b.minted = a.minted /\ b.tracker = a.tracker
  BY <1>1, <1>2 DEF IsNode
<1>4. IsCmds(b.approved) /\ ToSet(b.approved) \subseteq ToSet(n.approved) \cup ToSet(n.effects)
  <2>1. CASE a.effects = <<>>
    BY <1>1, <1>3, <2>1 DEF IsNode
  <2>2. CASE a.effects # <<>>
    <3>1. IsCmd(Last(a.effects)) /\ Last(a.effects) \in ToSet(n.effects)
      BY <1>1, <2>2, FirstCmd DEF IsNode
    <3> QED
      BY <1>3, <2>2, <3>1, OneCmd
  <2> QED
    BY <2>1, <2>2
<1>5. IsNode(b) /\ Keeps(n, b)
  BY <1>1, <1>3, <1>4, NoCmds DEF IsNode, Keeps
<1>6. m = mint_staged_governance_reconfig(b, view)
  BY DEF Minted, a, b
<1>7. \/ m = b
      \/ m = [b EXCEPT !.approved = <<>>]
      \/ b.approved # <<>> /\ m = [b EXCEPT !.pool = Insert(@, b.approved[1])]
  BY <1>6 DEF mint_staged_governance_reconfig
<1> HIDE DEF m
<1>8. CASE m = b
  BY <1>1, <1>3, <1>5, <1>8 DEF m
<1>9. CASE m = [b EXCEPT !.approved = <<>>]
  <2>1. /\ DOMAIN m = DOMAIN b /\ m.staged = b.staged /\ m.sets = b.sets
        /\ m.evidence = b.evidence /\ m.effects = b.effects /\ m.approved = <<>>
        /\ m.pool = b.pool /\ m.minted = b.minted /\ m.tracker = b.tracker
    BY <1>5, <1>9 DEF IsNode
  <2>2. IsNode(m) /\ Keeps(n, m)
    BY <1>5, <2>1, NoCmds DEF IsNode, Keeps
  <2> QED
    BY <1>1, <1>3, <2>1, <2>2 DEF m
<1>10. CASE b.approved # <<>> /\ m = [b EXCEPT !.pool = Insert(@, b.approved[1])]
  <2>1. /\ DOMAIN m = DOMAIN b /\ m.staged = b.staged /\ m.sets = b.sets
        /\ m.evidence = b.evidence /\ m.effects = b.effects /\ m.approved = b.approved
        /\ m.pool = Insert(b.pool, b.approved[1]) /\ m.minted = b.minted
        /\ m.tracker = b.tracker
    BY <1>5, <1>10 DEF IsNode
  <2>2. IsCmd(b.approved[1]) /\ b.approved[1] \in ToSet(b.approved)
    BY <1>4, <1>10, FirstCmd
  <2>3. /\ IsCmds(m.pool)
        /\ \A c \in ToSet(m.pool) : c \in ToSet(b.pool) \/ c = b.approved[1]
    BY <1>5, <2>1, <2>2, InsertKeeps DEF IsNode
  <2>4. IsNode(m) /\ Keeps(n, m)
    BY <1>5, <2>1, <2>3 DEF IsNode, Keeps
  <2> QED
    BY <1>1, <1>3, <1>4, <2>2, <2>3, <2>4 DEF m
<1> QED
  BY <1>7, <1>8, <1>9, <1>10

-----------------------------------------------------------------------------
(***************************************************************************)
(* apply_commit.  What it makes of the sets, of the evidence and of the    *)
(* ledger depends on nothing else of the node.                             *)
(***************************************************************************)
RemoveStep(kept, c, cmds) == IF c \in ToSet(cmds) THEN kept ELSE Append(kept, c)

RemoveGood(w, i, t) == IsCmds(t) /\ ToSet(t) \subseteq ToSet(w)

RemoveLoop == INSTANCE LoopProofs WITH Step <- RemoveStep, Good <- RemoveGood

LEMMA RemoveKeeps ==
    ASSUME NEW pool, IsCmds(pool), NEW cmds
    PROVE  IsCmds(remove_committed(pool, cmds))
           /\ ToSet(remove_committed(pool, cmds)) \subseteq ToSet(pool)
<1> DEFINE n == Len(pool)
<1>1. n \in Nat /\ DOMAIN pool = 1..n
  BY SeqParts DEF IsCmds
<1>2. RemoveGood(pool, 0, <<>>)
  BY NoCmds, SeqEmpty DEF RemoveGood
<1>3. ASSUME NEW i \in 1..n, NEW t, RemoveGood(pool, i - 1, t)
      PROVE  RemoveGood(pool, i, RemoveStep(t, pool[i], cmds))
  <2> DEFINE c == pool[i]
             u == Append(t, c)
             m == Len(t)
  <2>1. IsCmd(c) /\ c \in ToSet(pool) /\ IsSeq(t) /\ m \in Nat /\ DOMAIN t = 1..m
    BY <1>1, <1>3, SeqParts DEF IsCmds, ToSet, RemoveGood
  <2>2. IsSeq(u) /\ DOMAIN u = 1..m + 1 /\ (\A k \in 1..m : u[k] = t[k]) /\ u[m + 1] = c
    BY <2>1, SeqAppend
  <2> HIDE DEF u, c
  <2>3. ASSUME NEW k \in 1..m + 1
        PROVE  IsCmd(u[k]) /\ u[k] \in ToSet(pool)
    <3>1. CASE k = m + 1
      BY <2>1, <2>2, <3>1
    <3>2. CASE k # m + 1
      <4>1. k \in 1..m
        BY <2>1, <3>2
      <4> QED
        BY <1>3, <2>1, <2>2, <4>1 DEF IsCmds, ToSet, RemoveGood
    <3> QED
      BY <3>1, <3>2
  <2>4. RemoveGood(pool, i, u)
    BY <2>2, <2>3 DEF RemoveGood, IsCmds, ToSet
  <2>5. RemoveGood(pool, i, t)
    BY <1>3 DEF RemoveGood
  <2> QED
    BY <2>4, <2>5 DEF RemoveStep, u, c
<1>4. RemoveGood(pool, n, RemoveLoop!Pass(<<>>, pool, cmds, n))
  BY <1>1, <1>2, <1>3, RemoveLoop!Invariance
<1>5. remove_committed(pool, cmds) = RemoveLoop!Pass(<<>>, pool, cmds, n)
  BY DEF remove_committed, Along, AlongTo, RemoveLoop!Pass, RemoveLoop!AlongTo, RemoveStep
<1> QED
  BY <1>4, <1>5 DEF RemoveGood

\* What a command does to the sets
SetsStep(s, cmd, view) ==
    IF /\ cmd.kind = "reconfig"
       /\ validate_against(cmd, set_at(s, view), view)
       /\ ~pending(s, view)
      THEN insert_boundary(s, cmd.v_eff, NextSet(cmd, set_at(s, view)))
      ELSE s

SetsLoop == INSTANCE LoopProofs WITH Step <- SetsStep, Good <- SeqGood

NodeStep(m, cmd, view) ==
    IF cmd.kind = "reconfig" THEN apply_committed_reconfig(m, cmd, view) ELSE m

\* w is the node before the block, with the commands and the view.
NodeGood(w, i, t) ==
    /\ IsNode(t)
    /\ t.sets = SetsLoop!Pass(w.node.sets, w.cmds, w.view, i)
    /\ t.pool = w.node.pool /\ t.evidence = w.node.evidence

NodeLoop == INSTANCE LoopProofs WITH Step <- NodeStep, Good <- NodeGood

LEMMA NodeStepKeeps ==
    ASSUME NEW n, IsNode(n), NEW cmd, IsCmd(cmd), NEW view \in Nat
    PROVE  LET m == NodeStep(n, cmd, view)
           IN /\ IsNode(m) /\ m.sets = SetsStep(n.sets, cmd, view)
              /\ m.pool = n.pool /\ m.evidence = n.evidence
<1> DEFINE set == set_at(n.sets, view)
           next == insert_boundary(n.sets, cmd.v_eff, NextSet(cmd, set))
           m == NodeStep(n, cmd, view)
<1>1. CASE cmd.kind = "reconfig" /\ validate_against(cmd, set, view) /\ ~pending(n.sets, view)
  <2>1. m = [n EXCEPT !.sets = next, !.staged = <<>>]
    BY <1>1 DEF NodeStep, apply_committed_reconfig, Reconfigures
  <2>2. SetsStep(n.sets, cmd, view) = next
    BY <1>1 DEF SetsStep
  <2>3. IsFiniteSet(DOMAIN set)
    BY SetAt DEF IsNode
  <2>4. IsSets(next)
    BY <1>1, <2>3, NextSetIs, BoundarySets DEF IsNode
  <2> HIDE DEF m, next
  <2>5. /\ DOMAIN m = DOMAIN n /\ m.staged = <<>> /\ m.sets = next
        /\ m.evidence = n.evidence /\ m.effects = n.effects /\ m.approved = n.approved
        /\ m.pool = n.pool /\ m.minted = n.minted /\ m.tracker = n.tracker
    BY <2>1 DEF IsNode
  <2> QED
    BY <2>2, <2>4, <2>5, SeqEmpty DEF IsNode, m
<1>2. CASE ~(cmd.kind = "reconfig" /\ validate_against(cmd, set, view) /\ ~pending(n.sets, view))
  <2>1. m = n
    BY <1>2 DEF NodeStep, apply_committed_reconfig, Reconfigures
  <2>2. SetsStep(n.sets, cmd, view) = n.sets
    BY <1>2 DEF SetsStep
  <2> QED
    BY <2>1, <2>2
<1> QED
  BY <1>1, <1>2

LEMMA NodePass ==
    ASSUME NEW n, IsNode(n), NEW cmds, IsCmds(cmds), NEW view \in Nat
    PROVE  LET m == NodeLoop!Pass(n, cmds, view, Len(cmds))
           IN /\ IsNode(m) /\ m.sets = SetsLoop!Pass(n.sets, cmds, view, Len(cmds))
              /\ m.pool = n.pool /\ m.evidence = n.evidence
<1> DEFINE w == [node |-> n, cmds |-> cmds, view |-> view]
           k == Len(cmds)
<1>1. w.node = n /\ w.cmds = cmds /\ w.view = view
  OBVIOUS
<1>2. k \in Nat /\ \A i \in 1..k : IsCmd(cmds[i])
  BY SeqParts DEF IsCmds
<1> HIDE DEF w
<1>3. NodeGood(w, 0, n)
  BY <1>1, SetsLoop!Recurrence DEF NodeGood
<1>4. ASSUME NEW i \in 1..k, NEW t, NodeGood(w, i - 1, t)
      PROVE  NodeGood(w, i, NodeStep(t, cmds[i], view))
  <2> DEFINE P(j) == SetsLoop!Pass(n.sets, cmds, view, j)
  <2>1. i - 1 \in Nat /\ (i - 1) + 1 = i
    OBVIOUS
  <2>2. P(i) = SetsStep(P(i - 1), cmds[i], view)
    <3>1. P((i - 1) + 1) = SetsStep(P(i - 1), cmds[(i - 1) + 1], view)
      BY <2>1, SetsLoop!Recurrence
    <3> QED
      BY <2>1, <3>1
  <2>3. IsNode(t) /\ t.sets = P(i - 1) /\ t.pool = n.pool /\ t.evidence = n.evidence
    BY <1>1, <1>4 DEF NodeGood
  <2> HIDE DEF P
  <2>4. LET m == NodeStep(t, cmds[i], view)
        IN /\ IsNode(m) /\ m.sets = SetsStep(t.sets, cmds[i], view)
           /\ m.pool = t.pool /\ m.evidence = t.evidence
    BY <1>2, <2>3, NodeStepKeeps
  <2> QED
    BY <1>1, <2>2, <2>3, <2>4 DEF NodeGood, P
<1>5. NodeGood(w, k, NodeLoop!Pass(n, cmds, view, k))
  BY <1>2, <1>3, <1>4, NodeLoop!Invariance
<1> QED
  BY <1>1, <1>5 DEF NodeGood

\* What a command does to the evidence and the ledger, v being [sets, view]
EvidenceStep(s, cmd, v) ==
    IF /\ cmd.kind = "evidence"
       /\ Convicts([sets |-> v.sets, evidence |-> s.evidence], cmd, v.view)
      THEN [evidence |-> s.evidence \cup {cmd.who}, ledger |-> slash(s.ledger, cmd.who)]
      ELSE s

EvidenceLoop == INSTANCE LoopProofs WITH Step <- EvidenceStep, Good <- SeqGood

BothStep(s, cmd, view) ==
    IF cmd.kind = "evidence"
      THEN IF Convicts(s.node, cmd, view)
             THEN [node |-> [s.node EXCEPT !.evidence = @ \cup {cmd.who}],
                   app  |-> [s.app EXCEPT !.ledger = slash(@, cmd.who)]]
             ELSE s
      ELSE s

SameApp(a, b) == b.executed = a.executed /\ b.weights = a.weights /\ b.ring = a.ring

\* w has the node and the application before the block; e is what the evidence
\* and the ledger have become.
Judged(w, e, t) ==
    /\ DOMAIN t = {"node", "app"} /\ IsNode(t.node) /\ IsApp(t.app)
    /\ t.node.sets = w.node.sets /\ t.node.pool = w.node.pool
    /\ t.node.evidence = e.evidence /\ t.app.ledger = e.ledger
    /\ SameApp(w.app, t.app) /\ Tracks(w.app.ledger, t.app.ledger)

Before(n, a) == [evidence |-> n.evidence, ledger |-> a.ledger]

BothGood(w, i, t) ==
    Judged(w, EvidenceLoop!Pass(Before(w.node, w.app), w.cmds,
                                [sets |-> w.node.sets, view |-> w.view], i), t)

BothLoop == INSTANCE LoopProofs WITH Step <- BothStep, Good <- BothGood

LEMMA BothStepKeeps ==
    ASSUME NEW w, NEW e, NEW t, Judged(w, e, t), NEW cmd, NEW view
    PROVE  Judged(w, EvidenceStep(e, cmd, [sets |-> w.node.sets, view |-> view]),
                  BothStep(t, cmd, view))
<1> DEFINE v == [sets |-> w.node.sets, view |-> view]
           f == EvidenceStep(e, cmd, v)
           u == BothStep(t, cmd, view)
           now == [sets |-> w.node.sets, evidence |-> e.evidence]
<1>1. v.sets = w.node.sets /\ v.view = view
  OBVIOUS
<1> HIDE DEF v
<1>2. Convicts(t.node, cmd, view) <=> Convicts(now, cmd, view)
  <2>1. now.sets = t.node.sets /\ now.evidence = t.node.evidence
    BY DEF Judged
  <2> HIDE DEF now
  <2> QED
    BY <2>1 DEF Convicts
<1>3. CASE cmd.kind = "evidence" /\ Convicts(now, cmd, view)
  <2> DEFINE m == [t.node EXCEPT !.evidence = @ \cup {cmd.who}]
             b == [t.app EXCEPT !.ledger = slash(@, cmd.who)]
  <2>1. f = [evidence |-> e.evidence \cup {cmd.who}, ledger |-> slash(e.ledger, cmd.who)]
    BY <1>1, <1>3 DEF EvidenceStep
  <2>2. u = [node |-> m, app |-> b]
    BY <1>2, <1>3 DEF BothStep
  <2>3. /\ DOMAIN m = DOMAIN t.node /\ m.staged = t.node.staged /\ m.sets = t.node.sets
        /\ m.evidence = e.evidence \cup {cmd.who} /\ m.effects = t.node.effects
        /\ m.approved = t.node.approved /\ m.pool = t.node.pool
        /\ m.minted = t.node.minted /\ m.tracker = t.node.tracker
    BY DEF IsNode, Judged
  <2>4. /\ DOMAIN b = DOMAIN t.app /\ b.ledger = slash(e.ledger, cmd.who)
        /\ b.executed = t.app.executed /\ b.weights = t.app.weights /\ b.ring = t.app.ring
    BY DEF IsApp, Judged
  <2> HIDE DEF m, b
  <2>5. IsLedger(b.ledger) /\ Tracks(t.app.ledger, b.ledger)
    BY <2>4, SlashKeeps DEF IsApp, Judged
  <2>6. Tracks(w.app.ledger, b.ledger)
    BY <2>5, TracksTrans DEF Judged
  <2>7. IsNode(m) /\ IsApp(b)
    <3>1. b = [executed |-> b.executed, ledger |-> b.ledger, weights |-> b.weights,
               ring |-> b.ring]
      BY DEF IsApp, Judged, b
    <3> QED
      BY <2>3, <2>4, <2>5, <3>1 DEF IsNode, IsApp, Judged
  <2>8. DOMAIN u = {"node", "app"} /\ u.node = m /\ u.app = b
        /\ f.evidence = e.evidence \cup {cmd.who} /\ f.ledger = slash(e.ledger, cmd.who)
    BY <2>1, <2>2
  <2> HIDE DEF f, u
  <2>9. Judged(w, f, u)
    BY <2>3, <2>4, <2>6, <2>7, <2>8 DEF Judged, SameApp
  <2> QED
    BY <2>9 DEF f, u, v
<1>4. CASE ~(cmd.kind = "evidence" /\ Convicts(now, cmd, view))
  <2>1. f = e
    BY <1>1, <1>4 DEF EvidenceStep
  <2>2. u = t
    BY <1>2, <1>4 DEF BothStep
  <2> QED
    BY <2>1, <2>2 DEF v
<1> QED
  BY <1>3, <1>4

LEMMA BothPass ==
    ASSUME NEW n, IsNode(n), NEW a, IsApp(a), NEW cmds, Len(cmds) \in Nat, NEW view
    PROVE  Judged([node |-> n, app |-> a],
                  EvidenceLoop!Pass(Before(n, a), cmds, [sets |-> n.sets, view |-> view],
                                    Len(cmds)),
                  BothLoop!Pass([node |-> n, app |-> a], cmds, view, Len(cmds)))
<1> DEFINE w == [node |-> n, app |-> a, cmds |-> cmds, view |-> view]
           x == [node |-> n, app |-> a]
           v == [sets |-> n.sets, view |-> view]
           k == Len(cmds)
           P(j) == EvidenceLoop!Pass(Before(n, a), cmds, v, j)
<1>1. /\ w.node = n /\ w.app = a /\ w.cmds = cmds /\ w.view = view
      /\ x.node = n /\ x.app = a /\ DOMAIN x = {"node", "app"}
  OBVIOUS
<1> HIDE DEF w, x
<1>2. P(0) = Before(n, a)
  BY EvidenceLoop!Recurrence
<1>3. Tracks(a.ledger, a.ledger)
  BY DEF Tracks
<1>4. \A e, t : Judged(w, e, t) <=> Judged(x, e, t)
  BY <1>1 DEF Judged
<1>5. \A i, t : BothGood(w, i, t) <=> Judged(x, P(i), t)
  BY <1>1, <1>4 DEF BothGood
<1>6. Judged(x, Before(n, a), x)
  BY <1>1, <1>3 DEF Judged, Before, SameApp
<1>7. BothGood(w, 0, x)
  BY <1>2, <1>5, <1>6
<1>8. ASSUME NEW i \in 1..k, NEW t, BothGood(w, i - 1, t)
      PROVE  BothGood(w, i, BothStep(t, cmds[i], view))
  <2>1. i - 1 \in Nat /\ (i - 1) + 1 = i
    OBVIOUS
  <2>2. P(i) = EvidenceStep(P(i - 1), cmds[i], v)
    <3>1. P((i - 1) + 1) = EvidenceStep(P(i - 1), cmds[(i - 1) + 1], v)
      BY <2>1, EvidenceLoop!Recurrence
    <3> QED
      BY <2>1, <3>1
  <2>3. Judged(x, P(i - 1), t)
    BY <1>5, <1>8
  <2> HIDE DEF P
  <2>4. Judged(x, EvidenceStep(P(i - 1), cmds[i], [sets |-> x.node.sets, view |-> view]),
               BothStep(t, cmds[i], view))
    BY <2>3, BothStepKeeps
  <2>5. Judged(x, P(i), BothStep(t, cmds[i], view))
    BY <1>1, <2>2, <2>4
  <2> QED
    BY <1>5, <2>5
<1>9. BothGood(w, k, BothLoop!Pass(x, cmds, view, k))
  BY <1>7, <1>8, BothLoop!Invariance
<1>10. Judged(x, P(k), BothLoop!Pass(x, cmds, view, k))
  BY <1>5, <1>9
<1> QED
  BY <1>10 DEF x

\* Sets, evidence and ledger after a block
SetsAfter(n, block) == SetsLoop!Pass(n.sets, block.cmds, block.view, Len(block.cmds))

LawAfter(n, a, block) ==
    EvidenceLoop!Pass(Before(n, a), block.cmds,
                      [sets |-> SetsAfter(n, block), view |-> block.view], Len(block.cmds))

Followers(n, a, block, s) ==
    /\ IsNode(s.node) /\ IsApp(s.app) /\ DOMAIN s = {"node", "app"}
    /\ s.node.sets = SetsAfter(n, block)
    /\ s.node.evidence = LawAfter(n, a, block).evidence
    /\ s.app.ledger = LawAfter(n, a, block).ledger
    /\ SameApp(a, s.app) /\ Tracks(a.ledger, s.app.ledger)
    /\ ToSet(s.node.pool) \subseteq ToSet(n.pool)

LEMMA ApplyCommitIs ==
    ASSUME NEW n, IsNode(n), NEW a, IsApp(a), NEW block, IsCmds(block.cmds), block.view \in Nat
    PROVE  Followers(n, a, block, apply_commit(n, a, block))
<1> DEFINE cmds == block.cmds
           view == block.view
           k == Len(cmds)
           n1 == [n EXCEPT !.pool = remove_committed(@, cmds)]
           n2 == NodeLoop!Pass(n1, cmds, view, k)
           x == [node |-> n2, app |-> a]
           s == BothLoop!Pass(x, cmds, view, k)
           members == DOMAIN set_at(s.node.sets, view)
           r == apply_commit(n, a, block)
<1>1. k \in Nat
  BY SeqParts DEF IsCmds
<1>2. /\ DOMAIN n1 = DOMAIN n /\ n1.staged = n.staged /\ n1.sets = n.sets
      /\ n1.evidence = n.evidence /\ n1.effects = n.effects /\ n1.approved = n.approved
      /\ n1.pool = remove_committed(n.pool, cmds) /\ n1.minted = n.minted
      /\ n1.tracker = n.tracker
  BY DEF IsNode
<1>3. /\ IsCmds(remove_committed(n.pool, cmds))
      /\ ToSet(remove_committed(n.pool, cmds)) \subseteq ToSet(n.pool)
  BY RemoveKeeps DEF IsNode
<1> HIDE DEF n1
<1>4. IsNode(n1)
  BY <1>2, <1>3 DEF IsNode
<1>5. /\ IsNode(n2) /\ n2.sets = SetsAfter(n, block)
      /\ n2.pool = n1.pool /\ n2.evidence = n.evidence
  BY <1>2, <1>4, NodePass DEF SetsAfter
<1> HIDE DEF n2
<1>6. Before(n2, a) = Before(n, a)
  BY <1>5 DEF Before
<1>7. Judged(x, LawAfter(n, a, block), s)
  BY <1>1, <1>5, <1>6, BothPass DEF LawAfter
<1>8. x.node = n2 /\ x.app = a
  OBVIOUS
<1>9. r = (IF view \in Uncached THEN s
           ELSE [s EXCEPT !.node.tracker = observe(@, members, SignersOf(view))])
  <2>1. ForEach("reconfig", LAMBDA m, cmd : apply_committed_reconfig(m, cmd, block.view),
                n1, block) = n2
    BY DEF ForEach, Along, AlongTo, n2, NodeLoop!Pass, NodeLoop!AlongTo, NodeStep
  <2>2. apply_committed_evidence(n2, a, block) = s
    BY DEF apply_committed_evidence, ForEach, Along, AlongTo, BothLoop!Pass,
           BothLoop!AlongTo, BothStep
  <2> QED
    BY <2>1, <2>2 DEF apply_commit, n1
<1> HIDE DEF s, x, r, members
<1> DEFINE tr == IF view \in Uncached THEN s.node.tracker
                 ELSE observe(s.node.tracker, members, SignersOf(view))
<1>10. IsTracker(tr)
  BY <1>7, ObserveKeeps DEF Judged, IsNode
<1>11. /\ DOMAIN r = {"node", "app"} /\ r.app = s.app
       /\ \/ r.node = s.node /\ tr = s.node.tracker
          \/ r.node = [s.node EXCEPT !.tracker = tr]
  BY <1>7, <1>9 DEF Judged
<1> HIDE DEF tr
<1>12. /\ DOMAIN r.node = DOMAIN s.node /\ r.node.staged = s.node.staged
       /\ r.node.sets = s.node.sets /\ r.node.evidence = s.node.evidence
       /\ r.node.effects = s.node.effects /\ r.node.approved = s.node.approved
       /\ r.node.pool = s.node.pool /\ r.node.minted = s.node.minted
       /\ r.node.tracker = tr
  BY <1>7, <1>11 DEF Judged, IsNode
<1>13. IsNode(r.node)
  BY <1>7, <1>10, <1>12 DEF Judged, IsNode
<1>14. ToSet(r.node.pool) \subseteq ToSet(n.pool)
  BY <1>2, <1>3, <1>5, <1>7, <1>8, <1>12 DEF Judged
<1>15. Followers(n, a, block, r)
  BY <1>5, <1>7, <1>8, <1>11, <1>12, <1>13, <1>14 DEF Judged, Followers
<1> QED
  BY <1>15 DEF r

-----------------------------------------------------------------------------
(***************************************************************************)
(* The blocks.                                                             *)
(***************************************************************************)
\* The j-th block: a view is never behind the height.
IsBlock(b, j) == b.view \in Nat /\ b.view >= j /\ WellLogs(b) /\ IsCmds(b.cmds)

IsChain(ch) == IsSeq(ch) /\ Len(ch) <= LastBlock /\ \A j \in 1..Len(ch) : IsBlock(ch[j], j)

LEMMA NextViewIs ==
    ASSUME IsChain(chain)
    PROVE  /\ NextView \in Nat /\ Len(chain) \in Nat /\ NextView >= Len(chain) + 1
           /\ Len(chain) = 0 <=> chain = <<>>
           /\ Len(chain) = 0 => NextView = 1
           /\ Len(chain) # 0 => /\ Last(chain) = chain[Len(chain)]
                                /\ NextView = chain[Len(chain)].view + 1
<1>1. Len(chain) \in Nat /\ IsSeq(chain)
  BY SeqParts DEF IsChain
<1>2. CASE chain = <<>>
  <2>1. Len(chain) = 0 /\ NextView = 1
    BY <1>2, SeqEmpty DEF NextView
  <2> QED
    BY <1>2, <2>1
<1>3. CASE chain # <<>>
  <2>1. Len(chain) # 0 /\ Last(chain) = chain[Len(chain)]
    BY <1>1, <1>3, SeqParts
  <2>2. chain[Len(chain)].view \in Nat /\ chain[Len(chain)].view >= Len(chain)
    BY <1>1, <2>1 DEF IsChain, IsBlock
  <2>3. NextView = chain[Len(chain)].view + 1
    BY <1>3, <2>1 DEF NextView
  <2> QED
    BY <1>1, <1>3, <2>1, <2>2, <2>3
<1> QED
  BY <1>2, <1>3

\* The branch that a block is proposed on
LEMMA PrefixChain ==
    ASSUME IsChain(chain), NEW p \in 0..Len(chain)
    PROVE  /\ IsChain(SubSeq(chain, 1, p)) /\ Len(SubSeq(chain, 1, p)) = p
           /\ \A j \in 1..p : SubSeq(chain, 1, p)[j] = chain[j]
<1> DEFINE t == SubSeq(chain, 1, p)
<1>1. /\ chain \in Seq(ToSet(chain)) /\ Len(chain) \in Nat /\ LastBlock \in Nat
      /\ Len(chain) <= LastBlock
  BY SeqParts, StakingAssumption DEF IsChain, IsSeq
<1>2. t \in Seq(ToSet(chain)) /\ Len(t) = p /\ \A j \in 1..p : t[j] = chain[j]
  BY <1>1
<1>3. IsSeq(t)
  BY <1>2, SeqIs
<1> HIDE DEF t
<1>4. \A j \in 1..p : IsBlock(t[j], j)
  BY <1>1, <1>2 DEF IsChain
<1>5. IsChain(t)
  BY <1>1, <1>2, <1>3, <1>4 DEF IsChain
<1> QED
  BY <1>2, <1>5 DEF t

\* The branch up to the last block is the chain.
LEMMA WholeChain ==
    ASSUME IsChain(chain)
    PROVE  SubSeq(chain, 1, Len(chain)) = chain
<1>1. chain \in Seq(ToSet(chain))
  BY DEF IsChain, IsSeq
<1> QED
  BY <1>1

LEMMA ContentWell ==
    ASSUME NEW parent, NEW content \in Contents(parent)
    PROVE  WellLogs(content)
<1>1. WellFormed(content)
  <2>1. CASE parent < LogBlocks
    BY <2>1, StakingAssumption DEF Contents
  <2>2. CASE ~(parent < LogBlocks)
    <3>1. content = [ops |-> <<>>, slashed |-> <<>>, approved |-> <<>>]
      BY <2>2 DEF Contents
    <3>2. content.ops = <<>> /\ content.slashed = <<>> /\ content.approved = <<>>
      BY <3>1
    <3>3. <<>> \in Seq(ToSet(<<>>)) /\ DOMAIN <<>> = {}
      BY SeqEmpty DEF IsSeq
    <3> QED
      BY <3>2, <3>3 DEF WellFormed
  <2> QED
    BY <2>1, <2>2
<1>2. /\ IsSeq(content.ops) /\ IsSeq(content.slashed) /\ IsSeq(content.approved)
      /\ \A i \in DOMAIN content.ops :
            DOMAIN content.ops[i] = {"id", "op", "amount"} /\ content.ops[i].amount \in Nat
      /\ \A i \in DOMAIN content.approved : IsSeq(content.approved[i].adds)
  BY <1>1 DEF WellFormed, IsSeq
<1>3. \A i \in DOMAIN content.approved : IsCmd(content.approved[i])
  BY <1>2, FiniteElements DEF IsCmd
<1> QED
  BY <1>2, <1>3 DEF WellLogs, IsCmds

LEMMA PrefixCmds ==
    ASSUME NEW q, IsCmds(q), NEW m \in 0..Len(q)
    PROVE  IsCmds(SubSeq(q, 1, m))
<1> DEFINE t == SubSeq(q, 1, m)
<1>1. q \in Seq(ToSet(q)) /\ Len(q) \in Nat /\ DOMAIN q = 1..Len(q)
  BY SeqParts DEF IsCmds, IsSeq
<1>2. t \in Seq(ToSet(q)) /\ Len(t) = m /\ \A i \in 1..m : t[i] = q[i]
  BY <1>1
<1>3. IsSeq(t) /\ DOMAIN t = 1..m
  BY <1>2, SeqIs, SeqParts
<1> HIDE DEF t
<1>4. \A i \in DOMAIN t : IsCmd(t[i])
  BY <1>1, <1>2, <1>3 DEF IsCmds
<1> QED
  BY <1>3, <1>4 DEF IsCmds, t

LEMMA ProposalIs ==
    ASSUME IsChain(chain), NEW a, NEW n, IsNode(n), NEW parent \in 0..Len(chain),
           NEW content \in Contents(parent), NEW base
    PROVE  /\ IsBlock(build_proposal(a, n, content, base), parent + 1)
           /\ build_proposal(a, n, content, base).view = NextView
           /\ build_proposal(a, n, content, base).registry.weights = a.weights
<1> DEFINE b == build_proposal(a, n, content, base)
           m == SmallerOf(Len(n.pool), SYSTEM_TX_LIMIT)
<1>1. /\ b.view = NextView /\ b.cmds = SubSeq(n.pool, 1, m)
      /\ b.ops = content.ops /\ b.slashed = content.slashed /\ b.approved = content.approved
      /\ b.registry.weights = a.weights
  BY DEF build_proposal, registry_payload_for_build
<1>2. Len(n.pool) \in Nat
  BY SeqParts DEF IsNode, IsCmds
<1>3. m \in 0..Len(n.pool)
  BY <1>2, StakingAssumption DEF SmallerOf
<1>4. NextView \in Nat /\ NextView >= parent + 1
  BY NextViewIs
<1> HIDE DEF b, m
<1>5. IsCmds(b.cmds)
  BY <1>1, <1>3, PrefixCmds DEF IsNode
<1>6. WellLogs(b)
  BY <1>1, ContentWell DEF WellLogs
<1> QED
  BY <1>1, <1>4, <1>5, <1>6 DEF IsBlock, b

LEMMA ChainGrows ==
    ASSUME NEW base, IsChain(base), NEW block, IsBlock(block, Len(base) + 1),
           Len(base) < LastBlock
    PROVE  /\ IsChain(Append(base, block)) /\ Len(Append(base, block)) = Len(base) + 1
           /\ \A j \in 1..Len(base) : Append(base, block)[j] = base[j]
           /\ Append(base, block)[Len(base) + 1] = block
<1> DEFINE n == Len(base)
           ch == Append(base, block)
<1>1. IsSeq(base) /\ n \in Nat /\ LastBlock \in Nat
  BY SeqParts, StakingAssumption DEF IsChain
<1>2. IsSeq(ch) /\ Len(ch) = n + 1 /\ (\A j \in 1..n : ch[j] = base[j]) /\ ch[n + 1] = block
  BY <1>1, SeqAppend
<1> HIDE DEF ch
<1>3. ASSUME NEW j \in 1..n + 1
      PROVE  IsBlock(ch[j], j)
  <2>1. CASE j = n + 1
    BY <1>2, <2>1
  <2>2. CASE j # n + 1
    <3>1. j \in 1..n
      BY <1>1, <2>2
    <3> QED
      BY <1>2, <3>1 DEF IsChain
  <2> QED
    BY <2>1, <2>2
<1>4. IsChain(ch)
  BY <1>1, <1>2, <1>3 DEF IsChain
<1> QED
  BY <1>2, <1>4 DEF ch

-----------------------------------------------------------------------------
(***************************************************************************)
(* The application and the execution layer, and what was applied since the *)
(* node was started.                                                       *)
(***************************************************************************)
IsBoot(b) ==
    /\ DOMAIN b = {"frontier", "applied", "missed", "lost"}
    /\ b.frontier \in Nat /\ IsSeq(b.applied)

IsMachine(s) ==
    /\ DOMAIN s = {"app", "el", "boot", "updates", "effects"}
    /\ IsApp(s.app) /\ s.app.executed <= LastBlock
    /\ DOMAIN s.el = {"up", "head", "target"}
    /\ s.el.head \in 0..LastBlock /\ s.el.target \in 0..LastBlock
    /\ IsBoot(s.boot)
    /\ IsSeq(s.updates) /\ IsCmds(s.effects)

\* No height was visited since the start.
Nothing(b) == b.applied = <<>> /\ b.missed = {}

Visited(b) == ToSet(b.applied) \cup b.missed

\* The heights up to e were visited, each once and the applied ones in order.
Covers(b, e) ==
    /\ \A i \in 2..Len(b.applied) : b.applied[i - 1] < b.applied[i]
    /\ ToSet(b.applied) \cap b.missed = {}
    /\ \E first \in 1..b.frontier + 1 : Visited(b) = first..e

\* The same, and the height after e may come next.
CoverFrom(b, e) == Covers(b, e) /\ (Nothing(b) => e <= b.frontier)

\* Nothing was left out, and nothing above `bound` was applied.
Ordered(s, bound) ==
    ~s.boot.lost =>
        /\ s.app.executed <= s.el.head
        /\ Covers(s.boot, s.app.executed)
        /\ Nothing(s.boot) => s.app.executed = s.boot.frontier
        /\ ~Nothing(s.boot) => s.app.executed <= bound

LEMMA OrderedUpTo ==
    ASSUME NEW s, IsMachine(s), NEW b \in Int, NEW c \in Int, b <= c, Ordered(s, b)
    PROVE  Ordered(s, c)
BY DEF Ordered, IsMachine, IsApp

LEMMA NothingCovers ==
    ASSUME NEW b, IsBoot(b), Nothing(b), NEW e \in Nat, e <= b.frontier
    PROVE  CoverFrom(b, e)
<1>1. ToSet(b.applied) = {} /\ Len(b.applied) = 0 /\ b.missed = {}
  BY SeqEmpty DEF Nothing
<1>2. e + 1 \in 1..b.frontier + 1 /\ e + 1..e = {} /\ b.frontier \in Nat
  BY DEF IsBoot
<1>3. Visited(b) = e + 1..e
  BY <1>1, <1>2 DEF Visited
<1> QED
  BY <1>1, <1>2, <1>3 DEF CoverFrom, Covers

\* What visiting height x adds
LEMMA VisitKeeps ==
    ASSUME NEW b, IsBoot(b), NEW x \in Nat \ {0}, NEW missed
    PROVE  LET c == Visit(b, x, missed)
           IN /\ IsBoot(c) /\ c.frontier = b.frontier /\ c.lost = b.lost /\ ~Nothing(c)
              /\ Visited(c) = Visited(b) \cup {x}
              /\ \/ c.applied = b.applied /\ c.missed = b.missed \cup {x}
                 \/ c.applied = Append(b.applied, x) /\ c.missed = b.missed
<1> DEFINE c == Visit(b, x, missed)
<1>1. \/ c = [b EXCEPT !.missed = @ \cup {x}]
      \/ c = [b EXCEPT !.applied = Append(@, x)]
  BY DEF Visit
<1> HIDE DEF c
<1>2. DOMAIN c = DOMAIN b /\ c.frontier = b.frontier /\ c.lost = b.lost
  BY <1>1 DEF IsBoot
<1>3. \/ c.applied = b.applied /\ c.missed = b.missed \cup {x}
      \/ c.applied = Append(b.applied, x) /\ c.missed = b.missed
  BY <1>1 DEF IsBoot
<1>4. IsSeq(b.applied) /\ IsSeq(Append(b.applied, x))
      /\ ToSet(Append(b.applied, x)) = ToSet(b.applied) \cup {x}
  BY SeqAppend, AppendSet DEF IsBoot
<1>5. IsBoot(c)
  BY <1>2, <1>3, <1>4 DEF IsBoot
<1>6. Visited(c) = Visited(b) \cup {x}
  BY <1>3, <1>4 DEF Visited
<1>7. ~Nothing(c)
  BY <1>6, SeqEmpty DEF Nothing, Visited
<1> QED
  BY <1>2, <1>3, <1>5, <1>6, <1>7 DEF c

LEMMA VisitCovers ==
    ASSUME NEW b, IsBoot(b), NEW x \in Nat \ {0}, NEW missed, CoverFrom(b, x - 1)
    PROVE  CoverFrom(Visit(b, x, missed), x)
<1> DEFINE c == Visit(b, x, missed)
<1>1. /\ IsBoot(c) /\ c.frontier = b.frontier /\ ~Nothing(c)
      /\ Visited(c) = Visited(b) \cup {x}
      /\ \/ c.applied = b.applied /\ c.missed = b.missed \cup {x}
         \/ c.applied = Append(b.applied, x) /\ c.missed = b.missed
  BY VisitKeeps
<1> HIDE DEF c
<1>2. PICK first \in 1..b.frontier + 1 : Visited(b) = first..x - 1
  BY DEF CoverFrom, Covers
<1>3. b.frontier \in Nat /\ first \in Nat /\ IsSeq(b.applied)
  BY DEF IsBoot
<1>4. x \notin Visited(b) /\ \A y \in Visited(b) : y \in Nat /\ y < x
  BY <1>2, <1>3
<1>5. \E f \in 1..c.frontier + 1 : Visited(c) = f..x
  <2>1. CASE Nothing(b)
    <3>1. Visited(b) = {}
      BY <2>1, SeqEmpty DEF Nothing, Visited
    <3>2. x \in 1..c.frontier + 1 /\ x..x = {x}
      BY <1>1, <1>3, <2>1 DEF CoverFrom
    <3> QED
      BY <1>1, <3>1, <3>2
  <2>2. CASE ~Nothing(b)
    <3>1. Visited(b) # {}
      <4>1. CASE b.missed # {}
        BY <4>1 DEF Visited
      <4>2. CASE b.applied # <<>>
        <5>1. Len(b.applied) # 0 /\ Len(b.applied) \in Nat /\ DOMAIN b.applied = 1..Len(b.applied)
          BY <1>3, <4>2, SeqParts
        <5>2. b.applied[1] \in ToSet(b.applied)
          BY <5>1 DEF ToSet
        <5> QED
          BY <5>2 DEF Visited
      <4> QED
        BY <2>2, <4>1, <4>2 DEF Nothing
    <3>2. first <= x - 1
      BY <1>2, <1>3, <3>1
    <3>3. (first..x - 1) \cup {x} = first..x
      BY <1>3, <3>2
    <3> QED
      BY <1>1, <1>2, <3>3
  <2> QED
    BY <2>1, <2>2
<1>6. ToSet(c.applied) \cap c.missed = {}
  <2>1. ToSet(Append(b.applied, x)) = ToSet(b.applied) \cup {x}
    BY <1>3, AppendSet
  <2>2. ToSet(b.applied) \cap b.missed = {} /\ x \notin ToSet(b.applied) /\ x \notin b.missed
    BY <1>4 DEF CoverFrom, Covers, Visited
  <2> QED
    BY <1>1, <2>1, <2>2
<1>7. \A i \in 2..Len(c.applied) : c.applied[i - 1] < c.applied[i]
  <2>1. \A i \in 2..Len(b.applied) : b.applied[i - 1] < b.applied[i]
    BY DEF CoverFrom, Covers
  <2>2. CASE c.applied = b.applied
    BY <2>1, <2>2
  <2>3. CASE c.applied = Append(b.applied, x)
    <3> DEFINE n == Len(b.applied)
    <3>1. /\ n \in Nat /\ Len(c.applied) = n + 1 /\ c.applied[n + 1] = x
          /\ \A i \in 1..n : c.applied[i] = b.applied[i]
      BY <1>3, <2>3, SeqAppend, SeqParts
    <3>2. ASSUME NEW i \in 2..n + 1
          PROVE  c.applied[i - 1] < c.applied[i]
      <4>1. CASE i = n + 1
        <5>1. n \in 1..n /\ i - 1 = n /\ DOMAIN b.applied = 1..n
          BY <1>3, <3>1, <4>1, SeqParts
        <5>2. b.applied[n] \in Visited(b)
          BY <5>1 DEF Visited, ToSet
        <5> QED
          BY <1>4, <3>1, <4>1, <5>1, <5>2
      <4>2. CASE i # n + 1
        <5>1. i \in 2..n /\ i \in 1..n /\ i - 1 \in 1..n
          BY <3>1, <4>2
        <5> QED
          BY <2>1, <3>1, <5>1
      <4> QED
        BY <4>1, <4>2
    <3> QED
      BY <3>1, <3>2
  <2> QED
    BY <1>1, <2>2, <2>3
<1> QED
  BY <1>1, <1>5, <1>6, <1>7 DEF CoverFrom, Covers, c

VisitStep(b, i, missed) == Visit(b, i, missed)

\* w has the account before the loop, and the height below its first.
VisitGood(w, i, t) ==
    /\ IsBoot(t) /\ t.frontier = w.boot.frontier /\ t.lost = w.boot.lost
    /\ i > 0 => ~Nothing(t)
    /\ CoverFrom(w.boot, w.start) => CoverFrom(t, w.start + i)

VisitLoop == INSTANCE LoopProofs WITH Step <- VisitStep, Good <- VisitGood

AfterVisits(b, q, missed) == VisitLoop!Pass(b, q, missed, Len(q))

\* The heights of one commit: the gap, if there is one, and h
LEMMA CommitHeights ==
    ASSUME NEW e \in Nat, NEW h \in Nat \ {0}
    PROVE  LET q == Append(Heights(e + 1, h - 1), h)
               start == SmallerOf(e, h - 1)
           IN /\ start \in 0..h - 1 /\ Len(q) = h - start
              /\ \A i \in 1..h - start : q[i] = start + i
<1> DEFINE g == Heights(e + 1, h - 1)
           m == Len(g)
           q == Append(g, h)
           start == SmallerOf(e, h - 1)
<1>1. e + 1 \in Int /\ h - 1 \in Int
  OBVIOUS
<1>2. IsSeq(g) /\ m \in Nat /\ m = LargerOf(0, h - 1 - (e + 1) + 1)
  BY <1>1, HeightsAre
<1>3. \A i \in 1..m : g[i] = e + 1 + i - 1
  BY <1>1, HeightsAre
<1> HIDE DEF g
<1>4. /\ Len(q) = m + 1 /\ (\A i \in 1..m : q[i] = g[i]) /\ q[m + 1] = h
  BY <1>2, SeqAppend
<1> HIDE DEF q
<1>5. start \in 0..h - 1 /\ m + 1 = h - start /\ (m > 0 => start = e)
  BY <1>2 DEF LargerOf, SmallerOf
<1> HIDE DEF m, start
<1>6. ASSUME NEW i \in 1..h - start
      PROVE  q[i] = start + i
  <2>1. CASE i = m + 1
    BY <1>2, <1>4, <1>5, <2>1
  <2>2. CASE i # m + 1
    <3>1. i \in 1..m /\ m > 0
      BY <1>2, <1>5, <2>2
    <3>2. q[i] = e + 1 + i - 1
      BY <1>3, <1>4, <3>1
    <3> QED
      BY <1>2, <1>5, <3>1, <3>2
  <2> QED
    BY <2>1, <2>2
<1> QED
  BY <1>2, <1>4, <1>5, <1>6 DEF q, g, start

\* The account of one commit
LEMMA CommitVisits ==
    ASSUME NEW b, IsBoot(b), NEW e \in Nat, NEW h \in Nat \ {0}, NEW missed
    PROVE  LET c == AfterVisits(b, Append(Heights(e + 1, h - 1), h), missed)
           IN /\ IsBoot(c) /\ c.frontier = b.frontier /\ c.lost = b.lost /\ ~Nothing(c)
              /\ CoverFrom(b, SmallerOf(e, h - 1)) => CoverFrom(c, h)
<1> DEFINE q == Append(Heights(e + 1, h - 1), h)
           start == SmallerOf(e, h - 1)
           m == Len(q)
           w == [boot |-> b, start |-> start]
           c == VisitLoop!Pass(b, q, missed, m)
<1>1. start \in 0..h - 1 /\ m = h - start /\ \A i \in 1..m : q[i] = start + i
  BY CommitHeights
<1>2. w.boot = b /\ w.start = start
  OBVIOUS
<1> HIDE DEF q, m, w, start
<1>3. m \in Nat \ {0} /\ start \in Nat /\ start + m = h /\ start + 0 = start
  BY <1>1
<1>4. VisitGood(w, 0, b)
  BY <1>2, <1>3 DEF VisitGood
<1>5. ASSUME NEW i \in 1..m, NEW t, VisitGood(w, i - 1, t)
      PROVE  VisitGood(w, i, VisitStep(t, q[i], missed))
  <2> DEFINE x == start + i
             y == Visit(t, x, missed)
  <2>1. x \in Nat \ {0} /\ x - 1 = start + (i - 1) /\ q[i] = x
    BY <1>1, <1>3
  <2> HIDE DEF x
  <2>2. IsBoot(t)
    BY <1>5 DEF VisitGood
  <2>3. IsBoot(y) /\ y.frontier = t.frontier /\ y.lost = t.lost /\ ~Nothing(y)
    BY <2>1, <2>2, VisitKeeps
  <2>4. CoverFrom(t, x - 1) => CoverFrom(y, x)
    BY <2>1, <2>2, VisitCovers
  <2> HIDE DEF y
  <2>5. VisitGood(w, i, y)
    BY <1>2, <1>5, <2>1, <2>3, <2>4 DEF VisitGood, x
  <2> QED
    BY <2>1, <2>5 DEF VisitStep, y
<1>6. VisitGood(w, m, c)
  BY <1>3, <1>4, <1>5, VisitLoop!Invariance
<1>7. AfterVisits(b, q, missed) = c
  BY DEF AfterVisits, m
<1> HIDE DEF c
<1>8. /\ IsBoot(c) /\ c.frontier = b.frontier /\ c.lost = b.lost /\ ~Nothing(c)
      /\ CoverFrom(b, start) => CoverFrom(c, h)
  BY <1>2, <1>3, <1>6 DEF VisitGood
<1> QED
  BY <1>7, <1>8 DEF q, start

LEMMA AppCommitKeeps ==
    ASSUME IsChain(chain), NEW s, IsMachine(s), NEW h \in 1..Len(chain), NEW missed
    PROVE  LET t == AppCommit(s, h, missed)
           IN /\ IsMachine(t) /\ t.el.up = s.el.up /\ t.boot.lost = s.boot.lost
              /\ Ordered(s, h - 1) => Ordered(t, h)
<1> DEFINE r == Committed(s.app, chain, h, missed)
           t == AppCommit(s, h, missed)
           e == s.app.executed
<1>1. Len(chain) \in Nat /\ LastBlock \in Nat /\ Len(chain) <= LastBlock /\ h \in Nat \ {0}
      /\ h <= LastBlock /\ e \in Nat
  BY SeqParts, StakingAssumption DEF IsChain, IsMachine, IsApp
<1>2. \A j \in 1..Len(chain) : WellLogs(chain[j])
  BY DEF IsChain, IsBlock
<1>3. /\ IsApp(r.app) /\ r.app.executed = h /\ IsSeq(r.updates) /\ IsCmds(r.effects)
      /\ r.heights = Append(Heights(e + 1, h - 1), h)
  <2>1. IsApp(s.app)
    BY DEF IsMachine
  <2>2. CommitIs(r, s.app, chain[h].registry.weights, h)
    BY <1>1, <1>2, <2>1, CommitOf
  <2> QED
    BY <2>2 DEF CommitIs
<1> HIDE DEF r
<1>4. CASE Answer(s.el, h) = "valid"
  <2> DEFINE l == [s.el EXCEPT !.head = LargerOf(@, h)]
             b == Along(LAMBDA c, i : Visit(c, i, missed), s.boot, r.heights)
  <2>1. t = [app |-> r.app, el |-> l, boot |-> b, updates |-> r.updates,
             effects |-> r.effects]
    BY <1>4 DEF AppCommit, r
  <2>2. /\ DOMAIN l = {"up", "head", "target"} /\ l.up = s.el.up
        /\ l.head = LargerOf(s.el.head, h) /\ l.target = s.el.target
    BY DEF IsMachine
  <2>3. IsBoot(s.boot)
    BY DEF IsMachine
  <2>4. /\ IsBoot(b) /\ b.frontier = s.boot.frontier /\ b.lost = s.boot.lost /\ ~Nothing(b)
        /\ CoverFrom(s.boot, SmallerOf(e, h - 1)) => CoverFrom(b, h)
    <3> DEFINE c == AfterVisits(s.boot, r.heights, missed)
    <3>1. b = c
      BY DEF AfterVisits, Along, AlongTo, VisitLoop!Pass, VisitLoop!AlongTo, VisitStep
    <3> HIDE DEF b, c, e
    <3>2. c = AfterVisits(s.boot, Append(Heights(e + 1, h - 1), h), missed)
      BY <1>3 DEF c
    <3>3. /\ IsBoot(c) /\ c.frontier = s.boot.frontier /\ c.lost = s.boot.lost /\ ~Nothing(c)
          /\ CoverFrom(s.boot, SmallerOf(e, h - 1)) => CoverFrom(c, h)
      BY <1>1, <2>3, <3>2, CommitVisits
    <3> QED
      BY <3>1, <3>3
  <2> HIDE DEF l, b
  <2>5. /\ DOMAIN t = {"app", "el", "boot", "updates", "effects"}
        /\ t.app = r.app /\ t.el = l /\ t.boot = b /\ t.updates = r.updates
        /\ t.effects = r.effects
    BY <2>1
  <2> HIDE DEF t
  <2>6. l.head \in 0..LastBlock /\ l.head >= h
    BY <1>1, <2>2 DEF LargerOf, IsMachine
  <2>7. IsMachine(t)
    BY <1>1, <1>3, <2>2, <2>4, <2>5, <2>6 DEF IsMachine
  <2>8. ASSUME Ordered(s, h - 1)
        PROVE  Ordered(t, h)
    <3>1. ASSUME ~s.boot.lost
          PROVE  CoverFrom(s.boot, SmallerOf(e, h - 1))
      <4>1. CASE Nothing(s.boot)
        <5>1. e = s.boot.frontier
          BY <2>8, <3>1, <4>1 DEF Ordered
        <5>2. SmallerOf(e, h - 1) \in Nat /\ SmallerOf(e, h - 1) <= e
          BY <1>1 DEF SmallerOf
        <5> QED
          BY <2>3, <4>1, <5>1, <5>2, NothingCovers
      <4>2. CASE ~Nothing(s.boot)
        <5>1. Covers(s.boot, e) /\ e <= h - 1
          BY <2>8, <3>1, <4>2 DEF Ordered
        <5>2. SmallerOf(e, h - 1) = e
          BY <1>1, <5>1 DEF SmallerOf
        <5> QED
          BY <4>2, <5>1, <5>2 DEF CoverFrom
      <4> QED
        BY <4>1, <4>2
    <3>2. ~t.boot.lost => Covers(t.boot, h) /\ ~Nothing(t.boot)
      BY <2>4, <2>5, <3>1 DEF CoverFrom
    <3>3. t.app.executed = h /\ h <= t.el.head
      BY <1>1, <1>3, <2>5, <2>6
    <3> QED
      BY <1>1, <3>2, <3>3 DEF Ordered
  <2> QED
    BY <2>2, <2>4, <2>5, <2>7, <2>8 DEF t
<1>5. CASE Answer(s.el, h) # "valid"
  <2>1. t = [s EXCEPT !.updates = <<>>, !.effects = <<>>]
    BY <1>5 DEF AppCommit
  <2>2. /\ DOMAIN t = DOMAIN s /\ t.app = s.app /\ t.el = s.el /\ t.boot = s.boot
        /\ t.updates = <<>> /\ t.effects = <<>>
    BY <2>1 DEF IsMachine
  <2> HIDE DEF t
  <2>3. IsMachine(t)
    BY <2>2, SeqEmpty, NoCmds DEF IsMachine
  <2>4. Ordered(s, h - 1) => Ordered(s, h)
    BY <1>1, OrderedUpTo
  <2>5. Ordered(s, h) => Ordered(t, h)
    BY <2>2 DEF Ordered
  <2> QED
    BY <2>2, <2>3, <2>4, <2>5 DEF t
<1> QED
  BY <1>4, <1>5

ReplayStep(t, i, missed) == IF t.el.up THEN AppCommit(t, i, missed) ELSE t

\* w has the machine before the replay, and its frontier.
ReplayGood(w, i, t) ==
    IsMachine(t) /\ t.boot.lost = w.machine.boot.lost /\ Ordered(t, w.frontier + i)

ReplayLoop == INSTANCE LoopProofs WITH Step <- ReplayStep, Good <- ReplayGood

LEMMA ReplayStepKeeps ==
    ASSUME IsChain(chain), NEW t, IsMachine(t), NEW h \in 1..Len(chain), Ordered(t, h - 1),
           NEW missed
    PROVE  /\ IsMachine(ReplayStep(t, h, missed)) /\ Ordered(ReplayStep(t, h, missed), h)
           /\ ReplayStep(t, h, missed).boot.lost = t.boot.lost
<1>1. h \in Int /\ h - 1 \in Int /\ h - 1 <= h
  <2>1. Len(chain) \in Nat
    BY SeqParts DEF IsChain
  <2> QED
    BY <2>1
<1>2. CASE t.el.up
  <2>1. ReplayStep(t, h, missed) = AppCommit(t, h, missed)
    BY <1>2 DEF ReplayStep
  <2> QED
    BY <1>1, <2>1, AppCommitKeeps
<1>3. CASE ~t.el.up
  <2>1. ReplayStep(t, h, missed) = t
    BY <1>3 DEF ReplayStep
  <2> QED
    BY <1>1, <2>1, OrderedUpTo
<1> QED
  BY <1>2, <1>3

LEMMA FrontierIs ==
    ASSUME NEW s, IsMachine(s)
    PROVE  /\ el_frontier(s) \in Nat
           /\ \A b : Ordered(s, b) => Ordered(s, el_frontier(s))
BY StakingAssumption DEF el_frontier, Ordered, IsMachine, IsApp

LEMMA ReplayKeeps ==
    ASSUME IsChain(chain), NEW s, IsMachine(s), NEW h \in 0..Len(chain), Ordered(s, h),
           h - el_frontier(s) >= 1, NEW missed
    PROVE  IsMachine(Replayed(s, h, missed)) /\ Ordered(Replayed(s, h, missed), h)
           /\ Replayed(s, h, missed).boot.lost = s.boot.lost
<1> DEFINE f == el_frontier(s)
           g == Heights(f + 1, h)
           m == Len(g)
           w == [machine |-> s, frontier |-> f]
<1>1. f \in Nat /\ Ordered(s, f) /\ Len(chain) \in Nat
  BY FrontierIs, SeqParts DEF IsChain
<1>2. w.machine = s /\ w.frontier = f
  OBVIOUS
<1>3. m = h - f /\ m \in Nat /\ \A i \in 1..m : g[i] = f + i
  <2>1. f + 1 \in Int /\ h \in Int
    BY <1>1
  <2>2. m = LargerOf(0, h - (f + 1) + 1)
    BY <2>1, HeightsAre
  <2>3. \A i \in 1..m : g[i] = (f + 1) + i - 1
    BY <2>1, HeightsAre
  <2> HIDE DEF g
  <2>4. m = h - f /\ m \in Nat
    BY <1>1, <2>2 DEF LargerOf
  <2> HIDE DEF m, f
  <2> QED
    BY <1>1, <2>3, <2>4
<1> HIDE DEF w, f, g, m
<1>4. ReplayGood(w, 0, s)
  BY <1>1, <1>2 DEF ReplayGood
<1>5. ASSUME NEW i \in 1..m, NEW t, ReplayGood(w, i - 1, t)
      PROVE  ReplayGood(w, i, ReplayStep(t, g[i], missed))
  <2>1. g[i] = f + i /\ f + i \in 1..Len(chain) /\ f + (i - 1) = (f + i) - 1
    BY <1>1, <1>3
  <2>2. IsMachine(t) /\ t.boot.lost = s.boot.lost /\ Ordered(t, (f + i) - 1)
    BY <1>2, <1>5, <2>1 DEF ReplayGood
  <2> DEFINE j == f + i
  <2>3. j \in 1..Len(chain) /\ Ordered(t, j - 1) /\ g[i] = j
    BY <2>1, <2>2
  <2> HIDE DEF j
  <2>4. /\ IsMachine(ReplayStep(t, j, missed)) /\ Ordered(ReplayStep(t, j, missed), j)
        /\ ReplayStep(t, j, missed).boot.lost = t.boot.lost
    BY <2>2, <2>3, ReplayStepKeeps
  <2> QED
    BY <1>2, <2>2, <2>3, <2>4 DEF ReplayGood, j
<1>6. ReplayGood(w, m, ReplayLoop!Pass(s, g, missed, m))
  BY <1>3, <1>4, <1>5, ReplayLoop!Invariance
<1>7. Replayed(s, h, missed) = ReplayLoop!Pass(s, g, missed, m)
  BY DEF Replayed, Along, AlongTo, ReplayLoop!Pass, ReplayLoop!AlongTo, ReplayStep, g, m, f
<1>8. f + m = h
  BY <1>1, <1>3
<1> QED
  BY <1>2, <1>6, <1>7, <1>8 DEF ReplayGood

LEMMA CatchUpKeeps ==
    ASSUME IsChain(chain), NEW s, IsMachine(s), NEW h \in 0..Len(chain), Ordered(s, h),
           NEW gap \in Nat, NEW missed
    PROVE  /\ IsMachine(el_catchup_replay(s, h, gap, missed))
           /\ Ordered(el_catchup_replay(s, h, gap, missed), h)
<1> DEFINE t == el_catchup_replay(s, h, gap, missed)
<1>1. el_frontier(s) \in Nat /\ h \in 0..LastBlock
  BY FrontierIs, SeqParts, StakingAssumption DEF IsChain
<1>2. \/ t = s
      \/ h - el_frontier(s) >= 1 /\ t = Replayed(s, h, missed)
      \/ t = [s EXCEPT !.el.target = h]
  BY <1>1 DEF el_catchup_replay, LargerOf
<1> HIDE DEF t
<1>3. CASE t = s
  BY <1>3 DEF t
<1>4. CASE h - el_frontier(s) >= 1 /\ t = Replayed(s, h, missed)
  BY <1>4, ReplayKeeps DEF t
<1>5. CASE t = [s EXCEPT !.el.target = h]
  <2>1. /\ DOMAIN t = DOMAIN s /\ t.app = s.app /\ t.boot = s.boot /\ t.updates = s.updates
        /\ t.effects = s.effects /\ t.el = [s.el EXCEPT !.target = h]
    BY <1>5 DEF IsMachine
  <2>2. /\ DOMAIN t.el = DOMAIN s.el /\ t.el.up = s.el.up /\ t.el.head = s.el.head
        /\ t.el.target = h
    BY <2>1 DEF IsMachine
  <2>3. IsMachine(t)
    BY <1>1, <2>1, <2>2 DEF IsMachine
  <2>4. Ordered(t, h)
    BY <2>1, <2>2 DEF Ordered
  <2> QED
    BY <2>3, <2>4 DEF t
<1> QED
  BY <1>2, <1>3, <1>4, <1>5

-----------------------------------------------------------------------------
(***************************************************************************)
(* The node and the application that start, detect and stage.              *)
(***************************************************************************)
LEMMA NewNodeIs ==
    ASSUME NEW sets, IsSets(sets), NEW evidence
    PROVE  /\ IsNode(NewNode(sets, evidence)) /\ NewNode(sets, evidence).pool = <<>>
           /\ NewNode(sets, evidence).sets = sets
           /\ NewNode(sets, evidence).evidence = evidence
<1> DEFINE n == NewNode(sets, evidence)
           t == EmptyTracker
<1>1. /\ DOMAIN n = {"sets", "evidence", "staged", "effects", "approved", "pool",
                     "minted", "tracker"}
      /\ n.sets = sets /\ n.evidence = evidence /\ n.staged = <<>> /\ n.effects = <<>>
      /\ n.approved = <<>> /\ n.pool = <<>> /\ n.tracker = t
  BY DEF NewNode
<1>2. DOMAIN t = {"obs", "counts"} /\ t.obs = <<>> /\ DOMAIN t.counts = {}
  BY DEF EmptyTracker
<1> HIDE DEF n, t
<1>3. IsTracker(t)
  <2>1. Observed(t.obs)
    BY <1>2, SeqEmpty DEF Observed
  <2>2. Counts(t.obs, t.counts)
    BY <1>2, SeqEmpty DEF Counts
  <2>3. Len(t.obs) <= Window
    BY <1>2, SeqEmpty, StakeLedgerAssumption
  <2> QED
    BY <1>2, <2>1, <2>2, <2>3 DEF IsTracker
<1> QED
  BY <1>1, <1>3, SeqEmpty, NoCmds DEF IsNode, n

LEMMA NewAppIs ==
    ASSUME NEW executed \in Nat
    PROVE  /\ IsApp(NewApp(executed)) /\ NewApp(executed).executed = executed
           /\ NewApp(executed).ledger = seeded_from(Genesis)
           /\ DOMAIN NewApp(executed).weights = {}
<1> DEFINE a == NewApp(executed)
           l == seeded_from(Genesis)
<1>1. /\ DOMAIN a = {"executed", "ledger", "weights", "ring"} /\ a.executed = executed
      /\ a.ledger = l /\ DOMAIN a.weights = {}
  BY DEF NewApp
<1>2. /\ DOMAIN l = {"stake", "unbonding", "height", "pending"}
      /\ l.stake = Genesis /\ DOMAIN l.unbonding = {} /\ l.pending = <<>>
  BY DEF seeded_from
<1>3. a = [executed |-> a.executed, ledger |-> a.ledger, weights |-> a.weights, ring |-> a.ring]
  BY DEF NewApp
<1> HIDE DEF a, l
<1>4. IsSeq(l.pending) /\ Announced(l)
  BY <1>2, SeqEmpty DEF Announced
<1>5. IsLedger(l)
  BY <1>2, <1>4, StakingAssumption DEF IsLedger
<1>6. IsApp(a)
  BY <1>1, <1>3, <1>5 DEF IsApp
<1> QED
  BY <1>1, <1>6 DEF a, l

LEMMA EvidenceCmd ==
    ASSUME NEW proof
    PROVE  IsCmd(Evidence(proof)) /\ Evidence(proof).kind = "evidence"
<1>1. Evidence(proof).kind = "evidence"
  BY DEF Evidence
<1> QED
  BY <1>1 DEF IsCmd

\* The peer's node, with the evidence in circulation for its pool
LEMMA PooledIs ==
    ASSUME NEW n, IsNode(n), NEW ps, ps \subseteq Proofs
    PROVE  IsNode([n EXCEPT !.pool = Listed({Evidence(p) : p \in ps})])
<1> DEFINE S == {Evidence(p) : p \in ps}
           f == [p \in ps |-> Evidence(p)]
           pool == Listed(S)
           m == [n EXCEPT !.pool = pool]
<1>1. IsFiniteSet(ps)
  BY StakingAssumption, FS_Subset
<1>2. DOMAIN f = ps /\ {f[p] : p \in ps} = S
  OBVIOUS
<1>3. IsFiniteSet(S)
  <2> HIDE DEF f, S
  <2> QED
    BY <1>1, <1>2, FiniteImage
<1>4. \A c \in S : IsCmd(c)
  BY EvidenceCmd
<1> HIDE DEF S
<1>5. IsSeq(pool) /\ ToSet(pool) = S
  BY <1>3, ListedIs
<1>6. IsCmds(pool)
  BY <1>4, <1>5 DEF IsCmds, ToSet
<1> HIDE DEF pool
<1>7. /\ DOMAIN m = DOMAIN n /\ m.staged = n.staged /\ m.sets = n.sets
      /\ m.evidence = n.evidence /\ m.effects = n.effects /\ m.approved = n.approved
      /\ m.pool = pool /\ m.minted = n.minted /\ m.tracker = n.tracker
  BY DEF IsNode
<1> HIDE DEF m
<1>8. IsNode(m)
  BY <1>6, <1>7 DEF IsNode
<1> QED
  BY <1>8 DEF m, pool, S

LEMMA DetectKeeps ==
    ASSUME NEW n, IsNode(n), NEW proof
    PROVE  LET m == record_equivocation_proof(n, proof)
           IN /\ IsNode(m) /\ Keeps(n, m)
              /\ \A c \in ToSet(m.pool) : c \in ToSet(n.pool) \/ c.kind = "evidence"
<1> DEFINE m == record_equivocation_proof(n, proof)
           cmd == Evidence(proof)
           seen == n.minted \cup {proof.who}
<1>1. m = n \/ m = [n EXCEPT !.pool = Insert(@, cmd), !.minted = seen]
  BY DEF record_equivocation_proof, mint_equivocation_evidence
<1>2. IsCmd(cmd) /\ cmd.kind = "evidence"
  BY EvidenceCmd
<1> HIDE DEF m, cmd, seen
<1>3. CASE m = n
  BY <1>3 DEF Keeps, m
<1>4. CASE m = [n EXCEPT !.pool = Insert(@, cmd), !.minted = seen]
  <2>1. /\ DOMAIN m = DOMAIN n /\ m.staged = n.staged /\ m.sets = n.sets
        /\ m.evidence = n.evidence /\ m.effects = n.effects /\ m.approved = n.approved
        /\ m.pool = Insert(n.pool, cmd) /\ m.tracker = n.tracker
    BY <1>4 DEF IsNode
  <2>2. /\ IsCmds(m.pool)
        /\ \A c \in ToSet(m.pool) : c \in ToSet(n.pool) \/ c = cmd
    BY <1>2, <2>1, InsertKeeps DEF IsNode
  <2> QED
    BY <1>2, <2>1, <2>2 DEF IsNode, Keeps, m
<1> QED
  BY <1>1, <1>3, <1>4

LEMMA StageKeeps ==
    ASSUME NEW n, IsNode(n), NEW r, IsSeq(r.updates), IsCmds(r.effects)
    PROVE  LET m == stage_app_validator_updates(n, r)
           IN IsNode(m) /\ Keeps(n, m) /\ m.pool = n.pool
<1> DEFINE m == stage_app_validator_updates(n, r)
<1>1. m = [n EXCEPT !.staged = @ \o r.updates, !.effects = @ \o r.effects]
  BY DEF stage_app_validator_updates
<1> HIDE DEF m
<1>2. /\ DOMAIN m = DOMAIN n /\ m.staged = n.staged \o r.updates /\ m.sets = n.sets
      /\ m.evidence = n.evidence /\ m.effects = n.effects \o r.effects
      /\ m.approved = n.approved /\ m.pool = n.pool /\ m.minted = n.minted
      /\ m.tracker = n.tracker
  BY <1>1 DEF IsNode
<1>3. IsSeq(m.staged) /\ IsCmds(m.effects)
  BY <1>2, SeqConcat, CmdsConcat DEF IsNode
<1> QED
  BY <1>2, <1>3 DEF IsNode, Keeps, m

LEMMA FollowedIs ==
    ASSUME IsChain(chain), NEW s, IsNode(s.node), IsApp(s.app), NEW h \in 1..Len(chain)
    PROVE  LET r == Committed(s.app, chain, h, {})
           IN /\ CommitIs(r, s.app, chain[h].registry.weights, h)
              /\ Keeps(s.node, stage_app_validator_updates(s.node, r))
              /\ Followers(stage_app_validator_updates(s.node, r), r.app, chain[h],
                           Followed(s, h))
<1> DEFINE r == Committed(s.app, chain, h, {})
           n == stage_app_validator_updates(s.node, r)
<1>1. Len(chain) \in Nat
  BY SeqParts DEF IsChain
<1>2. \A j \in 1..Len(chain) : WellLogs(chain[j])
  BY DEF IsChain, IsBlock
<1>3. CommitIs(r, s.app, chain[h].registry.weights, h)
  BY <1>1, <1>2, CommitOf
<1>4. Followed(s, h) = apply_commit(n, r.app, chain[h])
  BY DEF Followed
<1> HIDE DEF r
<1>5. IsNode(n) /\ Keeps(s.node, n)
  BY <1>3, StageKeeps DEF CommitIs
<1> HIDE DEF n
<1>6. IsCmds(chain[h].cmds) /\ chain[h].view \in Nat
  BY <1>1 DEF IsChain, IsBlock
<1>7. Followers(n, r.app, chain[h], Followed(s, h))
  BY <1>3, <1>4, <1>5, <1>6, ApplyCommitIs DEF CommitIs
<1> QED
  BY <1>3, <1>5, <1>7 DEF n, r

-----------------------------------------------------------------------------
(***************************************************************************)
(* The invariant.                                                          *)
(***************************************************************************)
Machine(a, e, b) == [app |-> a, el |-> e, boot |-> b, updates |-> <<>>, effects |-> <<>>]

LEMMA MachineIs ==
    ASSUME NEW a, NEW e, NEW b
    PROVE  /\ Machine(a, e, b).app = a /\ Machine(a, e, b).el = e /\ Machine(a, e, b).boot = b
           /\ Machine(a, e, b).updates = <<>> /\ Machine(a, e, b).effects = <<>>
           /\ DOMAIN Machine(a, e, b) = {"app", "el", "boot", "updates", "effects"}
BY DEF Machine

LEMMA ElIs ==
    ASSUME NEW a, NEW e, NEW b, IsMachine(Machine(a, e, b))
    PROVE  /\ DOMAIN e = {"up", "head", "target"}
           /\ e.head \in 0..LastBlock /\ e.target \in 0..LastBlock
<1>1. Machine(a, e, b).el = e
  BY MachineIs
<1> QED
  BY <1>1 DEF IsMachine

LEMMA BootIs ==
    ASSUME NEW a, NEW e, NEW b, IsMachine(Machine(a, e, b))
    PROVE  IsBoot(b)
<1>1. Machine(a, e, b).boot = b
  BY MachineIs
<1> QED
  BY <1>1 DEF IsMachine

LEMMA MachineAgain ==
    ASSUME NEW t, IsMachine(t)
    PROVE  /\ IsMachine(Machine(t.app, t.el, t.boot))
           /\ \A bound : Ordered(t, bound) => Ordered(Machine(t.app, t.el, t.boot), bound)
<1>1. IsMachine(Machine(t.app, t.el, t.boot))
  BY MachineIs, SeqEmpty, NoCmds DEF IsMachine
<1>2. ASSUME NEW bound, Ordered(t, bound)
      PROVE  Ordered(Machine(t.app, t.el, t.boot), bound)
  BY <1>2, MachineIs DEF Ordered
<1> QED
  BY <1>1, <1>2

\* Where the commit of the next block stands
Place ==
    /\ IsChain(chain) /\ height \in 0..Len(chain)
    /\ phase \in {"idle", "execute", "record"}
    /\ phase # "idle" => height < Decided(chain)

Shape ==
    /\ tick \in {"armed", "fired"} /\ faults \in 0..MaxFaults /\ refused \in BOOLEAN
    /\ IsNode(node) /\ IsNode(peer.node) /\ IsApp(peer.app) /\ DOMAIN peer = {"node", "app"}
    /\ IsSets(disk.sets)

Bound == IF phase = "record" THEN Decided(chain) ELSE height

Order == IsMachine(Machine(app, el, boot)) /\ Ordered(Machine(app, el, boot), Bound)

IInv == Place /\ Shape /\ Order

LEMMA PlaceIs ==
    ASSUME Place
    PROVE  /\ height \in Nat /\ Len(chain) \in Nat /\ height <= Len(chain)
           /\ Len(chain) <= LastBlock /\ LastBlock \in Nat /\ Bound \in Nat
           /\ phase # "idle" => Decided(chain) \in 1..Len(chain)
<1>1. Len(chain) \in Nat
  BY SeqParts DEF Place, IsChain
<1> QED
  BY <1>1, StakingAssumption DEF Place, IsChain, Bound, Decided

LEMMA InitKeeps == Init => IInv
<1> SUFFICES ASSUME Init
             PROVE  IInv
  OBVIOUS
<1>1. IsChain(chain) /\ Len(chain) = 0 /\ height = 0 /\ phase = "idle"
  BY SeqEmpty, StakingAssumption DEF Init, IsChain
<1>2. Place
  BY <1>1 DEF Place
<1>3. IsNode(node) /\ IsSets(disk.sets)
  BY GenesisSets, NewNodeIs DEF Init
<1>4. IsApp(app) /\ app.executed = 0
  BY NewAppIs DEF Init
<1>5. peer.node = node /\ peer.app = app /\ DOMAIN peer = {"node", "app"}
  BY DEF Init
<1>6. Shape
  <2>1. MaxFaults \in Nat /\ faults = 0 /\ tick = "armed" /\ refused = FALSE
    BY StakingAssumption DEF Init
  <2>2. faults \in 0..MaxFaults /\ tick \in {"armed", "fired"}
    BY <2>1
  <2>3. refused \in BOOLEAN
    BY <2>1, Zenon
  <2> QED
    BY <1>3, <1>4, <1>5, <2>2, <2>3 DEF Shape
<1>7. /\ DOMAIN el = {"up", "head", "target"} /\ el.up = TRUE /\ el.head = 0 /\ el.target = 0
      /\ DOMAIN boot = {"frontier", "applied", "missed", "lost"} /\ boot.frontier = 0
      /\ boot.applied = <<>> /\ boot.missed = {} /\ boot.lost = FALSE
  BY DEF Init, Booted
<1>8. IsBoot(boot) /\ Nothing(boot)
  BY <1>7, SeqEmpty DEF IsBoot, Nothing
<1>9. IsMachine(Machine(app, el, boot))
  <2>1. 0 \in 0..LastBlock /\ 0 \in Nat /\ 0 <= LastBlock
    BY StakingAssumption
  <2> QED
    BY <1>4, <1>7, <1>8, <2>1, MachineIs, SeqEmpty, NoCmds DEF IsMachine
<1>10. Ordered(Machine(app, el, boot), Bound)
  <2>1. Covers(boot, 0)
    BY <1>7, <1>8, NothingCovers DEF CoverFrom
  <2> QED
    BY <1>4, <1>7, <1>8, <2>1, MachineIs DEF Ordered
<1> QED
  BY <1>2, <1>6, <1>9, <1>10 DEF IInv, Order

\* The chain grows by a block, or a refused block leaves it alone.
LEMMA GrowKeeps ==
    ASSUME Place, NEW parent \in Parents, NEW block, IsBlock(block, parent + 1),
           height' = height,
           Arrives(SubSeq(chain, 1, parent), block) \/ UNCHANGED <<chain, phase>>
    PROVE  Place' /\ Bound' = Bound
<1> DEFINE base == SubSeq(chain, 1, parent)
<1>1. /\ height \in Nat /\ Len(chain) \in Nat /\ height <= Len(chain)
  BY PlaceIs
<1>2. phase = "idle" /\ parent < LastBlock /\ parent \in height..Len(chain)
  BY <1>1 DEF Parents
<1>3. parent \in 0..Len(chain)
  BY <1>1, <1>2
<1>4. IsChain(base) /\ Len(base) = parent
  BY <1>3, PrefixChain DEF Place
<1>5. CASE Arrives(base, block)
  <2>1. /\ chain' = Append(base, block) /\ phase' \in {"idle", "execute"}
        /\ phase' # "idle" => Decided(Append(base, block)) > height
    BY <1>5 DEF Arrives, Commits
  <2> HIDE DEF base
  <2>2. IsChain(chain') /\ Len(chain') = parent + 1
    BY <1>2, <1>4, <2>1, ChainGrows
  <2>3. Decided(chain)' = Decided(Append(base, block)) /\ Decided(Append(base, block)) \in Int
    BY <1>3, <2>1, <2>2 DEF Decided
  <2>4. phase' # "idle" => height < Decided(chain)'
    BY <1>1, <2>1, <2>3
  <2>5. Place'
    BY <1>1, <1>2, <2>1, <2>2, <2>4 DEF Place
  <2> QED
    BY <1>2, <2>1, <2>5 DEF Bound
<1>6. CASE UNCHANGED <<chain, phase>>
  BY <1>6 DEF Place, Bound, Decided
<1> QED
  BY <1>5, <1>6

LEMMA PeerKeeps ==
    ASSUME IInv, NEW parent \in Parents, NEW content \in Contents(parent),
           PeerProposes(parent, content)
    PROVE  IInv'
<1> DEFINE base == SubSeq(chain, 1, parent)
<1>1. PICK ps \in SUBSET Proofs :
          LET pool == Listed({Evidence(p) : p \in ps})
              minted == Minted([peer.node EXCEPT !.pool = pool], NextView)
              block == build_proposal(peer.app, minted, content, base)
          IN IF validate_proposal(base, Held(base), block)
               THEN Arrives(base, block) /\ UNCHANGED refused
               ELSE refused' = TRUE /\ UNCHANGED <<chain, phase>>
  BY DEF PeerProposes
<1> DEFINE n == [peer.node EXCEPT !.pool = Listed({Evidence(p) : p \in ps})]
           m == Minted(n, NextView)
           block == build_proposal(peer.app, m, content, base)
<1>2. /\ UNCHANGED <<height, app, node, peer, disk, el, boot, tick, faults>>
      /\ refused' = refused \/ refused' = TRUE
      /\ Arrives(base, block) \/ UNCHANGED <<chain, phase>>
  BY <1>1 DEF PeerProposes
<1>3. IsNode(n)
  BY PooledIs DEF IInv, Shape
<1> HIDE DEF n
<1>4. IsChain(chain) /\ NextView \in Nat /\ parent \in 0..Len(chain)
  <2>1. height \in Nat /\ Len(chain) \in Nat
    BY PlaceIs DEF IInv
  <2> QED
    BY <2>1, NextViewIs DEF IInv, Place, Parents
<1>5. IsNode(m)
  BY <1>3, <1>4, MintedKeeps
<1> HIDE DEF m
<1>6. IsBlock(block, parent + 1)
  BY <1>4, <1>5, ProposalIs
<1> HIDE DEF block
<1>7. Place' /\ Bound' = Bound
  BY <1>2, <1>6, GrowKeeps DEF IInv
<1>8. Shape'
  BY <1>2 DEF IInv, Shape
<1>9. Order'
  BY <1>2, <1>7 DEF IInv, Order
<1> QED
  BY <1>7, <1>8, <1>9 DEF IInv

LEMMA ProposeKeeps ==
    ASSUME IInv, NEW parent \in Parents, NEW content \in Contents(parent),
           Propose(parent, content)
    PROVE  IInv'
<1> DEFINE base == SubSeq(chain, 1, parent)
           m == Minted(node, NextView)
           block == build_proposal(app, m, content, base)
<1>1. /\ node' = m /\ el' = build_block(el, parent)
      /\ UNCHANGED <<height, app, peer, disk, boot, tick, faults>>
      /\ refused' = refused \/ refused' = (refused \/ app.executed = height)
      /\ Arrives(base, block) \/ UNCHANGED <<chain, phase>>
  BY DEF Propose
<1>2. /\ height \in Nat /\ Len(chain) \in Nat /\ Len(chain) <= LastBlock /\ LastBlock \in Nat
      /\ IsChain(chain) /\ NextView \in Nat /\ parent \in 0..Len(chain)
  <2>1. /\ height \in Nat /\ Len(chain) \in Nat /\ Len(chain) <= LastBlock
        /\ LastBlock \in Nat
    BY PlaceIs DEF IInv
  <2> QED
    BY <2>1, NextViewIs DEF IInv, Place, Parents
<1>3. IsNode(m)
  BY <1>2, MintedKeeps DEF IInv, Shape
<1> HIDE DEF m
<1>4. IsBlock(block, parent + 1)
  BY <1>2, <1>3, ProposalIs
<1> HIDE DEF block
<1>5. Place' /\ Bound' = Bound
  BY <1>1, <1>4, GrowKeeps DEF IInv
<1>6. Shape'
  BY <1>1, <1>3 DEF IInv, Shape
<1>7. IsMachine(Machine(app, el, boot)) /\ Ordered(Machine(app, el, boot), Bound)
  BY DEF IInv, Order
<1>8. /\ DOMAIN el' = DOMAIN el /\ el'.up = el.up /\ el'.target = el.target
      /\ el'.head = LargerOf(el.head, parent)
  BY <1>1, <1>7, MachineIs DEF build_block, IsMachine
<1>9. el.head \in 0..LastBlock /\ app.executed \in Nat
  BY <1>7, MachineIs DEF IsMachine, IsApp
<1>10. el'.head \in 0..LastBlock /\ el'.head >= el.head
  BY <1>2, <1>8, <1>9 DEF LargerOf
<1>11. IsMachine(Machine(app, el', boot))
  BY <1>7, <1>8, <1>10, MachineIs DEF IsMachine
<1>12. Ordered(Machine(app, el', boot), Bound)
  BY <1>7, <1>9, <1>10, MachineIs DEF Ordered
<1>13. Order'
  BY <1>1, <1>5, <1>11, <1>12 DEF Order
<1> QED
  BY <1>5, <1>6, <1>13 DEF IInv

LEMMA DetectStep ==
    ASSUME IInv, NEW proof, Detect(proof)
    PROVE  IInv'
<1>1. /\ node' = record_equivocation_proof(node, proof)
      /\ UNCHANGED <<chain, height, phase, app, peer, disk, el, boot, tick, faults, refused>>
  BY DEF Detect
<1>2. IsNode(node')
  BY <1>1, DetectKeeps DEF IInv, Shape
<1>3. Place' /\ Bound' = Bound
  BY <1>1 DEF IInv, Place, Bound, Decided
<1>4. Shape'
  BY <1>1, <1>2 DEF IInv, Shape
<1>5. Order'
  BY <1>1, <1>3 DEF IInv, Order
<1> QED
  BY <1>3, <1>4, <1>5 DEF IInv

LEMMA FaultsAdd ==
    ASSUME Shape, NEW before \in 0..MaxFaults, NEW from, NEW to,
           NEW missed \in Unreadable(from, to, before)
    PROVE  before + Cardinality(missed) \in before..MaxFaults
BY StakingAssumption DEF Unreadable

LEMMA ExecuteKeeps ==
    ASSUME IInv, Execute
    PROVE  IInv'
<1> DEFINE h == Decided(chain)
<1>1. PICK missed \in Unreadable(SmallerOf(app.executed + 1, h), h, faults) :
          LET s == AppCommit(Now, h, missed)
          IN /\ app' = s.app /\ el' = s.el /\ boot' = s.boot
             /\ node' = stage_app_validator_updates(node, s)
             /\ faults' = faults + Cardinality(missed)
  BY DEF Execute
<1> DEFINE s == AppCommit(Now, h, missed)
<1>2. /\ phase = "execute" /\ phase' = "record"
      /\ UNCHANGED <<chain, height, peer, disk, tick, refused>>
  BY DEF Execute
<1>3. Now = Machine(app, el, boot)
  BY DEF Now, Machine
<1>4. h \in 1..Len(chain) /\ height \in Nat /\ height <= h - 1 /\ Len(chain) \in Nat
      /\ Bound = height /\ IsChain(chain)
  BY <1>2, PlaceIs DEF IInv, Bound, Place
<1>5. IsMachine(Now) /\ Ordered(Now, height)
  BY <1>3, <1>4 DEF IInv, Order
<1> HIDE DEF Now, h
<1>6. Ordered(Now, h - 1)
  BY <1>4, <1>5, OrderedUpTo
<1>7. IsMachine(s) /\ Ordered(s, h)
  BY <1>4, <1>5, <1>6, AppCommitKeeps
<1>8. /\ app' = s.app /\ el' = s.el /\ boot' = s.boot
      /\ node' = stage_app_validator_updates(node, s)
      /\ faults' = faults + Cardinality(missed)
  BY <1>1
<1> HIDE DEF s
<1>9. Place' /\ Bound' = h
  BY <1>2 DEF IInv, Place, Bound, Decided, h
<1>10. IsNode(node')
  BY <1>7, <1>8, StageKeeps DEF IInv, Shape, IsMachine
<1>11. faults' \in 0..MaxFaults
  <2>1. faults \in 0..MaxFaults
    BY DEF IInv, Shape
  <2>2. faults + Cardinality(missed) \in faults..MaxFaults
    BY <2>1, FaultsAdd DEF IInv
  <2> QED
    BY <1>8, <2>1, <2>2, StakingAssumption
<1>12. Shape'
  BY <1>2, <1>10, <1>11 DEF IInv, Shape
<1>13. Order'
  BY <1>7, <1>8, <1>9, MachineAgain DEF Order
<1> QED
  BY <1>9, <1>12, <1>13 DEF IInv

LEMMA RecordKeeps ==
    ASSUME IInv, Record
    PROVE  IInv'
<1> DEFINE h == Decided(chain)
           s == apply_commit(node, app, chain[h])
<1>1. /\ phase = "record" /\ phase' = "idle" /\ height' = h
      /\ node' = s.node /\ app' = s.app /\ peer' = Followed(peer, h)
      /\ disk' = [sets |-> s.node.sets, evidence |-> s.node.evidence, blocks |-> Stored(h)]
      /\ UNCHANGED <<chain, el, boot, tick, faults, refused>>
  BY DEF Record
<1>2. /\ h \in 1..Len(chain) /\ height \in Nat /\ Len(chain) \in Nat
      /\ Bound = h
  BY <1>1, PlaceIs DEF IInv, Bound
<1> HIDE DEF h
<1>3. /\ IsChain(chain) /\ IsCmds(chain[h].cmds)
      /\ chain[h].view \in Nat
  BY <1>2 DEF IInv, Place, IsChain, IsBlock
<1>4. IsMachine(Machine(app, el, boot)) /\ Ordered(Machine(app, el, boot), h)
  BY <1>2 DEF IInv, Order
<1>5. IsApp(app) /\ app.executed <= LastBlock
  BY <1>4, MachineIs DEF IsMachine
<1>6. Followers(node, app, chain[h], s)
  BY <1>3, <1>5, ApplyCommitIs DEF IInv, Shape
<1> HIDE DEF s
<1>7. IsNode(s.node) /\ IsApp(s.app) /\ SameApp(app, s.app) /\ IsSets(s.node.sets)
  BY <1>6 DEF Followers, IsNode
<1>8. IsNode(peer'.node) /\ IsApp(peer'.app) /\ DOMAIN peer' = {"node", "app"}
  BY <1>1, <1>2, <1>3, FollowedIs DEF IInv, Shape, Followers
<1>9. Place' /\ Bound' = h
  BY <1>1, <1>2 DEF IInv, Place, Bound
<1>10. disk'.sets = s.node.sets
  BY <1>1
<1>11. Shape'
  BY <1>1, <1>7, <1>8, <1>10 DEF IInv, Shape
<1>12. IsMachine(Machine(s.app, el, boot)) /\ Ordered(Machine(s.app, el, boot), h)
  <2>1. s.app.executed = app.executed
    BY <1>7 DEF SameApp
  <2>2. IsMachine(Machine(s.app, el, boot))
    BY <1>4, <1>5, <1>7, <2>1, MachineIs DEF IsMachine
  <2>3. Ordered(Machine(s.app, el, boot), h)
    BY <1>4, <2>1, MachineIs DEF Ordered
  <2> QED
    BY <2>2, <2>3
<1>13. Order'
  BY <1>1, <1>9, <1>12 DEF Order
<1> QED
  BY <1>9, <1>11, <1>13 DEF IInv

\* The application and the execution layer are caught up.
LEMMA CaughtUp ==
    ASSUME IInv, NEW s, IsMachine(s), Ordered(s, height), NEW gap \in Nat,
           NEW before \in 0..MaxFaults, CatchUp(s, gap, before)
    PROVE  /\ IsMachine(Machine(app', el', boot'))
           /\ Ordered(Machine(app', el', boot'), height)
           /\ faults' \in before..MaxFaults
<1>1. PICK missed \in Unreadable(el_frontier(s) + 1, height, before) :
          LET t == el_catchup_replay(s, height, gap, missed)
          IN /\ app' = t.app /\ el' = t.el /\ boot' = t.boot
             /\ faults' = before + Cardinality(missed)
  BY DEF CatchUp
<1> DEFINE t == el_catchup_replay(s, height, gap, missed)
<1>2. /\ app' = t.app /\ el' = t.el /\ boot' = t.boot
      /\ faults' = before + Cardinality(missed)
  BY <1>1
<1>3. IsChain(chain) /\ height \in 0..Len(chain)
  BY DEF IInv, Place
<1>4. IsMachine(t) /\ Ordered(t, height)
  BY <1>3, CatchUpKeeps
<1> HIDE DEF t
<1>5. faults' \in before..MaxFaults
  BY <1>2, FaultsAdd DEF IInv
<1> QED
  BY <1>2, <1>4, <1>5, MachineAgain

LEMMA TickKeeps ==
    ASSUME IInv, Tick
    PROVE  IInv'
<1>1. /\ phase = "idle" /\ CatchUp(Now, LiveGap, faults) /\ tick' = "armed"
      /\ UNCHANGED <<chain, height, phase, node, peer, disk, refused>>
  BY DEF Tick
<1>2. Now = Machine(app, el, boot)
  BY DEF Now, Machine
<1>3. Place /\ Bound = height /\ LiveGap \in Nat /\ faults \in 0..MaxFaults
  BY <1>1, StakingAssumption DEF IInv, Bound, Shape
<1>4. IsMachine(Now) /\ Ordered(Now, height)
  BY <1>2, <1>3 DEF IInv, Order
<1> HIDE DEF Now
<1>5. /\ IsMachine(Machine(app', el', boot'))
      /\ Ordered(Machine(app', el', boot'), height)
      /\ faults' \in faults..MaxFaults
  BY <1>1, <1>3, <1>4, CaughtUp
<1>6. Place' /\ Bound' = height
  BY <1>1 DEF IInv, Place, Bound, Decided
<1>7. faults' \in 0..MaxFaults
  BY <1>3, <1>5, StakingAssumption
<1>8. Shape'
  BY <1>1, <1>7 DEF IInv, Shape
<1>9. Order'
  BY <1>5, <1>6 DEF Order
<1> QED
  BY <1>6, <1>8, <1>9 DEF IInv

LEMMA RestartKeeps ==
    ASSUME IInv, Restart
    PROVE  IInv'
<1> DEFINE b == Booted(el.head)
           fresh == [Now EXCEPT !.app = NewApp(el.head), !.boot = b]
<1>1. /\ faults < MaxFaults /\ tick' = "armed"
      /\ node' = NewNode(disk.sets, disk.evidence)
      /\ phase' = (IF Commits(chain) THEN "execute" ELSE "idle")
      /\ CatchUp(fresh, 1, faults + 1)
      /\ UNCHANGED <<chain, height, peer, disk, refused>>
  BY DEF Restart
<1>2. /\ DOMAIN fresh = {"app", "el", "boot", "updates", "effects"}
      /\ fresh.app = NewApp(el.head) /\ fresh.el = el /\ fresh.boot = b
      /\ fresh.updates = <<>> /\ fresh.effects = <<>>
  <2> HIDE DEF b
  <2> QED
    BY DEF Now
<1> HIDE DEF fresh
<1>3. /\ DOMAIN b = {"frontier", "applied", "missed", "lost"} /\ b.frontier = el.head
      /\ b.applied = <<>> /\ b.missed = {} /\ b.lost = FALSE
  BY DEF Booted
<1> HIDE DEF b
<1>4. /\ DOMAIN el = {"up", "head", "target"}
      /\ el.head \in 0..LastBlock /\ el.target \in 0..LastBlock
  BY ElIs DEF IInv, Order
<1>5. el.head \in Nat /\ el.head <= LastBlock /\ LastBlock \in Nat
  BY <1>4, StakingAssumption
<1>6. IsApp(NewApp(el.head)) /\ NewApp(el.head).executed = el.head
  BY <1>5, NewAppIs
<1>7. IsBoot(b) /\ Nothing(b)
  BY <1>3, <1>5, SeqEmpty DEF IsBoot, Nothing
<1>8. Covers(b, el.head)
  BY <1>3, <1>5, <1>7, NothingCovers DEF CoverFrom
<1>9. IsMachine(fresh)
  BY <1>2, <1>4, <1>5, <1>6, <1>7, SeqEmpty, NoCmds DEF IsMachine
<1>10. Ordered(fresh, height)
  BY <1>2, <1>3, <1>5, <1>6, <1>7, <1>8 DEF Ordered
<1>11. faults \in 0..MaxFaults /\ faults + 1 \in 0..MaxFaults /\ 1 \in Nat
  BY <1>1, StakingAssumption DEF IInv, Shape
<1>12. /\ IsMachine(Machine(app', el', boot'))
       /\ Ordered(Machine(app', el', boot'), height)
       /\ faults' \in faults + 1..MaxFaults
  BY <1>1, <1>9, <1>10, <1>11, CaughtUp
<1>13. Place' /\ Bound' = height
  <2>1. phase' \in {"idle", "execute"} /\ (phase' # "idle" => Decided(chain) > height)
    BY <1>1 DEF Commits
  <2>2. height \in Nat /\ Decided(chain) \in Int
    BY PlaceIs DEF IInv, Decided
  <2>3. Decided(chain)' = Decided(chain) /\ height' = height
    BY <1>1 DEF Decided
  <2>4. phase' # "idle" => height' < Decided(chain)'
    BY <2>1, <2>2, <2>3
  <2> QED
    BY <1>1, <2>1, <2>4 DEF IInv, Place, Bound
<1>14. IsNode(node')
  BY <1>1, NewNodeIs DEF IInv, Shape
<1>15. faults' \in 0..MaxFaults
  BY <1>11, <1>12, StakingAssumption
<1>16. Shape'
  BY <1>1, <1>14, <1>15 DEF IInv, Shape
<1>17. Order'
  BY <1>12, <1>13 DEF Order
<1> QED
  BY <1>13, <1>16, <1>17 DEF IInv

LEMMA ElStopsKeeps ==
    ASSUME IInv, ElStops
    PROVE  IInv'
<1>1. PICK head \in {el.head} \cup {LargerOf(0, el.head - 1)} :
          /\ el' = [up |-> FALSE, head |-> head, target |-> 0]
          /\ boot' = [boot EXCEPT !.lost = @ \/ head < app.executed]
  BY DEF ElStops
<1>2. /\ faults < MaxFaults /\ faults' = faults + 1
      /\ UNCHANGED <<chain, height, phase, app, node, peer, disk, tick, refused>>
  BY DEF ElStops
<1>3. IsMachine(Machine(app, el, boot)) /\ Ordered(Machine(app, el, boot), Bound)
  BY DEF IInv, Order
<1>4. el.head \in 0..LastBlock /\ LastBlock \in Nat /\ app.executed \in Nat
  BY <1>3, MachineIs, StakingAssumption DEF IsMachine, IsApp
<1>5. head \in 0..LastBlock /\ 0 \in 0..LastBlock
  BY <1>1, <1>4 DEF LargerOf
<1>6. /\ DOMAIN el' = {"up", "head", "target"} /\ el'.up = FALSE /\ el'.head = head
      /\ el'.target = 0
  BY <1>1
<1>7. /\ DOMAIN boot' = DOMAIN boot /\ boot'.frontier = boot.frontier
      /\ boot'.applied = boot.applied /\ boot'.missed = boot.missed
      /\ boot'.lost = (boot.lost \/ head < app.executed)
  BY <1>1, <1>3, BootIs DEF IsBoot
<1>8. /\ IsBoot(boot') /\ (Nothing(boot') <=> Nothing(boot))
      /\ Covers(boot, app.executed) => Covers(boot', app.executed)
  BY <1>3, <1>7, BootIs DEF IsBoot, Nothing, Covers, Visited
<1>9. IsMachine(Machine(app, el', boot'))
  BY <1>3, <1>5, <1>6, <1>8, MachineIs DEF IsMachine
<1>10. Ordered(Machine(app, el', boot'), Bound)
  <2>1. ~boot'.lost => ~boot.lost /\ ~(head < app.executed)
    BY <1>7, Zenon
  <2>2. ~(head < app.executed) => app.executed <= head
    BY <1>4, <1>5
  <2> QED
    BY <1>3, <1>6, <1>7, <1>8, <2>1, <2>2, MachineIs DEF Ordered
<1>11. Place' /\ Bound' = Bound
  BY <1>2 DEF IInv, Place, Bound, Decided
<1>12. faults' \in 0..MaxFaults
  BY <1>2, StakingAssumption DEF IInv, Shape
<1>13. Shape'
  BY <1>2, <1>12 DEF IInv, Shape
<1>14. Order'
  BY <1>2, <1>9, <1>10, <1>11 DEF Order
<1> QED
  BY <1>11, <1>13, <1>14 DEF IInv

\* The execution layer starts, or has fetched the blocks up to its target.
LEMMA ElKeeps ==
    ASSUME IInv, ElStarts \/ ElSyncs
    PROVE  IInv'
<1>1. UNCHANGED <<chain, height, phase, app, node, peer, disk, boot, tick, faults, refused>>
  BY DEF ElStarts, ElSyncs
<1>2. IsMachine(Machine(app, el, boot)) /\ Ordered(Machine(app, el, boot), Bound)
  BY DEF IInv, Order
<1>3. /\ DOMAIN el = {"up", "head", "target"}
      /\ el.head \in 0..LastBlock /\ el.target \in 0..LastBlock
  BY <1>2, ElIs
<1>4. /\ DOMAIN el' = DOMAIN el /\ el'.target = el.target
      /\ el'.head \in 0..LastBlock /\ el'.head >= el.head
  <2>1. LastBlock \in Nat
    BY StakingAssumption
  <2>2. CASE ElStarts
    <3>1. el' = [el EXCEPT !.up = TRUE]
      BY <2>2 DEF ElStarts
    <3>2. DOMAIN el' = DOMAIN el /\ el'.head = el.head /\ el'.target = el.target
      BY <1>3, <3>1
    <3> QED
      BY <1>3, <2>1, <3>2
  <2>3. CASE ElSyncs
    <3>1. el' = [el EXCEPT !.head = el.target] /\ el.target > el.head
      BY <2>3 DEF ElSyncs
    <3>2. DOMAIN el' = DOMAIN el /\ el'.head = el.target /\ el'.target = el.target
      BY <1>3, <3>1
    <3> QED
      BY <1>3, <2>1, <3>1, <3>2
  <2> QED
    BY <2>2, <2>3
<1>5. IsMachine(Machine(app, el', boot))
  BY <1>2, <1>3, <1>4, MachineIs DEF IsMachine
<1>6. Ordered(Machine(app, el', boot), Bound)
  <2>1. app.executed \in Nat /\ LastBlock \in Nat
    BY <1>2, MachineIs, StakingAssumption DEF IsMachine, IsApp
  <2>2. app.executed <= el.head => app.executed <= el'.head
    BY <1>3, <1>4, <2>1
  <2> QED
    BY <1>2, <2>2, MachineIs DEF Ordered
<1>7. Place' /\ Bound' = Bound
  BY <1>1 DEF IInv, Place, Bound, Decided
<1>8. Shape'
  BY <1>1 DEF IInv, Shape
<1>9. Order'
  BY <1>1, <1>5, <1>6, <1>7 DEF Order
<1> QED
  BY <1>7, <1>8, <1>9 DEF IInv

LEMMA NextKeeps == IInv /\ [Next]_vars => IInv'
<1> SUFFICES ASSUME IInv, [Next]_vars
             PROVE  IInv'
  OBVIOUS
<1>1. ASSUME NEW parent \in Parents, NEW content \in Contents(parent),
             PeerProposes(parent, content)
      PROVE  IInv'
  BY <1>1, PeerKeeps
<1>2. ASSUME NEW parent \in Parents, NEW content \in Contents(parent),
             Propose(parent, content)
      PROVE  IInv'
  BY <1>2, ProposeKeeps
<1>3. ASSUME NEW proof \in Proofs, Detect(proof)
      PROVE  IInv'
  BY <1>3, DetectStep
<1>4. CASE Execute
  BY <1>4, ExecuteKeeps
<1>5. CASE Record
  BY <1>5, RecordKeeps
<1>6. CASE TimerFires
  <2>1. /\ tick' = "fired"
        /\ UNCHANGED <<chain, height, phase, app, node, peer, disk, el, boot, faults, refused>>
    BY <1>6 DEF TimerFires
  <2>2. Place' /\ Bound' = Bound
    BY <2>1 DEF IInv, Place, Bound, Decided
  <2>3. Shape' /\ Order'
    BY <2>1, <2>2 DEF IInv, Shape, Order
  <2> QED
    BY <2>2, <2>3 DEF IInv
<1>7. CASE Tick
  BY <1>7, TickKeeps
<1>8. CASE Restart
  BY <1>8, RestartKeeps
<1>9. CASE ElStops
  BY <1>9, ElStopsKeeps
<1>10. CASE ElStarts \/ ElSyncs
  BY <1>10, ElKeeps
<1>11. CASE UNCHANGED vars
  BY <1>11 DEF vars, IInv, Place, Shape, Order, Bound, Decided
<1> QED
  BY <1>1, <1>2, <1>3, <1>4, <1>5, <1>6, <1>7, <1>8, <1>9, <1>10, <1>11 DEF Next

-----------------------------------------------------------------------------
(***************************************************************************)
(* The theorems.                                                           *)
(***************************************************************************)
LEMMA TypesFollow == IInv => TypeOK
<1> SUFFICES ASSUME IInv
             PROVE  TypeOK
  OBVIOUS
<1>1. /\ height \in Nat /\ Len(chain) \in Nat /\ height <= Len(chain)
      /\ Len(chain) <= LastBlock /\ LastBlock \in Nat
  BY PlaceIs DEF IInv
<1>2. IsMachine(Machine(app, el, boot))
  BY DEF IInv, Order
<1>3. IsApp(app) /\ app.executed <= LastBlock /\ el.head \in 0..LastBlock
  BY <1>2, MachineIs DEF IsMachine
<1>4. app.executed \in 0..LastBlock
  BY <1>1, <1>3 DEF IsApp
<1>5. /\ \A id \in DOMAIN app.ledger.stake : app.ledger.stake[id] \in 1..U64Max
      /\ \A id \in DOMAIN app.ledger.unbonding : app.ledger.unbonding[id] # <<>>
  BY <1>3 DEF IsApp, IsLedger
<1>6. \A i \in DOMAIN node.sets : DOMAIN node.sets[i].val # {}
  BY DEF IInv, Shape, IsNode, IsSets
<1>7. height \in 0..LastBlock /\ phase \in {"idle", "execute", "record"}
  BY <1>1 DEF IInv, Place
<1>8. tick \in {"armed", "fired"} /\ faults \in 0..MaxFaults /\ refused \in BOOLEAN
  BY DEF IInv, Shape
<1> QED
  BY <1>1, <1>3, <1>4, <1>5, <1>6, <1>7, <1>8 DEF TypeOK

\* The variables have their types whatever the logs say, and whatever fails:
\* stakes saturate at u64 and never become zero, no validator keeps an empty
\* queue of releases, and no reconfiguration empties a validator set.
THEOREM TypeCorrect == Spec => []TypeOK
<1>1. Init => IInv
  BY InitKeeps
<1>2. IInv /\ [Next]_vars => IInv'
  BY NextKeeps
<1>3. IInv => TypeOK
  BY TypesFollow
<1> QED
  BY <1>1, <1>2, <1>3, PTL DEF Spec

\* Since the start of the node the application has taken the blocks in the
\* order of the chain, none twice and none left out, by commit,
\* el_catchup_replay and backfill_self_synced_gap together, for every length
\* of the chain and every number and order of faults, as long as the execution
\* layer has not lost executed blocks.  The logs of each were applied, or
\* get_logs_retry has given up on some of them: those are lost, as in the code.
THEOREM LogsAppliedInOrder == Spec => []AppliedInOrder
<1>1. Init => IInv
  BY InitKeeps
<1>2. IInv /\ [Next]_vars => IInv'
  BY NextKeeps
<1>3. IInv => AppliedInOrder
  <2> SUFFICES ASSUME IInv, ~boot.lost
               PROVE  Covers(boot, app.executed)
    BY DEF AppliedInOrder, Covers, Visited
  <2> QED
    BY MachineIs DEF IInv, Order, Ordered
<1> QED
  BY <1>1, <1>2, <1>3, PTL DEF Spec

\* The counts that LivenessTracker::observe keeps as it goes, adding the newest
\* observation and taking off the oldest, are those of a walk over its window,
\* whatever the members and the signers of the blocks are.
THEOREM TrackerCounts == Spec => []CountsMatchWindow
<1>1. Init => IInv
  BY InitKeeps
<1>2. IInv /\ [Next]_vars => IInv'
  BY NextKeeps
<1>3. IInv => CountsMatchWindow
  <2> SUFFICES ASSUME IInv
               PROVE  CountsMatchWindow
    OBVIOUS
  <2> DEFINE obs == node.tracker.obs
             counts == node.tracker.counts
  <2>1. Len(obs) <= Window /\ DOMAIN counts = UNION {obs[i].members : i \in DOMAIN obs}
    BY DEF IInv, Shape, IsNode, IsTracker, Counts
  <2>2. ASSUME NEW id \in DOMAIN counts
        PROVE  /\ counts[id].member = Cardinality({i \in DOMAIN obs : id \in obs[i].members})
               /\ counts[id].credited =
                      Cardinality({i \in DOMAIN obs : id \in obs[i].credited})
    <3>1. counts[id] = CountAt(obs, id)
      BY DEF IInv, Shape, IsNode, IsTracker, Counts
    <3> QED
      BY <3>1 DEF CountAt, MemberAt, CreditedAt
  <2> QED
    BY <2>1, <2>2 DEF CountsMatchWindow
<1> QED
  BY <1>1, <1>2, <1>3, PTL DEF Spec

\* One step of JailKeepsFloor
JailStep ==
    \A cmd \in ToSet(node'.pool) \ ToSet(node.pool) :
        Jails(cmd) =>
            Cardinality(DOMAIN set_at(node.sets, NextView) \ ToSet(cmd.removes))
                >= MIN_VALIDATOR_FLOOR

LEMMA JailStepHolds == IInv /\ [Next]_vars => JailStep
<1> SUFFICES ASSUME IInv, [Next]_vars
             PROVE  JailStep
  OBVIOUS
<1>1. IsNode(node) /\ NextView \in Nat
  BY NextViewIs DEF IInv, Shape, Place
<1>2. ASSUME ToSet(node'.pool) \subseteq ToSet(node.pool)
      PROVE  JailStep
  BY <1>2 DEF JailStep
<1>3. ASSUME NEW parent, NEW content, Propose(parent, content)
      PROVE  JailStep
  <2> DEFINE view == NextView
             m == Minted(node, view)
             current == set_at(node.sets, view)
  <2>1. node' = m
    BY <1>3 DEF Propose
  <2>2. \A c \in ToSet(m.pool) : \/ c \in ToSet(node.pool) \/ Mintable(node, view, c)
                                 \/ c \in ToSet(node.approved) \cup ToSet(node.effects)
    BY <1>1, MintedKeeps
  <2> HIDE DEF m, view
  <2>3. SUFFICES ASSUME NEW cmd, Mintable(node, view, cmd), Jails(cmd)
                 PROVE  Cardinality(DOMAIN current \ ToSet(cmd.removes)) >= MIN_VALIDATOR_FLOOR
    BY <2>1, <2>2 DEF JailStep, Jails, view
  <2>4. PICK v_eff : cmd = staged_updates_to_reconfig(MintUpdates(node, current), current, v_eff)
    BY <2>3 DEF Mintable
  <2>5. PICK id \in ToSet(cmd.removes) : \A j \in DOMAIN node.staged : node.staged[j].id # id
    BY <2>3 DEF Jails
  <2>6. IsSeq(node.staged) /\ IsFiniteSet(DOMAIN current)
    BY <1>1, SetAt DEF IsNode, view
  <2> HIDE DEF current
  <2> QED
    BY <2>4, <2>5, <2>6, JailFloor
<1>4. ASSUME NEW proof, Detect(proof)
      PROVE  JailStep
  <2>1. node' = record_equivocation_proof(node, proof)
    BY <1>4 DEF Detect
  <2>2. \A c \in ToSet(node'.pool) : c \in ToSet(node.pool) \/ c.kind = "evidence"
    BY <1>1, <2>1, DetectKeeps
  <2> QED
    BY <2>2 DEF JailStep, Jails
<1>5. CASE Execute
  <2>1. PICK s : node' = stage_app_validator_updates(node, s)
    BY <1>5 DEF Execute
  <2>2. node'.pool = node.pool
    BY <1>1, <2>1 DEF stage_app_validator_updates, IsNode
  <2> QED
    BY <1>2, <2>2
<1>6. CASE Record
  <2> DEFINE h == Decided(chain)
             s == apply_commit(node, app, chain[h])
  <2>1. node' = s.node /\ phase = "record"
    BY <1>6 DEF Record
  <2>2. h \in 1..Len(chain) /\ Len(chain) \in Nat
    BY <2>1, PlaceIs DEF IInv
  <2> HIDE DEF h
  <2>3. IsCmds(chain[h].cmds) /\ chain[h].view \in Nat
    BY <2>2 DEF IInv, Place, IsChain, IsBlock
  <2>4. IsApp(app)
    BY MachineIs DEF IInv, Order, IsMachine
  <2>5. Followers(node, app, chain[h], s)
    BY <1>1, <2>3, <2>4, ApplyCommitIs
  <2> QED
    BY <1>2, <2>1, <2>5 DEF Followers
<1>7. CASE Restart
  <2>1. node' = NewNode(disk.sets, disk.evidence)
    BY <1>7 DEF Restart
  <2>2. node'.pool = <<>>
    BY <2>1 DEF NewNode
  <2> QED
    BY <1>2, <2>2, SeqEmpty
<1>8. CASE UNCHANGED node
  BY <1>2, <1>8
<1> QED
  BY <1>3, <1>4, <1>5, <1>6, <1>7, <1>8
     DEF Next, PeerProposes, TimerFires, Tick, ElStops, ElStarts, ElSyncs, vars

\* A reconfiguration that mint_staged_reconfig makes in order to jail an
\* offender leaves the floor of validators in the set it is minted against,
\* whatever the application has staged for removal, and whatever the set is.
THEOREM JailLeavesTheFloor == Spec => JailKeepsFloor
<1>1. Init => IInv
  BY InitKeeps
<1>2. IInv /\ [Next]_vars => IInv'
  BY NextKeeps
<1>3. IInv /\ [Next]_vars => [JailStep]_vars
  BY JailStepHolds
<1>4. JailStep <=> \A cmd \in ToSet(node'.pool) \ ToSet(node.pool) :
                      Jails(cmd) =>
                          Cardinality(DOMAIN set_at(node.sets, NextView)
                                          \ ToSet(cmd.removes)) >= MIN_VALIDATOR_FLOOR
  BY DEF JailStep
<1> QED
  BY <1>1, <1>2, <1>3, <1>4, PTL DEF Spec, JailKeepsFloor

-----------------------------------------------------------------------------
(***************************************************************************)
(* The registry: a block overrides the weights that it carries.            *)
(***************************************************************************)
RegistryStep(r, block, v) == apply_registry_writes(r, block.registry)

RegistryLoop == INSTANCE LoopProofs WITH Step <- RegistryStep, Good <- SeqGood

\* The registry after the first n blocks of ch
RegistryAt(ch, n) == RegistryLoop!Pass(genesis_seed_storage, ch, 0, n)

IsRegistry(r) == DOMAIN r = {"weight", "settled"}

LEMMA WritesOverride ==
    ASSUME NEW r, IsRegistry(r), NEW block
    PROVE  /\ IsRegistry(RegistryStep(r, block, 0))
           /\ \A id : weightOf(RegistryStep(r, block, 0), id) =
                         (IF id \in DOMAIN block.registry.weights
                            THEN block.registry.weights[id]
                            ELSE weightOf(r, id))
<1> DEFINE w == block.registry.weights
           f == [id \in DOMAIN r.weight \cup DOMAIN w |->
                    IF id \in DOMAIN w THEN w[id] ELSE r.weight[id]]
           x == recordWeights(r, w)
           y == RegistryStep(r, block, 0)
<1>1. x = [r EXCEPT !.weight = f]
  BY DEF recordWeights
<1> HIDE DEF f
<1>2. DOMAIN x = {"weight", "settled"} /\ x.weight = f
  BY <1>1 DEF IsRegistry
<1>3. y = x \/ y = [x EXCEPT !.settled = block.registry.settled]
  BY DEF RegistryStep, apply_registry_writes, recordSettled
<1> HIDE DEF x, y
<1>4. DOMAIN y = {"weight", "settled"} /\ y.weight = f
  BY <1>2, <1>3
<1>5. ASSUME NEW id
      PROVE  weightOf(y, id) = (IF id \in DOMAIN w THEN w[id] ELSE weightOf(r, id))
  <2>1. /\ DOMAIN f = DOMAIN r.weight \cup DOMAIN w
        /\ id \in DOMAIN w => f[id] = w[id]
        /\ id \in DOMAIN r.weight \ DOMAIN w => f[id] = r.weight[id]
    BY DEF f
  <2> QED
    BY <1>4, <2>1 DEF weightOf
<1> QED
  BY <1>4, <1>5 DEF IsRegistry, y

LEMMA RegistryPrefix ==
    ASSUME NEW old, NEW new, NEW n \in Nat, \A j \in 1..n : new[j] = old[j]
    PROVE  RegistryAt(new, n) = RegistryAt(old, n) /\ IsRegistry(RegistryAt(old, n))
<1> DEFINE S == {k \in 0..n : RegistryAt(new, k) = RegistryAt(old, k)
                              /\ IsRegistry(RegistryAt(old, k))}
<1>1. 0 \in S
  <2>1. /\ RegistryAt(new, 0) = genesis_seed_storage
        /\ RegistryAt(old, 0) = genesis_seed_storage
    BY RegistryLoop!Recurrence DEF RegistryAt
  <2>2. IsRegistry(genesis_seed_storage)
    BY DEF genesis_seed_storage, IsRegistry
  <2> QED
    BY <2>1, <2>2
<1>2. ASSUME NEW k \in 0..n - 1, k \in S
      PROVE  k + 1 \in S
  <2>1. k \in Nat /\ k + 1 \in 1..n /\ k + 1 \in 0..n
    OBVIOUS
  <2>2. /\ RegistryAt(new, k + 1) = RegistryStep(RegistryAt(new, k), new[k + 1], 0)
        /\ RegistryAt(old, k + 1) = RegistryStep(RegistryAt(old, k), old[k + 1], 0)
    BY <2>1, RegistryLoop!Recurrence DEF RegistryAt
  <2>3. RegistryAt(new, k) = RegistryAt(old, k) /\ IsRegistry(RegistryAt(old, k))
    BY <1>2
  <2>4. IsRegistry(RegistryAt(old, k + 1))
    BY <2>2, <2>3, WritesOverride
  <2> QED
    BY <2>1, <2>2, <2>3, <2>4
<1> HIDE DEF S
<1>3. n \in S
  BY <1>1, <1>2, RegistryLoop!Induct
<1> QED
  BY <1>3 DEF S

LEMMA RegistryIs == Registry = RegistryAt(chain, Len(chain))
BY DEF Registry, Along, AlongTo, RegistryAt, RegistryLoop!Pass, RegistryLoop!AlongTo,
       RegistryStep

\* The registry when a block is appended, and what the last block wrote
LEMMA RegistryLast ==
    ASSUME NEW ch, NEW n \in Nat \ {0}, NEW id
    PROVE  weightOf(RegistryAt(ch, n), id) =
               (IF id \in DOMAIN ch[n].registry.weights
                  THEN ch[n].registry.weights[id]
                  ELSE weightOf(RegistryAt(ch, n - 1), id))
<1>1. n - 1 \in Nat /\ (n - 1) + 1 = n
  OBVIOUS
<1>2. RegistryAt(ch, (n - 1) + 1) = RegistryStep(RegistryAt(ch, n - 1), ch[(n - 1) + 1], 0)
  BY <1>1, RegistryLoop!Recurrence DEF RegistryAt
<1>3. RegistryAt(ch, n) = RegistryStep(RegistryAt(ch, n - 1), ch[n], 0)
  BY <1>1, <1>2
<1>4. IsRegistry(RegistryAt(ch, n - 1))
  BY <1>1, RegistryPrefix
<1> QED
  BY <1>3, <1>4, WritesOverride

-----------------------------------------------------------------------------
(***************************************************************************)
(* Without faults the node and its peers are the same, and between the     *)
(* ledger, pending_weights and the blocks on their way no change of stake  *)
(* is missing.                                                             *)
(***************************************************************************)
\* pending_weights has the current stakes, save those announced since
Carried(a) ==
    \A id \in DOMAIN a.weights \ Ids(a.ledger.pending) : a.weights[id] = stake_of(a.ledger, id)

Settled(a, r) ==
    \A id : id \notin DOMAIN a.weights \cup Ids(a.ledger.pending)
               => weightOf(r, id) = stake_of(a.ledger, id)

\* The registry has all that pending_weights has.
Written(a, r) == \A id \in DOMAIN a.weights : weightOf(r, id) = a.weights[id]

LEMMA ReconcileIs ==
    ASSUME NEW weights, NEW carried, NEW updates, IsSeq(updates)
    PROVE  \E w : /\ DOMAIN w \subseteq DOMAIN weights
                  /\ \A id \in DOMAIN w : w[id] = weights[id]
                  /\ IsUpdated(reconcile_pending_weights(weights, carried, updates), w, updates)
<1> DEFINE done == {id \in DOMAIN weights \cap DOMAIN carried : weights[id] = carried[id]}
           w == Without(weights, done)
<1>1. reconcile_pending_weights(weights, carried, updates) = Updated(w, updates)
  BY DEF reconcile_pending_weights, Updated
<1>2. DOMAIN w \subseteq DOMAIN weights /\ \A id \in DOMAIN w : w[id] = weights[id]
  BY DEF Without
<1> HIDE DEF w
<1>3. IsUpdated(Updated(w, updates), w, updates)
  BY UpdatedWeights
<1> QED
  BY <1>1, <1>2, <1>3

LEMMA CommitBalances ==
    ASSUME NEW a, IsApp(a), NEW c, NEW carried, NEW h, CommitIs(c, a, carried, h),
           NEW r, Carried(a), Settled(a, r), Written(a, r)
    PROVE  Carried(c.app) /\ Settled(c.app, r)
<1> DEFINE b == c.app
<1>1. PICK l : /\ IsLedger(l) /\ Tracks(a.ledger, l) /\ b.ledger = take_updates(l)
               /\ b.weights = reconcile_pending_weights(a.weights, carried, l.pending)
  BY DEF CommitIs
<1> DEFINE u == l.pending
           n == Len(u)
<1>2. IsSeq(u) /\ n \in Nat
  BY <1>1, SeqParts DEF IsLedger
<1>3. PICK w : /\ DOMAIN w \subseteq DOMAIN a.weights
               /\ \A id \in DOMAIN w : w[id] = a.weights[id]
               /\ IsUpdated(b.weights, w, u)
  BY <1>1, <1>2, ReconcileIs
<1>4. /\ b.ledger.pending = <<>> /\ \A id : stake_of(b.ledger, id) = stake_of(l, id)
  BY <1>1, TakenKeeps
<1>5. Ids(b.ledger.pending) = {}
  BY <1>4, SeqEmpty DEF Ids
<1>6. ASSUME NEW id, id \notin Ids(u)
      PROVE  id \notin Ids(a.ledger.pending) /\ stake_of(l, id) = stake_of(a.ledger, id)
  BY <1>1, <1>6 DEF Tracks
<1> HIDE DEF b
<1>7. ASSUME NEW id \in DOMAIN b.weights
      PROVE  b.weights[id] = stake_of(b.ledger, id)
  <2>1. CASE id \in Ids(u)
    <3>1. PICK k \in 1..n : u[k].id = id /\ LastAt(u, k)
      BY <1>2, <2>1, LastFor
    <3>2. b.weights[id] = u[k].weight
      BY <1>3, <3>1 DEF IsUpdated
    <3>3. u[k].weight = stake_of(l, id)
      BY <1>1, <3>1 DEF IsLedger, Announced, LastAt
    <3> QED
      BY <1>4, <3>2, <3>3
  <2>2. CASE id \notin Ids(u)
    <3>1. id \in DOMAIN w /\ b.weights[id] = w[id]
      BY <1>3, <2>2 DEF IsUpdated
    <3>2. id \in DOMAIN a.weights /\ w[id] = a.weights[id]
      BY <1>3, <3>1
    <3>3. a.weights[id] = stake_of(a.ledger, id)
      BY <1>6, <2>2, <3>2 DEF Carried
    <3> QED
      BY <1>4, <1>6, <2>2, <3>1, <3>2, <3>3
  <2> QED
    BY <2>1, <2>2
<1>8. ASSUME NEW id, id \notin DOMAIN b.weights
      PROVE  weightOf(r, id) = stake_of(b.ledger, id)
  <2>1. id \notin Ids(u)
    BY <1>3, <1>8 DEF IsUpdated
  <2>2. CASE id \in DOMAIN a.weights
    <3>1. weightOf(r, id) = a.weights[id]
      BY <2>2 DEF Written
    <3>2. a.weights[id] = stake_of(a.ledger, id)
      BY <1>6, <2>1, <2>2 DEF Carried
    <3> QED
      BY <1>4, <1>6, <2>1, <3>1, <3>2
  <2>3. CASE id \notin DOMAIN a.weights
    <3>1. weightOf(r, id) = stake_of(a.ledger, id)
      BY <1>6, <2>1, <2>3 DEF Settled
    <3> QED
      BY <1>4, <1>6, <2>1, <3>1
  <2> QED
    BY <2>2, <2>3
<1> QED
  BY <1>5, <1>7, <1>8 DEF Carried, Settled, b

\* Evidence announces what it takes.
LEMMA LawBalances ==
    ASSUME NEW a, NEW b, SameApp(a, b), Tracks(a.ledger, b.ledger), NEW r,
           Carried(a), Settled(a, r)
    PROVE  Carried(b) /\ Settled(b, r)
<1>1. ASSUME NEW id, id \notin Ids(b.ledger.pending)
      PROVE  /\ id \notin Ids(a.ledger.pending)
             /\ stake_of(b.ledger, id) = stake_of(a.ledger, id)
  BY <1>1 DEF Tracks
<1>2. b.weights = a.weights
  BY DEF SameApp
<1>3. ASSUME NEW id \in DOMAIN b.weights \ Ids(b.ledger.pending)
      PROVE  b.weights[id] = stake_of(b.ledger, id)
  BY <1>1, <1>2, <1>3 DEF Carried
<1>4. ASSUME NEW id, id \notin DOMAIN b.weights \cup Ids(b.ledger.pending)
      PROVE  weightOf(r, id) = stake_of(b.ledger, id)
  BY <1>1, <1>2, <1>4 DEF Settled
<1> QED
  BY <1>3, <1>4 DEF Carried, Settled

\* A block that carries the weights of the application settles no other.
LEMMA BlockBalances ==
    ASSUME NEW a, IsChain(chain), NEW block, block.registry.weights = a.weights,
           Settled(a, RegistryAt(chain, Len(chain)))
    PROVE  LET ch == Append(chain, block)
           IN Settled(a, RegistryAt(ch, Len(ch))) /\ Written(a, RegistryAt(ch, Len(ch)))
<1> DEFINE ch == Append(chain, block)
           n == Len(chain)
           r == RegistryAt(ch, n + 1)
<1>1. n \in Nat /\ IsSeq(chain)
  BY SeqParts DEF IsChain
<1>2. Len(ch) = n + 1 /\ (\A j \in 1..n : ch[j] = chain[j]) /\ ch[n + 1] = block
  BY <1>1, SeqAppend
<1> HIDE DEF ch
<1>3. RegistryAt(ch, n) = RegistryAt(chain, n)
  BY <1>1, <1>2, RegistryPrefix
<1>4. ASSUME NEW id
      PROVE  weightOf(r, id) = (IF id \in DOMAIN a.weights THEN a.weights[id]
                                ELSE weightOf(RegistryAt(chain, n), id))
  <2>1. n + 1 \in Nat \ {0} /\ (n + 1) - 1 = n
    BY <1>1
  <2>2. weightOf(r, id) = (IF id \in DOMAIN ch[n + 1].registry.weights
                             THEN ch[n + 1].registry.weights[id]
                             ELSE weightOf(RegistryAt(ch, (n + 1) - 1), id))
    BY <2>1, RegistryLast
  <2> QED
    BY <1>2, <1>3, <2>1, <2>2
<1> HIDE DEF r
<1>5. Settled(a, r)
  BY <1>4 DEF Settled
<1>6. Written(a, r)
  BY <1>4 DEF Written
<1> QED
  BY <1>2, <1>5, <1>6 DEF r, ch

Steady ==
    /\ el.up /\ ~boot.lost
    /\ node.sets = peer.node.sets /\ node.evidence = peer.node.evidence
    /\ phase # "record" => app = peer.app /\ app.executed = height
    /\ phase = "record" => app = Committed(peer.app, chain, Decided(chain), {}).app

Balanced ==
    /\ Carried(app) /\ Settled(app, RegistryAt(chain, Len(chain)))
    /\ phase = "execute" => Written(app, RegistryAt(chain, Len(chain)))

\* No view has failed: the next block is always the one to be committed.
Paced ==
    /\ \A j \in 1..Len(chain) : chain[j].view = j
    /\ phase = "idle" => Len(chain) <= height + 3
    /\ phase # "idle" => Len(chain) = height + 4

Calm == Steady /\ Balanced /\ Paced

WInv == IInv /\ (faults = 0 /\ ~Failed => Calm)

LEMMA InitBalances == Init => WInv
<1> SUFFICES ASSUME Init
             PROVE  Calm
  BY InitKeeps DEF WInv
<1>1. /\ Len(chain) = 0 /\ height = 0 /\ phase = "idle" /\ app = NewApp(0)
      /\ peer.node = node /\ peer.app = app
  BY SeqEmpty DEF Init
<1>2. el.up /\ ~boot.lost
  BY DEF Init, Booted
<1>3. app.executed = 0 /\ app.ledger = seeded_from(Genesis) /\ DOMAIN app.weights = {}
  BY <1>1, NewAppIs
<1>4. Steady
  BY <1>1, <1>2, <1>3 DEF Steady
<1>5. app.ledger.stake = Genesis
  BY <1>3 DEF seeded_from
<1>6. RegistryAt(chain, 0).weight = Genesis
  <2>1. RegistryAt(chain, 0) = genesis_seed_storage
    BY RegistryLoop!Recurrence DEF RegistryAt
  <2> QED
    BY <2>1 DEF genesis_seed_storage
<1>7. \A id : weightOf(RegistryAt(chain, 0), id) = stake_of(app.ledger, id)
  BY <1>5, <1>6 DEF weightOf, stake_of
<1>8. Balanced
  BY <1>1, <1>3, <1>7 DEF Balanced, Carried, Settled
<1>9. Paced
  BY <1>1 DEF Paced
<1> QED
  BY <1>4, <1>8, <1>9 DEF Calm

\* If no view has failed after the proposal then none had before, and the block
\* follows the last one.
LEMMA Unfailed ==
    ASSUME IInv, NEW parent \in Parents, NEW block, IsBlock(block, parent + 1),
           block.view = NextView, Arrives(SubSeq(chain, 1, parent), block), ~Failed'
    PROVE  ~Failed /\ parent = Len(chain)
<1> DEFINE base == SubSeq(chain, 1, parent)
<1>1. IsChain(chain) /\ height \in Nat /\ Len(chain) \in Nat
  BY PlaceIs DEF IInv, Place
<1>2. parent \in 0..Len(chain) /\ parent < LastBlock
  BY <1>1 DEF Parents
<1>3. IsChain(base) /\ Len(base) = parent
  BY <1>1, <1>2, PrefixChain
<1>4. chain' = Append(base, block)
  BY DEF Arrives
<1> HIDE DEF base
<1>5. chain' # <<>> /\ Len(chain') = parent + 1 /\ Last(chain') = block
  BY <1>3, <1>4, SeqAppend DEF IsChain
<1>6. NextView \in Nat /\ NextView >= Len(chain) + 1 /\ ~(NextView > parent + 1)
  BY <1>1, <1>5, NextViewIs DEF Failed
<1>7. parent = Len(chain) /\ NextView = Len(chain) + 1
  BY <1>1, <1>2, <1>6
<1>8. ~Failed
  <2>1. CASE chain = <<>>
    BY <2>1 DEF Failed
  <2>2. CASE chain # <<>>
    <3>1. Len(chain) # 0 /\ Last(chain) = chain[Len(chain)]
          /\ NextView = chain[Len(chain)].view + 1
      BY <1>1, <2>2, NextViewIs
    <3>2. chain[Len(chain)].view \in Nat
      BY <1>1, <3>1 DEF IsChain, IsBlock
    <3> QED
      BY <1>1, <1>7, <3>1, <3>2 DEF Failed
  <2> QED
    BY <2>1, <2>2
<1> QED
  BY <1>7, <1>8

\* A block of the node or of its peers, both with the same weights
LEMMA GrowBalances ==
    ASSUME IInv, ~Failed => Calm, ~Failed', NEW parent \in Parents, NEW block,
           IsBlock(block, parent + 1), block.view = NextView,
           ~Failed => block.registry.weights = app.weights,
           \/ Arrives(SubSeq(chain, 1, parent), block)
           \/ UNCHANGED <<chain, phase>>,
           UNCHANGED <<height, app, peer, boot>>, el'.up = el.up,
           node'.sets = node.sets, node'.evidence = node.evidence
    PROVE  Calm'
<1>1. phase = "idle" /\ phase' \in {"idle", "execute"}
  BY DEF Parents, Arrives
<1>2. CASE Arrives(SubSeq(chain, 1, parent), block)
  <2>1. ~Failed /\ parent = Len(chain)
    BY <1>2, Unfailed
  <2>2. Steady /\ Balanced /\ Paced /\ block.registry.weights = app.weights
    BY <2>1 DEF Calm
  <2>3. /\ IsChain(chain) /\ height \in Nat /\ Len(chain) \in Nat
        /\ Len(chain) < LastBlock
    BY <2>1, PlaceIs DEF IInv, Place, Parents
  <2>4. Arrives(chain, block) /\ IsBlock(block, Len(chain) + 1)
    BY <1>2, <2>1, <2>3, WholeChain
  <2>5. chain' = Append(chain, block)
        /\ phase' = (IF Commits(chain') THEN "execute" ELSE "idle")
    BY <2>4 DEF Arrives
  <2>6. /\ Len(chain') = Len(chain) + 1 /\ \A j \in 1..Len(chain) : chain'[j] = chain[j]
        /\ chain'[Len(chain) + 1] = block
    BY <2>3, <2>4, <2>5, ChainGrows
  <2>7. Steady'
    BY <1>1, <2>2 DEF Steady
  <2>8. Balanced'
    <3>1. /\ Settled(app, RegistryAt(Append(chain, block), Len(Append(chain, block))))
          /\ Written(app, RegistryAt(Append(chain, block), Len(Append(chain, block))))
      BY <2>2, <2>3, BlockBalances DEF Balanced
    <3> QED
      BY <2>2, <2>5, <3>1 DEF Balanced
  <2>9. \A j \in 1..Len(chain') : chain'[j].view = j
    <3>1. block.view = Len(chain) + 1
      <4>1. CASE Len(chain) = 0
        BY <2>3, <4>1, NextViewIs
      <4>2. CASE Len(chain) # 0
        <5>1. NextView = chain[Len(chain)].view + 1
          BY <2>3, <4>2, NextViewIs
        <5>2. Len(chain) \in 1..Len(chain)
          BY <2>3, <4>2
        <5> QED
          BY <2>2, <5>1, <5>2 DEF Paced
      <4> QED
        BY <4>1, <4>2
    <3>2. ASSUME NEW j \in 1..Len(chain) + 1
          PROVE  chain'[j].view = j
      <4>1. CASE j = Len(chain) + 1
        BY <2>6, <3>1, <4>1
      <4>2. CASE j # Len(chain) + 1
        <5>1. j \in 1..Len(chain)
          BY <2>3, <4>2
        <5> QED
          BY <2>2, <2>6, <5>1 DEF Paced
      <4> QED
        BY <4>1, <4>2
    <3> QED
      BY <2>6, <3>2
  <2>10. Commits(chain') <=> Len(chain) = height + 3
    <3> DEFINE n == Len(chain) - 2
    <3>1. Len(chain) <= height + 3
      BY <1>1, <2>2 DEF Paced
    <3>2. Decided(chain') = n /\ n \in Int
      BY <2>3, <2>6 DEF Decided
    <3>3. ASSUME n > 0
          PROVE  /\ n \in 1..Len(chain') /\ n + 1 \in 1..Len(chain')
                 /\ n + 2 \in 1..Len(chain')
      BY <2>3, <2>6, <3>3
    <3>4. ASSUME n > 0
          PROVE  /\ chain'[n].view = n /\ chain'[n + 1].view = n + 1
                 /\ chain'[n + 2].view = n + 2
      BY <2>9, <3>3, <3>4
    <3>5. three_chain_commit(chain') <=> n > 0
      BY <3>2, <3>4 DEF three_chain_commit
    <3>6. Commits(chain') <=> n > 0 /\ n > height
      BY <3>2, <3>5 DEF Commits
    <3> QED
      BY <2>3, <3>1, <3>6
  <2>11. Paced'
    <3>1. Len(chain) <= height + 3
      BY <1>1, <2>2 DEF Paced
    <3>2. /\ phase' = "idle" => Len(chain') <= height' + 3
          /\ phase' # "idle" => Len(chain') = height' + 4
      BY <2>3, <2>5, <2>6, <2>10, <3>1
    <3> QED
      BY <2>9, <3>2 DEF Paced
  <2> QED
    BY <2>7, <2>8, <2>11 DEF Calm
<1>3. CASE UNCHANGED <<chain, phase>>
  <2>1. ~Failed
    BY <1>3 DEF Failed
  <2>2. Steady /\ Balanced /\ Paced
    BY <2>1 DEF Calm
  <2>3. Steady'
    BY <1>1, <1>3, <2>2 DEF Steady
  <2>4. Balanced' /\ Paced'
    BY <1>3, <2>2 DEF Balanced, Paced
  <2> QED
    BY <2>3, <2>4 DEF Calm
<1> QED
  BY <1>2, <1>3

LEMMA PeerBalances ==
    ASSUME IInv, ~Failed => Calm, ~Failed', NEW parent \in Parents,
           NEW content \in Contents(parent), PeerProposes(parent, content)
    PROVE  Calm'
<1> DEFINE base == SubSeq(chain, 1, parent)
<1>1. PICK ps \in SUBSET Proofs :
          LET pool == Listed({Evidence(p) : p \in ps})
              minted == Minted([peer.node EXCEPT !.pool = pool], NextView)
              block == build_proposal(peer.app, minted, content, base)
          IN IF validate_proposal(base, Held(base), block)
               THEN Arrives(base, block) /\ UNCHANGED refused
               ELSE refused' = TRUE /\ UNCHANGED <<chain, phase>>
  BY DEF PeerProposes
<1> DEFINE n == [peer.node EXCEPT !.pool = Listed({Evidence(p) : p \in ps})]
           m == Minted(n, NextView)
           block == build_proposal(peer.app, m, content, base)
<1>2. /\ UNCHANGED <<height, app, node, peer, disk, el, boot, tick, faults>>
      /\ Arrives(base, block) \/ UNCHANGED <<chain, phase>>
  BY <1>1 DEF PeerProposes
<1>3. IsNode(n)
  BY PooledIs DEF IInv, Shape
<1> HIDE DEF n
<1>4. IsChain(chain) /\ NextView \in Nat /\ parent \in 0..Len(chain) /\ phase = "idle"
  <2>1. height \in Nat /\ Len(chain) \in Nat
    BY PlaceIs DEF IInv
  <2> QED
    BY <2>1, NextViewIs DEF IInv, Place, Parents
<1>5. IsNode(m)
  BY <1>3, <1>4, MintedKeeps
<1> HIDE DEF m
<1>6. /\ IsBlock(block, parent + 1) /\ block.view = NextView
      /\ block.registry.weights = peer.app.weights
  BY <1>4, <1>5, ProposalIs
<1> HIDE DEF block
<1>7. ~Failed => peer.app = app
  BY <1>4 DEF Calm, Steady
<1> QED
  BY <1>2, <1>6, <1>7, GrowBalances

LEMMA ProposeBalances ==
    ASSUME IInv, ~Failed => Calm, ~Failed', NEW parent \in Parents,
           NEW content \in Contents(parent), Propose(parent, content)
    PROVE  Calm'
<1> DEFINE base == SubSeq(chain, 1, parent)
           m == Minted(node, NextView)
           block == build_proposal(app, m, content, base)
<1>1. /\ node' = m /\ el' = build_block(el, parent)
      /\ UNCHANGED <<height, app, peer, disk, boot, tick, faults>>
      /\ Arrives(base, block) \/ UNCHANGED <<chain, phase>>
  BY DEF Propose
<1>2. IsChain(chain) /\ NextView \in Nat /\ parent \in 0..Len(chain)
  <2>1. height \in Nat /\ Len(chain) \in Nat
    BY PlaceIs DEF IInv
  <2> QED
    BY <2>1, NextViewIs DEF IInv, Place, Parents
<1>3. IsNode(m) /\ m.sets = node.sets /\ m.evidence = node.evidence
  BY <1>2, MintedKeeps DEF IInv, Shape, Keeps
<1> HIDE DEF m
<1>4. /\ IsBlock(block, parent + 1) /\ block.view = NextView
      /\ block.registry.weights = app.weights
  BY <1>2, <1>3, ProposalIs
<1> HIDE DEF block
<1>5. el'.up = el.up
  BY <1>1, ElIs DEF build_block, IInv, Order
<1> QED
  BY <1>1, <1>3, <1>4, <1>5, GrowBalances

LEMMA NoneMissed ==
    ASSUME NEW from \in Int, NEW to \in Int, NEW before,
           NEW missed \in Unreadable(from, to, before), Cardinality(missed) = 0
    PROVE  missed = {}
<1> DEFINE reads == (from..to) \X LogKinds
<1>1. IsFiniteSet(LogKinds)
  <2>1. LogKinds = ({"ops"} \cup {"slashed"}) \cup {"approved"}
    BY DEF LogKinds
  <2>2. IsFiniteSet({"ops"}) /\ IsFiniteSet({"slashed"}) /\ IsFiniteSet({"approved"})
    BY FS_Singleton
  <2>3. IsFiniteSet({"ops"} \cup {"slashed"})
    BY <2>2, FS_Union
  <2> QED
    BY <2>1, <2>2, <2>3, FS_Union
<1>2. IsFiniteSet(from..to)
  BY FS_Interval
<1>3. IsFiniteSet(reads)
  BY <1>1, <1>2, FS_Product
<1>4. missed \subseteq reads
  BY DEF Unreadable
<1>5. IsFiniteSet(missed)
  BY <1>3, <1>4, FS_Subset
<1> QED
  BY <1>5, FS_EmptySet

LEMMA ExecuteBalances ==
    ASSUME IInv, Calm, Execute, faults = 0, faults' = 0
    PROVE  Calm'
<1> DEFINE h == Decided(chain)
<1>1. PICK missed \in Unreadable(SmallerOf(app.executed + 1, h), h, faults) :
          LET s == AppCommit(Now, h, missed)
          IN /\ app' = s.app /\ el' = s.el /\ boot' = s.boot
             /\ node' = stage_app_validator_updates(node, s)
             /\ faults' = faults + Cardinality(missed)
  BY DEF Execute
<1> DEFINE c == Committed(app, chain, h, {})
           s == AppCommit(Now, h, {})
<1>2. /\ phase = "execute" /\ phase' = "record"
      /\ UNCHANGED <<chain, height, peer, disk, tick, refused>>
  BY DEF Execute
<1>3. Steady /\ Balanced /\ Paced
  BY DEF Calm
<1>4. /\ h \in 1..Len(chain) /\ height \in Nat /\ Len(chain) \in Nat /\ h = height + 1
      /\ IsChain(chain)
  <2>1. /\ h \in 1..Len(chain) /\ height \in Nat /\ Len(chain) \in Nat /\ IsChain(chain)
    BY <1>2, PlaceIs DEF IInv, Place
  <2>2. Len(chain) = height + 4
    BY <1>2, <1>3 DEF Paced
  <2> QED
    BY <2>1, <2>2 DEF Decided
<1> HIDE DEF h
<1>5. IsApp(app) /\ el.head \in Int /\ app.executed \in Nat /\ IsMachine(Machine(app, el, boot))
  <2>1. IsMachine(Machine(app, el, boot))
    BY DEF IInv, Order
  <2> QED
    BY <2>1, MachineIs, StakingAssumption DEF IsMachine, IsApp
<1>6. missed = {}
  <2>1. SmallerOf(app.executed + 1, h) \in Int /\ h \in Int
    BY <1>4, <1>5 DEF SmallerOf
  <2>2. Cardinality(missed) = 0
    <3>1. Cardinality(missed) \in 0..MaxFaults - faults
      BY DEF Unreadable
    <3>2. 0 = faults + Cardinality(missed)
      BY <1>1
    <3> QED
      BY <3>1, <3>2, StakingAssumption
  <2> QED
    BY <2>1, <2>2, NoneMissed
<1>7. /\ app' = s.app /\ el' = s.el /\ boot' = s.boot
      /\ node' = stage_app_validator_updates(node, s)
  BY <1>1, <1>6
<1>8. Now.app = app /\ Now.el = el /\ Now.boot = boot /\ Now = Machine(app, el, boot)
  BY DEF Now, Machine
<1>9. el.head >= height
  <2>1. app.executed <= el.head
    BY <1>3, MachineIs DEF IInv, Order, Ordered, Steady
  <2> QED
    BY <1>2, <1>3, <1>4, <1>5, <2>1 DEF Steady
<1>10. Answer(Now.el, h) = "valid"
  BY <1>3, <1>4, <1>5, <1>8, <1>9 DEF Answer, Steady
<1>11. s.app = c.app
  BY <1>8, <1>10 DEF AppCommit
<1>12. s.el.up = el.up /\ s.boot.lost = boot.lost
  BY <1>4, <1>5, <1>8, AppCommitKeeps
<1> HIDE DEF Now, c, s
<1>13. node'.sets = node.sets /\ node'.evidence = node.evidence
  BY <1>7 DEF stage_app_validator_updates, IInv, Shape, IsNode
<1>14. app = peer.app
  BY <1>2, <1>3 DEF Steady
<1>15. Steady'
  <2>1. Decided(chain)' = h /\ app' = c.app /\ c = Committed(peer.app, chain, h, {})
    BY <1>2, <1>7, <1>11, <1>14 DEF Decided, h, c
  <2> QED
    BY <1>2, <1>3, <1>7, <1>12, <1>13, <2>1 DEF Steady
<1>16. CommitIs(c, app, chain[h].registry.weights, h)
  <2>1. \A j \in 1..Len(chain) : WellLogs(chain[j])
    BY <1>4 DEF IsChain, IsBlock
  <2> QED
    BY <1>4, <1>5, <2>1, CommitOf DEF c
<1>17. Carried(c.app) /\ Settled(c.app, RegistryAt(chain, Len(chain)))
  BY <1>2, <1>3, <1>5, <1>16, CommitBalances DEF Balanced
<1>18. Balanced'
  BY <1>2, <1>7, <1>11, <1>17 DEF Balanced
<1>19. Paced'
  BY <1>2, <1>3 DEF Paced
<1> QED
  BY <1>15, <1>18, <1>19 DEF Calm

LEMMA RecordBalances ==
    ASSUME IInv, Calm, Record
    PROVE  Calm'
<1> DEFINE h == Decided(chain)
           block == chain[h]
           s == apply_commit(node, app, block)
           c == Committed(peer.app, chain, h, {})
           n == stage_app_validator_updates(peer.node, c)
           p == Followed(peer, h)
<1>1. /\ phase = "record" /\ phase' = "idle" /\ height' = h
      /\ node' = s.node /\ app' = s.app /\ peer' = p
      /\ UNCHANGED <<chain, el, boot, tick, faults, refused>>
  BY DEF Record
<1>2. Steady /\ Balanced /\ Paced
  BY DEF Calm
<1>3. h \in 1..Len(chain) /\ height \in Nat /\ Len(chain) \in Nat /\ Len(chain) = h + 3
  BY <1>1, PlaceIs DEF IInv, Decided
<1>4. IsChain(chain) /\ IsCmds(block.cmds) /\ block.view \in Nat
  BY <1>3 DEF IInv, Place, IsChain, IsBlock
<1>5. IsApp(app)
  BY MachineIs DEF IInv, Order, IsMachine
<1>6. Followers(node, app, block, s)
  BY <1>4, <1>5, ApplyCommitIs DEF IInv, Shape
<1>7. /\ CommitIs(c, peer.app, block.registry.weights, h) /\ Keeps(peer.node, n)
      /\ Followers(n, c.app, block, p)
  BY <1>3, <1>4, FollowedIs DEF IInv, Shape
<1>8. app = c.app /\ node.sets = peer.node.sets /\ node.evidence = peer.node.evidence
      /\ el.up /\ ~boot.lost
  BY <1>1, <1>2 DEF Steady
<1> HIDE DEF s, c, n, p, block, h
<1>9. n.sets = node.sets /\ n.evidence = node.evidence
  BY <1>7, <1>8 DEF Keeps
<1>10. /\ SetsAfter(n, block) = SetsAfter(node, block)
      /\ LawAfter(n, c.app, block) = LawAfter(node, app, block)
  BY <1>8, <1>9 DEF SetsAfter, LawAfter, Before
<1>11. p.node.sets = s.node.sets /\ p.node.evidence = s.node.evidence
  BY <1>6, <1>7, <1>10 DEF Followers
<1>12. /\ p.app.executed = s.app.executed /\ p.app.ledger = s.app.ledger
       /\ p.app.weights = s.app.weights /\ p.app.ring = s.app.ring
  BY <1>6, <1>7, <1>8, <1>10 DEF Followers, SameApp
<1>13. p.app = s.app
  BY <1>6, <1>7, <1>12 DEF Followers, IsApp
<1>14. s.app.executed = h
  BY <1>6, <1>7, <1>8 DEF Followers, SameApp, CommitIs
<1>15. Steady'
  BY <1>1, <1>8, <1>11, <1>13, <1>14 DEF Steady
<1>16. Carried(s.app) /\ Settled(s.app, RegistryAt(chain, Len(chain)))
  BY <1>2, <1>6, LawBalances DEF Followers, Balanced
<1>17. Balanced'
  BY <1>1, <1>16 DEF Balanced
<1>18. Paced'
  BY <1>1, <1>2, <1>3 DEF Paced
<1> QED
  BY <1>15, <1>17, <1>18 DEF Calm

LEMMA TickBalances ==
    ASSUME IInv, Calm, Tick
    PROVE  Calm'
<1>1. /\ phase = "idle" /\ CatchUp(Now, LiveGap, faults)
      /\ UNCHANGED <<chain, height, phase, node, peer, disk, refused>>
  BY DEF Tick
<1>2. PICK missed :
          LET t == el_catchup_replay(Now, height, LiveGap, missed)
          IN app' = t.app /\ el' = t.el /\ boot' = t.boot
  BY <1>1 DEF CatchUp
<1> DEFINE t == el_catchup_replay(Now, height, LiveGap, missed)
<1>3. Now.app = app /\ Now.el = el /\ Now.boot = boot
  BY DEF Now
<1>4. height \in Nat /\ app.executed = height /\ Steady /\ Balanced /\ Paced
  BY <1>1, PlaceIs DEF IInv, Calm, Steady
<1>5. app.executed <= el.head /\ el.head \in Int
  <2>1. IsMachine(Machine(app, el, boot)) /\ Ordered(Machine(app, el, boot), Bound)
    BY DEF IInv, Order
  <2>2. el.head \in 0..LastBlock
    BY <2>1, ElIs
  <2>3. app.executed <= el.head
    BY <1>4, <2>1, MachineIs DEF Ordered, Steady
  <2> QED
    BY <2>2, <2>3, StakingAssumption
<1>6. el_frontier(Now) = height
  BY <1>3, <1>4, <1>5 DEF el_frontier
<1>7. t = Now
  BY <1>4, <1>6, StakingAssumption DEF el_catchup_replay, LargerOf
<1>8. app' = t.app /\ el' = t.el /\ boot' = t.boot
  BY <1>2
<1> HIDE DEF t, Now
<1>9. UNCHANGED <<app, el, boot>>
  BY <1>3, <1>7, <1>8
<1> QED
  BY <1>1, <1>4, <1>9 DEF Calm, Steady, Balanced, Paced, Decided

LEMMA NextBalances == WInv /\ [Next]_vars => WInv'
<1> SUFFICES ASSUME WInv, [Next]_vars, faults' = 0, ~Failed'
             PROVE  Calm'
  BY NextKeeps DEF WInv
<1>1. IInv /\ faults \in Nat
  BY StakingAssumption DEF WInv, IInv, Shape
<1>2. ASSUME faults = 0, ~Failed
      PROVE  Calm
  BY <1>2 DEF WInv
<1>3. ASSUME UNCHANGED chain
      PROVE  ~Failed
  BY <1>3 DEF Failed
<1>4. ASSUME NEW parent \in Parents, NEW content \in Contents(parent),
             PeerProposes(parent, content)
      PROVE  Calm'
  <2>1. faults = 0
    BY <1>4 DEF PeerProposes
  <2> QED
    BY <1>1, <1>2, <1>4, <2>1, PeerBalances
<1>5. ASSUME NEW parent \in Parents, NEW content \in Contents(parent),
             Propose(parent, content)
      PROVE  Calm'
  <2>1. faults = 0
    BY <1>5 DEF Propose
  <2> QED
    BY <1>1, <1>2, <1>5, <2>1, ProposeBalances
<1>6. ASSUME NEW proof, Detect(proof)
      PROVE  Calm'
  <2>1. /\ node' = record_equivocation_proof(node, proof)
        /\ UNCHANGED <<chain, height, phase, app, peer, disk, el, boot, tick, faults, refused>>
    BY <1>6 DEF Detect
  <2>2. node'.sets = node.sets /\ node'.evidence = node.evidence
    BY <1>1, <2>1, DetectKeeps DEF IInv, Shape, Keeps
  <2>3. Steady /\ Balanced /\ Paced
    BY <1>2, <1>3, <2>1 DEF Calm
  <2> QED
    BY <2>1, <2>2, <2>3 DEF Calm, Steady, Balanced, Paced, Decided
<1>7. CASE Execute
  <2>1. PICK missed \in Unreadable(SmallerOf(app.executed + 1, Decided(chain)),
                                   Decided(chain), faults) :
            faults' = faults + Cardinality(missed)
    BY <1>7 DEF Execute
  <2>2. Cardinality(missed) \in 0..MaxFaults - faults
    BY DEF Unreadable
  <2>3. faults = 0
    BY <1>1, <2>1, <2>2, StakingAssumption
  <2>4. UNCHANGED chain
    BY <1>7 DEF Execute
  <2> QED
    BY <1>1, <1>2, <1>3, <1>7, <2>3, <2>4, ExecuteBalances
<1>8. CASE Record
  <2>1. UNCHANGED <<chain, faults>>
    BY <1>8 DEF Record
  <2> QED
    BY <1>1, <1>2, <1>3, <1>8, <2>1, RecordBalances
<1>9. ASSUME NEW s, NEW gap, NEW before \in Nat, CatchUp(s, gap, before)
      PROVE  before = 0
  <2>1. PICK missed \in Unreadable(el_frontier(s) + 1, height, before) :
            faults' = before + Cardinality(missed)
    BY <1>9 DEF CatchUp
  <2>2. Cardinality(missed) \in 0..MaxFaults - before
    BY DEF Unreadable
  <2> QED
    BY <1>9, <2>1, <2>2, StakingAssumption
<1>10. CASE Tick
  <2>1. UNCHANGED chain /\ CatchUp(Now, LiveGap, faults)
    BY <1>10 DEF Tick
  <2>2. faults = 0
    BY <1>1, <1>9, <2>1
  <2> QED
    BY <1>1, <1>2, <1>3, <1>10, <2>1, <2>2, TickBalances
<1>11. CASE Restart
  <2>1. PICK s : CatchUp(s, 1, faults + 1)
    BY <1>11 DEF Restart
  <2>2. faults + 1 \in Nat
    BY <1>1
  <2>3. faults + 1 = 0
    BY <1>9, <2>1, <2>2
  <2> QED
    BY <1>1, <2>3
<1>12. CASE ElStops
  <2>1. faults' = faults + 1
    BY <1>12 DEF ElStops
  <2> QED
    BY <1>1, <2>1
<1>13. CASE TimerFires \/ UNCHANGED vars
  <2>1. UNCHANGED <<chain, height, phase, app, node, peer, disk, el, boot, faults, refused>>
    BY <1>13 DEF TimerFires, vars
  <2>2. Steady /\ Balanced /\ Paced
    BY <1>2, <1>3, <2>1 DEF Calm
  <2> QED
    BY <2>1, <2>2 DEF Calm, Steady, Balanced, Paced, Decided
<1>14. CASE ElStarts \/ ElSyncs
  <2>1. /\ UNCHANGED <<chain, height, phase, app, node, peer, disk, boot, tick, faults, refused>>
        /\ ElStarts => ~el.up
        /\ ElSyncs => el' = [el EXCEPT !.head = el.target]
    BY <1>14 DEF ElStarts, ElSyncs
  <2>2. Steady /\ Balanced /\ Paced
    BY <1>2, <1>3, <2>1 DEF Calm
  <2>3. el.up /\ el' = [el EXCEPT !.head = el.target]
    BY <1>14, <2>1, <2>2 DEF Steady
  <2>4. DOMAIN el = {"up", "head", "target"}
    BY <1>1, ElIs DEF IInv, Order
  <2>5. el'.up = el.up
    BY <2>3, <2>4
  <2> QED
    BY <2>1, <2>2, <2>5 DEF Calm, Steady, Balanced, Paced, Decided
<1> QED
  BY <1>4, <1>5, <1>6, <1>7, <1>8, <1>10, <1>11, <1>12, <1>13, <1>14 DEF Next

\* As long as nothing fails and every view has its quorum, a change of stake
\* that the ledger has seen is in pending_weights, announced, or in the
\* registry that the blocks of the chain lead to: registry_payload_for_build,
\* reconcile_pending_weights and slash between them lose none, for every
\* history of stake operations, slashes and evidence, also when a weight
\* changes while older values of it are in blocks that are not committed yet.
\* Both premises are needed: a block that is given up takes a weight with it
\* (Abandoned.cfg), and so does a log that could not be read.
THEOREM WeightsNeverForgotten == Spec => []NoWeightForgotten
<1>1. Init => WInv
  BY InitBalances
<1>2. WInv /\ [Next]_vars => WInv'
  BY NextBalances
<1>3. WInv => NoWeightForgotten
  <2> SUFFICES ASSUME WInv, faults = 0, ~Failed
               PROVE  \A id : stake_of(app.ledger, id) # weightOf(Registry, id) =>
                          id \in DOMAIN app.weights \/ id \in Ids(app.ledger.pending)
    BY DEF NoWeightForgotten, Remembers
  <2>1. Settled(app, Registry)
    BY RegistryIs DEF WInv, Calm, Balanced
  <2> QED
    BY <2>1 DEF Settled
<1> QED
  BY <1>1, <1>2, <1>3, PTL DEF Spec
==============================================================================
