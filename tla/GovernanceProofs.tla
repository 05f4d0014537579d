--------------------------- MODULE GovernanceProofs --------------------------
(***************************************************************************)
(* Proofs about Governance.                                                *)
(***************************************************************************)
EXTENDS Governance, FiniteSetTheorems, SequenceTheorems, TLAPS

-----------------------------------------------------------------------------
(***************************************************************************)
(* Sequences of anything.                                                  *)
(***************************************************************************)
IsSeq(s) == s \in Seq(ToSet(s))

LEMMA SeqIs ==
    ASSUME NEW S, NEW s \in Seq(S)
    PROVE  IsSeq(s)
BY DEF IsSeq, ToSet

LEMMA SeqParts ==
    ASSUME NEW s, IsSeq(s)
    PROVE  /\ Len(s) \in Nat /\ DOMAIN s = 1..Len(s)
           /\ s # <<>> => Len(s) >= 1 /\ Last(s) = s[Len(s)]
BY DEF IsSeq, Last

LEMMA SeqAppend ==
    ASSUME NEW s, IsSeq(s), NEW e
    PROVE  /\ IsSeq(Append(s, e))
           /\ Append(s, e) # <<>>
           /\ Len(Append(s, e)) = Len(s) + 1
           /\ DOMAIN Append(s, e) = 1..Len(s) + 1
           /\ \A i \in 1..Len(s) : Append(s, e)[i] = s[i]
           /\ Append(s, e)[Len(s) + 1] = e
           /\ Last(Append(s, e)) = e
           /\ Front(Append(s, e)) = s
<1> DEFINE S == ToSet(s) \cup {e}
<1>1. s \in Seq(S) /\ e \in S
  BY DEF IsSeq, ToSet
<1>2. Len(s) \in Nat /\ DOMAIN s = 1..Len(s)
  BY SeqParts
<1> HIDE DEF S
<1>3. Append(s, e) \in Seq(S)
  BY <1>1
<1>4. /\ Len(Append(s, e)) = Len(s) + 1
      /\ \A i \in 1..Len(s) : Append(s, e)[i] = s[i]
      /\ Append(s, e)[Len(s) + 1] = e
  BY <1>1
<1>5. IsSeq(Append(s, e))
  BY <1>3, SeqIs
<1>6. DOMAIN Append(s, e) = 1..Len(s) + 1
  BY <1>4, <1>5, SeqParts
<1>7. Last(Append(s, e)) = e
  BY <1>4 DEF Last
<1>8. Front(Append(s, e)) = s
  <2>1. Front(Append(s, e)) = SubSeq(Append(s, e), 1, Len(s))
    BY <1>2, <1>4 DEF Front
  <2> DEFINE t == SubSeq(Append(s, e), 1, Len(s))
  <2>2. t \in Seq(S) /\ Len(t) = Len(s) /\ \A i \in 1..Len(s) : t[i] = Append(s, e)[i]
    BY <1>2, <1>3, <1>4
  <2> HIDE DEF t
  <2>3. t = s
    BY <1>1, <1>4, <2>2, SeqEqual
  <2> QED
    BY <2>1, <2>3 DEF t
<1>9. Append(s, e) # <<>>
  BY <1>2, <1>4
<1> QED
  BY <1>4, <1>5, <1>6, <1>7, <1>8, <1>9

-----------------------------------------------------------------------------
(***************************************************************************)
(* The validator sets.                                                     *)
(***************************************************************************)
Weights(set) == \A id \in DOMAIN set : set[id] \in Nat \ {0}

WellSets(s) ==
    /\ IsSeq(s) /\ s # <<>> /\ s[1] = Entry(0, Genesis)
    /\ \A i \in DOMAIN s : s[i].from \in Nat /\ Weights(s[i].val)
    /\ \A i \in DOMAIN s : i > 1 => s[i - 1].from < s[i].from

LEMMA GenesisWell == WellSets(from_genesis(Genesis))
<1> DEFINE e == Entry(0, Genesis)
<1>1. e.from = 0 /\ e.val = Genesis
  BY DEF Entry
<1> HIDE DEF e
<1>2. <<e>> \in Seq({e}) /\ <<e>>[1] = e /\ Len(<<e>>) = 1 /\ <<e>> # <<>>
  OBVIOUS
<1>3. IsSeq(<<e>>)
  BY <1>2, SeqIs
<1>4. DOMAIN <<e>> = {1}
  OBVIOUS
<1>5. Weights(Genesis)
  BY GovernanceAssumption DEF Weights
<1> QED
  BY <1>1, <1>2, <1>3, <1>4, <1>5 DEF WellSets, from_genesis, e

\* There is a set for every view.
LEMMA SetAt ==
    ASSUME NEW s, WellSets(s), NEW view \in Nat
    PROVE  Started(s, view) \in DOMAIN s /\ Weights(set_at(s, view))
<1> DEFINE I == {i \in DOMAIN s : s[i].from <= view}
           n == Len(s)
<1>1. n \in Nat /\ n >= 1 /\ DOMAIN s = 1..n
  BY SeqParts DEF WellSets
<1>2. 1 \in I
  BY <1>1 DEF WellSets, Entry
<1>3. IsFiniteSet(1..n) /\ Cardinality(1..n) = n
  BY <1>1, FS_Interval
<1>4. I \subseteq 1..n
  BY <1>1
<1>5. IsFiniteSet(I) /\ Cardinality(I) <= n
  BY <1>3, <1>4, FS_Subset
<1>6. Cardinality(I) \in Nat /\ Cardinality(I) # 0
  BY <1>2, <1>5, FS_CardinalityType, FS_EmptySet
<1>7. Started(s, view) = Cardinality(I)
  BY DEF Started
<1> HIDE DEF I
<1>8. Started(s, view) \in DOMAIN s
  BY <1>1, <1>5, <1>6, <1>7
<1> QED
  BY <1>8 DEF WellSets, set_at, At

\* A boundary ahead of the view is pending; the last one is the highest.
LEMMA LastIsHighest ==
    ASSUME NEW s, WellSets(s), NEW view \in Nat
    PROVE  /\ Last(s).from \in Nat
           /\ ~pending(s, view) => Last(s).from <= view
           /\ Last(s).from > view => pending(s, view)
<1>1. Len(s) \in Nat /\ Len(s) \in DOMAIN s /\ Last(s) = s[Len(s)]
  BY SeqParts DEF WellSets
<1>2. Last(s).from \in Nat
  BY <1>1 DEF WellSets
<1> QED
  BY <1>1, <1>2 DEF pending

\* What a reconfiguration does to the sets, in both versions
SetsStep(s, cmd, view) ==
    IF /\ cmd.kind = "reconfig"
       /\ validate_against(cmd, set_at(s, view), view)
       /\ ~pending(s, view)
      THEN insert_boundary(s, cmd.v_eff, NextSet(cmd, set_at(s, view)))
      ELSE s

BlockSets(s, block) ==
    Along(LAMBDA t, cmd : SetsStep(t, cmd, block.view), s, block.cmds)

\* One more set, as the schedule asks for
Scheduled(s, t, view) ==
    /\ Last(s).from <= view
    /\ Front(t) = s
    /\ Last(t).from >= view + MIN_V_EFF_DELAY
    /\ Cardinality(DOMAIN Last(t).val) >= MIN_VALIDATOR_FLOOR

LEMMA WeightsNext ==
    ASSUME NEW cmd, cmd.kind = "reconfig", WellFormed(cmd), NEW set, Weights(set),
           NEW view, validate_against(cmd, set, view)
    PROVE  /\ Weights(NextSet(cmd, set))
           /\ Cardinality(DOMAIN NextSet(cmd, set)) >= MIN_VALIDATOR_FLOOR
<1>1. ASSUME NEW id \in Ids(cmd.adds)
      PROVE  WeightIn(cmd.adds, id) \in Nat \ {0}
  <2>1. \E i \in DOMAIN cmd.adds : cmd.adds[i].id = id
    BY DEF Ids
  <2>2. PICK i \in DOMAIN cmd.adds : WeightIn(cmd.adds, id) = cmd.adds[i].weight
    BY <2>1 DEF WeightIn
  <2> QED
    BY <2>2 DEF WellFormed, validate_against
<1>2. ASSUME NEW id \in Ids(cmd.changes)
      PROVE  WeightIn(cmd.changes, id) \in Nat \ {0}
  <2>1. \E i \in DOMAIN cmd.changes : cmd.changes[i].id = id
    BY DEF Ids
  <2>2. PICK i \in DOMAIN cmd.changes : WeightIn(cmd.changes, id) = cmd.changes[i].weight
    BY <2>1 DEF WeightIn
  <2> QED
    BY <2>2 DEF WellFormed, validate_against
<1>3. DOMAIN NextSet(cmd, set) = (DOMAIN set \ ToSet(cmd.removes)) \cup Ids(cmd.adds)
  BY DEF NextSet
<1>4. Cardinality(DOMAIN NextSet(cmd, set)) >= MIN_VALIDATOR_FLOOR
  BY <1>3 DEF validate_against
<1>5. Weights(NextSet(cmd, set))
  BY <1>1, <1>2 DEF Weights, NextSet
<1> QED
  BY <1>4, <1>5

LEMMA SetsStepShape ==
    ASSUME NEW s, WellSets(s), NEW cmd, WellFormed(cmd), NEW view \in Nat
    PROVE  LET t == SetsStep(s, cmd, view)
           IN WellSets(t) /\ (t = s \/ Scheduled(s, t, view))
<1> DEFINE set == set_at(s, view)
           e == Entry(cmd.v_eff, NextSet(cmd, set))
           t == SetsStep(s, cmd, view)
<1> SUFFICES WellSets(t) /\ (t = s \/ Scheduled(s, t, view))
  OBVIOUS
<1>1. CASE ~(/\ cmd.kind = "reconfig"
             /\ validate_against(cmd, set_at(s, view), view)
             /\ ~pending(s, view))
  BY <1>1 DEF SetsStep
<1>2. CASE /\ cmd.kind = "reconfig"
           /\ validate_against(cmd, set_at(s, view), view)
           /\ ~pending(s, view)
  <2>1. Weights(set) /\ Last(s).from \in Nat /\ Last(s).from <= view
    BY <1>2, SetAt, LastIsHighest
  <2>2. cmd.v_eff \in Nat /\ cmd.v_eff >= view + MIN_V_EFF_DELAY /\ cmd.v_eff > Last(s).from
    <3>1. cmd.v_eff \in Nat
      BY <1>2 DEF WellFormed
    <3>2. cmd.v_eff >= view + LargerOf(min_v_eff_delay, MIN_V_EFF_DELAY)
      BY <1>2 DEF validate_against
    <3> QED
      BY <2>1, <3>1, <3>2, GovernanceAssumption DEF LargerOf, MIN_V_EFF_DELAY
  <2>3. Weights(NextSet(cmd, set)) /\ Cardinality(DOMAIN NextSet(cmd, set)) >= MIN_VALIDATOR_FLOOR
    BY <1>2, <2>1, WeightsNext
  <2>4. e.from = cmd.v_eff /\ e.val = NextSet(cmd, set)
    BY DEF Entry
  <2>5. t = Append(s, e)
    BY <1>2, <2>2 DEF SetsStep, insert_boundary
  <2> HIDE DEF e, t
  <2>6. IsSeq(s) /\ Len(s) \in Nat /\ Len(s) >= 1 /\ DOMAIN s = 1..Len(s) /\ Last(s) = s[Len(s)]
    BY SeqParts DEF WellSets
  <2>7. /\ IsSeq(t) /\ t # <<>> /\ DOMAIN t = 1..Len(s) + 1
        /\ \A i \in 1..Len(s) : t[i] = s[i]
        /\ t[Len(s) + 1] = e /\ Last(t) = e /\ Front(t) = s
    BY <2>5, <2>6, SeqAppend
  <2>8. WellSets(t)
    <3>1. ASSUME NEW i \in DOMAIN t
          PROVE  t[i].from \in Nat /\ Weights(t[i].val)
      BY <2>2, <2>3, <2>4, <2>6, <2>7 DEF WellSets
    <3>2. ASSUME NEW i \in DOMAIN t, i > 1
          PROVE  t[i - 1].from < t[i].from
      BY <2>1, <2>2, <2>4, <2>6, <2>7, <3>2 DEF WellSets
    <3>3. t[1] = Entry(0, Genesis)
      BY <2>6, <2>7 DEF WellSets
    <3> QED
      BY <2>7, <3>1, <3>2, <3>3 DEF WellSets
  <2>9. Scheduled(s, t, view)
    BY <2>1, <2>2, <2>3, <2>4, <2>7 DEF Scheduled
  <2> QED
    BY <2>8, <2>9
<1> QED
  BY <1>1, <1>2

\* The reconfigurations of a block keep what the first of them has scheduled.
SetsGood(w, i, t) == WellSets(t) /\ (t = w.was \/ Scheduled(w.was, t, w.view))

SetsLoop == INSTANCE LoopProofs WITH Step <- SetsStep, Good <- SetsGood

LEMMA BlockSetsPass ==
    ASSUME NEW s, NEW block
    PROVE  BlockSets(s, block) = SetsLoop!Pass(s, block.cmds, block.view, Len(block.cmds))
BY DEF BlockSets, Along, AlongTo, SetsLoop!Pass, SetsLoop!AlongTo

LEMMA Commands ==
    ASSUME NEW cmds \in Menu
    PROVE  /\ Len(cmds) \in Nat
           /\ \A i \in 1..Len(cmds) : WellFormed(cmds[i])
<1>1. IsSeq(cmds)
  BY GovernanceAssumption DEF IsSeq
<1> QED
  BY <1>1, SeqParts, GovernanceAssumption

LEMMA BlockSetsShape ==
    ASSUME NEW s, WellSets(s), NEW block, block.view \in Nat, block.cmds \in Menu
    PROVE  /\ WellSets(BlockSets(s, block))
           /\ BlockSets(s, block) = s \/ Scheduled(s, BlockSets(s, block), block.view)
<1> DEFINE v == block.view
           cmds == block.cmds
           n == Len(cmds)
           w == [was |-> s, view |-> v]
<1>1. n \in Nat /\ \A i \in 1..n : WellFormed(cmds[i])
  BY Commands
<1>2. w.was = s /\ w.view = v
  OBVIOUS
<1> HIDE DEF w, v, n, cmds
<1>3. SetsGood(w, 0, s)
  BY <1>2 DEF SetsGood
<1>4. ASSUME NEW i \in 1..n, NEW t, SetsGood(w, i - 1, t)
      PROVE  SetsGood(w, i, SetsStep(t, cmds[i], v))
  <2> DEFINE u == SetsStep(t, cmds[i], v)
  <2>1. WellSets(t) /\ (t = s \/ Scheduled(s, t, v))
    BY <1>2, <1>4 DEF SetsGood
  <2>2. v \in Nat /\ WellFormed(cmds[i])
    BY <1>1 DEF v
  <2>3. WellSets(u) /\ (u = t \/ Scheduled(t, u, v))
    BY <2>1, <2>2, SetsStepShape
  <2>4. CASE t = s
    BY <1>2, <2>3, <2>4 DEF SetsGood
  <2>5. CASE Scheduled(s, t, v)
    <3>1. Last(t).from \in Nat /\ Last(t).from > v
      BY <2>1, <2>2, <2>5, LastIsHighest DEF Scheduled, MIN_V_EFF_DELAY
    <3>2. pending(t, v)
      BY <2>1, <2>2, <3>1, LastIsHighest
    <3>3. u = t
      BY <3>2 DEF SetsStep
    <3> QED
      BY <1>2, <2>1, <3>3 DEF SetsGood
  <2> QED
    BY <2>1, <2>4, <2>5
<1>5. SetsGood(w, n, SetsLoop!Pass(s, cmds, v, n))
  BY <1>1, <1>3, <1>4, SetsLoop!Invariance
<1>6. BlockSets(s, block) = SetsLoop!Pass(s, cmds, v, n)
  BY BlockSetsPass DEF cmds, v, n
<1> QED
  BY <1>2, <1>5, <1>6 DEF SetsGood, v

-----------------------------------------------------------------------------
(***************************************************************************)
(* The sets that the first n blocks of a chain yield.                      *)
(***************************************************************************)
ChainSets(ch, n) == AlongTo(BlockSets, from_genesis(Genesis), ch, n)

BlockSetsIn(s, block, v) == BlockSets(s, block)

ChainGood(w, i, t) == t = w[i]

ChainLoop == INSTANCE LoopProofs WITH Step <- BlockSetsIn, Good <- ChainGood

LEMMA ChainSetsPass ==
    ASSUME NEW ch, NEW n
    PROVE  ChainSets(ch, n) = ChainLoop!Pass(from_genesis(Genesis), ch, 0, n)
BY DEF ChainSets, AlongTo, ChainLoop!Pass, ChainLoop!AlongTo, BlockSetsIn

LEMMA ChainSetsStep ==
    ASSUME NEW ch
    PROVE  /\ ChainSets(ch, 0) = from_genesis(Genesis)
           /\ \A n \in Nat : ChainSets(ch, n + 1) = BlockSets(ChainSets(ch, n), ch[n + 1])
BY ChainSetsPass, ChainLoop!Recurrence DEF BlockSetsIn

\* They do not depend on what follows.
LEMMA ChainSetsPrefix ==
    ASSUME NEW ch, NEW other, NEW n \in Nat, \A i \in 1..n : ch[i] = other[i]
    PROVE  ChainSets(ch, n) = ChainSets(other, n)
<1> DEFINE w == [k \in 0..n |-> ChainSets(other, k)]
           start == from_genesis(Genesis)
<1>1. w[0] = start /\ \A i \in 1..n : w[i] = BlockSets(w[i - 1], other[i])
  <2>1. w[0] = start
    BY ChainSetsStep
  <2>2. ASSUME NEW i \in 1..n
        PROVE  w[i] = BlockSets(w[i - 1], other[i])
    <3>1. i - 1 \in Nat /\ i - 1 \in 0..n /\ i \in 0..n /\ (i - 1) + 1 = i
      OBVIOUS
    <3>2. ChainSets(other, (i - 1) + 1) = BlockSets(ChainSets(other, i - 1), other[(i - 1) + 1])
      BY <3>1, ChainSetsStep
    <3> QED
      BY <3>1, <3>2
  <2> QED
    BY <2>1, <2>2
<1>2. w[n] = ChainSets(other, n)
  OBVIOUS
<1> HIDE DEF w, start
<1>3. ChainGood(w, 0, start)
  BY <1>1 DEF ChainGood
<1>4. ASSUME NEW i \in 1..n, NEW t, ChainGood(w, i - 1, t)
      PROVE  ChainGood(w, i, BlockSetsIn(t, ch[i], 0))
  BY <1>1, <1>4 DEF ChainGood, BlockSetsIn
<1>5. ChainGood(w, n, ChainLoop!Pass(start, ch, 0, n))
  BY <1>3, <1>4, ChainLoop!Invariance
<1> QED
  BY <1>2, <1>5, ChainSetsPass DEF ChainGood, start

-----------------------------------------------------------------------------
(***************************************************************************)
(* What each pass over a block does to the records.                        *)
(***************************************************************************)
IsRecords(h) ==
    DOMAIN h = {"sets", "keys", "bls", "ops", "endpoints", "params", "interval", "touched"}

OwnersKnown(k) == \A key \in DOMAIN k.owner : k.owner[key] \in DOMAIN k.byId

\* Neither the sets nor the form of the key history changes.
Keeps(g, h) ==
    /\ IsRecords(h) /\ h.sets = g.sets
    /\ OwnersKnown(g.keys) => OwnersKnown(h.keys)

LEMMA KeepsTrans ==
    ASSUME NEW f, NEW g, NEW h, Keeps(f, g), Keeps(g, h)
    PROVE  Keeps(f, h)
BY DEF Keeps

\* Both versions of a reconfiguration change the sets alike.
LEMMA ReconfigSets ==
    ASSUME NEW h, IsRecords(h), NEW cmd, NEW view, cmd.kind = "reconfig"
    PROVE  /\ IsRecords(ApplyReconfig(h, cmd, view)) /\ IsRecords(PureReconfig(h, cmd, view))
           /\ ApplyReconfig(h, cmd, view).sets = SetsStep(h.sets, cmd, view)
           /\ PureReconfig(h, cmd, view).sets = SetsStep(h.sets, cmd, view)
           /\ ApplyReconfig(h, cmd, view).keys = h.keys
           /\ "sets" \in ApplyReconfig(h, cmd, view).touched
              \/ ApplyReconfig(h, cmd, view) = h
<1>1. CASE ~Reconfigures(h, cmd, view)
  <2>1. ApplyReconfig(h, cmd, view) = h /\ PureReconfig(h, cmd, view) = h
    BY <1>1 DEF ApplyReconfig, PureReconfig
  <2>2. SetsStep(h.sets, cmd, view) = h.sets
    BY <1>1 DEF Reconfigures, SetsStep
  <2> QED
    BY <2>1, <2>2
<1>2. CASE Reconfigures(h, cmd, view)
  <2> DEFINE b == Boundary(h, cmd, view)
  <2>1. SetsStep(h.sets, cmd, view)
            = insert_boundary(h.sets, cmd.v_eff, NextSet(cmd, set_at(h.sets, view)))
    BY <1>2 DEF Reconfigures, SetsStep
  <2>2. IsRecords(b) /\ b.sets = SetsStep(h.sets, cmd, view) /\ b.keys = h.keys
    BY <2>1 DEF Boundary, IsRecords
  <2> HIDE DEF b
  <2>3. PICK x : PureReconfig(h, cmd, view) = [b EXCEPT !.keys = x]
    BY <1>2 DEF PureReconfig, b
  <2>4. PICK reg, more : ApplyReconfig(h, cmd, view)
                = [b EXCEPT !.endpoints = reg, !.touched = b.touched \cup {"sets"} \cup more]
    <3> DEFINE reg == forget(SeedNew(h.endpoints, cmd), ToSet(cmd.removes))
               o == Changed("ops", h.ops, b.ops)
               k == Changed("bls", h.bls, b.bls)
               e == Changed("endpoints", h.endpoints, reg)
    <3>1. ApplyReconfig(h, cmd, view)
             = [b EXCEPT !.endpoints = reg,
                         !.touched = b.touched \cup {"sets"} \cup o \cup k \cup e]
      BY <1>2, <2>2 DEF ApplyReconfig, b, IsRecords
    <3> HIDE DEF reg, o, k, e
    <3>2. b.touched \cup {"sets"} \cup o \cup k \cup e = b.touched \cup {"sets"} \cup (o \cup k \cup e)
      OBVIOUS
    <3> QED
      BY <3>1, <3>2
  <2> QED
    BY <2>2, <2>3, <2>4 DEF IsRecords
<1> QED
  BY <1>1, <1>2

LEMMA RotationKeepsOwners ==
    ASSUME NEW k, OwnersKnown(k), NEW key, NEW new, NEW from, RotationApplies(k, key, new, from)
    PROVE  OwnersKnown(apply_rotation(k, key, new, from))
<1> DEFINE r == apply_rotation(k, key, new, from)
<1>1. k.owner[key] \in DOMAIN k.byId
  BY DEF RotationApplies, OwnersKnown
<1>2. DOMAIN r.byId = DOMAIN k.byId
  BY DEF apply_rotation, rotate
<1>3. r.owner = [x \in DOMAIN k.owner \cup {new} |-> IF x = new THEN k.owner[key] ELSE k.owner[x]]
  BY DEF apply_rotation, Owned
<1> HIDE DEF r
<1> QED
  BY <1>1, <1>2, <1>3 DEF OwnersKnown, r

LEMMA CancelKeepsOwners ==
    ASSUME NEW k, OwnersKnown(k), NEW key, NEW from, NEW view
    PROVE  OwnersKnown(cancel_pending_rotation(k, key, from, view))
<1> DEFINE r == cancel_pending_rotation(k, key, from, view)
           removed == Last(k.byId[k.owner[key]]).val
<1>1. DOMAIN r.byId = DOMAIN k.byId
  BY DEF cancel_pending_rotation, cancel_rotation
<1>2. r.owner = [x \in DOMAIN k.owner \ {removed} |-> k.owner[x]]
  BY DEF cancel_pending_rotation
<1> HIDE DEF r, removed
<1> QED
  BY <1>1, <1>2 DEF OwnersKnown, r

LEMMA RotatedKeeps ==
    ASSUME NEW h, IsRecords(h), NEW cmd, NEW id,
           RotationApplies(h.keys, cmd.validator, cmd.new, cmd.v_eff)
    PROVE  Keeps(h, Rotated(h, cmd, id))
<1> DEFINE k == apply_rotation(h.keys, cmd.validator, cmd.new, cmd.v_eff)
<1>1. OwnersKnown(h.keys) => OwnersKnown(k)
  BY RotationKeepsOwners
<1>2. /\ IsRecords(Rotated(h, cmd, id)) /\ Rotated(h, cmd, id).sets = h.sets
      /\ Rotated(h, cmd, id).keys = k
  BY DEF IsRecords, Rotated
<1> QED
  BY <1>1, <1>2 DEF Keeps

LEMMA RotationsKeep ==
    ASSUME NEW h, IsRecords(h), NEW cmd, NEW view
    PROVE  /\ Keeps(h, DualSignedRotation(h, cmd, view))
           /\ Keeps(h, apply_rotation_cancel_command(h, cmd, view))
           /\ Keeps(h, apply_operator_rotation_command(h, cmd, view))
           /\ Keeps(h, apply_operator_key_rotation_command(h, cmd, view))
<1>0. Keeps(h, h)
  BY DEF Keeps
<1>1. Keeps(h, DualSignedRotation(h, cmd, view))
  BY <1>0, RotatedKeeps DEF DualSignedRotation
<1>2. Keeps(h, apply_operator_rotation_command(h, cmd, view))
  BY <1>0, RotatedKeeps DEF apply_operator_rotation_command
<1>3. Keeps(h, apply_rotation_cancel_command(h, cmd, view))
  <2> DEFINE r == apply_rotation_cancel_command(h, cmd, view)
             k == cancel_pending_rotation(h.keys, cmd.validator, cmd.v_eff, view)
             id == validator_for(h.keys, cmd.validator)
             b == cancel_rotation(h.bls, id, cmd.v_eff, view)
             c == h.touched \cup {"keys", "bls"}
  <2>1. r = h \/ r = [h EXCEPT !.keys = k, !.bls = b, !.touched = c]
    BY DEF apply_rotation_cancel_command
  <2>2. OwnersKnown(h.keys) => OwnersKnown(k)
    BY CancelKeepsOwners
  <2> HIDE DEF r, k, b, c
  <2>3. CASE r = [h EXCEPT !.keys = k, !.bls = b, !.touched = c]
    <3>1. IsRecords(r) /\ r.sets = h.sets /\ r.keys = k
      BY <2>3 DEF IsRecords
    <3> QED
      BY <2>2, <3>1 DEF Keeps, r
  <2> QED
    BY <1>0, <2>1, <2>3 DEF r
<1>4. Keeps(h, apply_operator_key_rotation_command(h, cmd, view))
  <2> DEFINE r == apply_operator_key_rotation_command(h, cmd, view)
             o == rotate(h.ops, cmd.validator, cmd.v_eff, cmd.new)
             c == h.touched \cup {"ops"}
  <2>1. r = h \/ r = [h EXCEPT !.ops = o, !.touched = c]
    BY DEF apply_operator_key_rotation_command
  <2> HIDE DEF r, o, c
  <2>2. CASE r = [h EXCEPT !.ops = o, !.touched = c]
    <3>1. IsRecords(r) /\ r.sets = h.sets /\ r.keys = h.keys
      BY <2>2 DEF IsRecords
    <3> QED
      BY <3>1 DEF Keeps, r
  <2> QED
    BY <1>0, <2>1, <2>2 DEF r
<1> QED
  BY <1>1, <1>2, <1>3, <1>4

LEMMA OthersKeep ==
    ASSUME NEW h, IsRecords(h), NEW cmd, NEW view
    PROVE  Keeps(h, ApplyEndpoint(h, cmd, view)) /\ Keeps(h, ApplyParam(h, cmd, view))
<1>0. Keeps(h, h)
  BY DEF Keeps
<1>1. Keeps(h, ApplyEndpoint(h, cmd, view))
  <2> DEFINE r == ApplyEndpoint(h, cmd, view)
             e == EndpointApplied(h.endpoints, cmd)
             c == IF EndpointAccepted(h.endpoints, cmd)
                    THEN h.touched \cup {"endpoints"} ELSE h.touched
  <2>1. r = h \/ r = [h EXCEPT !.endpoints = e, !.touched = c]
    BY DEF ApplyEndpoint
  <2> HIDE DEF r, e, c
  <2>2. CASE r = [h EXCEPT !.endpoints = e, !.touched = c]
    <3>1. IsRecords(r) /\ r.sets = h.sets /\ r.keys = h.keys
      BY <2>2 DEF IsRecords
    <3> QED
      BY <3>1 DEF Keeps, r
  <2> QED
    BY <1>0, <2>1, <2>2 DEF r
<1>2. Keeps(h, ApplyParam(h, cmd, view))
  <2> DEFINE r == ApplyParam(h, cmd, view)
             p == insert_params(h.params, cmd.v_eff, cmd.interval)
             c == h.touched \cup {"params"}
  <2>1. r = h \/ r = [h EXCEPT !.params = p, !.touched = c]
    BY DEF ApplyParam
  <2> HIDE DEF r, p, c
  <2>2. CASE r = [h EXCEPT !.params = p, !.touched = c]
    <3>1. IsRecords(r) /\ r.sets = h.sets /\ r.keys = h.keys
      BY <2>2 DEF IsRecords
    <3> QED
      BY <3>1 DEF Keeps, r
  <2> QED
    BY <1>0, <2>1, <2>2 DEF r
<1> QED
  BY <1>1, <1>2

(***************************************************************************)
(* The passes.                                                             *)
(***************************************************************************)
ReconfigStep(h, cmd, view) ==
    IF cmd.kind = "reconfig" THEN ApplyReconfig(h, cmd, view) ELSE h
PureStep(h, cmd, view) ==
    IF cmd.kind = "reconfig" THEN PureReconfig(h, cmd, view) ELSE h
RotateStep(h, cmd, view) ==
    IF cmd.kind = "rotate" THEN DualSignedRotation(h, cmd, view) ELSE h
CancelStep(h, cmd, view) ==
    IF cmd.kind = "cancel" THEN apply_rotation_cancel_command(h, cmd, view) ELSE h
RecoverStep(h, cmd, view) ==
    IF cmd.kind = "operator_rotate" THEN apply_operator_rotation_command(h, cmd, view) ELSE h
ReplaceStep(h, cmd, view) ==
    IF cmd.kind = "operator_key" THEN apply_operator_key_rotation_command(h, cmd, view) ELSE h
EndpointStep(h, cmd, view) ==
    IF cmd.kind = "endpoint" THEN ApplyEndpoint(h, cmd, view) ELSE h
ParamStep(h, cmd, view) ==
    IF cmd.kind = "param" THEN ApplyParam(h, cmd, view) ELSE h

KeepsGood(w, i, h) == Keeps(w, h)

\* The wrapper's pass: the sets follow w.sets, and a change is marked.
ReconfigGood(w, i, h) ==
    /\ IsRecords(h) /\ h.sets = w.sets[i] /\ h.keys = w.keys
    /\ "sets" \in h.touched \/ h.sets = w.sets[0]

\* The pure pass
PureGood(w, i, h) == IsRecords(h) /\ h.sets = w[i]

ReconfigLoop == INSTANCE LoopProofs WITH Step <- ReconfigStep, Good <- ReconfigGood
PureLoop == INSTANCE LoopProofs WITH Step <- PureStep, Good <- PureGood
RotateLoop == INSTANCE LoopProofs WITH Step <- RotateStep, Good <- KeepsGood
CancelLoop == INSTANCE LoopProofs WITH Step <- CancelStep, Good <- KeepsGood
RecoverLoop == INSTANCE LoopProofs WITH Step <- RecoverStep, Good <- KeepsGood
ReplaceLoop == INSTANCE LoopProofs WITH Step <- ReplaceStep, Good <- KeepsGood
EndpointLoop == INSTANCE LoopProofs WITH Step <- EndpointStep, Good <- KeepsGood
ParamLoop == INSTANCE LoopProofs WITH Step <- ParamStep, Good <- KeepsGood

LEMMA RotatePass ==
    ASSUME NEW h, IsRecords(h), NEW block, Len(block.cmds) \in Nat
    PROVE  Keeps(h, ForEach("rotate", LAMBDA g, cmd : DualSignedRotation(g, cmd, block.view),
                            h, block))
<1> DEFINE n == Len(block.cmds)
<1>1. KeepsGood(h, 0, h)
  BY DEF KeepsGood, Keeps
<1>2. ASSUME NEW i \in 1..n, NEW t, KeepsGood(h, i - 1, t)
      PROVE  KeepsGood(h, i, RotateStep(t, block.cmds[i], block.view))
  <2>1. Keeps(h, t) /\ IsRecords(t)
    BY <1>2 DEF KeepsGood, Keeps
  <2> QED
    BY <2>1, RotationsKeep, KeepsTrans DEF KeepsGood, RotateStep
<1>3. KeepsGood(h, n, RotateLoop!Pass(h, block.cmds, block.view, n))
  BY <1>1, <1>2, RotateLoop!Invariance
<1> QED
  BY <1>3 DEF KeepsGood, ForEach, Along, AlongTo, RotateLoop!Pass, RotateLoop!AlongTo, RotateStep

LEMMA CancelPass ==
    ASSUME NEW h, IsRecords(h), NEW block, Len(block.cmds) \in Nat
    PROVE  Keeps(h, ForEach("cancel",
                            LAMBDA g, cmd : apply_rotation_cancel_command(g, cmd, block.view),
                            h, block))
<1> DEFINE n == Len(block.cmds)
<1>1. KeepsGood(h, 0, h)
  BY DEF KeepsGood, Keeps
<1>2. ASSUME NEW i \in 1..n, NEW t, KeepsGood(h, i - 1, t)
      PROVE  KeepsGood(h, i, CancelStep(t, block.cmds[i], block.view))
  <2>1. Keeps(h, t) /\ IsRecords(t)
    BY <1>2 DEF KeepsGood, Keeps
  <2> QED
    BY <2>1, RotationsKeep, KeepsTrans DEF KeepsGood, CancelStep
<1>3. KeepsGood(h, n, CancelLoop!Pass(h, block.cmds, block.view, n))
  BY <1>1, <1>2, CancelLoop!Invariance
<1> QED
  BY <1>3 DEF KeepsGood, ForEach, Along, AlongTo, CancelLoop!Pass, CancelLoop!AlongTo, CancelStep

LEMMA RecoverPass ==
    ASSUME NEW h, IsRecords(h), NEW block, Len(block.cmds) \in Nat
    PROVE  Keeps(h, ForEach("operator_rotate",
                            LAMBDA g, cmd : apply_operator_rotation_command(g, cmd, block.view),
                            h, block))
<1> DEFINE n == Len(block.cmds)
<1>1. KeepsGood(h, 0, h)
  BY DEF KeepsGood, Keeps
<1>2. ASSUME NEW i \in 1..n, NEW t, KeepsGood(h, i - 1, t)
      PROVE  KeepsGood(h, i, RecoverStep(t, block.cmds[i], block.view))
  <2>1. Keeps(h, t) /\ IsRecords(t)
    BY <1>2 DEF KeepsGood, Keeps
  <2> QED
    BY <2>1, RotationsKeep, KeepsTrans DEF KeepsGood, RecoverStep
<1>3. KeepsGood(h, n, RecoverLoop!Pass(h, block.cmds, block.view, n))
  BY <1>1, <1>2, RecoverLoop!Invariance
<1> QED
  BY <1>3 DEF KeepsGood, ForEach, Along, AlongTo, RecoverLoop!Pass, RecoverLoop!AlongTo,
              RecoverStep

LEMMA ReplacePass ==
    ASSUME NEW h, IsRecords(h), NEW block, Len(block.cmds) \in Nat
    PROVE  Keeps(h, ForEach("operator_key",
                            LAMBDA g, cmd : apply_operator_key_rotation_command(g, cmd, block.view),
                            h, block))
<1> DEFINE n == Len(block.cmds)
<1>1. KeepsGood(h, 0, h)
  BY DEF KeepsGood, Keeps
<1>2. ASSUME NEW i \in 1..n, NEW t, KeepsGood(h, i - 1, t)
      PROVE  KeepsGood(h, i, ReplaceStep(t, block.cmds[i], block.view))
  <2>1. Keeps(h, t) /\ IsRecords(t)
    BY <1>2 DEF KeepsGood, Keeps
  <2> QED
    BY <2>1, RotationsKeep, KeepsTrans DEF KeepsGood, ReplaceStep
<1>3. KeepsGood(h, n, ReplaceLoop!Pass(h, block.cmds, block.view, n))
  BY <1>1, <1>2, ReplaceLoop!Invariance
<1> QED
  BY <1>3 DEF KeepsGood, ForEach, Along, AlongTo, ReplaceLoop!Pass, ReplaceLoop!AlongTo,
              ReplaceStep

LEMMA EndpointsKeep ==
    ASSUME NEW h, IsRecords(h), NEW block, Len(block.cmds) \in Nat
    PROVE  Keeps(h, apply_committed_endpoints(h, block))
<1> DEFINE n == Len(block.cmds)
<1>1. KeepsGood(h, 0, h)
  BY DEF KeepsGood, Keeps
<1>2. ASSUME NEW i \in 1..n, NEW t, KeepsGood(h, i - 1, t)
      PROVE  KeepsGood(h, i, EndpointStep(t, block.cmds[i], block.view))
  <2>1. Keeps(h, t) /\ IsRecords(t)
    BY <1>2 DEF KeepsGood, Keeps
  <2> QED
    BY <2>1, OthersKeep, KeepsTrans DEF KeepsGood, EndpointStep
<1>3. KeepsGood(h, n, EndpointLoop!Pass(h, block.cmds, block.view, n))
  BY <1>1, <1>2, EndpointLoop!Invariance
<1> QED
  BY <1>3 DEF KeepsGood, apply_committed_endpoints, ForEach, Along, AlongTo,
              EndpointLoop!Pass, EndpointLoop!AlongTo, EndpointStep

LEMMA ParamsKeep ==
    ASSUME NEW h, IsRecords(h), NEW block, Len(block.cmds) \in Nat
    PROVE  Keeps(h, apply_committed_param_updates(h, block))
<1> DEFINE n == Len(block.cmds)
           g == ParamLoop!Pass(h, block.cmds, block.view, n)
           p == params_at(g.params, block.view)
<1>1. KeepsGood(h, 0, h)
  BY DEF KeepsGood, Keeps
<1>2. ASSUME NEW i \in 1..n, NEW t, KeepsGood(h, i - 1, t)
      PROVE  KeepsGood(h, i, ParamStep(t, block.cmds[i], block.view))
  <2>1. Keeps(h, t) /\ IsRecords(t)
    BY <1>2 DEF KeepsGood, Keeps
  <2> QED
    BY <2>1, OthersKeep, KeepsTrans DEF KeepsGood, ParamStep
<1>3. Keeps(h, g)
  BY <1>1, <1>2, ParamLoop!Invariance DEF KeepsGood
<1>4. apply_committed_param_updates(h, block) = [g EXCEPT !.interval = p]
  BY DEF apply_committed_param_updates, ForEach, Along, AlongTo,
         ParamLoop!Pass, ParamLoop!AlongTo, ParamStep
<1> HIDE DEF g, p
<1>5. Keeps(g, [g EXCEPT !.interval = p])
  BY <1>3 DEF Keeps, IsRecords
<1> QED
  BY <1>3, <1>4, <1>5, KeepsTrans

LEMMA RotationCommandsKeep ==
    ASSUME NEW h, IsRecords(h), NEW block, Len(block.cmds) \in Nat
    PROVE  Keeps(h, apply_rotation_commands_to_histories(h, block))
<1> DEFINE h1 == ForEach("rotate", LAMBDA g, cmd : DualSignedRotation(g, cmd, block.view),
                         h, block)
           h2 == ForEach("cancel",
                         LAMBDA g, cmd : apply_rotation_cancel_command(g, cmd, block.view),
                         h1, block)
           h3 == ForEach("operator_rotate",
                         LAMBDA g, cmd : apply_operator_rotation_command(g, cmd, block.view),
                         h2, block)
           h4 == ForEach("operator_key",
                         LAMBDA g, cmd : apply_operator_key_rotation_command(g, cmd, block.view),
                         h3, block)
<1>0. apply_rotation_commands_to_histories(h, block) = h4
  BY DEF apply_rotation_commands_to_histories
<1>1. Keeps(h, h1) /\ IsRecords(h1)
  BY RotatePass DEF Keeps
<1> HIDE DEF h1
<1>2. Keeps(h1, h2) /\ IsRecords(h2)
  BY <1>1, CancelPass DEF Keeps
<1> HIDE DEF h2
<1>3. Keeps(h2, h3) /\ IsRecords(h3)
  BY <1>2, RecoverPass DEF Keeps
<1> HIDE DEF h3
<1>4. Keeps(h3, h4)
  BY <1>3, ReplacePass
<1> HIDE DEF h4
<1> QED
  BY <1>0, <1>1, <1>2, <1>3, <1>4, KeepsTrans

\* The sets after each of the first k commands
SetsTable(s, block) ==
    [k \in 0..Len(block.cmds) |-> SetsLoop!Pass(s, block.cmds, block.view, k)]

LEMMA SetsTableSteps ==
    ASSUME NEW s, NEW block, Len(block.cmds) \in Nat
    PROVE  LET w == SetsTable(s, block)
           IN /\ w[0] = s /\ w[Len(block.cmds)] = BlockSets(s, block)
              /\ \A i \in 1..Len(block.cmds) :
                    w[i] = SetsStep(w[i - 1], block.cmds[i], block.view)
<1> DEFINE w == SetsTable(s, block)
           n == Len(block.cmds)
<1>1. w[0] = s
  BY SetsLoop!Recurrence DEF SetsTable
<1>2. w[n] = BlockSets(s, block)
  BY BlockSetsPass DEF SetsTable
<1>3. ASSUME NEW i \in 1..n
      PROVE  w[i] = SetsStep(w[i - 1], block.cmds[i], block.view)
  <2>1. i - 1 \in Nat /\ i - 1 \in 0..n /\ i \in 0..n /\ (i - 1) + 1 = i
    OBVIOUS
  <2>2. SetsLoop!Pass(s, block.cmds, block.view, (i - 1) + 1)
            = SetsStep(SetsLoop!Pass(s, block.cmds, block.view, i - 1),
                       block.cmds[(i - 1) + 1], block.view)
    BY <2>1, SetsLoop!Recurrence
  <2> QED
    BY <2>1, <2>2 DEF SetsTable
<1> QED
  BY <1>1, <1>2, <1>3

\* What the wrapper does to the sets, and that it marks them as changed
LEMMA ReconfigPass ==
    ASSUME NEW h, IsRecords(h), NEW block, Len(block.cmds) \in Nat
    PROVE  LET g == apply_committed_reconfigs(h, block)
           IN /\ IsRecords(g) /\ g.sets = BlockSets(h.sets, block) /\ g.keys = h.keys
              /\ "sets" \in g.touched \/ g.sets = h.sets
<1> DEFINE n == Len(block.cmds)
           t0 == SetsTable(h.sets, block)
           w == [sets |-> t0, keys |-> h.keys]
           v == block.view
<1>1. /\ t0[0] = h.sets /\ t0[n] = BlockSets(h.sets, block)
      /\ \A i \in 1..n : t0[i] = SetsStep(t0[i - 1], block.cmds[i], v)
  BY SetsTableSteps
<1>2. w.sets = t0 /\ w.keys = h.keys
  OBVIOUS
<1> HIDE DEF w, t0
<1>3. ReconfigGood(w, 0, h)
  BY <1>1, <1>2 DEF ReconfigGood
<1>4. ASSUME NEW i \in 1..n, NEW t, ReconfigGood(w, i - 1, t)
      PROVE  ReconfigGood(w, i, ReconfigStep(t, block.cmds[i], v))
  <2> DEFINE cmd == block.cmds[i]
             u == ReconfigStep(t, cmd, v)
  <2>1. /\ IsRecords(t) /\ t.sets = t0[i - 1] /\ t.keys = h.keys
        /\ "sets" \in t.touched \/ t.sets = t0[0]
    BY <1>2, <1>4 DEF ReconfigGood
  <2>2. t0[i] = SetsStep(t.sets, cmd, v)
    BY <1>1, <2>1
  <2> HIDE DEF cmd
  <2>3. CASE cmd.kind = "reconfig"
    <3>1. /\ IsRecords(u) /\ u.sets = t0[i] /\ u.keys = h.keys
          /\ "sets" \in u.touched \/ u = t
      BY <2>1, <2>2, <2>3, ReconfigSets DEF ReconfigStep
    <3> QED
      BY <1>2, <2>1, <3>1 DEF ReconfigGood, cmd
  <2>4. CASE cmd.kind # "reconfig"
    <3>1. u = t /\ t0[i] = t.sets
      BY <2>2, <2>4 DEF ReconfigStep, SetsStep
    <3> QED
      BY <1>2, <2>1, <3>1 DEF ReconfigGood, cmd
  <2> QED
    BY <2>3, <2>4
<1>5. ReconfigGood(w, n, ReconfigLoop!Pass(h, block.cmds, v, n))
  BY <1>3, <1>4, ReconfigLoop!Invariance
<1>6. apply_committed_reconfigs(h, block) = ReconfigLoop!Pass(h, block.cmds, v, n)
  BY DEF apply_committed_reconfigs, ForEach, Along, AlongTo,
         ReconfigLoop!Pass, ReconfigLoop!AlongTo, ReconfigStep
<1> QED
  BY <1>1, <1>2, <1>5, <1>6 DEF ReconfigGood

\* The pure version yields the same sets.
LEMMA PurePass ==
    ASSUME NEW h, IsRecords(h), NEW block, Len(block.cmds) \in Nat
    PROVE  LET g == apply_reconfig_commands_to_set_history(h, block)
           IN IsRecords(g) /\ g.sets = BlockSets(h.sets, block)
<1> DEFINE n == Len(block.cmds)
           w == SetsTable(h.sets, block)
           v == block.view
<1>1. /\ w[0] = h.sets /\ w[n] = BlockSets(h.sets, block)
      /\ \A i \in 1..n : w[i] = SetsStep(w[i - 1], block.cmds[i], v)
  BY SetsTableSteps
<1> HIDE DEF w
<1>2. PureGood(w, 0, h)
  BY <1>1 DEF PureGood
<1>3. ASSUME NEW i \in 1..n, NEW t, PureGood(w, i - 1, t)
      PROVE  PureGood(w, i, PureStep(t, block.cmds[i], v))
  <2> DEFINE cmd == block.cmds[i]
  <2>1. IsRecords(t) /\ w[i] = SetsStep(t.sets, cmd, v)
    BY <1>1, <1>3 DEF PureGood
  <2> HIDE DEF cmd
  <2>2. CASE cmd.kind = "reconfig"
    BY <2>1, <2>2, ReconfigSets DEF PureStep, PureGood, cmd
  <2>3. CASE cmd.kind # "reconfig"
    BY <2>1, <2>3 DEF PureStep, PureGood, SetsStep, cmd
  <2> QED
    BY <2>2, <2>3
<1>4. PureGood(w, n, PureLoop!Pass(h, block.cmds, v, n))
  BY <1>2, <1>3, PureLoop!Invariance
<1>5. apply_reconfig_commands_to_set_history(h, block) = PureLoop!Pass(h, block.cmds, v, n)
  BY DEF apply_reconfig_commands_to_set_history, ForEach, Along, AlongTo,
         PureLoop!Pass, PureLoop!AlongTo, PureStep
<1> QED
  BY <1>1, <1>4, <1>5 DEF PureGood

LEMMA PostBlockSets ==
    ASSUME NEW h, IsRecords(h), NEW block, Len(block.cmds) \in Nat
    PROVE  IsRecords(PostBlock(h, block)) /\ PostBlock(h, block).sets = BlockSets(h.sets, block)
<1> DEFINE g == apply_reconfig_commands_to_set_history(h, block)
<1>1. IsRecords(g) /\ g.sets = BlockSets(h.sets, block)
  BY PurePass
<1> HIDE DEF g
<1>2. Keeps(g, apply_rotation_commands_to_histories(g, block))
  BY <1>1, RotationCommandsKeep
<1> QED
  BY <1>1, <1>2 DEF PostBlock, Keeps, g

-----------------------------------------------------------------------------
(***************************************************************************)
(* The replay from the genesis.                                            *)
(***************************************************************************)
PostBlockIn(h, block, v) == PostBlock(h, block)

ReplayLoop == INSTANCE LoopProofs WITH Step <- PostBlockIn, Good <- PureGood

\* Whatever records a replay starts from, it yields the sets of the chain, if
\* the first of its sets is that of the genesis.
LEMMA RebuiltSets ==
    ASSUME NEW h, IsRecords(h), h.sets[1].val = Genesis, NEW n \in Nat,
           \A i \in 1..n : Len(chain[i].cmds) \in Nat
    PROVE  Rebuilt(h, n).sets = ChainSets(chain, n)
<1> DEFINE first == h.sets[1].val
           k == KeyHistory(DOMAIN first)
           b == genesis_only_seed(h.bls)
           o == genesis_only_seed(h.ops)
           start == [h EXCEPT !.sets = from_genesis(first), !.keys = k, !.bls = b, !.ops = o]
           w == [i \in 0..n |-> ChainSets(chain, i)]
<1>1. Rebuilt(h, n) = ReplayLoop!Pass(start, chain, 0, n)
  BY DEF Rebuilt, AlongTo, ReplayLoop!Pass, ReplayLoop!AlongTo, PostBlockIn
<1>2. IsRecords(start) /\ start.sets = from_genesis(Genesis)
  <2> HIDE DEF k, b, o
  <2> QED
    BY DEF IsRecords
<1>3. w[0] = from_genesis(Genesis) /\ \A i \in 1..n : w[i] = BlockSets(w[i - 1], chain[i])
  <2>1. w[0] = from_genesis(Genesis)
    BY ChainSetsStep
  <2>2. ASSUME NEW i \in 1..n
        PROVE  w[i] = BlockSets(w[i - 1], chain[i])
    <3>1. i - 1 \in Nat /\ i - 1 \in 0..n /\ i \in 0..n /\ (i - 1) + 1 = i
      OBVIOUS
    <3>2. ChainSets(chain, (i - 1) + 1) = BlockSets(ChainSets(chain, i - 1), chain[(i - 1) + 1])
      BY <3>1, ChainSetsStep
    <3> QED
      BY <3>1, <3>2
  <2> QED
    BY <2>1, <2>2
<1>4. w[n] = ChainSets(chain, n)
  OBVIOUS
<1> HIDE DEF start, w
<1>5. PureGood(w, 0, start)
  BY <1>2, <1>3 DEF PureGood
<1>6. ASSUME NEW i \in 1..n, NEW t, PureGood(w, i - 1, t)
      PROVE  PureGood(w, i, PostBlockIn(t, chain[i], 0))
  <2>1. IsRecords(t) /\ t.sets = w[i - 1]
    BY <1>6 DEF PureGood
  <2>2. /\ IsRecords(PostBlock(t, chain[i]))
        /\ PostBlock(t, chain[i]).sets = BlockSets(t.sets, chain[i])
    BY <2>1, PostBlockSets
  <2> QED
    BY <1>3, <2>1, <2>2 DEF PureGood, PostBlockIn
<1>7. PureGood(w, n, ReplayLoop!Pass(start, chain, 0, n))
  BY <1>5, <1>6, ReplayLoop!Invariance
<1> QED
  BY <1>1, <1>4, <1>7 DEF PureGood

-----------------------------------------------------------------------------
(***************************************************************************)
(* The puts of a commit.                                                   *)
(***************************************************************************)
PutOf(h, f) == [field |-> f, value |-> Stored(h, f)]

PutStep(puts, f, h) ==
    IF f \in h.touched THEN Append(puts, [field |-> f, value |-> Stored(h, f)]) ELSE puts

\* The puts are those of the fields of w.order that were touched.
PutGood(w, i, puts) ==
    /\ puts \in Seq({PutOf(w.h, f) : f \in w.order})
    /\ "sets" \in w.h.touched /\ (\E k \in 1..i : w.seq[k] = "sets")
         => \E j \in 1..Len(puts) : puts[j].field = "sets"

PutLoop == INSTANCE LoopProofs WITH Step <- PutStep, Good <- PutGood

LEMMA PutsAre ==
    ASSUME NEW h, NEW S, NEW seq \in Seq(S)
    PROVE  /\ Puts(h, seq) \in Seq({PutOf(h, f) : f \in S})
           /\ "sets" \in h.touched /\ (\E k \in 1..Len(seq) : seq[k] = "sets")
                => \E j \in 1..Len(Puts(h, seq)) : Puts(h, seq)[j].field = "sets"
<1> DEFINE n == Len(seq)
           w == [h |-> h, order |-> S, seq |-> seq]
           P == {PutOf(h, f) : f \in S}
<1>1. w.h = h /\ w.order = S /\ w.seq = seq
  OBVIOUS
<1>2. n \in Nat /\ \A i \in 1..n : seq[i] \in S
  OBVIOUS
<1> HIDE DEF w, n
<1>3. PutGood(w, 0, <<>>)
  BY DEF PutGood
<1>4. ASSUME NEW i \in 1..n, NEW t, PutGood(w, i - 1, t)
      PROVE  PutGood(w, i, PutStep(t, seq[i], h))
  <2> DEFINE f == seq[i]
             p == PutOf(h, f)
             u == PutStep(t, f, h)
  <2>1. /\ t \in Seq(P) /\ f \in S /\ p \in P
        /\ "sets" \in h.touched /\ (\E k \in 1..i - 1 : seq[k] = "sets")
             => \E j \in 1..Len(t) : t[j].field = "sets"
    BY <1>1, <1>2, <1>4 DEF PutGood
  <2>2. p.field = f
    BY DEF PutOf
  <2>3. u = IF f \in h.touched THEN Append(t, p) ELSE t
    BY DEF PutStep, PutOf
  <2> HIDE DEF P, p, u, f
  <2>4. u \in Seq(P)
    BY <2>1, <2>3
  <2>5. ASSUME "sets" \in h.touched, NEW k \in 1..i, seq[k] = "sets"
        PROVE  \E j \in 1..Len(u) : u[j].field = "sets"
    <3>1. CASE k = i
      <4>1. u = Append(t, p) /\ p.field = "sets"
        BY <2>2, <2>3, <2>5, <3>1 DEF f
      <4>2. Len(t) \in Nat /\ Len(u) = Len(t) + 1 /\ u[Len(t) + 1] = p
        BY <2>1, <4>1
      <4> QED
        BY <4>1, <4>2
    <3>2. CASE k # i
      <4>1. PICK j \in 1..Len(t) : t[j].field = "sets"
        BY <2>1, <2>5, <3>2
      <4>2. Len(t) \in Nat /\ j \in 1..Len(u) /\ u[j] = t[j]
        BY <2>1, <2>3
      <4> QED
        BY <4>1, <4>2
    <3> QED
      BY <3>1, <3>2
  <2> QED
    BY <1>1, <2>4, <2>5 DEF PutGood, P, u, f
<1>5. PutGood(w, n, PutLoop!Pass(<<>>, seq, h, n))
  BY <1>2, <1>3, <1>4, PutLoop!Invariance
<1>6. Puts(h, seq) = PutLoop!Pass(<<>>, seq, h, n)
  BY DEF Puts, Along, AlongTo, PutLoop!Pass, PutLoop!AlongTo, PutStep, n
<1> QED
  BY <1>1, <1>5, <1>6 DEF PutGood, n

\* Puts after which the disk has the given sets, if it had the others before
PutsFor(puts, old, new) ==
    /\ IsSeq(puts)
    /\ \A i \in DOMAIN puts : /\ puts[i].field \in Fields
                              /\ puts[i].field = "sets" => puts[i].value = new
    /\ old = new \/ \E i \in DOMAIN puts : puts[i].field = "sets"

LEMMA QuietKeeps ==
    ASSUME NEW h, IsRecords(h)
    PROVE  /\ IsRecords(Quiet(h)) /\ Quiet(h).sets = h.sets /\ Quiet(h).keys = h.keys
           /\ Keeps(h, Quiet(h))
BY DEF Quiet, IsRecords, Keeps

LEMMA AppliedIs ==
    ASSUME NEW h, IsRecords(h), NEW block, Len(block.cmds) \in Nat
    PROVE  LET a == Applied(h, block)
           IN /\ IsRecords(a.records) /\ a.records.sets = BlockSets(h.sets, block)
              /\ OwnersKnown(h.keys) => OwnersKnown(a.records.keys)
              /\ PutsFor(a.puts, h.sets, a.records.sets)
<1> DEFINE h1 == apply_committed_reconfigs(Quiet(h), block)
           h2 == apply_committed_rotations(Quiet(h1), block)
           h3 == apply_committed_endpoints(Quiet(h2), block)
           h4 == apply_committed_param_updates(Quiet(h3), block)
           p1 == Puts(h1, <<"ops", "bls", "endpoints", "sets">>)
           p2 == Puts(h2, <<"ops", "keys", "bls">>)
           p3 == Puts(h3, <<"endpoints">>)
           p4 == Puts(h4, <<"params">>)
           s == BlockSets(h.sets, block)
<1>1. Applied(h, block) = [records |-> Quiet(h4), puts |-> p1 \o p2 \o p3 \o p4]
  BY DEF Applied
<1>2. /\ IsRecords(h1) /\ h1.sets = s /\ h1.keys = h.keys
      /\ "sets" \in h1.touched \/ h1.sets = h.sets
  <2>1. IsRecords(Quiet(h)) /\ Quiet(h).sets = h.sets /\ Quiet(h).keys = h.keys
    BY QuietKeeps
  <2> QED
    BY <2>1, ReconfigPass
<1> HIDE DEF h1
<1>3. IsRecords(h2) /\ Keeps(h1, h2)
  <2>1. IsRecords(Quiet(h1)) /\ Keeps(h1, Quiet(h1))
    BY <1>2, QuietKeeps
  <2>2. Keeps(Quiet(h1), h2)
    BY <2>1, RotationCommandsKeep DEF apply_committed_rotations
  <2> QED
    BY <2>1, <2>2, KeepsTrans DEF Keeps
<1> HIDE DEF h2
<1>4. IsRecords(h3) /\ Keeps(h1, h3)
  <2>1. IsRecords(Quiet(h2)) /\ Keeps(h2, Quiet(h2))
    BY <1>3, QuietKeeps
  <2>2. Keeps(Quiet(h2), h3)
    BY <2>1, EndpointsKeep
  <2> QED
    BY <1>3, <2>1, <2>2, KeepsTrans DEF Keeps
<1> HIDE DEF h3
<1>5. IsRecords(h4) /\ Keeps(h1, h4)
  <2>1. IsRecords(Quiet(h3)) /\ Keeps(h3, Quiet(h3))
    BY <1>4, QuietKeeps
  <2>2. Keeps(Quiet(h3), h4)
    BY <2>1, ParamsKeep
  <2> QED
    BY <1>4, <2>1, <2>2, KeepsTrans DEF Keeps
<1> HIDE DEF h4
<1>6. /\ IsRecords(Quiet(h4)) /\ Quiet(h4).sets = s
      /\ OwnersKnown(h.keys) => OwnersKnown(Quiet(h4).keys)
  BY <1>2, <1>5, QuietKeeps DEF Keeps
<1> DEFINE P == {PutOf(g, f) : g \in {h1, h2, h3, h4}, f \in Fields}
<1>7. \A p \in P : p.field \in Fields /\ (p.field = "sets" => p.value = s)
  <2>1. \A g \in {h1, h2, h3, h4} : g.sets = s
    BY <1>2, <1>3, <1>4, <1>5 DEF Keeps
  <2>2. ASSUME NEW g \in {h1, h2, h3, h4}, NEW f \in Fields
        PROVE  PutOf(g, f).field = f /\ (f = "sets" => PutOf(g, f).value = s)
    BY <2>1 DEF PutOf, Stored
  <2> QED
    BY <2>2
<1>8. p1 \in Seq(P) /\ p2 \in Seq(P) /\ p3 \in Seq(P) /\ p4 \in Seq(P)
  <2>1. ASSUME NEW g \in {h1, h2, h3, h4}, NEW seq \in Seq(Fields)
        PROVE  Puts(g, seq) \in Seq(P)
    <3>1. Puts(g, seq) \in Seq({PutOf(g, f) : f \in Fields})
      BY PutsAre
    <3>2. {PutOf(g, f) : f \in Fields} \subseteq P
      OBVIOUS
    <3> QED
      BY <3>1, <3>2, SeqMonotonic
  <2> HIDE DEF P
  <2>2. /\ <<"ops", "bls", "endpoints", "sets">> \in Seq(Fields)
        /\ <<"ops", "keys", "bls">> \in Seq(Fields)
        /\ <<"endpoints">> \in Seq(Fields) /\ <<"params">> \in Seq(Fields)
    BY DEF Fields
  <2> QED
    BY <2>1, <2>2
<1>9. "sets" \in h1.touched => \E j \in 1..Len(p1) : p1[j].field = "sets"
  <2> DEFINE seq == <<"ops", "bls", "endpoints", "sets">>
  <2>1. seq \in Seq(Fields) /\ 4 \in 1..Len(seq) /\ seq[4] = "sets"
    BY DEF Fields
  <2> HIDE DEF seq
  <2>2. \E k \in 1..Len(seq) : seq[k] = "sets"
    BY <2>1
  <2> QED
    BY <2>1, <2>2, PutsAre DEF seq
<1> HIDE DEF P, p1, p2, p3, p4
<1> DEFINE q == p1 \o p2 \o p3 \o p4
<1>10. q \in Seq(P) /\ \A j \in 1..Len(p1) : j \in 1..Len(q) /\ q[j] = p1[j]
  <2> DEFINE q2 == p1 \o p2
             q3 == q2 \o p3
  <2>1. q2 \in Seq(P) /\ \A j \in 1..Len(p1) : j \in 1..Len(q2) /\ q2[j] = p1[j]
    BY <1>8
  <2> HIDE DEF q2
  <2>2. q3 \in Seq(P) /\ \A j \in 1..Len(p1) : j \in 1..Len(q3) /\ q3[j] = p1[j]
    BY <1>8, <2>1
  <2> HIDE DEF q3
  <2>3. q3 \o p4 \in Seq(P)
        /\ \A j \in 1..Len(p1) : j \in 1..Len(q3 \o p4) /\ (q3 \o p4)[j] = p1[j]
    BY <1>8, <2>2
  <2> QED
    BY <2>3 DEF q3, q2
<1>11. PutsFor(q, h.sets, s)
  <2> HIDE DEF q
  <2>1. IsSeq(q) /\ DOMAIN q = 1..Len(q)
    BY <1>10, SeqIs, SeqParts
  <2>2. \A i \in DOMAIN q : q[i] \in P
    BY <1>10, <2>1
  <2>3. \A i \in DOMAIN q : q[i].field \in Fields /\ (q[i].field = "sets" => q[i].value = s)
    BY <1>7, <2>2
  <2>4. h.sets = s \/ \E i \in DOMAIN q : q[i].field = "sets"
    BY <1>2, <1>9, <1>10, <2>1
  <2> QED
    BY <2>1, <2>3, <2>4 DEF PutsFor
<1> QED
  BY <1>1, <1>6, <1>11

-----------------------------------------------------------------------------
(***************************************************************************)
(* The inductive invariant.                                                *)
(***************************************************************************)
ChainOK ==
    /\ IsSeq(chain)
    /\ \A i \in 1..Len(chain) : chain[i].view = i /\ chain[i].cmds \in Menu

MemOK == IsRecords(mem) /\ WellSets(mem.sets) /\ OwnersKnown(mem.keys)

\* The sets on disk are older ones; nothing is written before the first commit.
DiskOK ==
    /\ DOMAIN disk \subseteq Fields
    /\ "sets" \in DOMAIN disk => WellSets(disk["sets"]) /\ height > 0

TodoOK ==
    /\ IsSeq(todo)
    /\ \A i \in DOMAIN todo : /\ todo[i].field \in Fields
                              /\ todo[i].field = "sets" => todo[i].value = mem.sets /\ height > 0
    /\ status # "up" => todo = <<>>

\* Unless a write was lost, the disk has the sets, or will have them after
\* the puts that remain.
Written ==
    ~torn => \/ Read("sets", GenesisRecords.sets) = mem.sets
             \/ \E i \in DOMAIN todo : todo[i].field = "sets"

\* With the whole chain on disk, or with no write lost, the sets are those of
\* the chain.  (`mem` keeps its value while the node is down.)
OnChain == Retention = 0 \/ ~torn => mem.sets = ChainSets(chain, height)

Basic ==
    /\ height \in 0..Len(chain)
    /\ status \in {"up", "down", "refused"} /\ torn \in BOOLEAN
    /\ crashes \in 0..MaxCrashes

GovInv == Basic /\ ChainOK /\ MemOK /\ DiskOK /\ TodoOK /\ Written /\ OnChain

LEMMA GenesisParts ==
    /\ IsRecords(GenesisRecords) /\ GenesisRecords.sets = from_genesis(Genesis)
    /\ OwnersKnown(GenesisRecords.keys)
<1>1. IsRecords(GenesisRecords) /\ GenesisRecords.sets = from_genesis(Genesis)
      /\ GenesisRecords.keys = KeyHistory(DOMAIN Genesis)
  BY DEF GenesisRecords, IsRecords
<1>2. OwnersKnown(KeyHistory(DOMAIN Genesis))
  BY DEF OwnersKnown, KeyHistory
<1> QED
  BY <1>1, <1>2

LEMMA InitInv == Init => GovInv
<1> SUFFICES ASSUME Init
             PROVE  GovInv
  OBVIOUS
<1>0. IsSeq(<<>>) /\ DOMAIN <<>> = {} /\ Len(<<>>) = 0
  <2>1. <<>> \in Seq({}) /\ Len(<<>>) = 0
    OBVIOUS
  <2>2. IsSeq(<<>>)
    BY <2>1, SeqIs
  <2> QED
    BY <2>1, <2>2, SeqParts
<1>1. Basic
  <2>1. torn \in BOOLEAN
    BY Zenon DEF Init
  <2>2. height \in 0..Len(chain) /\ status \in {"up", "down", "refused"}
    BY <1>0 DEF Init
  <2>3. crashes \in 0..MaxCrashes
    BY GovernanceAssumption DEF Init
  <2> QED
    BY <2>1, <2>2, <2>3 DEF Basic
<1>2. ChainOK
  BY <1>0 DEF Init, ChainOK
<1>3. MemOK
  BY GenesisParts, GenesisWell DEF Init, MemOK
<1>4. DiskOK /\ TodoOK
  BY <1>0 DEF Init, DiskOK, TodoOK
<1>5. Written
  BY DEF Init, Written, Read
<1>6. OnChain
  BY GenesisParts, ChainSetsStep DEF Init, OnChain
<1> QED
  BY <1>1, <1>2, <1>3, <1>4, <1>5, <1>6 DEF GovInv

\* What Applied gives for the block that is committed next
LEMMA NextBlock ==
    ASSUME GovInv, height + 4 <= Len(chain)
    PROVE  LET a == Applied(mem, chain[height + 1])
           IN /\ height + 1 \in 1..Len(chain) /\ height \in Nat /\ Len(chain) \in Nat
              /\ IsRecords(a.records) /\ OwnersKnown(a.records.keys)
              /\ WellSets(a.records.sets) /\ PutsFor(a.puts, mem.sets, a.records.sets)
              /\ a.records.sets = BlockSets(mem.sets, chain[height + 1])
              /\ \/ a.records.sets = mem.sets
                 \/ Scheduled(mem.sets, a.records.sets, height + 1)
<1> DEFINE block == chain[height + 1]
<1>1. height + 1 \in 1..Len(chain) /\ height \in Nat /\ Len(chain) \in Nat
  BY SeqParts DEF GovInv, Basic, ChainOK
<1>2. block.view = height + 1 /\ block.cmds \in Menu /\ block.view \in Nat
  BY <1>1 DEF GovInv, ChainOK
<1> HIDE DEF block
<1>3. Len(block.cmds) \in Nat
  BY <1>2, Commands
<1>4. IsRecords(mem) /\ WellSets(mem.sets) /\ OwnersKnown(mem.keys)
  BY DEF GovInv, MemOK
<1>5. LET a == Applied(mem, block)
      IN /\ IsRecords(a.records) /\ a.records.sets = BlockSets(mem.sets, block)
         /\ OwnersKnown(mem.keys) => OwnersKnown(a.records.keys)
         /\ PutsFor(a.puts, mem.sets, a.records.sets)
  BY <1>3, <1>4, AppliedIs
<1>6. /\ WellSets(BlockSets(mem.sets, block))
      /\ BlockSets(mem.sets, block) = mem.sets
         \/ Scheduled(mem.sets, BlockSets(mem.sets, block), height + 1)
  BY <1>2, <1>4, BlockSetsShape
<1> QED
  BY <1>1, <1>4, <1>5, <1>6 DEF block

\* The sets of the records a node starts with
LEMMA RecoverParts ==
    ASSUME GovInv
    PROVE  /\ IsRecords(recover) /\ recover.sets = Read("sets", GenesisRecords.sets)
           /\ WellSets(recover.sets) /\ OwnersKnown(recover.keys)
<1> DEFINE sets == Read("sets", GenesisRecords.sets)
           keys == IF "keys" \in DOMAIN disk THEN from_persisted(disk["keys"])
                   ELSE from_set_history(sets)
<1>1. IsRecords(recover) /\ recover.sets = sets /\ recover.keys = keys
  BY DEF recover, IsRecords
<1>2. WellSets(sets)
  BY GenesisParts, GenesisWell DEF Read, GovInv, DiskOK
<1>3. OwnersKnown(keys)
  <2>1. ASSUME NEW byId
        PROVE  OwnersKnown(from_persisted(byId))
    BY DEF OwnersKnown, from_persisted
  <2>2. OwnersKnown(from_set_history(sets))
    BY DEF OwnersKnown, from_set_history
  <2> QED
    BY <2>1, <2>2
<1> QED
  BY <1>1, <1>2, <1>3

\* A node that starts has the sets of the chain.
LEMMA StartsOnChain ==
    ASSUME GovInv, status = "down", Starts, Retention = 0 \/ ~torn
    PROVE  recover.sets = ChainSets(chain, height)
<1>1. IsRecords(recover) /\ recover.sets = Read("sets", GenesisRecords.sets)
      /\ WellSets(recover.sets)
  BY RecoverParts
<1>2. CASE ~torn
  <2>1. todo = <<>>
    BY DEF GovInv, TodoOK
  <2>2. recover.sets = mem.sets
    BY <1>1, <1>2, <2>1 DEF GovInv, Written
  <2> QED
    BY <1>2, <2>2 DEF GovInv, OnChain
<1>3. CASE Retention = 0
  <2>1. CASE height = 0
    <3>1. recover.sets = from_genesis(Genesis)
      BY <1>1, <2>1, GenesisParts DEF GovInv, DiskOK, Read
    <3> QED
      BY <2>1, <3>1, ChainSetsStep
  <2>2. CASE height # 0
    <3>1. ~Pruned
      BY <1>3 DEF Pruned
    <3>2. Rebuilt(recover, height).sets = recover.sets
      BY <2>2, <3>1 DEF Starts, verify_persisted_history_consistency
    <3>3. height \in Nat /\ \A i \in 1..height : Len(chain[i].cmds) \in Nat
      <4>1. height \in 0..Len(chain) /\ Len(chain) \in Nat
        BY SeqParts DEF GovInv, Basic, ChainOK
      <4> QED
        BY <4>1, Commands DEF GovInv, ChainOK
    <3>4. recover.sets[1].val = Genesis
      BY <1>1 DEF WellSets, Entry
    <3>5. Rebuilt(recover, height).sets = ChainSets(chain, height)
      BY <1>1, <3>3, <3>4, RebuiltSets
    <3> QED
      BY <3>2, <3>5
  <2> QED
    BY <2>1, <2>2
<1> QED
  BY <1>2, <1>3

LEMMA ExtendStep ==
    ASSUME GovInv, NEW cmds \in Menu, Extend(cmds)
    PROVE  GovInv'
<1> DEFINE n == Len(chain)
<1>0. PICK claim : chain' = Append(chain, [view |-> n + 1, cmds |-> cmds, claim |-> claim])
  BY DEF Extend
<1>1. UNCHANGED <<height, disk, mem, todo, status, torn, crashes>>
  BY DEF Extend
<1> DEFINE b == [view |-> n + 1, cmds |-> cmds, claim |-> claim]
<1>2. b.view = n + 1 /\ b.cmds = cmds
  OBVIOUS
<1> HIDE DEF b
<1>3. /\ n \in Nat /\ IsSeq(chain') /\ Len(chain') = n + 1
      /\ \A i \in 1..n : chain'[i] = chain[i]
      /\ chain'[n + 1] = b
  BY <1>0, SeqAppend, SeqParts DEF GovInv, ChainOK, b
<1>4. ChainOK'
  BY <1>2, <1>3 DEF GovInv, ChainOK
<1>5. Basic'
  BY <1>1, <1>3 DEF GovInv, Basic
<1>6. MemOK' /\ DiskOK' /\ TodoOK'
  BY <1>1 DEF GovInv, MemOK, DiskOK, TodoOK
<1>7. Written'
  BY <1>1 DEF GovInv, Written, Read
<1>8. OnChain'
  <2>1. height \in Nat /\ \A i \in 1..height : chain'[i] = chain[i]
    BY <1>3 DEF GovInv, Basic
  <2>2. ChainSets(chain', height) = ChainSets(chain, height)
    BY <2>1, ChainSetsPrefix
  <2> QED
    BY <1>1, <2>2 DEF GovInv, OnChain
<1> QED
  BY <1>4, <1>5, <1>6, <1>7, <1>8 DEF GovInv

LEMMA CommitStep ==
    ASSUME GovInv, Commit
    PROVE  /\ GovInv'
           /\ height' = height + 1
           /\ mem'.sets = mem.sets \/ Scheduled(mem.sets, mem'.sets, height')
<1> DEFINE a == Applied(mem, chain[height + 1])
<1>1. /\ height' = height + 1 /\ mem' = a.records /\ todo' = a.puts
      /\ UNCHANGED <<chain, disk, status, torn, crashes>>
      /\ status = "up" /\ todo = <<>> /\ height + 4 <= Len(chain)
  BY DEF Commit
<1>2. /\ height + 1 \in 1..Len(chain) /\ height \in Nat /\ Len(chain) \in Nat
      /\ IsRecords(a.records) /\ OwnersKnown(a.records.keys)
      /\ WellSets(a.records.sets) /\ PutsFor(a.puts, mem.sets, a.records.sets)
      /\ a.records.sets = BlockSets(mem.sets, chain[height + 1])
      /\ a.records.sets = mem.sets \/ Scheduled(mem.sets, a.records.sets, height + 1)
  BY <1>1, NextBlock
<1> HIDE DEF a
<1>3. Basic' /\ ChainOK' /\ MemOK'
  BY <1>1, <1>2 DEF GovInv, Basic, ChainOK, MemOK
<1>4. DiskOK'
  BY <1>1, <1>2 DEF GovInv, DiskOK
<1>5. TodoOK'
  BY <1>1, <1>2 DEF PutsFor, TodoOK
<1>6. Written'
  <2>1. ~torn => Read("sets", GenesisRecords.sets) = mem.sets
    BY <1>1 DEF GovInv, Written
  <2>2. Read("sets", GenesisRecords.sets)' = Read("sets", GenesisRecords.sets)
    BY <1>1 DEF Read
  <2>3. mem.sets = mem'.sets \/ \E i \in DOMAIN todo' : todo'[i].field = "sets"
    BY <1>1, <1>2 DEF PutsFor
  <2> QED
    BY <1>1, <2>1, <2>2, <2>3 DEF Written
<1>7. OnChain'
  <2>1. ChainSets(chain, height + 1) = BlockSets(ChainSets(chain, height), chain[height + 1])
    BY <1>2, ChainSetsStep
  <2> QED
    BY <1>1, <1>2, <2>1 DEF GovInv, OnChain
<1> QED
  BY <1>1, <1>2, <1>3, <1>4, <1>5, <1>6, <1>7 DEF GovInv

LEMMA TailOf ==
    ASSUME NEW s, IsSeq(s), s # <<>>
    PROVE  /\ IsSeq(Tail(s)) /\ Len(s) \in Nat \ {0}
           /\ DOMAIN s = 1..Len(s) /\ DOMAIN Tail(s) = 1..Len(s) - 1
           /\ \A i \in 1..Len(s) - 1 : Tail(s)[i] = s[i + 1]
           /\ Head(s) = s[1]
<1>1. s \in Seq(ToSet(s))
  BY DEF IsSeq
<1>2. Tail(s) \in Seq(ToSet(s)) /\ Len(Tail(s)) = Len(s) - 1 /\ Len(s) \in Nat \ {0}
      /\ \A i \in 1..Len(s) - 1 : Tail(s)[i] = s[i + 1]
  BY <1>1
<1>3. IsSeq(Tail(s))
  BY <1>2, SeqIs
<1> QED
  BY <1>2, <1>3, SeqParts

LEMMA PutDone ==
    ASSUME GovInv, Put
    PROVE  GovInv'
<1> DEFINE f == Head(todo).field
           x == Head(todo).value
<1>1. /\ status = "up" /\ todo # <<>> /\ todo' = Tail(todo)
      /\ disk' = [g \in DOMAIN disk \cup {f} |-> IF g = f THEN x ELSE disk[g]]
      /\ UNCHANGED <<chain, height, mem, status, torn, crashes>>
  BY DEF Put
<1>2. /\ IsSeq(todo') /\ Len(todo) \in Nat \ {0} /\ DOMAIN todo = 1..Len(todo)
      /\ DOMAIN todo' = 1..Len(todo) - 1
      /\ \A i \in 1..Len(todo) - 1 : todo'[i] = todo[i + 1]
      /\ f = todo[1].field /\ x = todo[1].value
  BY <1>1, TailOf DEF GovInv, TodoOK
<1> HIDE DEF f, x
<1>3. f \in Fields /\ (f = "sets" => x = mem.sets /\ height > 0)
  BY <1>2 DEF GovInv, TodoOK
<1>4. Basic' /\ ChainOK' /\ MemOK' /\ OnChain'
  BY <1>1 DEF GovInv, Basic, ChainOK, MemOK, OnChain
<1>5. DiskOK'
  BY <1>1, <1>3 DEF GovInv, DiskOK, MemOK
<1>6. TodoOK'
  BY <1>1, <1>2 DEF GovInv, TodoOK
<1>7. Written'
  <2>1. CASE f = "sets"
    BY <1>1, <1>3, <2>1 DEF Written, Read
  <2>2. CASE f # "sets"
    <3>1. Read("sets", GenesisRecords.sets)' = Read("sets", GenesisRecords.sets)
      BY <1>1, <2>2 DEF Read
    <3>2. (\E i \in DOMAIN todo : todo[i].field = "sets")
             => \E i \in DOMAIN todo' : todo'[i].field = "sets"
      <4> SUFFICES ASSUME NEW i \in DOMAIN todo, todo[i].field = "sets"
                   PROVE  \E j \in DOMAIN todo' : todo'[j].field = "sets"
        OBVIOUS
      <4>1. i # 1 /\ i - 1 \in DOMAIN todo' /\ i - 1 \in 1..Len(todo) - 1 /\ (i - 1) + 1 = i
        BY <1>2, <2>2
      <4> QED
        BY <1>2, <4>1
    <3> QED
      BY <1>1, <3>1, <3>2 DEF GovInv, Written
  <2> QED
    BY <2>1, <2>2
<1> QED
  BY <1>4, <1>5, <1>6, <1>7 DEF GovInv

LEMMA PutLost ==
    ASSUME GovInv, PutFails
    PROVE  GovInv'
<1>1. /\ status = "up" /\ todo # <<>> /\ todo' = Tail(todo)
      /\ torn' = TRUE /\ crashes < MaxCrashes /\ crashes' = crashes + 1
      /\ UNCHANGED <<chain, height, disk, mem, status>>
  BY DEF PutFails
<1>2. /\ IsSeq(todo') /\ Len(todo) \in Nat \ {0} /\ DOMAIN todo = 1..Len(todo)
      /\ DOMAIN todo' = 1..Len(todo) - 1
      /\ \A i \in 1..Len(todo) - 1 : todo'[i] = todo[i + 1]
  BY <1>1, TailOf DEF GovInv, TodoOK
<1>3. Basic'
  <2>1. torn' \in BOOLEAN
    BY <1>1, Zenon
  <2>2. crashes' \in 0..MaxCrashes
    BY <1>1, GovernanceAssumption DEF GovInv, Basic
  <2> QED
    BY <1>1, <2>1, <2>2 DEF GovInv, Basic
<1>4. ChainOK' /\ MemOK' /\ DiskOK'
  BY <1>1 DEF GovInv, ChainOK, MemOK, DiskOK
<1>5. TodoOK'
  BY <1>1, <1>2 DEF GovInv, TodoOK
<1>6. Written'
  BY <1>1 DEF Written
<1>7. OnChain'
  BY <1>1 DEF GovInv, OnChain
<1> QED
  BY <1>3, <1>4, <1>5, <1>6, <1>7 DEF GovInv

LEMMA CrashStep ==
    ASSUME GovInv, Crash
    PROVE  GovInv'
<1>1. /\ status = "up" /\ crashes < MaxCrashes /\ status' = "down"
      /\ torn' = (torn \/ todo # <<>>) /\ todo' = <<>> /\ crashes' = crashes + 1
      /\ UNCHANGED <<chain, height, disk, mem>>
  BY DEF Crash
<1>2. IsSeq(<<>>) /\ DOMAIN <<>> = {}
  <2>1. <<>> \in Seq({}) /\ Len(<<>>) = 0
    OBVIOUS
  <2>2. IsSeq(<<>>)
    BY <2>1, SeqIs
  <2> QED
    BY <2>1, <2>2, SeqParts
<1>3. Basic'
  <2>1. torn' \in BOOLEAN
    BY <1>1, Zenon
  <2>2. crashes' \in 0..MaxCrashes
    BY <1>1, GovernanceAssumption DEF GovInv, Basic
  <2> QED
    BY <1>1, <2>1, <2>2 DEF GovInv, Basic
<1>4. ChainOK' /\ MemOK' /\ DiskOK'
  BY <1>1 DEF GovInv, ChainOK, MemOK, DiskOK
<1>5. TodoOK'
  BY <1>1, <1>2 DEF TodoOK
<1>6. Written'
  <2> SUFFICES ASSUME ~torn'
               PROVE  Read("sets", GenesisRecords.sets)' = mem'.sets
    BY DEF Written
  <2>1. ~torn /\ todo = <<>>
    BY <1>1
  <2>2. Read("sets", GenesisRecords.sets) = mem.sets
    BY <1>2, <2>1 DEF GovInv, Written
  <2> QED
    BY <1>1, <2>2 DEF Read
<1>7. OnChain'
  BY <1>1 DEF GovInv, OnChain
<1> QED
  BY <1>3, <1>4, <1>5, <1>6, <1>7 DEF GovInv

LEMMA RestartStep ==
    ASSUME GovInv, Restart
    PROVE  /\ GovInv'
           /\ height' = height
           /\ Retention = 0 => mem'.sets = mem.sets
<1>1. /\ status = "down" /\ status' = (IF Starts THEN "up" ELSE "refused")
      /\ mem' = (IF Starts THEN recover ELSE mem)
      /\ UNCHANGED <<chain, height, disk, todo, torn, crashes>>
  BY DEF Restart
<1>2. /\ IsRecords(recover) /\ recover.sets = Read("sets", GenesisRecords.sets)
      /\ WellSets(recover.sets) /\ OwnersKnown(recover.keys)
  BY RecoverParts
<1>3. todo = <<>>
  BY <1>1 DEF GovInv, TodoOK
<1>4. Starts /\ (Retention = 0 \/ ~torn) => recover.sets = ChainSets(chain, height)
  BY <1>1, StartsOnChain
<1> HIDE DEF recover
<1>5. Basic' /\ ChainOK' /\ DiskOK'
  BY <1>1 DEF GovInv, Basic, ChainOK, DiskOK
<1>6. MemOK'
  BY <1>1, <1>2 DEF GovInv, MemOK
<1>7. TodoOK'
  <2>1. DOMAIN todo = {}
    BY <1>3
  <2> QED
    BY <1>1, <1>3, <2>1 DEF GovInv, TodoOK
<1>8. Read("sets", GenesisRecords.sets)' = Read("sets", GenesisRecords.sets)
  BY <1>1 DEF Read
<1>9. Written'
  BY <1>1, <1>2, <1>8 DEF GovInv, Written
<1>10. OnChain'
  BY <1>1, <1>4 DEF GovInv, OnChain
<1>11. Retention = 0 => mem'.sets = mem.sets
  BY <1>1, <1>4 DEF GovInv, OnChain
<1> QED
  BY <1>1, <1>5, <1>6, <1>7, <1>9, <1>10, <1>11 DEF GovInv

LEMMA NextInv == GovInv /\ [Next]_vars => GovInv'
<1> SUFFICES ASSUME GovInv, [Next]_vars
             PROVE  GovInv'
  OBVIOUS
<1>1. CASE \E cmds \in Menu : Extend(cmds)
  BY <1>1, ExtendStep
<1>2. CASE Commit
  BY <1>2, CommitStep
<1>3. CASE Put
  BY <1>3, PutDone
<1>4. CASE PutFails
  BY <1>4, PutLost
<1>5. CASE Crash
  BY <1>5, CrashStep
<1>6. CASE Restart
  BY <1>6, RestartStep
<1>7. CASE UNCHANGED vars
  BY <1>7 DEF vars, GovInv, Basic, ChainOK, MemOK, DiskOK, TodoOK, Written, OnChain, Read
<1> QED
  BY <1>1, <1>2, <1>3, <1>4, <1>5, <1>6, <1>7 DEF Next

LEMMA InvAlways == Spec => []GovInv
BY InitInv, NextInv, PTL DEF Spec

LEMMA InvType == GovInv => TypeOK
<1> SUFFICES ASSUME GovInv
             PROVE  TypeOK
  OBVIOUS
<1>1. /\ height \in 0..Len(chain) /\ DOMAIN disk \subseteq Fields
      /\ status \in {"up", "down", "refused"} /\ torn \in BOOLEAN
      /\ crashes \in 0..MaxCrashes
      /\ \A i \in DOMAIN todo : todo[i].field \in Fields
  BY DEF GovInv, Basic, DiskOK, TodoOK
<1>2. /\ mem.sets[1] = Entry(0, Genesis)
      /\ \A i \in DOMAIN mem.sets :
            /\ \A id \in DOMAIN mem.sets[i].val : mem.sets[i].val[id] \in Nat \ {0}
            /\ i > 1 => mem.sets[i - 1].from < mem.sets[i].from
  BY DEF GovInv, MemOK, WellSets, Weights
<1>3. \A k \in DOMAIN mem.keys.owner : mem.keys.owner[k] \in DOMAIN mem.keys.byId
  BY DEF GovInv, MemOK, OwnersKnown
<1> QED
  BY <1>1, <1>2, <1>3 DEF TypeOK

LEMMA InvSets == GovInv /\ (Retention = 0 \/ ~torn) => SetsMatchChain
<1> SUFFICES ASSUME GovInv, Retention = 0 \/ ~torn
             PROVE  SetsMatchChain
  OBVIOUS
<1>1. height \in Nat /\ \A i \in 1..height : Len(chain[i].cmds) \in Nat
  <2>1. height \in 0..Len(chain) /\ Len(chain) \in Nat
    BY SeqParts DEF GovInv, Basic, ChainOK
  <2> QED
    BY <2>1, Commands DEF GovInv, ChainOK
<1>2. IsRecords(GenesisRecords) /\ GenesisRecords.sets[1].val = Genesis
  BY GenesisParts, GenesisWell DEF WellSets, Entry
<1>3. Rebuilt(GenesisRecords, height).sets = ChainSets(chain, height)
  BY <1>1, <1>2, RebuiltSets
<1> QED
  BY <1>3 DEF SetsMatchChain, GovInv, OnChain

-----------------------------------------------------------------------------
(***************************************************************************)
(* The two records of keys.                                                *)
(***************************************************************************)
IsHistory(q) == IsSeq(q) /\ q # <<>> /\ \A i \in DOMAIN q : q[i].from \in Nat

LEMMA HistoryParts ==
    ASSUME NEW q, IsHistory(q)
    PROVE  /\ Len(q) \in Nat /\ Len(q) >= 1 /\ DOMAIN q = 1..Len(q)
           /\ Last(q) = q[Len(q)] /\ Last(q).from \in Nat /\ q[1].from \in Nat
<1>1. Len(q) \in Nat /\ Len(q) >= 1 /\ DOMAIN q = 1..Len(q) /\ Last(q) = q[Len(q)]
  BY SeqParts DEF IsHistory
<1>2. 1 \in DOMAIN q /\ Len(q) \in DOMAIN q
  BY <1>1
<1> QED
  BY <1>1, <1>2 DEF IsHistory

LEMMA HistoryOne ==
    ASSUME NEW e, e.from \in Nat
    PROVE  IsHistory(<<e>>) /\ Len(<<e>>) = 1 /\ <<e>>[1] = e /\ DOMAIN <<e>> = {1}
<1>1. <<e>> \in Seq({e}) /\ <<e>>[1] = e /\ Len(<<e>>) = 1 /\ <<e>> # <<>> /\ DOMAIN <<e>> = {1}
  OBVIOUS
<1>2. IsSeq(<<e>>)
  BY <1>1, SeqIs
<1> QED
  BY <1>1, <1>2 DEF IsHistory

LEMMA HistoryAppend ==
    ASSUME NEW q, IsHistory(q), NEW e, e.from \in Nat
    PROVE  /\ IsHistory(Append(q, e)) /\ Len(Append(q, e)) = Len(q) + 1
           /\ DOMAIN Append(q, e) = 1..Len(q) + 1
           /\ \A i \in 1..Len(q) : Append(q, e)[i] = q[i]
           /\ Append(q, e)[Len(q) + 1] = e
<1>1. Len(q) \in Nat /\ DOMAIN q = 1..Len(q)
  BY HistoryParts
<1> DEFINE r == Append(q, e)
<1>2. /\ IsSeq(r) /\ r # <<>> /\ Len(r) = Len(q) + 1 /\ DOMAIN r = 1..Len(q) + 1
      /\ \A i \in 1..Len(q) : r[i] = q[i]
      /\ r[Len(q) + 1] = e
  BY SeqAppend DEF IsHistory
<1> HIDE DEF r
<1>3. ASSUME NEW i \in DOMAIN r
      PROVE  r[i].from \in Nat
  BY <1>1, <1>2 DEF IsHistory
<1> QED
  BY <1>2, <1>3 DEF IsHistory, r

LEMMA HistoryFront ==
    ASSUME NEW q, IsHistory(q), Len(q) >= 2
    PROVE  /\ IsHistory(Front(q)) /\ Len(Front(q)) = Len(q) - 1
           /\ DOMAIN Front(q) = 1..Len(q) - 1
           /\ \A i \in 1..Len(q) - 1 : Front(q)[i] = q[i]
<1> DEFINE n == Len(q)
           r == SubSeq(q, 1, n - 1)
<1>1. n \in Nat /\ DOMAIN q = 1..n
  BY HistoryParts
<1>2. q \in Seq(ToSet(q))
  BY DEF IsHistory, IsSeq
<1>3. r \in Seq(ToSet(q)) /\ Len(r) = n - 1 /\ \A i \in 1..n - 1 : r[i] = q[i]
  BY <1>1, <1>2
<1>4. Front(q) = r
  BY DEF Front
<1> HIDE DEF r, n
<1>5. IsSeq(r) /\ r # <<>> /\ DOMAIN r = 1..n - 1
  <2>1. IsSeq(r)
    BY <1>3, SeqIs
  <2>2. DOMAIN r = 1..n - 1
    BY <1>3, <2>1, SeqParts
  <2>3. r # <<>>
    BY <1>1, <1>3 DEF n
  <2> QED
    BY <2>1, <2>2, <2>3
<1>6. \A i \in DOMAIN r : r[i].from \in Nat
  BY <1>1, <1>3, <1>5 DEF IsHistory
<1> QED
  BY <1>3, <1>4, <1>5, <1>6 DEF IsHistory, n

\* The consensus keys and the BLS keys of a validator: the same views after
\* the first.
Matches(k, b) ==
    /\ IsHistory(k) /\ Len(k) = Len(b) /\ b[1].from <= k[1].from
    /\ \A i \in DOMAIN b : i > 1 => k[i].from = b[i].from

LEMMA MatchesLast ==
    ASSUME NEW k, NEW b, IsHistory(b), Matches(k, b)
    PROVE  /\ Last(b).from <= Last(k).from
           /\ Len(k) >= 2 => Last(b).from = Last(k).from
<1>1. /\ Len(b) \in Nat /\ Len(b) >= 1 /\ DOMAIN b = 1..Len(b) /\ Last(b) = b[Len(b)]
      /\ b[1].from \in Nat /\ Last(b).from \in Nat
  BY HistoryParts
<1>2. Len(k) = Len(b) /\ Last(k) = k[Len(k)] /\ k[1].from \in Nat
  BY HistoryParts DEF Matches
<1> QED
  BY <1>1, <1>2 DEF Matches

LEMMA MatchesAppend ==
    ASSUME NEW k, NEW b, IsHistory(b), Matches(k, b), NEW d, NEW e,
           d.from \in Nat, e.from = d.from
    PROVE  Matches(Append(k, d), Append(b, e))
<1> DEFINE k2 == Append(k, d)
           b2 == Append(b, e)
<1>1. Len(b) \in Nat /\ Len(b) >= 1 /\ DOMAIN b = 1..Len(b) /\ Len(k) = Len(b)
  BY HistoryParts DEF Matches
<1>2. /\ IsHistory(k2) /\ Len(k2) = Len(k) + 1
      /\ \A i \in 1..Len(k) : k2[i] = k[i]
      /\ k2[Len(k) + 1] = d
  BY HistoryAppend DEF Matches
<1>3. /\ Len(b2) = Len(b) + 1 /\ DOMAIN b2 = 1..Len(b) + 1
      /\ \A i \in 1..Len(b) : b2[i] = b[i]
      /\ b2[Len(b) + 1] = e
  BY HistoryAppend
<1> HIDE DEF k2, b2
<1>4. b2[1] = b[1] /\ k2[1] = k[1]
  BY <1>1, <1>2, <1>3
<1>5. ASSUME NEW i \in DOMAIN b2, i > 1
      PROVE  k2[i].from = b2[i].from
  <2>1. CASE i = Len(b) + 1
    BY <1>1, <1>2, <1>3, <2>1
  <2>2. CASE i \in 1..Len(b)
    BY <1>1, <1>2, <1>3, <1>5, <2>2 DEF Matches
  <2> QED
    BY <1>1, <1>3, <2>1, <2>2
<1> QED
  BY <1>1, <1>2, <1>3, <1>4, <1>5 DEF Matches, k2, b2

LEMMA MatchesFront ==
    ASSUME NEW k, NEW b, IsHistory(b), Matches(k, b), Len(b) >= 2
    PROVE  Matches(Front(k), Front(b))
<1>1. Len(b) \in Nat /\ DOMAIN b = 1..Len(b) /\ Len(k) = Len(b) /\ IsHistory(k)
  BY HistoryParts DEF Matches
<1>2. /\ IsHistory(Front(k)) /\ Len(Front(k)) = Len(k) - 1
      /\ \A i \in 1..Len(k) - 1 : Front(k)[i] = k[i]
  BY <1>1, HistoryFront
<1>3. /\ Len(Front(b)) = Len(b) - 1 /\ DOMAIN Front(b) = 1..Len(b) - 1
      /\ \A i \in 1..Len(b) - 1 : Front(b)[i] = b[i]
  BY HistoryFront
<1> DEFINE k2 == Front(k)
           b2 == Front(b)
<1> HIDE DEF k2, b2
<1>4. b2[1] = b[1] /\ k2[1] = k[1]
  BY <1>1, <1>2, <1>3 DEF k2, b2
<1>5. ASSUME NEW i \in DOMAIN b2, i > 1
      PROVE  k2[i].from = b2[i].from
  BY <1>1, <1>2, <1>3, <1>5 DEF Matches, k2, b2
<1> QED
  BY <1>1, <1>2, <1>3, <1>4, <1>5 DEF Matches, k2, b2

\* The first set that has a validator takes effect at v.
Begins(sets, id, v) ==
    \E i \in DOMAIN sets :
        /\ id \in DOMAIN sets[i].val /\ sets[i].from = v
        /\ \A j \in DOMAIN sets : j < i => id \notin DOMAIN sets[j].val

\* A history of BLS keys begins with the membership.
IsBls(sets, id, b) ==
    /\ IsHistory(b) /\ Begins(sets, id, b[1].from)
    /\ \A i \in DOMAIN b : b[i].val # NoKey

\* Every member ever has BLS keys, and those that have consensus keys have
\* them for the same views, except that these may have begun later.
Linked(sets, byId, bls) ==
    /\ \A id \in DOMAIN bls : IsBls(sets, id, bls[id])
    /\ \A i \in DOMAIN sets : DOMAIN sets[i].val \subseteq DOMAIN bls
    /\ \A id \in DOMAIN byId : id \in DOMAIN bls /\ Matches(byId[id], bls[id])
    /\ \A id \in DOMAIN bls : id \notin DOMAIN byId => Len(bls[id]) = 1

\* The consensus keys begin with the membership too.  The pure version, which
\* adds keys itself, does not keep this: the key of a new member may be taken
\* by a rotation that is cancelled later.
Heads(sets, byId) == \A id \in DOMAIN byId : Begins(sets, id, byId[id][1].from)

\* What a pass keeps: with x also the heads
Sound(h, x) ==
    /\ IsRecords(h) /\ OwnersKnown(h.keys) /\ WellSets(h.sets)
    /\ Linked(h.sets, h.keys.byId, h.bls)
    /\ x => Heads(h.sets, h.keys.byId)

LEMMA SoundSame ==
    ASSUME NEW h, NEW x, Sound(h, x), NEW g, IsRecords(g),
           g.sets = h.sets, g.keys = h.keys, g.bls = h.bls
    PROVE  Sound(g, x)
BY DEF Sound

\* The same change to both histories of a validator
LEMMA SoundUpdate ==
    ASSUME NEW h, NEW x, Sound(h, x), NEW g, IsRecords(g), OwnersKnown(g.keys),
           g.sets = h.sets, NEW id \in DOMAIN h.keys.byId, NEW k, NEW b,
           g.keys.byId = [h.keys.byId EXCEPT ![id] = k], g.bls = [h.bls EXCEPT ![id] = b],
           IsHistory(b), Matches(k, b), \A i \in DOMAIN b : b[i].val # NoKey,
           k[1] = h.keys.byId[id][1], b[1] = h.bls[id][1]
    PROVE  Sound(g, x)
<1> DEFINE sets == h.sets
           byId == h.keys.byId
           bls == h.bls
           byId2 == g.keys.byId
           bls2 == g.bls
<1>1. /\ \A y \in DOMAIN bls : IsBls(sets, y, bls[y])
      /\ \A i \in DOMAIN sets : DOMAIN sets[i].val \subseteq DOMAIN bls
      /\ \A y \in DOMAIN byId : y \in DOMAIN bls /\ Matches(byId[y], bls[y])
      /\ \A y \in DOMAIN bls : y \notin DOMAIN byId => Len(bls[y]) = 1
  BY DEF Sound, Linked
<1>2. id \in DOMAIN byId /\ id \in DOMAIN bls
  BY <1>1
<1>3. /\ DOMAIN byId2 = DOMAIN byId /\ byId2[id] = k
      /\ \A y \in DOMAIN byId : y # id => byId2[y] = byId[y]
  BY <1>2
<1>4. /\ DOMAIN bls2 = DOMAIN bls /\ bls2[id] = b
      /\ \A y \in DOMAIN bls : y # id => bls2[y] = bls[y]
  BY <1>2
<1>5. b[1] = bls[id][1] /\ k[1] = byId[id][1]
  OBVIOUS
<1> HIDE DEF sets, byId, bls, byId2, bls2
<1>6. IsBls(sets, id, b)
  <2>1. Begins(sets, id, bls[id][1].from)
    BY <1>1, <1>2 DEF IsBls
  <2> QED
    BY <1>5, <2>1 DEF IsBls
<1>7. \A y \in DOMAIN bls2 : IsBls(sets, y, bls2[y])
  BY <1>1, <1>4, <1>6
<1>8. \A y \in DOMAIN byId2 : y \in DOMAIN bls2 /\ Matches(byId2[y], bls2[y])
  BY <1>1, <1>3, <1>4
<1>9. \A y \in DOMAIN bls2 : y \notin DOMAIN byId2 => Len(bls2[y]) = 1
  BY <1>1, <1>2, <1>3, <1>4
<1>10. Linked(sets, byId2, bls2)
  BY <1>1, <1>4, <1>7, <1>8, <1>9 DEF Linked
<1>11. ASSUME Heads(sets, byId)
       PROVE  Heads(sets, byId2)
  BY <1>2, <1>3, <1>5, <1>11 DEF Heads
<1>12. g.sets = sets /\ WellSets(sets) /\ (x => Heads(sets, byId))
  BY DEF Sound, sets, byId
<1> QED
  BY <1>10, <1>11, <1>12 DEF Sound, byId2, bls2

LEMMA RotatedSound ==
    ASSUME NEW h, NEW x, Sound(h, x), NEW cmd, cmd.v_eff \in Nat, cmd.bls # NoKey,
           RotationApplies(h.keys, cmd.validator, cmd.new, cmd.v_eff)
    PROVE  Sound(Rotated(h, cmd, h.keys.owner[cmd.validator]), x)
<1> DEFINE id == h.keys.owner[cmd.validator]
           g == Rotated(h, cmd, id)
           d == Entry(cmd.v_eff, cmd.new)
           e == Entry(cmd.v_eff, cmd.bls)
           k == h.keys.byId[id]
           b == h.bls[id]
           keys == apply_rotation(h.keys, cmd.validator, cmd.new, cmd.v_eff)
           bls == rotate(h.bls, id, cmd.v_eff, cmd.bls)
<1>1. IsRecords(h) /\ OwnersKnown(h.keys) /\ Linked(h.sets, h.keys.byId, h.bls)
  BY DEF Sound
<1>2. /\ cmd.validator \in DOMAIN h.keys.owner /\ id \in DOMAIN h.keys.byId
      /\ cmd.v_eff > Last(k).from
  BY DEF RotationApplies, Rotates
<1>3. id \in DOMAIN h.bls /\ Matches(k, b) /\ IsHistory(b) /\ \A i \in DOMAIN b : b[i].val # NoKey
  BY <1>1, <1>2 DEF Linked, IsBls
<1>4. IsHistory(k) /\ Last(k).from \in Nat /\ Last(b).from \in Nat /\ Last(b).from <= Last(k).from
  BY <1>3, MatchesLast, HistoryParts DEF Matches
<1>5. Rotates(h.bls, id, cmd.v_eff) /\ Rotates(h.keys.byId, id, cmd.v_eff)
  <2> HIDE DEF k, b, id
  <2>1. cmd.v_eff > Last(b).from
    BY <1>2, <1>4
  <2> QED
    BY <1>2, <1>3, <2>1 DEF Rotates, k, b
<1>6. keys.byId = [h.keys.byId EXCEPT ![id] = Append(k, d)]
  <2>1. keys.byId = rotate(h.keys.byId, id, cmd.v_eff, cmd.new)
    BY DEF apply_rotation
  <2> QED
    BY <1>5, <2>1 DEF rotate
<1>7. bls = [h.bls EXCEPT ![id] = Append(b, e)]
  BY <1>5 DEF rotate
<1>8. OwnersKnown(keys)
  BY <1>1, RotationKeepsOwners
<1> HIDE DEF keys, bls
<1>9. IsRecords(g) /\ g.sets = h.sets /\ g.keys = keys /\ g.bls = bls
  BY <1>1 DEF Rotated, IsRecords, keys, bls
<1>10. d.from = cmd.v_eff /\ e.from = cmd.v_eff /\ e.val = cmd.bls
  BY DEF Entry
<1> HIDE DEF d, e, g, k, b, id
<1> DEFINE k2 == Append(k, d)
           b2 == Append(b, e)
<1>11. Matches(k2, b2)
  BY <1>3, <1>10, MatchesAppend
<1>12. /\ IsHistory(b2) /\ DOMAIN b2 = 1..Len(b) + 1
       /\ \A i \in 1..Len(b) : b2[i] = b[i]
       /\ b2[Len(b) + 1] = e
  BY <1>3, <1>10, HistoryAppend
<1>13. \A i \in 1..Len(k) : k2[i] = k[i]
  BY <1>4, <1>10, HistoryAppend
<1>14. Len(b) \in Nat /\ Len(b) >= 1 /\ DOMAIN b = 1..Len(b) /\ Len(k) \in Nat /\ Len(k) >= 1
  BY <1>3, <1>4, HistoryParts
<1> HIDE DEF k2, b2
<1>15. \A i \in DOMAIN b2 : b2[i].val # NoKey
  BY <1>3, <1>10, <1>12, <1>14
<1>16. k2[1] = k[1] /\ b2[1] = b[1]
  BY <1>12, <1>13, <1>14
<1>17. g.keys.byId = [h.keys.byId EXCEPT ![id] = k2] /\ g.bls = [h.bls EXCEPT ![id] = b2]
  BY <1>6, <1>7, <1>9 DEF k2, b2
<1>18. k2[1] = h.keys.byId[id][1] /\ b2[1] = h.bls[id][1]
  BY <1>16 DEF k, b
<1>19. Sound(g, x)
  BY <1>2, <1>8, <1>9, <1>11, <1>12, <1>15, <1>17, <1>18, SoundUpdate
<1> QED
  BY <1>19 DEF g, id

\* A key in force at the view and a pending one are two.
LEMMA PendingIsSecond ==
    ASSUME NEW q, IsHistory(q), NEW view \in Int, Started(q, view) > 0, Last(q).from > view
    PROVE  Len(q) >= 2
<1> DEFINE I == {i \in DOMAIN q : q[i].from <= view}
<1>1. Len(q) \in Nat /\ Len(q) >= 1 /\ DOMAIN q = 1..Len(q) /\ Last(q) = q[Len(q)]
  BY HistoryParts
<1>2. I # {}
  <2> SUFFICES ASSUME I = {}
               PROVE  FALSE
    OBVIOUS
  <2>1. Started(q, view) = 0
    BY FS_EmptySet DEF Started
  <2> QED
    BY <2>1
<1>3. PICK i \in DOMAIN q : q[i].from <= view
  BY <1>2
<1>4. i # Len(q)
  BY <1>1, <1>3, HistoryParts DEF IsHistory
<1> QED
  BY <1>1, <1>3, <1>4

LEMMA CancelSound ==
    ASSUME NEW h, NEW x, Sound(h, x), NEW cmd, NEW view \in Int
    PROVE  Sound(apply_rotation_cancel_command(h, cmd, view), x)
<1> DEFINE g == apply_rotation_cancel_command(h, cmd, view)
           new == pending_rotation_new_key(h.keys, cmd.validator, cmd.v_eff, view)
           id == validator_for(h.keys, cmd.validator)
           current == key_at(h.keys.byId, id, view)
           keys == cancel_pending_rotation(h.keys, cmd.validator, cmd.v_eff, view)
           bls == cancel_rotation(h.bls, id, cmd.v_eff, view)
           c == h.touched \cup {"keys", "bls"}
<1>1. CASE ~(new # NoKey /\ current # NoKey /\ CancelSigned(cmd, current, new))
  <2>1. g = h
    BY <1>1 DEF apply_rotation_cancel_command
  <2> QED
    BY <2>1
<1>2. CASE new # NoKey /\ current # NoKey /\ CancelSigned(cmd, current, new)
  <2>1. g = [h EXCEPT !.keys = keys, !.bls = bls, !.touched = c]
    BY <1>2 DEF apply_rotation_cancel_command
  <2> DEFINE k == h.keys.byId[id]
             b == h.bls[id]
  <2>2. cmd.validator \in DOMAIN h.keys.owner /\ id = h.keys.owner[cmd.validator]
        /\ LastPending(h.keys.byId, id, cmd.v_eff, view)
    BY <1>2 DEF pending_rotation_new_key, validator_for
  <2>3. id \in DOMAIN h.keys.byId /\ Last(k).from = cmd.v_eff /\ cmd.v_eff > view
    BY <2>2 DEF LastPending
  <2>4. Started(k, view) > 0
    BY <1>2, <2>3 DEF key_at
  <2>5. IsRecords(h) /\ OwnersKnown(h.keys) /\ Linked(h.sets, h.keys.byId, h.bls)
    BY DEF Sound
  <2>6. id \in DOMAIN h.bls /\ Matches(k, b) /\ IsHistory(b) /\ \A i \in DOMAIN b : b[i].val # NoKey
    BY <2>3, <2>5 DEF Linked, IsBls
  <2>7. IsHistory(k) /\ Len(k) >= 2 /\ Len(b) = Len(k) /\ Last(b).from = cmd.v_eff
    <3>1. IsHistory(k) /\ Len(b) = Len(k)
      BY <2>6 DEF Matches
    <3>2. Len(k) >= 2
      BY <2>3, <2>4, <3>1, PendingIsSecond
    <3> QED
      BY <2>3, <2>6, <3>1, <3>2, MatchesLast
  <2>8. keys.byId = [h.keys.byId EXCEPT ![id] = Front(k)]
    <3>1. keys.byId = cancel_rotation(h.keys.byId, id, cmd.v_eff, view)
      BY <2>2 DEF cancel_pending_rotation
    <3> QED
      BY <2>2, <3>1 DEF cancel_rotation
  <2>9. bls = [h.bls EXCEPT ![id] = Front(b)]
    BY <2>3, <2>6, <2>7 DEF cancel_rotation, LastPending
  <2>10. OwnersKnown(keys)
    BY <2>5, CancelKeepsOwners
  <2> HIDE DEF g, keys, bls, c, id
  <2>11. IsRecords(g) /\ g.sets = h.sets /\ g.keys = keys /\ g.bls = bls
    BY <2>1, <2>5 DEF IsRecords
  <2> HIDE DEF k, b
  <2>12. Matches(Front(k), Front(b))
    BY <2>6, <2>7, MatchesFront
  <2>13. /\ IsHistory(Front(b)) /\ DOMAIN Front(b) = 1..Len(b) - 1
         /\ \A i \in 1..Len(b) - 1 : Front(b)[i] = b[i]
    BY <2>6, <2>7, HistoryFront
  <2>14. \A i \in 1..Len(k) - 1 : Front(k)[i] = k[i]
    BY <2>7, HistoryFront
  <2>15. Len(b) \in Nat /\ DOMAIN b = 1..Len(b)
    BY <2>6, HistoryParts
  <2>16. Front(k)[1] = k[1] /\ Front(b)[1] = b[1]
    BY <2>7, <2>13, <2>14, <2>15
  <2>17. \A i \in DOMAIN Front(b) : Front(b)[i].val # NoKey
    BY <2>6, <2>13, <2>15
  <2>18. /\ g.keys.byId = [h.keys.byId EXCEPT ![id] = Front(k)]
         /\ g.bls = [h.bls EXCEPT ![id] = Front(b)]
         /\ Front(k)[1] = h.keys.byId[id][1] /\ Front(b)[1] = h.bls[id][1]
    BY <2>8, <2>9, <2>11, <2>16 DEF k, b
  <2>19. Sound(g, x)
    BY <2>3, <2>10, <2>11, <2>12, <2>13, <2>17, <2>18, SoundUpdate
  <2> QED
    BY <2>19 DEF g
<1> QED
  BY <1>1, <1>2

\* What a reconfiguration that is applied appends
LEMMA ReconfigAppends ==
    ASSUME NEW s, WellSets(s), NEW cmd, WellFormed(cmd), cmd.kind = "reconfig", NEW view \in Nat,
           validate_against(cmd, set_at(s, view), view), ~pending(s, view)
    PROVE  /\ cmd.v_eff \in Nat /\ Last(s).from < cmd.v_eff
           /\ \A i \in DOMAIN s : s[i].from <= cmd.v_eff
           /\ Started(s, view) \in DOMAIN s
<1>1. Last(s).from \in Nat /\ Last(s).from <= view /\ Started(s, view) \in DOMAIN s
  BY LastIsHighest, SetAt
<1>2. cmd.v_eff \in Nat
  BY DEF WellFormed
<1>3. cmd.v_eff >= view + LargerOf(min_v_eff_delay, MIN_V_EFF_DELAY)
  BY DEF validate_against
<1>4. cmd.v_eff > view
  BY <1>2, <1>3, GovernanceAssumption DEF LargerOf, MIN_V_EFF_DELAY
<1>5. ASSUME NEW i \in DOMAIN s
      PROVE  s[i].from <= cmd.v_eff
  <2>1. s[i].from \in Nat
    BY DEF WellSets
  <2>2. s[i].from = 0 \/ ~(s[i].from > view)
    BY DEF pending
  <2> QED
    BY <1>2, <1>4, <2>1, <2>2
<1> QED
  BY <1>1, <1>2, <1>4, <1>5

LEMMA BeginsLater ==
    ASSUME NEW s, IsSeq(s), NEW e, NEW id, NEW v, Begins(s, id, v)
    PROVE  Begins(Append(s, e), id, v)
<1> DEFINE t == Append(s, e)
           n == Len(s)
<1>1. /\ n \in Nat /\ DOMAIN s = 1..n /\ DOMAIN t = 1..n + 1
      /\ \A i \in 1..n : t[i] = s[i]
  BY SeqAppend, SeqParts
<1>2. PICK i \in DOMAIN s :
          /\ id \in DOMAIN s[i].val /\ s[i].from = v
          /\ \A j \in DOMAIN s : j < i => id \notin DOMAIN s[j].val
  BY DEF Begins
<1> HIDE DEF t, n
<1>3. i \in DOMAIN t /\ id \in DOMAIN t[i].val /\ t[i].from = v
  BY <1>1, <1>2
<1>4. ASSUME NEW j \in DOMAIN t, j < i
      PROVE  id \notin DOMAIN t[j].val
  BY <1>1, <1>2, <1>4
<1>5. Begins(t, id, v)
  BY <1>3, <1>4 DEF Begins
<1> QED
  BY <1>5 DEF t

LEMMA BoundarySound ==
    ASSUME NEW h, NEW x, Sound(h, x), NEW cmd, WellFormed(cmd), cmd.kind = "reconfig",
           NEW view \in Nat, Reconfigures(h, cmd, view)
    PROVE  LET b == Boundary(h, cmd, view)
           IN /\ Sound(b, x) /\ b.keys = h.keys /\ cmd.v_eff \in Nat
              /\ \A i \in DOMAIN b.sets : b.sets[i].from <= cmd.v_eff
<1> DEFINE b == Boundary(h, cmd, view)
           s == h.sets
           set == set_at(s, view)
           next == NextSet(cmd, set)
           e == Entry(cmd.v_eff, next)
           t == b.sets
           byId == h.keys.byId
           bls == h.bls
           bls2 == RegisterBls(bls, cmd)
           adds == Ids(cmd.adds)
<1>1. /\ IsRecords(h) /\ OwnersKnown(h.keys) /\ WellSets(s) /\ Linked(s, byId, bls)
      /\ x => Heads(s, byId)
  BY DEF Sound
<1>2. validate_against(cmd, set, view) /\ ~pending(s, view)
  BY DEF Reconfigures
<1>3. /\ cmd.v_eff \in Nat /\ Last(s).from < cmd.v_eff
      /\ \A i \in DOMAIN s : s[i].from <= cmd.v_eff
      /\ Started(s, view) \in DOMAIN s
  BY <1>1, <1>2, ReconfigAppends
<1>4. IsRecords(b) /\ b.keys = h.keys /\ b.bls = bls2 /\ b.sets = insert_boundary(s, cmd.v_eff, next)
  <2> DEFINE o == RegisterOperators(h.ops, cmd)
             z == insert_boundary(s, cmd.v_eff, next)
  <2>1. b = [h EXCEPT !.sets = z, !.ops = o, !.bls = bls2]
    BY DEF Boundary
  <2> HIDE DEF o, z, bls2, b
  <2>2. IsRecords(b) /\ b.keys = h.keys /\ b.bls = bls2 /\ b.sets = z
    BY <1>1, <2>1 DEF IsRecords
  <2> QED
    BY <2>2 DEF z
<1>5. t = Append(s, e)
  <2>1. Last(s).from \in Nat
    BY <1>1, LastIsHighest
  <2>2. cmd.v_eff > Last(s).from
    BY <1>3, <2>1
  <2> QED
    BY <1>4, <2>2 DEF insert_boundary
<1>6. WellSets(t)
  <2>1. SetsStep(s, cmd, view) = insert_boundary(s, cmd.v_eff, next)
    BY <1>2 DEF SetsStep
  <2> QED
    BY <1>1, <1>4, <2>1, SetsStepShape
<1>7. e.from = cmd.v_eff /\ e.val = next
  BY DEF Entry
<1>8. DOMAIN next = (DOMAIN set \ ToSet(cmd.removes)) \cup adds
  BY DEF NextSet
<1>9. set = s[Started(s, view)].val
  BY DEF set_at, At
<1>10. /\ DOMAIN bls2 = DOMAIN bls \cup adds
       /\ \A id \in DOMAIN bls : bls2[id] = bls[id]
       /\ \A id \in adds : id \notin DOMAIN bls
              => bls2[id] = <<Entry(cmd.v_eff, BlsIn(cmd.adds, id))>>
  BY DEF RegisterBls
<1>11. ASSUME NEW id \in adds
       PROVE  BlsIn(cmd.adds, id) # NoKey
  <2>1. \E i \in DOMAIN cmd.adds : cmd.adds[i].id = id
    BY DEF Ids
  <2>2. PICK i \in DOMAIN cmd.adds : BlsIn(cmd.adds, id) = cmd.adds[i].bls
    BY <2>1 DEF BlsIn
  <2> QED
    BY <1>2, <2>2 DEF validate_against
<1> HIDE DEF b, s, set, next, e, t, byId, bls, bls2, adds
<1>12. /\ \A id \in DOMAIN bls : IsBls(s, id, bls[id])
       /\ \A i \in DOMAIN s : DOMAIN s[i].val \subseteq DOMAIN bls
       /\ \A id \in DOMAIN byId : id \in DOMAIN bls /\ Matches(byId[id], bls[id])
       /\ \A id \in DOMAIN bls : id \notin DOMAIN byId => Len(bls[id]) = 1
  BY <1>1 DEF Linked
<1> DEFINE n == Len(s)
<1>13. /\ IsSeq(s) /\ n \in Nat /\ DOMAIN s = 1..n /\ DOMAIN t = 1..n + 1
       /\ \A i \in 1..n : t[i] = s[i]
       /\ t[n + 1] = e
  <2>1. IsSeq(s)
    BY <1>1 DEF WellSets
  <2> QED
    BY <1>5, <2>1, SeqAppend, SeqParts
<1>14. \A i \in DOMAIN t : t[i].from <= cmd.v_eff
  BY <1>3, <1>7, <1>13
<1>15. \A i \in DOMAIN t : DOMAIN t[i].val \subseteq DOMAIN bls2
  <2>1. DOMAIN next \subseteq DOMAIN bls2
    <3>1. DOMAIN set \subseteq DOMAIN bls
      BY <1>3, <1>9, <1>12
    <3> QED
      BY <1>8, <1>10, <3>1
  <2> QED
    BY <1>7, <1>10, <1>12, <1>13, <2>1
<1>16. ASSUME NEW id \in DOMAIN bls
       PROVE  IsBls(t, id, bls2[id])
  <2>1. IsBls(s, id, bls[id]) /\ bls2[id] = bls[id]
    BY <1>10, <1>12
  <2>2. Begins(t, id, bls[id][1].from)
    BY <1>5, <1>13, <2>1, BeginsLater DEF IsBls
  <2> QED
    BY <2>1, <2>2 DEF IsBls
<1>17. ASSUME NEW id \in adds, id \notin DOMAIN bls
       PROVE  IsBls(t, id, bls2[id]) /\ Len(bls2[id]) = 1
  <2> DEFINE f == Entry(cmd.v_eff, BlsIn(cmd.adds, id))
  <2>1. f.from = cmd.v_eff /\ f.val # NoKey
    BY <1>11 DEF Entry
  <2> HIDE DEF f
  <2>2. IsHistory(<<f>>) /\ Len(<<f>>) = 1 /\ <<f>>[1] = f /\ DOMAIN <<f>> = {1}
    BY <1>3, <2>1, HistoryOne
  <2>3. Begins(t, id, cmd.v_eff)
    <3>1. n + 1 \in DOMAIN t /\ id \in DOMAIN t[n + 1].val /\ t[n + 1].from = cmd.v_eff
      BY <1>7, <1>8, <1>13
    <3>2. \A j \in DOMAIN t : j < n + 1 => id \notin DOMAIN t[j].val
      BY <1>12, <1>13, <1>17
    <3> QED
      BY <3>1, <3>2 DEF Begins
  <2>4. bls2[id] = <<f>>
    BY <1>10, <1>17 DEF f
  <2> QED
    BY <2>1, <2>2, <2>3, <2>4 DEF IsBls
<1>18. \A id \in DOMAIN bls2 : IsBls(t, id, bls2[id])
  BY <1>10, <1>16, <1>17
<1>19. \A id \in DOMAIN byId : id \in DOMAIN bls2 /\ Matches(byId[id], bls2[id])
  BY <1>10, <1>12
<1>20. \A id \in DOMAIN bls2 : id \notin DOMAIN byId => Len(bls2[id]) = 1
  BY <1>10, <1>12, <1>17
<1>21. Linked(t, byId, bls2)
  BY <1>15, <1>18, <1>19, <1>20 DEF Linked
<1>22. Heads(s, byId) => Heads(t, byId)
  BY <1>5, <1>13, BeginsLater DEF Heads
<1>23. Sound(b, x)
  BY <1>1, <1>4, <1>6, <1>21, <1>22 DEF Sound, t, byId
<1> QED
  BY <1>3, <1>4, <1>14, <1>23 DEF b, t

LEMMA ReconfigSound ==
    ASSUME NEW h, NEW x, Sound(h, x), NEW cmd, WellFormed(cmd), cmd.kind = "reconfig",
           NEW view \in Nat
    PROVE  Sound(ApplyReconfig(h, cmd, view), x)
<1>1. CASE ~Reconfigures(h, cmd, view)
  <2>1. ApplyReconfig(h, cmd, view) = h
    BY <1>1 DEF ApplyReconfig
  <2> QED
    BY <2>1
<1>2. CASE Reconfigures(h, cmd, view)
  <2> DEFINE b == Boundary(h, cmd, view)
             reg == forget(SeedNew(h.endpoints, cmd), ToSet(cmd.removes))
             c == b.touched \cup {"sets"} \cup Changed("ops", h.ops, b.ops)
                     \cup Changed("bls", h.bls, b.bls)
                     \cup Changed("endpoints", h.endpoints, reg)
             g == ApplyReconfig(h, cmd, view)
  <2>1. Sound(b, x)
    BY <1>2, BoundarySound
  <2>2. IsRecords(b)
    BY <2>1 DEF Sound
  <2>3. g = [b EXCEPT !.endpoints = reg, !.touched = c]
    BY <1>2, <2>2 DEF ApplyReconfig, IsRecords
  <2> HIDE DEF b, reg, c, g
  <2>4. IsRecords(g) /\ g.sets = b.sets /\ g.keys = b.keys /\ g.bls = b.bls
    BY <2>2, <2>3 DEF IsRecords
  <2>5. Sound(g, x)
    BY <2>1, <2>4, SoundSame
  <2> QED
    BY <2>5 DEF g
<1> QED
  BY <1>1, <1>2

\* New members get their first key, not before their BLS key.
LEMMA AddSound ==
    ASSUME NEW h, Sound(h, FALSE), NEW v \in Nat, \A i \in DOMAIN h.sets : h.sets[i].from <= v,
           NEW set, DOMAIN set \subseteq DOMAIN h.bls, NEW g, IsRecords(g),
           g.sets = h.sets, g.bls = h.bls, g.keys = AddNewKeys(h.keys, set, v)
    PROVE  Sound(g, FALSE)
<1> DEFINE new == (DOMAIN set \ DOMAIN h.keys.byId) \ DOMAIN h.keys.owner
           byId == h.keys.byId
           byId2 == g.keys.byId
           owner == h.keys.owner
           owner2 == g.keys.owner
           bls == h.bls
           s == h.sets
<1>1. /\ \A id \in DOMAIN bls : IsBls(s, id, bls[id])
      /\ \A i \in DOMAIN s : DOMAIN s[i].val \subseteq DOMAIN bls
      /\ \A id \in DOMAIN byId : id \in DOMAIN bls /\ Matches(byId[id], bls[id])
      /\ \A id \in DOMAIN bls : id \notin DOMAIN byId => Len(bls[id]) = 1
  BY DEF Sound, Linked
<1>2. g.keys = [byId  |-> [id \in DOMAIN byId \cup new |->
                              IF id \in new THEN <<Entry(v, id)>> ELSE byId[id]],
                owner |-> [key \in DOMAIN owner \cup new |->
                              IF key \in new THEN key ELSE owner[key]]]
  BY DEF AddNewKeys, add_validators
<1>3. /\ byId2 = [id \in DOMAIN byId \cup new |->
                      IF id \in new THEN <<Entry(v, id)>> ELSE byId[id]]
      /\ owner2 = [key \in DOMAIN owner \cup new |-> IF key \in new THEN key ELSE owner[key]]
  BY <1>2
<1>4. new \cap DOMAIN byId = {} /\ new \subseteq DOMAIN bls
  OBVIOUS
<1>5. \A key \in DOMAIN owner : owner[key] \in DOMAIN byId
  BY DEF Sound, OwnersKnown
<1> HIDE DEF new, byId, owner, byId2, owner2
<1>6. \A key \in DOMAIN owner2 : owner2[key] \in DOMAIN byId2
  BY <1>3, <1>5
<1>7. ASSUME NEW id \in new
      PROVE  Matches(byId2[id], bls[id])
  <2> DEFINE e == Entry(v, id)
             b == bls[id]
  <2>1. byId2[id] = <<e>>
    BY <1>3
  <2>2. e.from = v
    BY DEF Entry
  <2> HIDE DEF e
  <2>3. IsHistory(<<e>>) /\ Len(<<e>>) = 1 /\ <<e>>[1] = e
    BY <2>2, HistoryOne
  <2>4. IsBls(s, id, b) /\ Len(b) = 1
    BY <1>1, <1>4, <1>7
  <2> HIDE DEF b
  <2>5. b[1].from <= v
    BY <2>4 DEF IsBls, Begins
  <2>6. \A i \in DOMAIN b : ~(i > 1)
    BY <2>4, HistoryParts DEF IsBls
  <2>7. Matches(<<e>>, b)
    BY <2>2, <2>3, <2>4, <2>5, <2>6 DEF Matches
  <2> QED
    BY <2>1, <2>7 DEF b
<1>8. \A id \in DOMAIN byId2 : id \in DOMAIN bls /\ Matches(byId2[id], bls[id])
  <2>1. ASSUME NEW id \in DOMAIN byId, id \notin new
        PROVE  id \in DOMAIN bls /\ Matches(byId2[id], bls[id])
    BY <1>1, <1>3, <2>1
  <2> QED
    BY <1>3, <1>4, <1>7, <2>1
<1>9. \A id \in DOMAIN bls : id \notin DOMAIN byId2 => Len(bls[id]) = 1
  BY <1>1, <1>3
<1>10. Linked(s, byId2, bls)
  BY <1>1, <1>8, <1>9 DEF Linked
<1> QED
  BY <1>6, <1>10 DEF Sound, OwnersKnown, byId2, owner2

LEMMA PureSound ==
    ASSUME NEW h, Sound(h, FALSE), NEW cmd, WellFormed(cmd), cmd.kind = "reconfig",
           NEW view \in Nat
    PROVE  Sound(PureReconfig(h, cmd, view), FALSE)
<1>1. CASE ~Reconfigures(h, cmd, view)
  <2>1. PureReconfig(h, cmd, view) = h
    BY <1>1 DEF PureReconfig
  <2> QED
    BY <2>1
<1>2. CASE Reconfigures(h, cmd, view)
  <2> DEFINE b == Boundary(h, cmd, view)
             set == Last(b.sets).val
             k == AddNewKeys(b.keys, set, cmd.v_eff)
             g == PureReconfig(h, cmd, view)
  <2>1. /\ Sound(b, FALSE) /\ cmd.v_eff \in Nat
        /\ \A i \in DOMAIN b.sets : b.sets[i].from <= cmd.v_eff
    BY <1>2, BoundarySound
  <2>2. IsRecords(b) /\ WellSets(b.sets) /\ Linked(b.sets, b.keys.byId, b.bls)
    BY <2>1 DEF Sound
  <2>3. g = [b EXCEPT !.keys = k]
    BY <1>2, <2>2 DEF PureReconfig, IsRecords
  <2>4. DOMAIN set \subseteq DOMAIN b.bls
    <3>1. Len(b.sets) \in DOMAIN b.sets /\ Last(b.sets) = b.sets[Len(b.sets)]
      BY <2>2, SeqParts DEF WellSets
    <3> QED
      BY <2>2, <3>1 DEF Linked
  <2> HIDE DEF b, set, k, g
  <2>5. IsRecords(g) /\ g.sets = b.sets /\ g.keys = k /\ g.bls = b.bls
    BY <2>2, <2>3 DEF IsRecords
  <2>6. Sound(g, FALSE)
    BY <2>1, <2>4, <2>5, AddSound DEF k
  <2> QED
    BY <2>6 DEF g
<1> QED
  BY <1>1, <1>2

LEMMA RotationsSound ==
    ASSUME NEW h, NEW x, Sound(h, x), NEW cmd, cmd.v_eff \in Nat, NEW view
    PROVE  /\ Sound(DualSignedRotation(h, cmd, view), x)
           /\ Sound(apply_operator_rotation_command(h, cmd, view), x)
<1> DEFINE id == validator_for(h.keys, cmd.validator)
<1>1. ASSUME validate_scheme_consistency(cmd),
             RotationApplies(h.keys, cmd.validator, cmd.new, cmd.v_eff)
      PROVE  Sound(Rotated(h, cmd, id), x)
  <2>1. id = h.keys.owner[cmd.validator]
    BY <1>1 DEF RotationApplies, validator_for
  <2>2. cmd.bls # NoKey
    BY <1>1 DEF validate_scheme_consistency
  <2> QED
    BY <1>1, <2>1, <2>2, RotatedSound
<1>2. \/ DualSignedRotation(h, cmd, view) = h
      \/ /\ validate_scheme_consistency(cmd)
         /\ RotationApplies(h.keys, cmd.validator, cmd.new, cmd.v_eff)
         /\ DualSignedRotation(h, cmd, view) = Rotated(h, cmd, id)
  BY DEF DualSignedRotation
<1>3. \/ apply_operator_rotation_command(h, cmd, view) = h
      \/ /\ validate_scheme_consistency(cmd)
         /\ RotationApplies(h.keys, cmd.validator, cmd.new, cmd.v_eff)
         /\ apply_operator_rotation_command(h, cmd, view) = Rotated(h, cmd, id)
  BY DEF apply_operator_rotation_command
<1> QED
  BY <1>1, <1>2, <1>3

\* The commands that leave both records of keys and the sets alone
LEMMA OthersSound ==
    ASSUME NEW h, NEW x, Sound(h, x), NEW cmd, NEW view
    PROVE  /\ Sound(apply_operator_key_rotation_command(h, cmd, view), x)
           /\ Sound(ApplyEndpoint(h, cmd, view), x)
           /\ Sound(ApplyParam(h, cmd, view), x)
<1>0. IsRecords(h)
  BY DEF Sound
<1>1. ASSUME NEW f \in {"ops", "endpoints", "params"}, NEW y, NEW c,
             NEW g, g = h \/ g = [h EXCEPT ![f] = y, !.touched = c]
      PROVE  Sound(g, x)
  <2>1. CASE g = h
    BY <2>1
  <2>2. CASE g = [h EXCEPT ![f] = y, !.touched = c]
    <3>1. IsRecords(g) /\ g.sets = h.sets /\ g.keys = h.keys /\ g.bls = h.bls
      BY <1>0, <2>2 DEF IsRecords
    <3> QED
      BY <3>1, SoundSame
  <2> QED
    BY <1>1, <2>1, <2>2
<1>2. Sound(apply_operator_key_rotation_command(h, cmd, view), x)
  <2> DEFINE y == rotate(h.ops, cmd.validator, cmd.v_eff, cmd.new)
             c == h.touched \cup {"ops"}
             g == apply_operator_key_rotation_command(h, cmd, view)
  <2>1. g = h \/ g = [h EXCEPT !["ops"] = y, !.touched = c]
    BY DEF apply_operator_key_rotation_command
  <2> HIDE DEF y, c, g
  <2>2. Sound(g, x)
    BY <1>1, <2>1
  <2> QED
    BY <2>2 DEF g
<1>3. Sound(ApplyEndpoint(h, cmd, view), x)
  <2> DEFINE y == EndpointApplied(h.endpoints, cmd)
             c == IF EndpointAccepted(h.endpoints, cmd)
                    THEN h.touched \cup {"endpoints"} ELSE h.touched
             g == ApplyEndpoint(h, cmd, view)
  <2>1. g = h \/ g = [h EXCEPT !["endpoints"] = y, !.touched = c]
    BY DEF ApplyEndpoint
  <2> HIDE DEF y, c, g
  <2>2. Sound(g, x)
    BY <1>1, <2>1
  <2> QED
    BY <2>2 DEF g
<1>4. Sound(ApplyParam(h, cmd, view), x)
  <2> DEFINE y == insert_params(h.params, cmd.v_eff, cmd.interval)
             c == h.touched \cup {"params"}
             g == ApplyParam(h, cmd, view)
  <2>1. g = h \/ g = [h EXCEPT !["params"] = y, !.touched = c]
    BY DEF ApplyParam
  <2> HIDE DEF y, c, g
  <2>2. Sound(g, x)
    BY <1>1, <2>1
  <2> QED
    BY <2>2 DEF g
<1> QED
  BY <1>2, <1>3, <1>4

SoundGood(x, i, h) == Sound(h, x)

SoundReconfig == INSTANCE LoopProofs WITH Step <- ReconfigStep, Good <- SoundGood
SoundPure == INSTANCE LoopProofs WITH Step <- PureStep, Good <- SoundGood
SoundRotate == INSTANCE LoopProofs WITH Step <- RotateStep, Good <- SoundGood
SoundCancel == INSTANCE LoopProofs WITH Step <- CancelStep, Good <- SoundGood
SoundRecover == INSTANCE LoopProofs WITH Step <- RecoverStep, Good <- SoundGood
SoundReplace == INSTANCE LoopProofs WITH Step <- ReplaceStep, Good <- SoundGood
SoundEndpoint == INSTANCE LoopProofs WITH Step <- EndpointStep, Good <- SoundGood
SoundParam == INSTANCE LoopProofs WITH Step <- ParamStep, Good <- SoundGood

\* What a pass may rely on
IsBlock(block) ==
    /\ block.view \in Nat /\ Len(block.cmds) \in Nat
    /\ \A i \in 1..Len(block.cmds) : WellFormed(block.cmds[i])

LEMMA SoundReconfigPass ==
    ASSUME NEW h, NEW x, Sound(h, x), NEW block, IsBlock(block)
    PROVE  Sound(ForEach("reconfig", LAMBDA g, cmd : ApplyReconfig(g, cmd, block.view),
                         h, block), x)
<1> DEFINE n == Len(block.cmds)
<1>1. n \in Nat /\ SoundGood(x, 0, h)
  BY DEF SoundGood, IsBlock
<1>2. ASSUME NEW i \in 1..n, NEW t, SoundGood(x, i - 1, t)
      PROVE  SoundGood(x, i, ReconfigStep(t, block.cmds[i], block.view))
  <2> DEFINE cmd == block.cmds[i]
  <2>1. Sound(t, x) /\ WellFormed(cmd) /\ block.view \in Nat
    BY <1>2 DEF SoundGood, IsBlock
  <2> HIDE DEF cmd
  <2>2. ASSUME cmd.kind = "reconfig"
        PROVE  Sound(ReconfigStep(t, cmd, block.view), x)
    BY <2>1, <2>2, ReconfigSound DEF ReconfigStep
  <2>3. ASSUME cmd.kind # "reconfig"
        PROVE  Sound(ReconfigStep(t, cmd, block.view), x)
    BY <2>1, <2>3 DEF ReconfigStep
  <2> QED
    BY <2>2, <2>3 DEF SoundGood, cmd
<1>3. SoundGood(x, n, SoundReconfig!Pass(h, block.cmds, block.view, n))
  BY <1>1, <1>2, SoundReconfig!Invariance
<1> QED
  BY <1>3 DEF SoundGood, ForEach, Along, AlongTo, SoundReconfig!Pass, SoundReconfig!AlongTo,
              ReconfigStep

LEMMA SoundPurePass ==
    ASSUME NEW h, Sound(h, FALSE), NEW block, IsBlock(block)
    PROVE  Sound(ForEach("reconfig", LAMBDA g, cmd : PureReconfig(g, cmd, block.view),
                         h, block), FALSE)
<1> DEFINE n == Len(block.cmds)
<1>1. n \in Nat /\ SoundGood(FALSE, 0, h)
  BY DEF SoundGood, IsBlock
<1>2. ASSUME NEW i \in 1..n, NEW t, SoundGood(FALSE, i - 1, t)
      PROVE  SoundGood(FALSE, i, PureStep(t, block.cmds[i], block.view))
  <2> DEFINE cmd == block.cmds[i]
  <2>1. Sound(t, FALSE) /\ WellFormed(cmd) /\ block.view \in Nat
    BY <1>2 DEF SoundGood, IsBlock
  <2> HIDE DEF cmd
  <2>2. ASSUME cmd.kind = "reconfig"
        PROVE  Sound(PureStep(t, cmd, block.view), FALSE)
    BY <2>1, <2>2, PureSound DEF PureStep
  <2>3. ASSUME cmd.kind # "reconfig"
        PROVE  Sound(PureStep(t, cmd, block.view), FALSE)
    BY <2>1, <2>3 DEF PureStep
  <2> QED
    BY <2>2, <2>3 DEF SoundGood, cmd
<1>3. SoundGood(FALSE, n, SoundPure!Pass(h, block.cmds, block.view, n))
  BY <1>1, <1>2, SoundPure!Invariance
<1> QED
  BY <1>3 DEF SoundGood, ForEach, Along, AlongTo, SoundPure!Pass, SoundPure!AlongTo,
              PureStep

LEMMA SoundRotatePass ==
    ASSUME NEW h, NEW x, Sound(h, x), NEW block, IsBlock(block)
    PROVE  Sound(ForEach("rotate", LAMBDA g, cmd : DualSignedRotation(g, cmd, block.view),
                         h, block), x)
<1> DEFINE n == Len(block.cmds)
<1>1. n \in Nat /\ SoundGood(x, 0, h)
  BY DEF SoundGood, IsBlock
<1>2. ASSUME NEW i \in 1..n, NEW t, SoundGood(x, i - 1, t)
      PROVE  SoundGood(x, i, RotateStep(t, block.cmds[i], block.view))
  <2> DEFINE cmd == block.cmds[i]
  <2>1. Sound(t, x) /\ WellFormed(cmd) /\ block.view \in Nat
    BY <1>2 DEF SoundGood, IsBlock
  <2> HIDE DEF cmd
  <2>2. ASSUME cmd.kind = "rotate"
        PROVE  Sound(RotateStep(t, cmd, block.view), x)
    <3>1. cmd.v_eff \in Nat
      BY <2>1, <2>2 DEF WellFormed
    <3> QED
      BY <2>1, <2>2, <3>1, RotationsSound DEF RotateStep
  <2>3. ASSUME cmd.kind # "rotate"
        PROVE  Sound(RotateStep(t, cmd, block.view), x)
    BY <2>1, <2>3 DEF RotateStep
  <2> QED
    BY <2>2, <2>3 DEF SoundGood, cmd
<1>3. SoundGood(x, n, SoundRotate!Pass(h, block.cmds, block.view, n))
  BY <1>1, <1>2, SoundRotate!Invariance
<1> QED
  BY <1>3 DEF SoundGood, ForEach, Along, AlongTo, SoundRotate!Pass, SoundRotate!AlongTo,
              RotateStep

LEMMA SoundCancelPass ==
    ASSUME NEW h, NEW x, Sound(h, x), NEW block, IsBlock(block)
    PROVE  Sound(ForEach("cancel", LAMBDA g, cmd : apply_rotation_cancel_command(g, cmd, block.view),
                         h, block), x)
<1> DEFINE n == Len(block.cmds)
<1>1. n \in Nat /\ SoundGood(x, 0, h)
  BY DEF SoundGood, IsBlock
<1>2. ASSUME NEW i \in 1..n, NEW t, SoundGood(x, i - 1, t)
      PROVE  SoundGood(x, i, CancelStep(t, block.cmds[i], block.view))
  <2> DEFINE cmd == block.cmds[i]
  <2>1. Sound(t, x) /\ WellFormed(cmd) /\ block.view \in Nat
    BY <1>2 DEF SoundGood, IsBlock
  <2> HIDE DEF cmd
  <2>2. ASSUME cmd.kind = "cancel"
        PROVE  Sound(CancelStep(t, cmd, block.view), x)
    BY <2>1, <2>2, CancelSound DEF CancelStep
  <2>3. ASSUME cmd.kind # "cancel"
        PROVE  Sound(CancelStep(t, cmd, block.view), x)
    BY <2>1, <2>3 DEF CancelStep
  <2> QED
    BY <2>2, <2>3 DEF SoundGood, cmd
<1>3. SoundGood(x, n, SoundCancel!Pass(h, block.cmds, block.view, n))
  BY <1>1, <1>2, SoundCancel!Invariance
<1> QED
  BY <1>3 DEF SoundGood, ForEach, Along, AlongTo, SoundCancel!Pass, SoundCancel!AlongTo,
              CancelStep

LEMMA SoundRecoverPass ==
    ASSUME NEW h, NEW x, Sound(h, x), NEW block, IsBlock(block)
    PROVE  Sound(ForEach("operator_rotate", LAMBDA g, cmd : apply_operator_rotation_command(g, cmd, block.view),
                         h, block), x)
<1> DEFINE n == Len(block.cmds)
<1>1. n \in Nat /\ SoundGood(x, 0, h)
  BY DEF SoundGood, IsBlock
<1>2. ASSUME NEW i \in 1..n, NEW t, SoundGood(x, i - 1, t)
      PROVE  SoundGood(x, i, RecoverStep(t, block.cmds[i], block.view))
  <2> DEFINE cmd == block.cmds[i]
  <2>1. Sound(t, x) /\ WellFormed(cmd) /\ block.view \in Nat
    BY <1>2 DEF SoundGood, IsBlock
  <2> HIDE DEF cmd
  <2>2. ASSUME cmd.kind = "operator_rotate"
        PROVE  Sound(RecoverStep(t, cmd, block.view), x)
    <3>1. cmd.v_eff \in Nat
      BY <2>1, <2>2 DEF WellFormed
    <3> QED
      BY <2>1, <2>2, <3>1, RotationsSound DEF RecoverStep
  <2>3. ASSUME cmd.kind # "operator_rotate"
        PROVE  Sound(RecoverStep(t, cmd, block.view), x)
    BY <2>1, <2>3 DEF RecoverStep
  <2> QED
    BY <2>2, <2>3 DEF SoundGood, cmd
<1>3. SoundGood(x, n, SoundRecover!Pass(h, block.cmds, block.view, n))
  BY <1>1, <1>2, SoundRecover!Invariance
<1> QED
  BY <1>3 DEF SoundGood, ForEach, Along, AlongTo, SoundRecover!Pass, SoundRecover!AlongTo,
              RecoverStep

LEMMA SoundReplacePass ==
    ASSUME NEW h, NEW x, Sound(h, x), NEW block, IsBlock(block)
    PROVE  Sound(ForEach("operator_key", LAMBDA g, cmd : apply_operator_key_rotation_command(g, cmd, block.view),
                         h, block), x)
<1> DEFINE n == Len(block.cmds)
<1>1. n \in Nat /\ SoundGood(x, 0, h)
  BY DEF SoundGood, IsBlock
<1>2. ASSUME NEW i \in 1..n, NEW t, SoundGood(x, i - 1, t)
      PROVE  SoundGood(x, i, ReplaceStep(t, block.cmds[i], block.view))
  <2> DEFINE cmd == block.cmds[i]
  <2>1. Sound(t, x) /\ WellFormed(cmd) /\ block.view \in Nat
    BY <1>2 DEF SoundGood, IsBlock
  <2> HIDE DEF cmd
  <2>2. ASSUME cmd.kind = "operator_key"
        PROVE  Sound(ReplaceStep(t, cmd, block.view), x)
    BY <2>1, <2>2, OthersSound DEF ReplaceStep
  <2>3. ASSUME cmd.kind # "operator_key"
        PROVE  Sound(ReplaceStep(t, cmd, block.view), x)
    BY <2>1, <2>3 DEF ReplaceStep
  <2> QED
    BY <2>2, <2>3 DEF SoundGood, cmd
<1>3. SoundGood(x, n, SoundReplace!Pass(h, block.cmds, block.view, n))
  BY <1>1, <1>2, SoundReplace!Invariance
<1> QED
  BY <1>3 DEF SoundGood, ForEach, Along, AlongTo, SoundReplace!Pass, SoundReplace!AlongTo,
              ReplaceStep

LEMMA SoundEndpointPass ==
    ASSUME NEW h, NEW x, Sound(h, x), NEW block, IsBlock(block)
    PROVE  Sound(ForEach("endpoint", LAMBDA g, cmd : ApplyEndpoint(g, cmd, block.view),
                         h, block), x)
<1> DEFINE n == Len(block.cmds)
<1>1. n \in Nat /\ SoundGood(x, 0, h)
  BY DEF SoundGood, IsBlock
<1>2. ASSUME NEW i \in 1..n, NEW t, SoundGood(x, i - 1, t)
      PROVE  SoundGood(x, i, EndpointStep(t, block.cmds[i], block.view))
  <2> DEFINE cmd == block.cmds[i]
  <2>1. Sound(t, x) /\ WellFormed(cmd) /\ block.view \in Nat
    BY <1>2 DEF SoundGood, IsBlock
  <2> HIDE DEF cmd
  <2>2. ASSUME cmd.kind = "endpoint"
        PROVE  Sound(EndpointStep(t, cmd, block.view), x)
    BY <2>1, <2>2, OthersSound DEF EndpointStep
  <2>3. ASSUME cmd.kind # "endpoint"
        PROVE  Sound(EndpointStep(t, cmd, block.view), x)
    BY <2>1, <2>3 DEF EndpointStep
  <2> QED
    BY <2>2, <2>3 DEF SoundGood, cmd
<1>3. SoundGood(x, n, SoundEndpoint!Pass(h, block.cmds, block.view, n))
  BY <1>1, <1>2, SoundEndpoint!Invariance
<1> QED
  BY <1>3 DEF SoundGood, ForEach, Along, AlongTo, SoundEndpoint!Pass, SoundEndpoint!AlongTo,
              EndpointStep

LEMMA SoundParamPass ==
    ASSUME NEW h, NEW x, Sound(h, x), NEW block, IsBlock(block)
    PROVE  Sound(ForEach("param", LAMBDA g, cmd : ApplyParam(g, cmd, block.view),
                         h, block), x)
<1> DEFINE n == Len(block.cmds)
<1>1. n \in Nat /\ SoundGood(x, 0, h)
  BY DEF SoundGood, IsBlock
<1>2. ASSUME NEW i \in 1..n, NEW t, SoundGood(x, i - 1, t)
      PROVE  SoundGood(x, i, ParamStep(t, block.cmds[i], block.view))
  <2> DEFINE cmd == block.cmds[i]
  <2>1. Sound(t, x) /\ WellFormed(cmd) /\ block.view \in Nat
    BY <1>2 DEF SoundGood, IsBlock
  <2> HIDE DEF cmd
  <2>2. ASSUME cmd.kind = "param"
        PROVE  Sound(ParamStep(t, cmd, block.view), x)
    BY <2>1, <2>2, OthersSound DEF ParamStep
  <2>3. ASSUME cmd.kind # "param"
        PROVE  Sound(ParamStep(t, cmd, block.view), x)
    BY <2>1, <2>3 DEF ParamStep
  <2> QED
    BY <2>2, <2>3 DEF SoundGood, cmd
<1>3. SoundGood(x, n, SoundParam!Pass(h, block.cmds, block.view, n))
  BY <1>1, <1>2, SoundParam!Invariance
<1> QED
  BY <1>3 DEF SoundGood, ForEach, Along, AlongTo, SoundParam!Pass, SoundParam!AlongTo,
              ParamStep

LEMMA SoundRotations ==
    ASSUME NEW h, NEW x, Sound(h, x), NEW block, IsBlock(block)
    PROVE  Sound(apply_rotation_commands_to_histories(h, block), x)
<1> DEFINE h1 == ForEach("rotate", LAMBDA g, cmd : DualSignedRotation(g, cmd, block.view),
                         h, block)
           h2 == ForEach("cancel",
                         LAMBDA g, cmd : apply_rotation_cancel_command(g, cmd, block.view),
                         h1, block)
           h3 == ForEach("operator_rotate",
                         LAMBDA g, cmd : apply_operator_rotation_command(g, cmd, block.view),
                         h2, block)
           h4 == ForEach("operator_key",
                         LAMBDA g, cmd : apply_operator_key_rotation_command(g, cmd, block.view),
                         h3, block)
<1>0. apply_rotation_commands_to_histories(h, block) = h4
  BY DEF apply_rotation_commands_to_histories
<1>1. Sound(h1, x)
  BY SoundRotatePass
<1> HIDE DEF h1
<1>2. Sound(h2, x)
  BY <1>1, SoundCancelPass
<1> HIDE DEF h2
<1>3. Sound(h3, x)
  BY <1>2, SoundRecoverPass
<1> HIDE DEF h3
<1>4. Sound(h4, x)
  BY <1>3, SoundReplacePass
<1> HIDE DEF h4
<1> QED
  BY <1>0, <1>4

LEMMA SoundPostBlock ==
    ASSUME NEW h, Sound(h, FALSE), NEW block, IsBlock(block)
    PROVE  Sound(PostBlock(h, block), FALSE)
<1> DEFINE g == apply_reconfig_commands_to_set_history(h, block)
<1>1. Sound(g, FALSE)
  BY SoundPurePass DEF apply_reconfig_commands_to_set_history
<1> HIDE DEF g
<1> QED
  BY <1>1, SoundRotations DEF PostBlock, g

\* The first keys of a record of BLS keys that is on disk: only the members of
\* the genesis begin at 0.
BlsStored(b) ==
    /\ \A id \in DOMAIN b : b[id][1].val # NoKey
    /\ {id \in DOMAIN b : b[id][1].from = 0} = DOMAIN Genesis

LEMMA SoundStored ==
    ASSUME NEW h, NEW x, Sound(h, x)
    PROVE  BlsStored(h.bls)
<1> DEFINE s == h.sets
           b == h.bls
<1>1. WellSets(s) /\ Linked(s, h.keys.byId, b)
  BY DEF Sound
<1>2. \A id \in DOMAIN b : IsBls(s, id, b[id])
  BY <1>1 DEF Linked
<1>3. DOMAIN s = 1..Len(s) /\ Len(s) \in Nat /\ 1 \in DOMAIN s
  BY <1>1, SeqParts DEF WellSets
<1>4. s[1].from = 0 /\ s[1].val = Genesis
  BY <1>1 DEF WellSets, Entry
<1> HIDE DEF s, b
<1>5. DOMAIN Genesis \subseteq DOMAIN b
  BY <1>1, <1>3, <1>4 DEF Linked
<1>6. ASSUME NEW id \in DOMAIN b
      PROVE  b[id][1].val # NoKey /\ (b[id][1].from = 0 <=> id \in DOMAIN Genesis)
  <2>1. IsBls(s, id, b[id])
    BY <1>2
  <2>2. 1 \in DOMAIN b[id]
    BY <2>1, HistoryParts DEF IsBls
  <2>3. PICK i \in DOMAIN s :
            /\ id \in DOMAIN s[i].val /\ s[i].from = b[id][1].from
            /\ \A j \in DOMAIN s : j < i => id \notin DOMAIN s[j].val
    BY <2>1 DEF IsBls, Begins
  <2>4. ASSUME b[id][1].from = 0
        PROVE  id \in DOMAIN Genesis
    <3>1. CASE i > 1
      <4>1. i - 1 \in DOMAIN s
        BY <1>3, <3>1
      <4>2. s[i - 1].from \in Nat /\ s[i - 1].from < s[i].from
        BY <1>1, <3>1, <4>1 DEF WellSets
      <4> QED
        BY <2>3, <2>4, <4>2
    <3>2. CASE i = 1
      BY <1>4, <2>3, <3>2
    <3> QED
      BY <1>3, <3>1, <3>2
  <2>5. ASSUME id \in DOMAIN Genesis
        PROVE  b[id][1].from = 0
    <3>1. ~(1 < i)
      BY <1>3, <1>4, <2>3, <2>5
    <3>2. i = 1
      BY <1>3, <3>1
    <3> QED
      BY <1>4, <2>3, <3>2
  <2>6. b[id][1].val # NoKey
    BY <2>1, <2>2 DEF IsBls
  <2> QED
    BY <2>4, <2>5, <2>6
<1>7. BlsStored(b)
  BY <1>5, <1>6 DEF BlsStored
<1> QED
  BY <1>7 DEF b

\* Puts of fields of the records H
PutsFrom(q, H) == \A i \in DOMAIN q : \E g \in H, f \in Fields : q[i] = PutOf(g, f)

LEMMA PutsOfAll ==
    ASSUME NEW h1, NEW h2, NEW h3, NEW h4
    PROVE  PutsFrom(Puts(h1, <<"ops", "bls", "endpoints", "sets">>)
                    \o Puts(h2, <<"ops", "keys", "bls">>)
                    \o Puts(h3, <<"endpoints">>)
                    \o Puts(h4, <<"params">>), {h1, h2, h3, h4})
<1> DEFINE P == {PutOf(g, f) : g \in {h1, h2, h3, h4}, f \in Fields}
           p1 == Puts(h1, <<"ops", "bls", "endpoints", "sets">>)
           p2 == Puts(h2, <<"ops", "keys", "bls">>)
           p3 == Puts(h3, <<"endpoints">>)
           p4 == Puts(h4, <<"params">>)
<1>1. ASSUME NEW g \in {h1, h2, h3, h4}, NEW seq \in Seq(Fields)
      PROVE  Puts(g, seq) \in Seq(P)
  <2>1. Puts(g, seq) \in Seq({PutOf(g, f) : f \in Fields})
    BY PutsAre
  <2>2. {PutOf(g, f) : f \in Fields} \subseteq P
    OBVIOUS
  <2> QED
    BY <2>1, <2>2, SeqMonotonic
<1>2. \A p \in P : \E g \in {h1, h2, h3, h4}, f \in Fields : p = PutOf(g, f)
  OBVIOUS
<1> HIDE DEF P
<1>3. /\ <<"ops", "bls", "endpoints", "sets">> \in Seq(Fields)
      /\ <<"ops", "keys", "bls">> \in Seq(Fields)
      /\ <<"endpoints">> \in Seq(Fields) /\ <<"params">> \in Seq(Fields)
  BY DEF Fields
<1>4. p1 \in Seq(P) /\ p2 \in Seq(P) /\ p3 \in Seq(P) /\ p4 \in Seq(P)
  BY <1>1, <1>3
<1> HIDE DEF p1, p2, p3, p4
<1> DEFINE q == p1 \o p2 \o p3 \o p4
<1>5. q \in Seq(P)
  BY <1>4
<1> HIDE DEF q
<1>6. \A i \in DOMAIN q : q[i] \in P
  BY <1>5
<1>7. PutsFrom(q, {h1, h2, h3, h4})
  BY <1>2, <1>6 DEF PutsFrom
<1> QED
  BY <1>7 DEF q, p1, p2, p3, p4

LEMMA SoundParams ==
    ASSUME NEW h, NEW x, Sound(h, x), NEW block, IsBlock(block)
    PROVE  Sound(apply_committed_param_updates(h, block), x)
<1> DEFINE g == ForEach("param", LAMBDA f, cmd : ApplyParam(f, cmd, block.view), h, block)
           p == params_at(g.params, block.view)
           r == [g EXCEPT !.interval = p]
<1>1. Sound(g, x)
  BY SoundParamPass
<1>2. apply_committed_param_updates(h, block) = r
  BY DEF apply_committed_param_updates
<1>3. IsRecords(g)
  BY <1>1 DEF Sound
<1> HIDE DEF g, p
<1>4. IsRecords(r) /\ r.sets = g.sets /\ r.keys = g.keys /\ r.bls = g.bls
  BY <1>3 DEF IsRecords
<1> HIDE DEF r
<1>5. Sound(r, x)
  BY <1>1, <1>4, SoundSame
<1> QED
  BY <1>2, <1>5

LEMMA SoundQuiet ==
    ASSUME NEW h, NEW x, Sound(h, x)
    PROVE  Sound(Quiet(h), x) /\ IsRecords(h) /\ IsRecords(Quiet(h)) /\ Quiet(h).sets = h.sets
<1>1. IsRecords(h)
  BY DEF Sound
<1> DEFINE g == Quiet(h)
<1>2. IsRecords(g) /\ g.sets = h.sets /\ g.keys = h.keys /\ g.bls = h.bls
  BY <1>1 DEF Quiet, IsRecords
<1> HIDE DEF g
<1>3. Sound(g, x)
  BY <1>2, SoundSame
<1> QED
  BY <1>1, <1>2, <1>3 DEF g

\* A put of keys is of sound ones.
PutSound(sets, p) ==
    /\ p.field = "keys" => Heads(sets, p.value)
    /\ p.field = "bls" => BlsStored(p.value)

LEMMA AppliedSound ==
    ASSUME NEW h, Sound(h, TRUE), NEW block, IsBlock(block)
    PROVE  LET a == Applied(h, block)
           IN /\ Sound(a.records, TRUE)
              /\ \A i \in DOMAIN a.puts : PutSound(a.records.sets, a.puts[i])
<1> DEFINE h1 == apply_committed_reconfigs(Quiet(h), block)
           h2 == apply_committed_rotations(Quiet(h1), block)
           h3 == apply_committed_endpoints(Quiet(h2), block)
           h4 == apply_committed_param_updates(Quiet(h3), block)
           q == Puts(h1, <<"ops", "bls", "endpoints", "sets">>)
                \o Puts(h2, <<"ops", "keys", "bls">>)
                \o Puts(h3, <<"endpoints">>)
                \o Puts(h4, <<"params">>)
<1>0. Len(block.cmds) \in Nat
  BY DEF IsBlock
<1>1. Applied(h, block) = [records |-> Quiet(h4), puts |-> q]
  BY DEF Applied
<1>2. Sound(h1, TRUE)
  <2>1. Sound(Quiet(h), TRUE)
    BY SoundQuiet
  <2> QED
    BY <2>1, SoundReconfigPass DEF apply_committed_reconfigs
<1> HIDE DEF h1
<1>3. Sound(h2, TRUE) /\ h2.sets = h1.sets
  <2>1. Sound(Quiet(h1), TRUE) /\ IsRecords(Quiet(h1)) /\ Quiet(h1).sets = h1.sets
    BY <1>2, SoundQuiet
  <2>2. Keeps(Quiet(h1), h2)
    BY <1>0, <2>1, RotationCommandsKeep DEF apply_committed_rotations
  <2>3. Sound(h2, TRUE)
    BY <2>1, SoundRotations DEF apply_committed_rotations
  <2> QED
    BY <2>1, <2>2, <2>3 DEF Keeps
<1> HIDE DEF h2
<1>4. Sound(h3, TRUE) /\ h3.sets = h1.sets
  <2>1. Sound(Quiet(h2), TRUE) /\ IsRecords(Quiet(h2)) /\ Quiet(h2).sets = h2.sets
    BY <1>3, SoundQuiet
  <2>2. Keeps(Quiet(h2), h3)
    BY <1>0, <2>1, EndpointsKeep
  <2>3. Sound(h3, TRUE)
    BY <2>1, SoundEndpointPass DEF apply_committed_endpoints
  <2> QED
    BY <1>3, <2>1, <2>2, <2>3 DEF Keeps
<1> HIDE DEF h3
<1>5. Sound(h4, TRUE) /\ h4.sets = h1.sets
  <2>1. Sound(Quiet(h3), TRUE) /\ IsRecords(Quiet(h3)) /\ Quiet(h3).sets = h3.sets
    BY <1>4, SoundQuiet
  <2>2. Keeps(Quiet(h3), h4)
    BY <1>0, <2>1, ParamsKeep
  <2>3. Sound(h4, TRUE)
    BY <2>1, SoundParams
  <2> QED
    BY <1>4, <2>1, <2>2, <2>3 DEF Keeps
<1> HIDE DEF h4
<1>6. Sound(Quiet(h4), TRUE) /\ Quiet(h4).sets = h1.sets
  BY <1>5, SoundQuiet
<1>7. PutsFrom(q, {h1, h2, h3, h4})
  BY PutsOfAll
<1> HIDE DEF q
<1>8. ASSUME NEW g \in {h1, h2, h3, h4}, NEW f \in Fields
      PROVE  PutSound(h1.sets, PutOf(g, f))
  <2>1. Sound(g, TRUE) /\ g.sets = h1.sets
    BY <1>2, <1>3, <1>4, <1>5
  <2>2. BlsStored(g.bls)
    BY <2>1, SoundStored
  <2>3. Heads(h1.sets, g.keys.byId)
    BY <2>1 DEF Sound
  <2>4. PutOf(g, f).field = f /\ PutOf(g, f).value = Stored(g, f)
    BY DEF PutOf
  <2>5. f = "keys" => Stored(g, f) = g.keys.byId
    BY DEF Stored
  <2>6. f = "bls" => Stored(g, f) = g.bls
    BY DEF Stored
  <2> QED
    BY <2>2, <2>3, <2>4, <2>5, <2>6 DEF PutSound
<1>9. \A i \in DOMAIN q : PutSound(h1.sets, q[i])
  BY <1>7, <1>8 DEF PutsFrom
<1> DEFINE r == Quiet(h4)
<1>10. Sound(r, TRUE) /\ r.sets = h1.sets
  BY <1>6
<1> HIDE DEF r
<1>11. Applied(h, block).records = r /\ Applied(h, block).puts = q
  BY <1>1 DEF r
<1> QED
  BY <1>9, <1>10, <1>11

\* Every member ever has a first set: the one from_set_history takes.
LEMMA JoinedFirst ==
    ASSUME NEW s, IsSeq(s), NEW id, \E i \in DOMAIN s : id \in DOMAIN s[i].val
    PROVE  Begins(s, id, s[Joined(s, id)].from)
<1> DEFINE I == {i \in DOMAIN s : id \in DOMAIN s[i].val}
           n == Len(s)
<1>1. n \in Nat /\ DOMAIN s = 1..n
  BY SeqParts
<1>2. I \in SUBSET Nat /\ I # {}
  BY <1>1
<1>3. PICK m \in I : \A k \in I : m <= k
  BY <1>2, SetsLoop!Least
<1>4. /\ m \in DOMAIN s /\ id \in DOMAIN s[m].val
      /\ \A j \in 1..(m - 1) : id \notin DOMAIN s[j].val
  BY <1>1, <1>3
<1>5. /\ Joined(s, id) \in DOMAIN s /\ id \in DOMAIN s[Joined(s, id)].val
      /\ \A j \in 1..(Joined(s, id) - 1) : id \notin DOMAIN s[j].val
  BY <1>4 DEF Joined
<1> DEFINE i == Joined(s, id)
<1> HIDE DEF i
<1>6. i \in DOMAIN s /\ id \in DOMAIN s[i].val
      /\ \A j \in 1..(i - 1) : id \notin DOMAIN s[j].val
  BY <1>5 DEF i
<1>7. \A j \in DOMAIN s : j < i => id \notin DOMAIN s[j].val
  BY <1>1, <1>6
<1>8. Begins(s, id, s[i].from)
  BY <1>6, <1>7 DEF Begins
<1> QED
  BY <1>8 DEF i

LEMMA HistoryHeads ==
    ASSUME NEW s, IsSeq(s)
    PROVE  Heads(s, from_set_history(s).byId)
<1> DEFINE ids == UNION {DOMAIN s[i].val : i \in DOMAIN s}
           byId == from_set_history(s).byId
<1>1. byId = [id \in ids |-> <<Entry(s[Joined(s, id)].from, id)>>]
  BY DEF from_set_history
<1>2. ASSUME NEW id \in ids
      PROVE  byId[id][1].from = s[Joined(s, id)].from
  <2> DEFINE v == s[Joined(s, id)].from
  <2>1. byId[id] = <<Entry(v, id)>>
    BY <1>1
  <2> HIDE DEF v
  <2>2. Entry(v, id).from = v
    BY DEF Entry
  <2>3. byId[id][1].from = v
    BY <2>1, <2>2
  <2> QED
    BY <2>3 DEF v
<1>3. ASSUME NEW id \in ids
      PROVE  Begins(s, id, s[Joined(s, id)].from)
  <2>1. \E i \in DOMAIN s : id \in DOMAIN s[i].val
    OBVIOUS
  <2> QED
    BY <2>1, JoinedFirst
<1>4. DOMAIN byId = ids
  BY <1>1
<1> HIDE DEF ids, byId
<1>5. Heads(s, byId)
  BY <1>2, <1>3, <1>4 DEF Heads
<1> QED
  BY <1>5 DEF byId

\* The members of the genesis, each with one key of each kind.
OneEach(f) ==
    /\ DOMAIN f = DOMAIN Genesis
    /\ \A id \in DOMAIN f : \E e : f[id] = <<e>> /\ e.from = 0 /\ e.val # NoKey

OneHead(f) ==
    /\ DOMAIN f = DOMAIN Genesis
    /\ \A id \in DOMAIN f : \E e : f[id] = <<e>> /\ e.from = 0

LEMMA SeedSound ==
    ASSUME NEW h, IsRecords(h), OwnersKnown(h.keys), h.sets = from_genesis(Genesis),
           OneHead(h.keys.byId), OneEach(h.bls)
    PROVE  Sound(h, TRUE)
<1> DEFINE s == h.sets
           byId == h.keys.byId
           bls == h.bls
<1>1. WellSets(s)
  BY GenesisWell
<1>2. DOMAIN s = {1} /\ s[1].from = 0 /\ s[1].val = Genesis
  <2> DEFINE e == Entry(0, Genesis)
  <2>1. e.from = 0 /\ e.val = Genesis /\ s = <<e>>
    BY DEF Entry, from_genesis
  <2> HIDE DEF e
  <2> QED
    BY <2>1
<1>3. OneHead(byId) /\ OneEach(bls)
  OBVIOUS
<1> HIDE DEF s, byId, bls
<1>4. ASSUME NEW id \in DOMAIN Genesis
      PROVE  Begins(s, id, 0)
  BY <1>2 DEF Begins
<1>5. ASSUME NEW id \in DOMAIN bls
      PROVE  IsBls(s, id, bls[id]) /\ Len(bls[id]) = 1 /\ bls[id][1].from = 0
  <2>1. PICK e : bls[id] = <<e>> /\ e.from = 0 /\ e.val # NoKey
    BY <1>3, <1>5 DEF OneEach
  <2>2. IsHistory(<<e>>) /\ Len(<<e>>) = 1 /\ <<e>>[1] = e /\ DOMAIN <<e>> = {1}
    BY <2>1, HistoryOne
  <2>3. Begins(s, id, 0)
    BY <1>3, <1>4, <1>5 DEF OneEach
  <2> QED
    BY <2>1, <2>2, <2>3 DEF IsBls
<1>6. ASSUME NEW id \in DOMAIN byId
      PROVE  /\ id \in DOMAIN bls /\ IsHistory(byId[id]) /\ Len(byId[id]) = 1
             /\ byId[id][1].from = 0
  <2>1. PICK e : byId[id] = <<e>> /\ e.from = 0
    BY <1>3, <1>6 DEF OneHead
  <2>2. IsHistory(<<e>>) /\ Len(<<e>>) = 1 /\ <<e>>[1] = e
    BY <2>1, HistoryOne
  <2> QED
    BY <1>3, <2>1, <2>2 DEF OneHead, OneEach
<1>7. ASSUME NEW id \in DOMAIN byId
      PROVE  Matches(byId[id], bls[id])
  <2>1. id \in DOMAIN bls
    BY <1>6, <1>7
  <2>2. IsHistory(bls[id]) /\ Len(bls[id]) = 1 /\ bls[id][1].from = 0
    BY <1>5, <2>1 DEF IsBls
  <2>3. \A i \in DOMAIN bls[id] : ~(i > 1)
    BY <2>2, HistoryParts
  <2> QED
    BY <1>6, <1>7, <2>2, <2>3 DEF Matches
<1>8. Linked(s, byId, bls)
  <2>1. \A i \in DOMAIN s : DOMAIN s[i].val \subseteq DOMAIN bls
    BY <1>2, <1>3 DEF OneEach
  <2> QED
    BY <1>5, <1>6, <1>7, <2>1 DEF Linked
<1>9. Heads(s, byId)
  <2>1. DOMAIN byId = DOMAIN Genesis
    BY <1>3 DEF OneHead
  <2> QED
    BY <1>4, <1>6, <2>1 DEF Heads
<1> QED
  BY <1>1, <1>8, <1>9 DEF Sound, s, byId, bls

LEMMA KeysOneHead == OneHead(KeyHistory(DOMAIN Genesis).byId)
<1> DEFINE f == KeyHistory(DOMAIN Genesis).byId
<1>1. f = [id \in DOMAIN Genesis |-> <<Entry(0, id)>>]
  BY DEF KeyHistory
<1>2. ASSUME NEW id \in DOMAIN Genesis
      PROVE  \E e : f[id] = <<e>> /\ e.from = 0
  <2> WITNESS Entry(0, id)
  <2>1. f[id] = <<Entry(0, id)>>
    BY <1>1
  <2>2. Entry(0, id).from = 0
    BY DEF Entry
  <2> QED
    BY <2>1, <2>2
<1>3. DOMAIN f = DOMAIN Genesis
  BY <1>1
<1> HIDE DEF f
<1>4. OneHead(f)
  BY <1>2, <1>3 DEF OneHead
<1> QED
  BY <1>4 DEF f

\* The BLS keys a node starts with when there are none on disk
LEMMA GenesisBlsKeys == OneEach(with_genesis(GenesisBls)) /\ BlsStored(with_genesis(GenesisBls))
<1> DEFINE f == with_genesis(GenesisBls)
<1>1. f = [id \in DOMAIN Genesis |-> <<Entry(0, GenesisBls[id])>>]
  BY GovernanceAssumption DEF with_genesis
<1>2. DOMAIN f = DOMAIN Genesis
  BY <1>1
<1>3. ASSUME NEW id \in DOMAIN Genesis
      PROVE  \E e : f[id] = <<e>> /\ e.from = 0 /\ e.val # NoKey
  <2> WITNESS Entry(0, GenesisBls[id])
  <2>1. f[id] = <<Entry(0, GenesisBls[id])>>
    BY <1>1
  <2>2. Entry(0, GenesisBls[id]).from = 0 /\ Entry(0, GenesisBls[id]).val = GenesisBls[id]
    BY DEF Entry
  <2>3. GenesisBls[id] # NoKey
    BY GovernanceAssumption
  <2> QED
    BY <2>1, <2>2, <2>3
<1> HIDE DEF f
<1>4. OneEach(f)
  BY <1>2, <1>3 DEF OneEach
<1>5. ASSUME NEW id \in DOMAIN Genesis
      PROVE  f[id][1].from = 0 /\ f[id][1].val # NoKey
  <2>1. PICK e : f[id] = <<e>> /\ e.from = 0 /\ e.val # NoKey
    BY <1>3
  <2>2. <<e>>[1] = e
    OBVIOUS
  <2> QED
    BY <2>1, <2>2
<1>6. BlsStored(f)
  BY <1>2, <1>5 DEF BlsStored
<1> QED
  BY <1>4, <1>6 DEF f

LEMMA SeedOneEach ==
    ASSUME NEW b, BlsStored(b)
    PROVE  OneEach(genesis_only_seed(b))
<1> DEFINE f == genesis_only_seed(b)
<1>1. f = [id \in {x \in DOMAIN b : b[x][1].from = 0} |-> <<b[id][1]>>]
  BY DEF genesis_only_seed
<1>2. DOMAIN f = {x \in DOMAIN b : b[x][1].from = 0}
  BY <1>1
<1>3. DOMAIN f = DOMAIN Genesis
  BY <1>2 DEF BlsStored
<1>4. ASSUME NEW id \in DOMAIN f
      PROVE  \E e : f[id] = <<e>> /\ e.from = 0 /\ e.val # NoKey
  <2> WITNESS b[id][1]
  <2>1. id \in DOMAIN b /\ b[id][1].from = 0
    BY <1>2, <1>4
  <2>2. f[id] = <<b[id][1]>>
    BY <1>1, <1>4
  <2> QED
    BY <2>1, <2>2 DEF BlsStored
<1> HIDE DEF f
<1>5. OneEach(f)
  BY <1>3, <1>4 DEF OneEach
<1> QED
  BY <1>5 DEF f

LEMMA GenesisSound == Sound(GenesisRecords, TRUE)
<1> DEFINE h == GenesisRecords
<1>1. /\ IsRecords(h) /\ OwnersKnown(h.keys) /\ h.sets = from_genesis(Genesis)
  BY GenesisParts
<1>2. h.keys = KeyHistory(DOMAIN Genesis) /\ h.bls = with_genesis(GenesisBls)
  BY DEF GenesisRecords
<1>3. OneHead(h.keys.byId) /\ OneEach(h.bls)
  BY <1>2, KeysOneHead, GenesisBlsKeys
<1> HIDE DEF h
<1>4. Sound(h, TRUE)
  BY <1>1, <1>3, SeedSound
<1> QED
  BY <1>4 DEF h

SoundReplay == INSTANCE LoopProofs WITH Step <- PostBlockIn, Good <- SoundGood

\* A replay makes its own keys and takes only the first BLS keys of the
\* members of the genesis from the records it starts from.
LEMMA RebuiltSound ==
    ASSUME NEW h, IsRecords(h), h.sets[1].val = Genesis, BlsStored(h.bls), NEW n \in Nat,
           \A i \in 1..n : IsBlock(chain[i])
    PROVE  Sound(Rebuilt(h, n), FALSE)
<1> DEFINE first == h.sets[1].val
           k == KeyHistory(DOMAIN first)
           b == genesis_only_seed(h.bls)
           o == genesis_only_seed(h.ops)
           start == [h EXCEPT !.sets = from_genesis(first), !.keys = k, !.bls = b, !.ops = o]
<1>1. Rebuilt(h, n) = SoundReplay!Pass(start, chain, 0, n)
  BY DEF Rebuilt, AlongTo, SoundReplay!Pass, SoundReplay!AlongTo, PostBlockIn
<1>2. k = KeyHistory(DOMAIN Genesis) /\ OwnersKnown(k) /\ OneHead(k.byId)
  BY KeysOneHead DEF OwnersKnown, KeyHistory
<1>3. OneEach(b)
  BY SeedOneEach
<1> HIDE DEF k, b, o
<1>4. /\ IsRecords(start) /\ start.sets = from_genesis(Genesis)
      /\ start.keys = k /\ start.bls = b
  BY DEF IsRecords
<1> HIDE DEF start
<1>5. Sound(start, TRUE)
  BY <1>2, <1>3, <1>4, SeedSound
<1>6. SoundGood(FALSE, 0, start)
  BY <1>5 DEF SoundGood, Sound
<1>7. ASSUME NEW i \in 1..n, NEW t, SoundGood(FALSE, i - 1, t)
      PROVE  SoundGood(FALSE, i, PostBlockIn(t, chain[i], 0))
  BY <1>7, SoundPostBlock DEF SoundGood, PostBlockIn
<1>8. SoundGood(FALSE, n, SoundReplay!Pass(start, chain, 0, n))
  BY <1>6, <1>7, SoundReplay!Invariance
<1> QED
  BY <1>1, <1>8 DEF SoundGood

-----------------------------------------------------------------------------
(***************************************************************************)
(* Every change of a record of keys is marked, and so is put on disk.      *)
(***************************************************************************)
\* A rotation marks both records.
Marked(g, h) ==
    /\ IsRecords(h) /\ g.touched \subseteq h.touched
    /\ "keys" \notin h.touched => h.keys = g.keys /\ h.bls = g.bls
    /\ "bls" \notin h.touched => h.bls = g.bls

\* A reconfiguration changes the BLS keys only and marks them; a new member
\* has one key.
Grows(b, c) == \A id \in DOMAIN c : Len(c[id]) = 1 \/ (id \in DOMAIN b /\ c[id] = b[id])

Joins(g, h) ==
    /\ IsRecords(h) /\ g.touched \subseteq h.touched /\ h.keys = g.keys
    /\ "bls" \notin h.touched => h.bls = g.bls
    /\ Grows(g.bls, h.bls)

\* The other commands change neither.
SameKeys(g, h) == IsRecords(h) /\ h.keys = g.keys /\ h.bls = g.bls

LEMMA MarkedTrans ==
    ASSUME NEW f, NEW g, NEW h
    PROVE  /\ Marked(f, g) /\ Marked(g, h) => Marked(f, h)
           /\ Joins(f, g) /\ Joins(g, h) => Joins(f, h)
           /\ SameKeys(f, g) /\ SameKeys(g, h) => SameKeys(f, h)
<1>1. ASSUME Marked(f, g), Marked(g, h)
      PROVE  Marked(f, h)
  BY <1>1 DEF Marked
<1>2. ASSUME Grows(f.bls, g.bls), Grows(g.bls, h.bls)
      PROVE  Grows(f.bls, h.bls)
  BY <1>2 DEF Grows
<1>3. ASSUME Joins(f, g), Joins(g, h)
      PROVE  Joins(f, h)
  BY <1>2, <1>3 DEF Joins
<1>4. ASSUME SameKeys(f, g), SameKeys(g, h)
      PROVE  SameKeys(f, h)
  BY <1>4 DEF SameKeys
<1> QED
  BY <1>1, <1>3, <1>4

LEMMA RotationsMark ==
    ASSUME NEW h, IsRecords(h), NEW cmd, NEW view
    PROVE  /\ Marked(h, DualSignedRotation(h, cmd, view))
           /\ Marked(h, apply_rotation_cancel_command(h, cmd, view))
           /\ Marked(h, apply_operator_rotation_command(h, cmd, view))
           /\ Marked(h, apply_operator_key_rotation_command(h, cmd, view))
<1> DEFINE c == h.touched \cup {"keys", "bls"}
<1>1. ASSUME NEW k, NEW b, NEW g,
             g = h \/ g = [h EXCEPT !.keys = k, !.bls = b, !.touched = c]
      PROVE  Marked(h, g)
  <2>1. CASE g = h
    BY <2>1 DEF Marked
  <2>2. CASE g = [h EXCEPT !.keys = k, !.bls = b, !.touched = c]
    <3>1. IsRecords(g) /\ g.touched = c
      BY <2>2 DEF IsRecords
    <3> QED
      BY <3>1 DEF Marked
  <2> QED
    BY <1>1, <2>1, <2>2
<1>2. ASSUME NEW id
      PROVE  Marked(h, Rotated(h, cmd, id))
  <2> DEFINE k == apply_rotation(h.keys, cmd.validator, cmd.new, cmd.v_eff)
             b == rotate(h.bls, id, cmd.v_eff, cmd.bls)
             g == Rotated(h, cmd, id)
  <2>1. g = [h EXCEPT !.keys = k, !.bls = b, !.touched = c]
    BY DEF Rotated
  <2> HIDE DEF k, b, g, c
  <2>2. Marked(h, g)
    BY <1>1, <2>1
  <2> QED
    BY <2>2 DEF g
<1>3. Marked(h, h)
  BY DEF Marked
<1>4. Marked(h, DualSignedRotation(h, cmd, view))
  BY <1>2, <1>3 DEF DualSignedRotation
<1>5. Marked(h, apply_operator_rotation_command(h, cmd, view))
  BY <1>2, <1>3 DEF apply_operator_rotation_command
<1>6. Marked(h, apply_rotation_cancel_command(h, cmd, view))
  <2> DEFINE id == validator_for(h.keys, cmd.validator)
             k == cancel_pending_rotation(h.keys, cmd.validator, cmd.v_eff, view)
             b == cancel_rotation(h.bls, id, cmd.v_eff, view)
             g == apply_rotation_cancel_command(h, cmd, view)
  <2>1. g = h \/ g = [h EXCEPT !.keys = k, !.bls = b, !.touched = c]
    BY DEF apply_rotation_cancel_command
  <2> HIDE DEF id, k, b, g, c
  <2>2. Marked(h, g)
    BY <1>1, <2>1
  <2> QED
    BY <2>2 DEF g
<1>7. Marked(h, apply_operator_key_rotation_command(h, cmd, view))
  <2> DEFINE y == rotate(h.ops, cmd.validator, cmd.v_eff, cmd.new)
             d == h.touched \cup {"ops"}
             g == apply_operator_key_rotation_command(h, cmd, view)
  <2>1. g = h \/ g = [h EXCEPT !.ops = y, !.touched = d]
    BY DEF apply_operator_key_rotation_command
  <2> HIDE DEF y, g
  <2>2. CASE g = [h EXCEPT !.ops = y, !.touched = d]
    <3>1. IsRecords(g) /\ g.touched = d /\ g.keys = h.keys /\ g.bls = h.bls
      BY <2>2 DEF IsRecords
    <3>2. Marked(h, g)
      BY <3>1 DEF Marked
    <3> QED
      BY <3>2 DEF g
  <2> QED
    BY <1>3, <2>1, <2>2 DEF g
<1> QED
  BY <1>4, <1>5, <1>6, <1>7

LEMMA OthersSame ==
    ASSUME NEW h, IsRecords(h), NEW cmd, NEW view
    PROVE  SameKeys(h, ApplyEndpoint(h, cmd, view)) /\ SameKeys(h, ApplyParam(h, cmd, view))
<1>1. SameKeys(h, ApplyEndpoint(h, cmd, view))
  <2> DEFINE y == EndpointApplied(h.endpoints, cmd)
             c == IF EndpointAccepted(h.endpoints, cmd)
                    THEN h.touched \cup {"endpoints"} ELSE h.touched
             g == ApplyEndpoint(h, cmd, view)
  <2>1. g = h \/ g = [h EXCEPT !.endpoints = y, !.touched = c]
    BY DEF ApplyEndpoint
  <2> HIDE DEF y, c, g
  <2>2. SameKeys(h, g)
    BY <2>1 DEF SameKeys, IsRecords
  <2> QED
    BY <2>2 DEF g
<1>2. SameKeys(h, ApplyParam(h, cmd, view))
  <2> DEFINE y == insert_params(h.params, cmd.v_eff, cmd.interval)
             c == h.touched \cup {"params"}
             g == ApplyParam(h, cmd, view)
  <2>1. g = h \/ g = [h EXCEPT !.params = y, !.touched = c]
    BY DEF ApplyParam
  <2> HIDE DEF y, c, g
  <2>2. SameKeys(h, g)
    BY <2>1 DEF SameKeys, IsRecords
  <2> QED
    BY <2>2 DEF g
<1> QED
  BY <1>1, <1>2

LEMMA ReconfigJoins ==
    ASSUME NEW h, IsRecords(h), NEW cmd, NEW view
    PROVE  Joins(h, ApplyReconfig(h, cmd, view))
<1>1. CASE ~Reconfigures(h, cmd, view)
  <2>1. ApplyReconfig(h, cmd, view) = h
    BY <1>1 DEF ApplyReconfig
  <2>2. Grows(h.bls, h.bls)
    BY DEF Grows
  <2> QED
    BY <2>1, <2>2 DEF Joins
<1>2. CASE Reconfigures(h, cmd, view)
  <2> DEFINE s == insert_boundary(h.sets, cmd.v_eff, NextSet(cmd, set_at(h.sets, view)))
             o == RegisterOperators(h.ops, cmd)
             r == RegisterBls(h.bls, cmd)
             b == Boundary(h, cmd, view)
             reg == forget(SeedNew(h.endpoints, cmd), ToSet(cmd.removes))
             c == b.touched \cup {"sets"} \cup Changed("ops", h.ops, b.ops)
                     \cup Changed("bls", h.bls, b.bls)
                     \cup Changed("endpoints", h.endpoints, reg)
             g == ApplyReconfig(h, cmd, view)
  <2>1. b = [h EXCEPT !.sets = s, !.ops = o, !.bls = r]
    BY DEF Boundary
  <2>2. Grows(h.bls, r)
    <3>1. r = [id \in DOMAIN h.bls \cup Ids(cmd.adds) |->
                  IF id \in DOMAIN h.bls THEN h.bls[id]
                  ELSE <<Entry(cmd.v_eff, BlsIn(cmd.adds, id))>>]
      BY DEF RegisterBls
    <3> HIDE DEF r
    <3>2. ASSUME NEW id \in DOMAIN r
          PROVE  Len(r[id]) = 1 \/ (id \in DOMAIN h.bls /\ r[id] = h.bls[id])
      <4> DEFINE e == Entry(cmd.v_eff, BlsIn(cmd.adds, id))
      <4>1. (id \in DOMAIN h.bls /\ r[id] = h.bls[id]) \/ r[id] = <<e>>
        BY <3>1, <3>2
      <4> HIDE DEF e
      <4> QED
        BY <4>1
    <3> QED
      BY <3>2 DEF Grows
  <2> HIDE DEF s, o, r
  <2>3. IsRecords(b) /\ b.keys = h.keys /\ b.bls = r /\ b.touched = h.touched
    BY <2>1 DEF IsRecords
  <2>4. g = [b EXCEPT !.endpoints = reg, !.touched = c]
    BY <1>2, <2>3 DEF ApplyReconfig, IsRecords
  <2>5. h.touched \subseteq c /\ ("bls" \notin c => r = h.bls)
    BY <2>3 DEF Changed
  <2> HIDE DEF b, reg, c, g
  <2>6. IsRecords(g) /\ g.keys = h.keys /\ g.bls = r /\ g.touched = c
    BY <2>3, <2>4 DEF IsRecords
  <2>7. Joins(h, g)
    BY <2>2, <2>5, <2>6 DEF Joins
  <2> QED
    BY <2>7 DEF g
<1> QED
  BY <1>1, <1>2

MarkedGood(w, i, h) == Marked(w, h)
JoinsGood(w, i, h) == Joins(w, h)
SameGood(w, i, h) == SameKeys(w, h)

MarkRotate == INSTANCE LoopProofs WITH Step <- RotateStep, Good <- MarkedGood
MarkCancel == INSTANCE LoopProofs WITH Step <- CancelStep, Good <- MarkedGood
MarkRecover == INSTANCE LoopProofs WITH Step <- RecoverStep, Good <- MarkedGood
MarkReplace == INSTANCE LoopProofs WITH Step <- ReplaceStep, Good <- MarkedGood
JoinsReconfig == INSTANCE LoopProofs WITH Step <- ReconfigStep, Good <- JoinsGood
SameEndpoint == INSTANCE LoopProofs WITH Step <- EndpointStep, Good <- SameGood
SameParam == INSTANCE LoopProofs WITH Step <- ParamStep, Good <- SameGood

LEMMA MarkRotatePass ==
    ASSUME NEW h, IsRecords(h), NEW block, Len(block.cmds) \in Nat
    PROVE  Marked(h, ForEach("rotate", LAMBDA g, cmd : DualSignedRotation(g, cmd, block.view),
                         h, block))
<1> DEFINE n == Len(block.cmds)
<1>1. MarkedGood(h, 0, h)
  BY DEF MarkedGood, Marked
<1>2. ASSUME NEW i \in 1..n, NEW t, MarkedGood(h, i - 1, t)
      PROVE  MarkedGood(h, i, RotateStep(t, block.cmds[i], block.view))
  <2>1. Marked(h, t) /\ IsRecords(t)
    BY <1>2 DEF MarkedGood, Marked
  <2>2. Marked(t, DualSignedRotation(t, block.cmds[i], block.view))
    BY <2>1, RotationsMark
  <2>3. Marked(h, DualSignedRotation(t, block.cmds[i], block.view))
    BY <2>1, <2>2, MarkedTrans
  <2> QED
    BY <2>1, <2>3 DEF MarkedGood, RotateStep
<1>3. MarkedGood(h, n, MarkRotate!Pass(h, block.cmds, block.view, n))
  BY <1>1, <1>2, MarkRotate!Invariance
<1> QED
  BY <1>3 DEF MarkedGood, ForEach, Along, AlongTo, MarkRotate!Pass, MarkRotate!AlongTo, RotateStep

LEMMA MarkCancelPass ==
    ASSUME NEW h, IsRecords(h), NEW block, Len(block.cmds) \in Nat
    PROVE  Marked(h, ForEach("cancel", LAMBDA g, cmd : apply_rotation_cancel_command(g, cmd, block.view),
                         h, block))
<1> DEFINE n == Len(block.cmds)
<1>1. MarkedGood(h, 0, h)
  BY DEF MarkedGood, Marked
<1>2. ASSUME NEW i \in 1..n, NEW t, MarkedGood(h, i - 1, t)
      PROVE  MarkedGood(h, i, CancelStep(t, block.cmds[i], block.view))
  <2>1. Marked(h, t) /\ IsRecords(t)
    BY <1>2 DEF MarkedGood, Marked
  <2>2. Marked(t, apply_rotation_cancel_command(t, block.cmds[i], block.view))
    BY <2>1, RotationsMark
  <2>3. Marked(h, apply_rotation_cancel_command(t, block.cmds[i], block.view))
    BY <2>1, <2>2, MarkedTrans
  <2> QED
    BY <2>1, <2>3 DEF MarkedGood, CancelStep
<1>3. MarkedGood(h, n, MarkCancel!Pass(h, block.cmds, block.view, n))
  BY <1>1, <1>2, MarkCancel!Invariance
<1> QED
  BY <1>3 DEF MarkedGood, ForEach, Along, AlongTo, MarkCancel!Pass, MarkCancel!AlongTo, CancelStep

LEMMA MarkRecoverPass ==
    ASSUME NEW h, IsRecords(h), NEW block, Len(block.cmds) \in Nat
    PROVE  Marked(h, ForEach("operator_rotate", LAMBDA g, cmd : apply_operator_rotation_command(g, cmd, block.view),
                         h, block))
<1> DEFINE n == Len(block.cmds)
<1>1. MarkedGood(h, 0, h)
  BY DEF MarkedGood, Marked
<1>2. ASSUME NEW i \in 1..n, NEW t, MarkedGood(h, i - 1, t)
      PROVE  MarkedGood(h, i, RecoverStep(t, block.cmds[i], block.view))
  <2>1. Marked(h, t) /\ IsRecords(t)
    BY <1>2 DEF MarkedGood, Marked
  <2>2. Marked(t, apply_operator_rotation_command(t, block.cmds[i], block.view))
    BY <2>1, RotationsMark
  <2>3. Marked(h, apply_operator_rotation_command(t, block.cmds[i], block.view))
    BY <2>1, <2>2, MarkedTrans
  <2> QED
    BY <2>1, <2>3 DEF MarkedGood, RecoverStep
<1>3. MarkedGood(h, n, MarkRecover!Pass(h, block.cmds, block.view, n))
  BY <1>1, <1>2, MarkRecover!Invariance
<1> QED
  BY <1>3 DEF MarkedGood, ForEach, Along, AlongTo, MarkRecover!Pass, MarkRecover!AlongTo, RecoverStep

LEMMA MarkReplacePass ==
    ASSUME NEW h, IsRecords(h), NEW block, Len(block.cmds) \in Nat
    PROVE  Marked(h, ForEach("operator_key", LAMBDA g, cmd : apply_operator_key_rotation_command(g, cmd, block.view),
                         h, block))
<1> DEFINE n == Len(block.cmds)
<1>1. MarkedGood(h, 0, h)
  BY DEF MarkedGood, Marked
<1>2. ASSUME NEW i \in 1..n, NEW t, MarkedGood(h, i - 1, t)
      PROVE  MarkedGood(h, i, ReplaceStep(t, block.cmds[i], block.view))
  <2>1. Marked(h, t) /\ IsRecords(t)
    BY <1>2 DEF MarkedGood, Marked
  <2>2. Marked(t, apply_operator_key_rotation_command(t, block.cmds[i], block.view))
    BY <2>1, RotationsMark
  <2>3. Marked(h, apply_operator_key_rotation_command(t, block.cmds[i], block.view))
    BY <2>1, <2>2, MarkedTrans
  <2> QED
    BY <2>1, <2>3 DEF MarkedGood, ReplaceStep
<1>3. MarkedGood(h, n, MarkReplace!Pass(h, block.cmds, block.view, n))
  BY <1>1, <1>2, MarkReplace!Invariance
<1> QED
  BY <1>3 DEF MarkedGood, ForEach, Along, AlongTo, MarkReplace!Pass, MarkReplace!AlongTo, ReplaceStep

LEMMA JoinsReconfigPass ==
    ASSUME NEW h, IsRecords(h), NEW block, Len(block.cmds) \in Nat
    PROVE  Joins(h, ForEach("reconfig", LAMBDA g, cmd : ApplyReconfig(g, cmd, block.view),
                         h, block))
<1> DEFINE n == Len(block.cmds)
<1>1. JoinsGood(h, 0, h)
  BY DEF JoinsGood, Joins, Grows
<1>2. ASSUME NEW i \in 1..n, NEW t, JoinsGood(h, i - 1, t)
      PROVE  JoinsGood(h, i, ReconfigStep(t, block.cmds[i], block.view))
  <2>1. Joins(h, t) /\ IsRecords(t)
    BY <1>2 DEF JoinsGood, Joins
  <2>2. Joins(t, ApplyReconfig(t, block.cmds[i], block.view))
    BY <2>1, ReconfigJoins
  <2>3. Joins(h, ApplyReconfig(t, block.cmds[i], block.view))
    BY <2>1, <2>2, MarkedTrans
  <2> QED
    BY <2>1, <2>3 DEF JoinsGood, ReconfigStep
<1>3. JoinsGood(h, n, JoinsReconfig!Pass(h, block.cmds, block.view, n))
  BY <1>1, <1>2, JoinsReconfig!Invariance
<1> QED
  BY <1>3 DEF JoinsGood, ForEach, Along, AlongTo, JoinsReconfig!Pass, JoinsReconfig!AlongTo, ReconfigStep

LEMMA SameEndpointPass ==
    ASSUME NEW h, IsRecords(h), NEW block, Len(block.cmds) \in Nat
    PROVE  SameKeys(h, ForEach("endpoint", LAMBDA g, cmd : ApplyEndpoint(g, cmd, block.view),
                         h, block))
<1> DEFINE n == Len(block.cmds)
<1>1. SameGood(h, 0, h)
  BY DEF SameGood, SameKeys
<1>2. ASSUME NEW i \in 1..n, NEW t, SameGood(h, i - 1, t)
      PROVE  SameGood(h, i, EndpointStep(t, block.cmds[i], block.view))
  <2>1. SameKeys(h, t) /\ IsRecords(t)
    BY <1>2 DEF SameGood, SameKeys
  <2>2. SameKeys(t, ApplyEndpoint(t, block.cmds[i], block.view))
    BY <2>1, OthersSame
  <2>3. SameKeys(h, ApplyEndpoint(t, block.cmds[i], block.view))
    BY <2>1, <2>2, MarkedTrans
  <2> QED
    BY <2>1, <2>3 DEF SameGood, EndpointStep
<1>3. SameGood(h, n, SameEndpoint!Pass(h, block.cmds, block.view, n))
  BY <1>1, <1>2, SameEndpoint!Invariance
<1> QED
  BY <1>3 DEF SameGood, ForEach, Along, AlongTo, SameEndpoint!Pass, SameEndpoint!AlongTo, EndpointStep

LEMMA SameParamPass ==
    ASSUME NEW h, IsRecords(h), NEW block, Len(block.cmds) \in Nat
    PROVE  SameKeys(h, ForEach("param", LAMBDA g, cmd : ApplyParam(g, cmd, block.view),
                         h, block))
<1> DEFINE n == Len(block.cmds)
<1>1. SameGood(h, 0, h)
  BY DEF SameGood, SameKeys
<1>2. ASSUME NEW i \in 1..n, NEW t, SameGood(h, i - 1, t)
      PROVE  SameGood(h, i, ParamStep(t, block.cmds[i], block.view))
  <2>1. SameKeys(h, t) /\ IsRecords(t)
    BY <1>2 DEF SameGood, SameKeys
  <2>2. SameKeys(t, ApplyParam(t, block.cmds[i], block.view))
    BY <2>1, OthersSame
  <2>3. SameKeys(h, ApplyParam(t, block.cmds[i], block.view))
    BY <2>1, <2>2, MarkedTrans
  <2> QED
    BY <2>1, <2>3 DEF SameGood, ParamStep
<1>3. SameGood(h, n, SameParam!Pass(h, block.cmds, block.view, n))
  BY <1>1, <1>2, SameParam!Invariance
<1> QED
  BY <1>3 DEF SameGood, ForEach, Along, AlongTo, SameParam!Pass, SameParam!AlongTo, ParamStep

LEMMA RotationsMarked ==
    ASSUME NEW h, IsRecords(h), NEW block, Len(block.cmds) \in Nat
    PROVE  Marked(h, apply_rotation_commands_to_histories(h, block))
<1> DEFINE h1 == ForEach("rotate", LAMBDA g, cmd : DualSignedRotation(g, cmd, block.view),
                         h, block)
           h2 == ForEach("cancel",
                         LAMBDA g, cmd : apply_rotation_cancel_command(g, cmd, block.view),
                         h1, block)
           h3 == ForEach("operator_rotate",
                         LAMBDA g, cmd : apply_operator_rotation_command(g, cmd, block.view),
                         h2, block)
           h4 == ForEach("operator_key",
                         LAMBDA g, cmd : apply_operator_key_rotation_command(g, cmd, block.view),
                         h3, block)
<1>0. apply_rotation_commands_to_histories(h, block) = h4
  BY DEF apply_rotation_commands_to_histories
<1>1. Marked(h, h1)
  BY MarkRotatePass
<1>2. IsRecords(h1)
  BY <1>1 DEF Marked
<1> HIDE DEF h1
<1>3. Marked(h1, h2)
  BY <1>2, MarkCancelPass
<1>4. IsRecords(h2)
  BY <1>3 DEF Marked
<1> HIDE DEF h2
<1>5. Marked(h2, h3)
  BY <1>4, MarkRecoverPass
<1>6. IsRecords(h3)
  BY <1>5 DEF Marked
<1> HIDE DEF h3
<1>7. Marked(h3, h4)
  BY <1>6, MarkReplacePass
<1> HIDE DEF h4
<1>8. Marked(h, h2)
  BY <1>1, <1>3, MarkedTrans
<1>9. Marked(h, h3)
  BY <1>5, <1>8, MarkedTrans
<1> QED
  BY <1>0, <1>7, <1>9, MarkedTrans

LEMMA ParamsSame ==
    ASSUME NEW h, IsRecords(h), NEW block, Len(block.cmds) \in Nat
    PROVE  SameKeys(h, apply_committed_param_updates(h, block))
<1> DEFINE g == ForEach("param", LAMBDA f, cmd : ApplyParam(f, cmd, block.view), h, block)
           p == params_at(g.params, block.view)
           r == [g EXCEPT !.interval = p]
<1>1. SameKeys(h, g)
  BY SameParamPass
<1>2. apply_committed_param_updates(h, block) = r
  BY DEF apply_committed_param_updates
<1> HIDE DEF g, p
<1>3. SameKeys(h, r)
  BY <1>1 DEF SameKeys, IsRecords
<1> QED
  BY <1>2, <1>3

-----------------------------------------------------------------------------
(***************************************************************************)
(* The inductive invariant of the keys, for a node that keeps the whole    *)
(* chain.                                                                  *)
(***************************************************************************)
KeysOnDisk == "keys" \in DOMAIN disk => height > 0 /\ Heads(mem.sets, disk["keys"])

BlsOnDisk == "bls" \in DOMAIN disk => height > 0 /\ BlsStored(disk["bls"])

KeysToCome ==
    /\ todo # <<>> => height > 0
    /\ \A i \in DOMAIN todo : PutSound(mem.sets, todo[i])

KeyInv == Sound(mem, TRUE) /\ KeysOnDisk /\ BlsOnDisk /\ KeysToCome

LEMMA InitKeys == Init => KeyInv
<1> SUFFICES ASSUME Init
             PROVE  KeyInv
  OBVIOUS
<1>1. Sound(mem, TRUE)
  BY GenesisSound DEF Init
<1>2. DOMAIN disk = {} /\ todo = <<>> /\ DOMAIN todo = {}
  BY DEF Init
<1> QED
  BY <1>1, <1>2 DEF KeyInv, KeysOnDisk, BlsOnDisk, KeysToCome

LEMMA ChainBlocks ==
    ASSUME GovInv
    PROVE  \A i \in 1..Len(chain) : IsBlock(chain[i])
<1> SUFFICES ASSUME NEW i \in 1..Len(chain)
             PROVE  IsBlock(chain[i])
  OBVIOUS
<1>1. chain[i].view = i /\ chain[i].cmds \in Menu /\ i \in Nat
  BY DEF GovInv, ChainOK
<1> QED
  BY <1>1, Commands DEF IsBlock

\* A set that is appended changes the first set of no validator.
LEMMA HeadsLater ==
    ASSUME NEW s, WellSets(s), NEW t, WellSets(t), t = s \/ Front(t) = s,
           NEW byId, Heads(s, byId)
    PROVE  Heads(t, byId)
<1>1. CASE t = s
  BY <1>1
<1>2. CASE Front(t) = s
  <2> DEFINE n == Len(t)
  <2>1. t \in Seq(ToSet(t)) /\ n \in Nat /\ n >= 1 /\ DOMAIN t = 1..n
    BY SeqParts DEF WellSets, IsSeq
  <2>2. Front(t) = SubSeq(t, 1, n - 1)
    BY DEF Front
  <2>3. Len(s) = n - 1 /\ \A i \in 1..n - 1 : s[i] = t[i]
    BY <1>2, <2>1, <2>2
  <2>4. DOMAIN s = 1..n - 1
    BY <2>3, SeqParts DEF WellSets
  <2> HIDE DEF n
  <2>5. ASSUME NEW id, NEW v, Begins(s, id, v)
        PROVE  Begins(t, id, v)
    <3>1. PICK i \in DOMAIN s :
              /\ id \in DOMAIN s[i].val /\ s[i].from = v
              /\ \A j \in DOMAIN s : j < i => id \notin DOMAIN s[j].val
      BY <2>5 DEF Begins
    <3>2. i \in DOMAIN t /\ id \in DOMAIN t[i].val /\ t[i].from = v
      BY <2>1, <2>3, <2>4, <3>1
    <3>3. ASSUME NEW j \in DOMAIN t, j < i
          PROVE  id \notin DOMAIN t[j].val
      BY <2>1, <2>3, <2>4, <3>1, <3>3
    <3> QED
      BY <3>2, <3>3 DEF Begins
  <2> QED
    BY <2>5 DEF Heads
<1> QED
  BY <1>1, <1>2

LEMMA CommitKeys ==
    ASSUME GovInv, KeyInv, Commit
    PROVE  KeyInv'
<1> DEFINE block == chain[height + 1]
           a == Applied(mem, block)
<1>1. /\ height' = height + 1 /\ mem' = a.records /\ todo' = a.puts /\ disk' = disk
      /\ height + 4 <= Len(chain)
  BY DEF Commit
<1>2. height + 1 \in 1..Len(chain) /\ height \in Nat
  BY <1>1, NextBlock
<1>3. IsBlock(block)
  BY <1>2, ChainBlocks
<1>4. Sound(mem, TRUE)
  BY DEF KeyInv
<1>5. /\ Sound(a.records, TRUE)
      /\ \A i \in DOMAIN a.puts : PutSound(a.records.sets, a.puts[i])
  BY <1>3, <1>4, AppliedSound
<1>6. /\ WellSets(mem.sets) /\ WellSets(mem'.sets)
      /\ mem'.sets = mem.sets \/ Front(mem'.sets) = mem.sets
  <2>1. WellSets(mem'.sets)
    BY <1>1, <1>5 DEF Sound
  <2> QED
    BY <1>4, <2>1, CommitStep DEF Sound, Scheduled
<1> HIDE DEF a, block
<1>7. Sound(mem, TRUE)'
  BY <1>1, <1>5
<1>8. KeysOnDisk'
  <2> SUFFICES ASSUME "keys" \in DOMAIN disk
               PROVE  height' > 0 /\ Heads(mem'.sets, disk["keys"])
    BY <1>1 DEF KeysOnDisk
  <2>1. Heads(mem.sets, disk["keys"])
    BY DEF KeyInv, KeysOnDisk
  <2>2. Heads(mem'.sets, disk["keys"])
    BY <1>6, <2>1, HeadsLater
  <2> QED
    BY <1>1, <1>2, <2>2
<1>9. BlsOnDisk'
  BY <1>1, <1>2 DEF KeyInv, BlsOnDisk
<1>10. KeysToCome'
  BY <1>1, <1>2, <1>5 DEF KeysToCome
<1> QED
  BY <1>7, <1>8, <1>9, <1>10 DEF KeyInv

LEMMA PutKeys ==
    ASSUME GovInv, KeyInv, Put
    PROVE  KeyInv'
<1> DEFINE f == Head(todo).field
           y == Head(todo).value
<1>1. /\ todo # <<>> /\ todo' = Tail(todo) /\ height' = height /\ mem' = mem
      /\ disk' = [g \in DOMAIN disk \cup {f} |-> IF g = f THEN y ELSE disk[g]]
  BY DEF Put
<1>2. /\ Len(todo) \in Nat \ {0} /\ DOMAIN todo = 1..Len(todo)
      /\ DOMAIN todo' = 1..Len(todo) - 1
      /\ \A i \in 1..Len(todo) - 1 : todo'[i] = todo[i + 1]
      /\ Head(todo) = todo[1]
  BY <1>1, TailOf DEF GovInv, TodoOK
<1>3. height > 0 /\ PutSound(mem.sets, Head(todo))
  BY <1>1, <1>2 DEF KeyInv, KeysToCome
<1>4. /\ f = "keys" => Heads(mem.sets, y)
      /\ f = "bls" => BlsStored(y)
  BY <1>3 DEF PutSound
<1> HIDE DEF f, y
<1>5. Sound(mem, TRUE)'
  BY <1>1 DEF KeyInv
<1>6. KeysOnDisk'
  <2>1. CASE f = "keys"
    BY <1>1, <1>3, <1>4, <2>1 DEF KeysOnDisk
  <2>2. CASE f # "keys"
    BY <1>1, <2>2 DEF KeyInv, KeysOnDisk
  <2> QED
    BY <2>1, <2>2
<1>7. BlsOnDisk'
  <2>1. CASE f = "bls"
    BY <1>1, <1>3, <1>4, <2>1 DEF BlsOnDisk
  <2>2. CASE f # "bls"
    BY <1>1, <2>2 DEF KeyInv, BlsOnDisk
  <2> QED
    BY <2>1, <2>2
<1>8. KeysToCome'
  BY <1>1, <1>2, <1>3 DEF KeyInv, KeysToCome
<1> QED
  BY <1>5, <1>6, <1>7, <1>8 DEF KeyInv

LEMMA LostKeys ==
    ASSUME GovInv, KeyInv, PutFails \/ Crash
    PROVE  KeyInv'
<1>1. /\ height' = height /\ mem' = mem /\ disk' = disk
      /\ todo' = <<>> \/ (todo # <<>> /\ todo' = Tail(todo))
  BY DEF PutFails, Crash
<1>2. KeysToCome'
  <2>1. CASE todo' = <<>>
    <3>1. DOMAIN todo' = {}
      BY <2>1
    <3> QED
      BY <2>1, <3>1 DEF KeysToCome
  <2>2. CASE todo # <<>> /\ todo' = Tail(todo)
    <3>1. /\ Len(todo) \in Nat \ {0} /\ DOMAIN todo = 1..Len(todo)
          /\ DOMAIN todo' = 1..Len(todo) - 1
          /\ \A i \in 1..Len(todo) - 1 : todo'[i] = todo[i + 1]
      BY <2>2, TailOf DEF GovInv, TodoOK
    <3> QED
      BY <1>1, <2>2, <3>1 DEF KeyInv, KeysToCome
  <2> QED
    BY <1>1, <2>1, <2>2
<1> QED
  BY <1>1, <1>2 DEF KeyInv, KeysOnDisk, BlsOnDisk

\* What verify_persisted_history_consistency has compared with the chain is
\* linked, and what it cannot tell, the first keys, is right on disk.
LEMMA RecoverSound ==
    ASSUME Retention = 0, GovInv, KeyInv, status = "down", Starts
    PROVE  Sound(recover, TRUE)
<1>1. /\ IsRecords(recover) /\ recover.sets = Read("sets", GenesisRecords.sets)
      /\ WellSets(recover.sets) /\ OwnersKnown(recover.keys)
  BY RecoverParts
<1>2. recover.sets = mem.sets
  BY StartsOnChain DEF GovInv, OnChain
<1>3. /\ "keys" \in DOMAIN disk => recover.keys.byId = disk["keys"]
      /\ "keys" \notin DOMAIN disk => recover.keys = from_set_history(recover.sets)
      /\ recover.bls = Read("bls", GenesisRecords.bls)
  BY DEF recover, from_persisted
<1>4. GenesisRecords.bls = with_genesis(GenesisBls)
  BY DEF GenesisRecords
<1>5. height \in Nat /\ \A i \in 1..height : IsBlock(chain[i])
  <2>1. height \in 0..Len(chain) /\ Len(chain) \in Nat
    BY SeqParts DEF GovInv, Basic, ChainOK
  <2> QED
    BY <2>1, ChainBlocks
<1> DEFINE r == recover
<1> HIDE DEF r
<1>6. Heads(recover.sets, recover.keys.byId)
  <2>1. CASE "keys" \in DOMAIN disk
    BY <1>2, <1>3, <2>1 DEF KeyInv, KeysOnDisk
  <2>2. CASE "keys" \notin DOMAIN disk
    <3>1. IsSeq(recover.sets)
      BY <1>1 DEF WellSets
    <3> QED
      BY <1>3, <2>2, <3>1, HistoryHeads
  <2> QED
    BY <2>1, <2>2
<1>7. BlsStored(recover.bls)
  BY <1>3, <1>4, GenesisBlsKeys DEF KeyInv, BlsOnDisk, Read
<1>8. CASE height = 0
  <2>1. "sets" \notin DOMAIN disk /\ "keys" \notin DOMAIN disk /\ "bls" \notin DOMAIN disk
    BY <1>8 DEF GovInv, DiskOK, KeyInv, KeysOnDisk, BlsOnDisk
  <2>2. recover.sets = from_genesis(Genesis) /\ recover.bls = with_genesis(GenesisBls)
    BY <1>1, <1>3, <1>4, <2>1, GenesisParts DEF Read
  <2>3. OneHead(recover.keys.byId)
    <3> DEFINE byId == recover.keys.byId
               s == recover.sets
               e == Entry(0, Genesis)
    <3>1. byId = [id \in UNION {DOMAIN s[i].val : i \in DOMAIN s} |->
                      <<Entry(s[Joined(s, id)].from, id)>>]
      BY <1>3, <2>1 DEF from_set_history
    <3>2. s = <<e>> /\ e.from = 0 /\ e.val = Genesis
      BY <2>2 DEF from_genesis, Entry
    <3> HIDE DEF e
    <3>3. DOMAIN s = {1} /\ s[1].from = 0 /\ s[1].val = Genesis
      BY <3>2
    <3> HIDE DEF s
    <3>4. UNION {DOMAIN s[i].val : i \in DOMAIN s} = DOMAIN Genesis
      BY <3>3
    <3>5. DOMAIN byId = DOMAIN Genesis
      BY <3>1, <3>4
    <3>6. ASSUME NEW id \in DOMAIN Genesis
          PROVE  \E d : byId[id] = <<d>> /\ d.from = 0
      <4> DEFINE v == s[Joined(s, id)].from
      <4>1. byId[id] = <<Entry(v, id)>>
        BY <3>1, <3>4
      <4>2. Begins(s, id, v)
        <5>1. IsSeq(s)
          BY <1>1 DEF WellSets, s
        <5> QED
          BY <3>3, <5>1, JoinedFirst
      <4> HIDE DEF v
      <4>3. v = 0
        BY <3>3, <4>2 DEF Begins
      <4>4. Entry(v, id).from = v
        BY DEF Entry
      <4> QED
        BY <4>1, <4>3, <4>4
    <3> HIDE DEF byId
    <3>7. OneHead(byId)
      BY <3>5, <3>6 DEF OneHead
    <3> QED
      BY <3>7 DEF byId
  <2> QED
    BY <1>1, <2>2, <2>3, GenesisBlsKeys, SeedSound
<1>9. CASE height # 0
  <2>1. ~Pruned
    BY DEF Pruned
  <2> DEFINE g == Rebuilt(recover, height)
  <2>2. g.sets = recover.sets /\ g.keys.byId = recover.keys.byId /\ g.bls = recover.bls
    BY <1>9, <2>1 DEF Starts, verify_persisted_history_consistency
  <2>3. recover.sets[1].val = Genesis
    BY <1>1 DEF WellSets, Entry
  <2>4. Sound(g, FALSE)
    BY <1>1, <1>5, <1>7, <2>3, RebuiltSound
  <2> HIDE DEF g
  <2>5. Linked(recover.sets, recover.keys.byId, recover.bls)
    BY <2>2, <2>4 DEF Sound
  <2> QED
    BY <1>1, <1>6, <2>5 DEF Sound
<1> QED
  BY <1>8, <1>9

LEMMA RestartKeys ==
    ASSUME Retention = 0, GovInv, KeyInv, Restart
    PROVE  KeyInv'
<1>1. /\ status = "down" /\ mem' = (IF Starts THEN recover ELSE mem)
      /\ height' = height /\ disk' = disk /\ todo' = todo
  BY DEF Restart
<1>2. mem'.sets = mem.sets
  BY RestartStep
<1>3. Sound(mem, TRUE)'
  BY <1>1, RecoverSound DEF KeyInv
<1> QED
  BY <1>1, <1>2, <1>3 DEF KeyInv, KeysOnDisk, BlsOnDisk, KeysToCome

LEMMA NextKeys ==
    ASSUME Retention = 0
    PROVE  GovInv /\ KeyInv /\ [Next]_vars => KeyInv'
<1> SUFFICES ASSUME GovInv, KeyInv, [Next]_vars
             PROVE  KeyInv'
  OBVIOUS
<1>1. CASE UNCHANGED <<height, disk, mem, todo>>
  BY <1>1 DEF KeyInv, KeysOnDisk, BlsOnDisk, KeysToCome
<1>2. CASE \E cmds \in Menu : Extend(cmds)
  BY <1>1, <1>2 DEF Extend
<1>3. CASE Commit
  BY <1>3, CommitKeys
<1>4. CASE Put
  BY <1>4, PutKeys
<1>5. CASE PutFails \/ Crash
  BY <1>5, LostKeys
<1>6. CASE Restart
  BY <1>6, RestartKeys
<1>7. CASE UNCHANGED vars
  BY <1>1, <1>7 DEF vars
<1> QED
  BY <1>2, <1>3, <1>4, <1>5, <1>6, <1>7 DEF Next

LEMMA KeysAlways ==
    ASSUME Retention = 0
    PROVE  Spec => []KeyInv
<1>1. Init => KeyInv
  BY InitKeys
<1>2. GovInv /\ KeyInv /\ [Next]_vars => KeyInv'
  BY NextKeys
<1> QED
  BY <1>1, <1>2, InvAlways, PTL DEF Spec

\* There is one first set.
LEMMA BeginsOnce ==
    ASSUME NEW s, IsSeq(s), NEW id, NEW v, NEW u, Begins(s, id, v), Begins(s, id, u)
    PROVE  v = u
<1>1. PICK i \in DOMAIN s : /\ id \in DOMAIN s[i].val /\ s[i].from = v
                            /\ \A j \in DOMAIN s : j < i => id \notin DOMAIN s[j].val
  BY DEF Begins
<1>2. PICK k \in DOMAIN s : /\ id \in DOMAIN s[k].val /\ s[k].from = u
                            /\ \A j \in DOMAIN s : j < k => id \notin DOMAIN s[j].val
  BY DEF Begins
<1>3. i \in Nat /\ k \in Nat
  BY SeqParts
<1>4. ~(i < k) /\ ~(k < i)
  BY <1>1, <1>2
<1>5. i = k
  BY <1>3, <1>4
<1> QED
  BY <1>1, <1>2, <1>5

LEMMA InvBls == KeyInv => BlsInStep
<1> SUFFICES ASSUME Sound(mem, TRUE), NEW id \in DOMAIN mem.keys.byId \cap DOMAIN mem.bls
             PROVE  /\ Len(mem.keys.byId[id]) = Len(mem.bls[id])
                    /\ \A i \in DOMAIN mem.bls[id] :
                          mem.bls[id][i].from = mem.keys.byId[id][i].from
  BY DEF KeyInv, BlsInStep
<1> DEFINE k == mem.keys.byId[id]
           b == mem.bls[id]
           s == mem.sets
<1>1. /\ IsSeq(s) /\ IsBls(s, id, b) /\ Matches(k, b) /\ Begins(s, id, k[1].from)
  BY DEF Sound, WellSets, Linked, Heads
<1> HIDE DEF k, b, s
<1>2. b[1].from = k[1].from
  BY <1>1, BeginsOnce DEF IsBls
<1>3. DOMAIN b = 1..Len(b) /\ Len(b) \in Nat
  BY <1>1, HistoryParts DEF IsBls
<1>4. ASSUME NEW i \in DOMAIN b
      PROVE  b[i].from = k[i].from
  <2>1. CASE i = 1
    BY <1>2, <2>1
  <2>2. CASE i > 1
    BY <1>1, <2>2 DEF Matches
  <2> QED
    BY <1>3, <2>1, <2>2
<1> QED
  BY <1>1, <1>4 DEF Matches, k, b

\* The boundaries grow.
LEMMA SetsGrow ==
    ASSUME NEW s, WellSets(s), NEW i \in DOMAIN s, NEW j \in DOMAIN s, j <= i
    PROVE  s[j].from <= s[i].from
<1> DEFINE n == Len(s)
           S == {d \in Nat : j + d \in DOMAIN s => s[j].from <= s[j + d].from}
<1>1. n \in Nat /\ DOMAIN s = 1..n /\ j \in Nat /\ i \in Nat
  BY SeqParts DEF WellSets
<1>2. \A m \in DOMAIN s : s[m].from \in Nat
  BY DEF WellSets
<1>3. 0 \in S
  <2>1. j + 0 = j
    BY <1>1
  <2> QED
    BY <1>2, <2>1
<1>4. ASSUME NEW d \in 0..(i - j) - 1, d \in S
      PROVE  d + 1 \in S
  <2>1. d \in Nat /\ j + (d + 1) = (j + d) + 1
    BY <1>1
  <2>2. ASSUME (j + d) + 1 \in DOMAIN s
        PROVE  s[j].from <= s[(j + d) + 1].from
    <3> DEFINE m == j + d
    <3>1. m \in Nat /\ m \in DOMAIN s /\ m + 1 > 1 /\ (m + 1) - 1 = m
      BY <1>1, <2>1, <2>2
    <3>2. s[j].from <= s[m].from
      BY <1>4, <3>1
    <3> HIDE DEF m
    <3>3. m + 1 \in DOMAIN s
      BY <2>2 DEF m
    <3>4. s[m].from < s[m + 1].from
      BY <3>1, <3>3 DEF WellSets
    <3>5. s[j].from \in Nat /\ s[m].from \in Nat /\ s[m + 1].from \in Nat
      BY <1>2, <3>1, <3>3
    <3>6. s[j].from <= s[m + 1].from
      BY <3>2, <3>4, <3>5
    <3> QED
      BY <3>6 DEF m
  <2> QED
    BY <2>1, <2>2
<1> HIDE DEF S
<1>5. i - j \in Nat
  BY <1>1
<1>6. i - j \in S
  BY <1>3, <1>4, <1>5, SetsLoop!Induct
<1>7. j + (i - j) = i
  BY <1>1
<1> QED
  BY <1>6, <1>7 DEF S

LEMMA KeyInForce ==
    ASSUME NEW f, NEW id \in DOMAIN f, IsHistory(f[id]), NEW view \in Nat,
           f[id][1].from <= view, \A i \in DOMAIN f[id] : f[id][i].val # NoKey
    PROVE  key_at(f, id, view) # NoKey
<1> DEFINE b == f[id]
           I == {i \in DOMAIN b : b[i].from <= view}
           n == Len(b)
<1>1. n \in Nat /\ n >= 1 /\ DOMAIN b = 1..n
  BY HistoryParts
<1>2. 1 \in I
  BY <1>1
<1>3. IsFiniteSet(1..n) /\ Cardinality(1..n) = n
  BY <1>1, FS_Interval
<1>4. I \subseteq 1..n
  BY <1>1
<1>5. IsFiniteSet(I) /\ Cardinality(I) <= n
  BY <1>3, <1>4, FS_Subset
<1>6. Cardinality(I) \in Nat /\ Cardinality(I) # 0
  BY <1>2, <1>5, FS_CardinalityType, FS_EmptySet
<1>7. Started(b, view) = Cardinality(I)
  BY DEF Started
<1> HIDE DEF I
<1>8. Started(b, view) \in DOMAIN b /\ Started(b, view) > 0
  BY <1>1, <1>5, <1>6, <1>7
<1>9. key_at(f, id, view) = b[Started(b, view)].val
  BY <1>8 DEF key_at, At
<1> QED
  BY <1>8, <1>9

LEMMA InvVerifiable == KeyInv => CertificatesVerifiable
<1> SUFFICES ASSUME Sound(mem, TRUE), NEW i \in DOMAIN mem.sets
             PROVE  DOMAIN pubkeys_for_set(mem.bls, mem.sets[i].val, mem.sets[i].from)
                        = DOMAIN mem.sets[i].val
  BY DEF KeyInv, CertificatesVerifiable
<1> DEFINE s == mem.sets
           set == s[i].val
           view == s[i].from
           bls == mem.bls
<1>1. WellSets(s) /\ IsSeq(s) /\ i \in DOMAIN s /\ view \in Nat
  BY DEF Sound, WellSets
<1>2. DOMAIN set \subseteq DOMAIN bls /\ \A id \in DOMAIN bls : IsBls(s, id, bls[id])
  BY DEF Sound, Linked
<1>3. ASSUME NEW id \in DOMAIN set
      PROVE  key_at(bls, id, view) # NoKey
  <2>1. id \in DOMAIN bls /\ IsBls(s, id, bls[id])
    BY <1>2
  <2> HIDE DEF bls
  <2>2. PICK j \in DOMAIN s :
            /\ s[j].from = bls[id][1].from
            /\ \A m \in DOMAIN s : m < j => id \notin DOMAIN s[m].val
    BY <2>1 DEF IsBls, Begins
  <2>3. ~(i < j)
    BY <1>1, <1>3, <2>2
  <2>4. i \in Nat /\ j \in Nat
    BY <1>1, SeqParts
  <2>5. j <= i
    BY <2>3, <2>4
  <2>6. s[j].from <= s[i].from
    BY <1>1, <2>5, SetsGrow
  <2>7. bls[id][1].from <= view
    BY <2>2, <2>6
  <2> HIDE DEF view
  <2> QED
    BY <1>1, <2>1, <2>7, KeyInForce DEF IsBls
<1> HIDE DEF set, view, bls
<1>4. DOMAIN pubkeys_for_set(bls, set, view) = {id \in DOMAIN set : key_at(bls, id, view) # NoKey}
  BY DEF pubkeys_for_set
<1>5. DOMAIN pubkeys_for_set(bls, set, view) = DOMAIN set
  BY <1>3, <1>4
<1> QED
  BY <1>5 DEF set, view, bls

-----------------------------------------------------------------------------
(***************************************************************************)
(* The keys on disk of a node that lost no write, whatever blocks it keeps.*)
(***************************************************************************)
\* The last put of a field in q has the value y; or there is none.
Awaits(q, f, y) ==
    \E i \in DOMAIN q :
        /\ q[i].field = f /\ q[i].value = y
        /\ \A j \in DOMAIN q : j > i => q[j].field # f

NonePut(q, f) == \A i \in DOMAIN q : q[i].field # f

LEMMA PutJoined ==
    ASSUME NEW P, NEW p \in Seq(P), NEW q \in Seq(P), NEW f, NEW y
    PROVE  /\ NonePut(p, f) /\ NonePut(q, f) => NonePut(p \o q, f)
           /\ Awaits(q, f, y) => Awaits(p \o q, f, y)
           /\ Awaits(p, f, y) /\ NonePut(q, f) => Awaits(p \o q, f, y)
<1> DEFINE m == Len(p)
           n == Len(q)
           r == p \o q
<1>1. /\ m \in Nat /\ n \in Nat /\ DOMAIN p = 1..m /\ DOMAIN q = 1..n /\ DOMAIN r = 1..m + n
      /\ \A i \in 1..m : r[i] = p[i]
      /\ \A i \in 1..n : r[m + i] = q[i]
  OBVIOUS
<1>2. \A j \in DOMAIN r : j \in 1..m \/ (j - m \in 1..n /\ r[j] = q[j - m] /\ j > m)
  <2> TAKE j \in DOMAIN r
  <2>1. CASE j \in 1..m
    BY <2>1
  <2>2. CASE j \notin 1..m
    <3>1. j - m \in 1..n /\ m + (j - m) = j /\ j > m
      BY <1>1, <2>2
    <3>2. r[m + (j - m)] = q[j - m]
      BY <1>1, <3>1
    <3> QED
      BY <3>1, <3>2
  <2> QED
    BY <2>1, <2>2
<1> HIDE DEF r, m, n
<1>3. ASSUME NonePut(p, f), NonePut(q, f)
      PROVE  NonePut(r, f)
  BY <1>1, <1>2, <1>3 DEF NonePut
<1>4. ASSUME Awaits(q, f, y)
      PROVE  Awaits(r, f, y)
  <2>1. PICK i \in DOMAIN q : /\ q[i].field = f /\ q[i].value = y
                              /\ \A j \in DOMAIN q : j > i => q[j].field # f
    BY <1>4 DEF Awaits
  <2>2. m + i \in DOMAIN r /\ r[m + i] = q[i]
    BY <1>1
  <2>3. ASSUME NEW j \in DOMAIN r, j > m + i
        PROVE  r[j].field # f
    <3>1. j - m \in DOMAIN q /\ r[j] = q[j - m] /\ j - m > i
      BY <1>1, <1>2, <2>3
    <3> QED
      BY <2>1, <3>1
  <2> QED
    BY <2>1, <2>2, <2>3 DEF Awaits
<1>5. ASSUME Awaits(p, f, y), NonePut(q, f)
      PROVE  Awaits(r, f, y)
  <2>1. PICK i \in DOMAIN p : /\ p[i].field = f /\ p[i].value = y
                              /\ \A j \in DOMAIN p : j > i => p[j].field # f
    BY <1>5 DEF Awaits
  <2>2. i \in DOMAIN r /\ r[i] = p[i]
    BY <1>1
  <2>3. ASSUME NEW j \in DOMAIN r, j > i
        PROVE  r[j].field # f
    <3>1. CASE j \in 1..m
      BY <1>1, <2>1, <2>3, <3>1
    <3>2. CASE j - m \in 1..n /\ r[j] = q[j - m]
      BY <1>1, <1>5, <3>2 DEF NonePut
    <3> QED
      BY <1>2, <3>1, <3>2
  <2> QED
    BY <2>1, <2>2, <2>3 DEF Awaits
<1> QED
  BY <1>3, <1>4, <1>5 DEF r

\* What the puts of a wrapper leave, for the field w.f
LastGood(w, i, puts) ==
    /\ puts \in Seq({PutOf(w.h, f) : f \in w.order})
    /\ IF w.f \in w.h.touched /\ \E k \in 1..i : w.seq[k] = w.f
         THEN Awaits(puts, w.f, Stored(w.h, w.f))
         ELSE NonePut(puts, w.f)

LastLoop == INSTANCE LoopProofs WITH Step <- PutStep, Good <- LastGood

LEMMA PutsLeave ==
    ASSUME NEW h, NEW S, NEW seq \in Seq(S), NEW f
    PROVE  IF f \in h.touched /\ \E k \in 1..Len(seq) : seq[k] = f
             THEN Awaits(Puts(h, seq), f, Stored(h, f))
             ELSE NonePut(Puts(h, seq), f)
<1> DEFINE n == Len(seq)
           w == [h |-> h, order |-> S, seq |-> seq, f |-> f]
           P == {PutOf(h, g) : g \in S}
           y == Stored(h, f)
<1>1. w.h = h /\ w.order = S /\ w.seq = seq /\ w.f = f
  OBVIOUS
<1>2. n \in Nat /\ \A i \in 1..n : seq[i] \in S
  OBVIOUS
<1>3. ASSUME NEW g
      PROVE  PutOf(h, g).field = g /\ PutOf(h, g).value = Stored(h, g)
  BY DEF PutOf
<1> HIDE DEF w, n
<1>4. LastGood(w, 0, <<>>)
  <2>1. <<>> \in Seq({PutOf(w.h, g) : g \in w.order})
    OBVIOUS
  <2>2. NonePut(<<>>, w.f)
    BY DEF NonePut
  <2>3. ~\E k \in 1..0 : w.seq[k] = w.f
    OBVIOUS
  <2> QED
    BY <2>1, <2>2, <2>3 DEF LastGood
<1>5. ASSUME NEW i \in 1..n, NEW t, LastGood(w, i - 1, t)
      PROVE  LastGood(w, i, PutStep(t, seq[i], h))
  <2> DEFINE g == seq[i]
             p == PutOf(h, g)
             u == PutStep(t, g, h)
             was == f \in h.touched /\ \E k \in 1..i - 1 : seq[k] = f
             is == f \in h.touched /\ \E k \in 1..i : seq[k] = f
  <2>1. t \in Seq(P) /\ (was => Awaits(t, f, y)) /\ (~was => NonePut(t, f))
    BY <1>1, <1>5 DEF LastGood
  <2>2. p.field = g /\ p.value = Stored(h, g) /\ p \in P
    BY <1>2, <1>3
  <2>3. u = IF g \in h.touched THEN Append(t, p) ELSE t
    BY DEF PutStep, PutOf
  <2>4. is <=> (was \/ (f \in h.touched /\ g = f))
    OBVIOUS
  <2> HIDE DEF P, p, u, g, y, was, is
  <2>5. u \in Seq(P)
    BY <2>1, <2>2, <2>3
  <2> DEFINE m == Len(t)
  <2>6. m \in Nat /\ DOMAIN t = 1..m
    BY <2>1
  <2>7. ASSUME g \notin h.touched
        PROVE  (is => Awaits(u, f, y)) /\ (~is => NonePut(u, f))
    <3>1. u = t /\ (is <=> was)
      BY <2>3, <2>4, <2>7
    <3> QED
      BY <2>1, <3>1
  <2>8. ASSUME g \in h.touched
        PROVE  (is => Awaits(u, f, y)) /\ (~is => NonePut(u, f))
    <3>1. u = Append(t, p)
      BY <2>3, <2>8
    <3>2. DOMAIN u = 1..m + 1 /\ u[m + 1] = p /\ \A j \in 1..m : u[j] = t[j]
      BY <2>1, <2>2, <3>1
    <3> HIDE DEF m
    <3>3. CASE g = f
      <4>1. p.field = f /\ p.value = y /\ is
        BY <2>2, <2>4, <2>8, <3>3 DEF y
      <4>2. Awaits(u, f, y)
        BY <2>6, <3>2, <4>1 DEF Awaits
      <4> QED
        BY <4>1, <4>2
    <3>4. CASE g # f
      <4>1. (is <=> was) /\ u[m + 1].field # f
        BY <2>2, <2>4, <3>2, <3>4
      <4>2. ASSUME Awaits(t, f, y)
            PROVE  Awaits(u, f, y)
        <5>1. PICK j \in DOMAIN t : /\ t[j].field = f /\ t[j].value = y
                                    /\ \A l \in DOMAIN t : l > j => t[l].field # f
          BY <4>2 DEF Awaits
        <5>2. j \in DOMAIN u /\ u[j] = t[j]
          BY <2>6, <3>2
        <5>3. ASSUME NEW l \in DOMAIN u, l > j
              PROVE  u[l].field # f
          <6>1. CASE l = m + 1
            BY <4>1, <6>1
          <6>2. CASE l \in 1..m
            BY <2>6, <3>2, <5>1, <5>3, <6>2
          <6> QED
            BY <2>6, <3>2, <6>1, <6>2
        <5> QED
          BY <5>1, <5>2, <5>3 DEF Awaits
      <4>3. ASSUME NonePut(t, f)
            PROVE  NonePut(u, f)
        BY <2>6, <3>2, <4>1, <4>3 DEF NonePut
      <4> QED
        BY <2>1, <4>1, <4>2, <4>3
    <3> QED
      BY <3>3, <3>4
  <2>9. (is => Awaits(u, f, y)) /\ (~is => NonePut(u, f))
    BY <2>1, <2>7, <2>8
  <2> QED
    BY <1>1, <2>5, <2>9 DEF LastGood, P, u, g, y, is
<1>6. LastGood(w, n, LastLoop!Pass(<<>>, seq, h, n))
  BY <1>2, <1>4, <1>5, LastLoop!Invariance
<1>7. Puts(h, seq) = LastLoop!Pass(<<>>, seq, h, n)
  BY DEF Puts, Along, AlongTo, LastLoop!Pass, LastLoop!AlongTo, PutStep, n
<1> QED
  BY <1>1, <1>6, <1>7 DEF LastGood, n

\* After the puts of a commit the disk has the keys of the memory, if it had
\* those from before.
LEMMA AppliedPuts ==
    ASSUME NEW h, IsRecords(h), NEW block, Len(block.cmds) \in Nat
    PROVE  LET a == Applied(h, block)
           IN /\ \/ Awaits(a.puts, "bls", a.records.bls)
                 \/ NonePut(a.puts, "bls") /\ a.records.bls = h.bls
              /\ \/ Awaits(a.puts, "keys", a.records.keys.byId)
                 \/ /\ NonePut(a.puts, "keys") /\ a.records.keys = h.keys
                    /\ Grows(h.bls, a.records.bls)
<1> DEFINE h1 == apply_committed_reconfigs(Quiet(h), block)
           h2 == apply_committed_rotations(Quiet(h1), block)
           h3 == apply_committed_endpoints(Quiet(h2), block)
           h4 == apply_committed_param_updates(Quiet(h3), block)
           s1 == <<"ops", "bls", "endpoints", "sets">>
           s2 == <<"ops", "keys", "bls">>
           s3 == <<"endpoints">>
           s4 == <<"params">>
           p1 == Puts(h1, s1)
           p2 == Puts(h2, s2)
           p3 == Puts(h3, s3)
           p4 == Puts(h4, s4)
<1>1. Applied(h, block) = [records |-> Quiet(h4), puts |-> p1 \o p2 \o p3 \o p4]
  BY DEF Applied
<1>2. ASSUME NEW g, IsRecords(g)
      PROVE  /\ IsRecords(Quiet(g)) /\ Quiet(g).keys = g.keys /\ Quiet(g).bls = g.bls
  BY <1>2 DEF Quiet, IsRecords
<1>3. /\ IsRecords(h1) /\ h1.keys = h.keys /\ Grows(h.bls, h1.bls)
      /\ "bls" \notin h1.touched => h1.bls = h.bls
  <2>1. IsRecords(Quiet(h)) /\ Quiet(h).keys = h.keys /\ Quiet(h).bls = h.bls
    BY <1>2
  <2>2. Joins(Quiet(h), h1)
    BY <2>1, JoinsReconfigPass DEF apply_committed_reconfigs
  <2> QED
    BY <2>1, <2>2 DEF Joins
<1> HIDE DEF h1
<1>4. /\ IsRecords(h2)
      /\ "keys" \notin h2.touched => h2.keys = h1.keys /\ h2.bls = h1.bls
      /\ "bls" \notin h2.touched => h2.bls = h1.bls
  <2>1. IsRecords(Quiet(h1)) /\ Quiet(h1).keys = h1.keys /\ Quiet(h1).bls = h1.bls
    BY <1>2, <1>3
  <2>2. Marked(Quiet(h1), h2)
    BY <2>1, RotationsMarked DEF apply_committed_rotations
  <2> QED
    BY <2>1, <2>2 DEF Marked
<1> HIDE DEF h2
<1>5. IsRecords(h3) /\ h3.keys = h2.keys /\ h3.bls = h2.bls
  <2>1. IsRecords(Quiet(h2)) /\ Quiet(h2).keys = h2.keys /\ Quiet(h2).bls = h2.bls
    BY <1>2, <1>4
  <2>2. SameKeys(Quiet(h2), h3)
    BY <2>1, SameEndpointPass DEF apply_committed_endpoints
  <2> QED
    BY <2>1, <2>2 DEF SameKeys
<1> HIDE DEF h3
<1>6. IsRecords(h4) /\ h4.keys = h2.keys /\ h4.bls = h2.bls
  <2>1. IsRecords(Quiet(h3)) /\ Quiet(h3).keys = h3.keys /\ Quiet(h3).bls = h3.bls
    BY <1>2, <1>5
  <2>2. SameKeys(Quiet(h3), h4)
    BY <2>1, ParamsSame
  <2> QED
    BY <1>5, <2>1, <2>2 DEF SameKeys
<1> HIDE DEF h4
<1>7. Quiet(h4).keys = h2.keys /\ Quiet(h4).bls = h2.bls
  BY <1>2, <1>6
<1>8. /\ s1 \in Seq(Fields) /\ s2 \in Seq(Fields) /\ s3 \in Seq(Fields) /\ s4 \in Seq(Fields)
      /\ \A k \in 1..Len(s1) : s1[k] # "keys"
      /\ 2 \in 1..Len(s1) /\ s1[2] = "bls"
      /\ 2 \in 1..Len(s2) /\ s2[2] = "keys" /\ 3 \in 1..Len(s2) /\ s2[3] = "bls"
      /\ \A k \in 1..Len(s3) : s3[k] # "keys" /\ s3[k] # "bls"
      /\ \A k \in 1..Len(s4) : s4[k] # "keys" /\ s4[k] # "bls"
  BY DEF Fields
<1> HIDE DEF s1, s2, s3, s4
<1>9. /\ NonePut(p3, "bls") /\ NonePut(p3, "keys") /\ NonePut(p4, "bls") /\ NonePut(p4, "keys")
      /\ NonePut(p1, "keys")
  BY <1>8, PutsLeave
<1>10. IF "bls" \in h1.touched THEN Awaits(p1, "bls", h1.bls) ELSE NonePut(p1, "bls")
  BY <1>8, PutsLeave DEF Stored
<1>11. IF "bls" \in h2.touched THEN Awaits(p2, "bls", h2.bls) ELSE NonePut(p2, "bls")
  BY <1>8, PutsLeave DEF Stored
<1>12. IF "keys" \in h2.touched THEN Awaits(p2, "keys", h2.keys.byId) ELSE NonePut(p2, "keys")
  BY <1>8, PutsLeave DEF Stored
<1> DEFINE P == {PutOf(g, f) : g \in {h1, h2, h3, h4}, f \in Fields}
<1>13. p1 \in Seq(P) /\ p2 \in Seq(P) /\ p3 \in Seq(P) /\ p4 \in Seq(P)
  <2>1. ASSUME NEW g \in {h1, h2, h3, h4}, NEW seq \in Seq(Fields)
        PROVE  Puts(g, seq) \in Seq(P)
    <3>1. Puts(g, seq) \in Seq({PutOf(g, f) : f \in Fields})
      BY PutsAre
    <3>2. {PutOf(g, f) : f \in Fields} \subseteq P
      OBVIOUS
    <3> QED
      BY <3>1, <3>2, SeqMonotonic
  <2> HIDE DEF P
  <2> QED
    BY <1>8, <2>1
<1> HIDE DEF P, p1, p2, p3, p4
<1> DEFINE q2 == p1 \o p2
           q3 == q2 \o p3
           q == q3 \o p4
<1>14. q2 \in Seq(P) /\ q3 \in Seq(P)
  BY <1>13
<1>15. \/ Awaits(q2, "bls", h2.bls)
       \/ NonePut(q2, "bls") /\ h2.bls = h.bls
  <2>1. CASE "bls" \in h2.touched
    BY <1>11, <1>13, <2>1, PutJoined
  <2>2. CASE "bls" \notin h2.touched
    <3>1. NonePut(p2, "bls") /\ h2.bls = h1.bls
      BY <1>4, <1>11, <2>2
    <3> QED
      BY <1>3, <1>10, <1>13, <3>1, PutJoined
  <2> QED
    BY <2>1, <2>2
<1>16. \/ Awaits(q2, "keys", h2.keys.byId)
       \/ NonePut(q2, "keys") /\ h2.keys = h.keys /\ Grows(h.bls, h2.bls)
  <2>1. CASE "keys" \in h2.touched
    BY <1>12, <1>13, <2>1, PutJoined
  <2>2. CASE "keys" \notin h2.touched
    BY <1>3, <1>4, <1>9, <1>12, <1>13, <2>2, PutJoined
  <2> QED
    BY <2>1, <2>2
<1> HIDE DEF q2
<1>17. ASSUME NEW f \in {"keys", "bls"}, NEW y
       PROVE  /\ Awaits(q2, f, y) => Awaits(q, f, y)
              /\ NonePut(q2, f) => NonePut(q, f)
  <2>1. NonePut(p3, f) /\ NonePut(p4, f)
    BY <1>9
  <2>2. /\ Awaits(q2, f, y) => Awaits(q3, f, y)
        /\ NonePut(q2, f) => NonePut(q3, f)
    BY <1>13, <1>14, <2>1, PutJoined
  <2> HIDE DEF q3
  <2> QED
    BY <1>13, <1>14, <2>1, <2>2, PutJoined
<1> DEFINE r == Quiet(h4)
<1>18. r.keys = h2.keys /\ r.bls = h2.bls
  BY <1>7
<1> HIDE DEF r
<1>19. Applied(h, block).records = r /\ Applied(h, block).puts = q
  BY <1>1 DEF r, q2
<1> HIDE DEF q
<1> QED
  BY <1>15, <1>16, <1>17, <1>18, <1>19

\* Unless a write was lost, the disk has both records of keys, or will have
\* them after the puts that remain.  Without consensus keys on disk there was
\* no rotation.
OneKeyEach(b) == \A id \in DOMAIN b : Len(b[id]) = 1

BlsWritten ==
    \/ Awaits(todo, "bls", mem.bls)
    \/ NonePut(todo, "bls") /\ Read("bls", GenesisRecords.bls) = mem.bls

KeysWritten ==
    \/ Awaits(todo, "keys", mem.keys.byId)
    \/ /\ NonePut(todo, "keys")
       /\ "keys" \in DOMAIN disk => disk["keys"] = mem.keys.byId
       /\ "keys" \notin DOMAIN disk => OneKeyEach(mem.bls)

LEMMA InitWritten == Init => BlsWritten /\ KeysWritten
<1> SUFFICES ASSUME Init
             PROVE  BlsWritten /\ KeysWritten
  OBVIOUS
<1>1. DOMAIN disk = {} /\ todo = <<>> /\ DOMAIN todo = {} /\ mem = GenesisRecords
  BY DEF Init
<1>2. NonePut(todo, "bls") /\ NonePut(todo, "keys")
  BY <1>1 DEF NonePut
<1>3. GenesisRecords.bls = with_genesis(GenesisBls)
  BY DEF GenesisRecords
<1>4. OneKeyEach(with_genesis(GenesisBls))
  <2> DEFINE b == with_genesis(GenesisBls)
  <2>1. OneEach(b)
    BY GenesisBlsKeys
  <2> HIDE DEF b
  <2>2. ASSUME NEW id \in DOMAIN b
        PROVE  Len(b[id]) = 1
    <3>1. PICK e : b[id] = <<e>>
      BY <2>1, <2>2 DEF OneEach
    <3> QED
      BY <3>1
  <2>3. OneKeyEach(b)
    BY <2>2 DEF OneKeyEach
  <2> QED
    BY <2>3 DEF b
<1> QED
  BY <1>1, <1>2, <1>3, <1>4 DEF BlsWritten, KeysWritten, Read

LEMMA NoneLeft ==
    ASSUME NEW q, q = <<>>, NEW f
    PROVE  NonePut(q, f) /\ \A y : ~Awaits(q, f, y)
<1>1. DOMAIN q = {}
  OBVIOUS
<1> QED
  BY <1>1 DEF NonePut, Awaits

LEMMA CommitWritten ==
    ASSUME GovInv, Commit, BlsWritten, KeysWritten
    PROVE  BlsWritten' /\ KeysWritten'
<1> DEFINE block == chain[height + 1]
           a == Applied(mem, block)
<1>1. /\ mem' = a.records /\ todo' = a.puts /\ disk' = disk
      /\ todo = <<>> /\ height + 4 <= Len(chain)
  BY DEF Commit
<1>2. height + 1 \in 1..Len(chain)
  BY <1>1, NextBlock
<1>3. IsBlock(block)
  BY <1>2, ChainBlocks
<1>4. IsRecords(mem) /\ Len(block.cmds) \in Nat
  BY <1>3 DEF GovInv, MemOK, IsBlock
<1>5. /\ \/ Awaits(a.puts, "bls", a.records.bls)
         \/ NonePut(a.puts, "bls") /\ a.records.bls = mem.bls
      /\ \/ Awaits(a.puts, "keys", a.records.keys.byId)
         \/ /\ NonePut(a.puts, "keys") /\ a.records.keys = mem.keys
            /\ Grows(mem.bls, a.records.bls)
  BY <1>4, AppliedPuts
<1> HIDE DEF a, block
<1>6. /\ Read("bls", GenesisRecords.bls) = mem.bls
      /\ "keys" \in DOMAIN disk => disk["keys"] = mem.keys.byId
      /\ "keys" \notin DOMAIN disk => OneKeyEach(mem.bls)
  BY <1>1, NoneLeft DEF BlsWritten, KeysWritten
<1>7. Read("bls", GenesisRecords.bls)' = Read("bls", GenesisRecords.bls)
  BY <1>1 DEF Read
<1>8. BlsWritten'
  BY <1>1, <1>5, <1>6, <1>7 DEF BlsWritten
<1>9. ASSUME OneKeyEach(mem.bls), Grows(mem.bls, a.records.bls)
      PROVE  OneKeyEach(a.records.bls)
  BY <1>9 DEF OneKeyEach, Grows
<1>10. KeysWritten'
  BY <1>1, <1>5, <1>6, <1>9 DEF KeysWritten
<1> QED
  BY <1>8, <1>10

\* A put of another field or the last one of this field
LEMMA AwaitsTail ==
    ASSUME NEW q, IsSeq(q), q # <<>>, NEW f, NEW y
    PROVE  /\ NonePut(q, f) => NonePut(Tail(q), f) /\ Head(q).field # f
           /\ Awaits(q, f, y) => \/ Awaits(Tail(q), f, y)
                                 \/ /\ NonePut(Tail(q), f)
                                    /\ Head(q).field = f /\ Head(q).value = y
<1> DEFINE t == Tail(q)
           n == Len(q)
<1>1. /\ n \in Nat \ {0} /\ DOMAIN q = 1..n /\ DOMAIN t = 1..n - 1
      /\ \A i \in 1..n - 1 : t[i] = q[i + 1]
      /\ Head(q) = q[1]
  BY TailOf
<1> HIDE DEF t, n
<1>2. ASSUME NonePut(q, f)
      PROVE  NonePut(t, f) /\ Head(q).field # f
  BY <1>1, <1>2 DEF NonePut
<1>3. ASSUME Awaits(q, f, y)
      PROVE  Awaits(t, f, y) \/ (NonePut(t, f) /\ Head(q).field = f /\ Head(q).value = y)
  <2>1. PICK i \in DOMAIN q : /\ q[i].field = f /\ q[i].value = y
                              /\ \A j \in DOMAIN q : j > i => q[j].field # f
    BY <1>3 DEF Awaits
  <2>2. CASE i = 1
    <3>1. NonePut(t, f)
      BY <1>1, <2>1, <2>2 DEF NonePut
    <3> QED
      BY <1>1, <2>1, <2>2, <3>1
  <2>3. CASE i # 1
    <3>1. i - 1 \in DOMAIN t /\ t[i - 1] = q[i]
      <4>1. i - 1 \in 1..n - 1 /\ (i - 1) + 1 = i
        BY <1>1, <2>3
      <4> QED
        BY <1>1, <4>1
    <3>2. \A j \in DOMAIN t : j > i - 1 => t[j].field # f
      BY <1>1, <2>1
    <3>3. Awaits(t, f, y)
      BY <2>1, <3>1, <3>2 DEF Awaits
    <3> QED
      BY <3>3
  <2> QED
    BY <2>2, <2>3
<1> QED
  BY <1>2, <1>3 DEF t

LEMMA PutWritten ==
    ASSUME GovInv, Put, BlsWritten, KeysWritten
    PROVE  BlsWritten' /\ KeysWritten'
<1> DEFINE f == Head(todo).field
           x == Head(todo).value
<1>1. /\ todo # <<>> /\ todo' = Tail(todo) /\ mem' = mem
      /\ disk' = [g \in DOMAIN disk \cup {f} |-> IF g = f THEN x ELSE disk[g]]
  BY DEF Put
<1>2. IsSeq(todo)
  BY DEF GovInv, TodoOK
<1>3. ASSUME NEW g, NEW y
      PROVE  /\ NonePut(todo, g) => NonePut(todo', g) /\ f # g
             /\ Awaits(todo, g, y) => \/ Awaits(todo', g, y)
                                      \/ NonePut(todo', g) /\ f = g /\ x = y
  BY <1>1, <1>2, AwaitsTail
<1> HIDE DEF f, x
<1>4. BlsWritten'
  <2>1. CASE Awaits(todo, "bls", mem.bls)
    BY <1>1, <1>3, <2>1 DEF BlsWritten, Read
  <2>2. CASE NonePut(todo, "bls") /\ Read("bls", GenesisRecords.bls) = mem.bls
    <3>1. NonePut(todo', "bls") /\ f # "bls"
      BY <1>3, <2>2
    <3>2. Read("bls", GenesisRecords.bls)' = Read("bls", GenesisRecords.bls)
      BY <1>1, <3>1 DEF Read
    <3> QED
      BY <1>1, <2>2, <3>1, <3>2 DEF BlsWritten
  <2> QED
    BY <2>1, <2>2 DEF BlsWritten
<1>5. KeysWritten'
  <2>1. CASE Awaits(todo, "keys", mem.keys.byId)
    BY <1>1, <1>3, <2>1 DEF KeysWritten
  <2>2. CASE NonePut(todo, "keys")
             /\ ("keys" \in DOMAIN disk => disk["keys"] = mem.keys.byId)
             /\ ("keys" \notin DOMAIN disk => OneKeyEach(mem.bls))
    <3>1. NonePut(todo', "keys") /\ f # "keys"
      BY <1>3, <2>2
    <3>2. /\ "keys" \in DOMAIN disk' <=> "keys" \in DOMAIN disk
          /\ "keys" \in DOMAIN disk => disk'["keys"] = disk["keys"]
      BY <1>1, <3>1
    <3> QED
      BY <1>1, <2>2, <3>1, <3>2 DEF KeysWritten
  <2> QED
    BY <2>1, <2>2 DEF KeysWritten
<1> QED
  BY <1>4, <1>5

LEMMA CrashWritten ==
    ASSUME Crash, ~torn', BlsWritten, KeysWritten
    PROVE  ~torn /\ BlsWritten' /\ KeysWritten'
<1>1. torn' = (torn \/ todo # <<>>) /\ todo' = <<>> /\ mem' = mem /\ disk' = disk
  BY DEF Crash
<1>2. ~torn /\ todo' = todo
  BY <1>1
<1>3. Read("bls", GenesisRecords.bls)' = Read("bls", GenesisRecords.bls)
  BY <1>1 DEF Read
<1> QED
  BY <1>1, <1>2, <1>3 DEF BlsWritten, KeysWritten

\* What a node that lost no write comes back with
LEMMA RecoverWritten ==
    ASSUME GovInv, KeyInv, BlsWritten, KeysWritten, ~torn, status = "down", Starts
    PROVE  /\ Sound(recover, TRUE) /\ recover.sets = mem.sets /\ recover.bls = mem.bls
           /\ "keys" \in DOMAIN disk => recover.keys.byId = mem.keys.byId
<1>1. /\ IsRecords(recover) /\ WellSets(recover.sets) /\ OwnersKnown(recover.keys)
  BY RecoverParts
<1>2. recover.sets = mem.sets
  BY StartsOnChain DEF GovInv, OnChain
<1>3. /\ "keys" \in DOMAIN disk => recover.keys.byId = disk["keys"]
      /\ "keys" \notin DOMAIN disk => recover.keys = from_set_history(recover.sets)
      /\ recover.bls = Read("bls", GenesisRecords.bls)
  BY DEF recover, from_persisted
<1>4. todo = <<>>
  BY DEF GovInv, TodoOK
<1>5. /\ recover.bls = mem.bls
      /\ "keys" \in DOMAIN disk => disk["keys"] = mem.keys.byId
      /\ "keys" \notin DOMAIN disk => OneKeyEach(mem.bls)
  BY <1>3, <1>4, NoneLeft DEF BlsWritten, KeysWritten
<1>6. Linked(mem.sets, mem.keys.byId, mem.bls) /\ Heads(mem.sets, mem.keys.byId)
  BY DEF KeyInv, Sound
<1>7. CASE "keys" \in DOMAIN disk
  <2>1. recover.keys.byId = mem.keys.byId
    BY <1>3, <1>5, <1>7
  <2>2. Sound(recover, TRUE)
    BY <1>1, <1>2, <1>5, <1>6, <2>1 DEF Sound
  <2> QED
    BY <1>2, <1>5, <2>1, <2>2
<1>8. CASE "keys" \notin DOMAIN disk
  <2> DEFINE s == mem.sets
             byId == from_set_history(s).byId
             bls == mem.bls
  <2>1. WellSets(s) /\ IsSeq(s)
    BY <1>1, <1>2 DEF WellSets
  <2>2. Heads(s, byId)
    BY <2>1, HistoryHeads
  <2>3. /\ \A id \in DOMAIN bls : IsBls(s, id, bls[id]) /\ Len(bls[id]) = 1
        /\ \A i \in DOMAIN s : DOMAIN s[i].val \subseteq DOMAIN bls
    BY <1>5, <1>6, <1>8 DEF Linked, OneKeyEach
  <2>4. ASSUME NEW id \in DOMAIN byId
        PROVE  id \in DOMAIN bls /\ Matches(byId[id], bls[id])
    <3> DEFINE v == s[Joined(s, id)].from
               e == Entry(v, id)
               b == bls[id]
    <3>1. /\ byId = [d \in UNION {DOMAIN s[i].val : i \in DOMAIN s} |->
                        <<Entry(s[Joined(s, d)].from, d)>>]
      BY DEF from_set_history
    <3>2. byId[id] = <<e>> /\ id \in UNION {DOMAIN s[i].val : i \in DOMAIN s}
      BY <2>4, <3>1
    <3>3. id \in DOMAIN bls
      BY <2>3, <3>2
    <3>4. Begins(s, id, byId[id][1].from)
      BY <2>2, <2>4 DEF Heads
    <3>5. e.from = v
      BY DEF Entry
    <3> HIDE DEF e, s, byId, bls, v
    <3>6. byId[id][1].from = v
      BY <3>2, <3>5
    <3>7. IsBls(s, id, b) /\ Len(b) = 1
      BY <2>3, <3>3
    <3> HIDE DEF b
    <3>8. b[1].from = v /\ b[1].from \in Nat /\ \A i \in DOMAIN b : ~(i > 1)
      <4>1. b[1].from = v
        BY <2>1, <3>4, <3>6, <3>7, BeginsOnce DEF IsBls
      <4> QED
        BY <3>7, <4>1, HistoryParts DEF IsBls
    <3>9. IsHistory(<<e>>) /\ Len(<<e>>) = 1 /\ <<e>>[1] = e
      BY <3>5, <3>8, HistoryOne
    <3>10. Matches(<<e>>, b)
      BY <3>5, <3>7, <3>8, <3>9 DEF Matches
    <3> QED
      BY <3>2, <3>3, <3>10 DEF b
  <2>5. recover.keys.byId = byId
    BY <1>2, <1>3, <1>8
  <2> HIDE DEF byId
  <2>6. Linked(s, byId, bls)
    BY <2>3, <2>4 DEF Linked
  <2>7. Sound(recover, TRUE)
    BY <1>1, <1>2, <1>5, <2>2, <2>5, <2>6 DEF Sound
  <2> QED
    BY <1>2, <1>5, <1>8, <2>7
<1> QED
  BY <1>7, <1>8

LEMMA RestartWritten ==
    ASSUME GovInv, KeyInv, BlsWritten, KeysWritten, ~torn, Restart
    PROVE  KeyInv' /\ BlsWritten' /\ KeysWritten'
<1>1. /\ status = "down" /\ mem' = (IF Starts THEN recover ELSE mem)
      /\ height' = height /\ disk' = disk /\ todo' = todo
  BY DEF Restart
<1>2. /\ Sound(mem', TRUE) /\ mem'.sets = mem.sets /\ mem'.bls = mem.bls
      /\ "keys" \in DOMAIN disk => mem'.keys.byId = mem.keys.byId
  <2>1. CASE Starts
    BY <1>1, <2>1, RecoverWritten
  <2>2. CASE ~Starts
    BY <1>1, <2>2 DEF KeyInv
  <2> QED
    BY <2>1, <2>2
<1>3. KeyInv'
  BY <1>1, <1>2 DEF KeyInv, KeysOnDisk, BlsOnDisk, KeysToCome
<1>4. todo = <<>>
  BY <1>1 DEF GovInv, TodoOK
<1>5. /\ NonePut(todo, "bls") /\ Read("bls", GenesisRecords.bls) = mem.bls
      /\ NonePut(todo, "keys")
      /\ "keys" \in DOMAIN disk => disk["keys"] = mem.keys.byId
      /\ "keys" \notin DOMAIN disk => OneKeyEach(mem.bls)
  BY <1>4, NoneLeft DEF BlsWritten, KeysWritten
<1>6. Read("bls", GenesisRecords.bls)' = Read("bls", GenesisRecords.bls)
  BY <1>1 DEF Read
<1>7. BlsWritten'
  BY <1>1, <1>2, <1>5, <1>6 DEF BlsWritten
<1>8. KeysWritten'
  BY <1>1, <1>2, <1>5 DEF KeysWritten
<1> QED
  BY <1>3, <1>7, <1>8

\* The inductive invariant of the keys of a node that lost no write.
WrittenInv == ~torn => KeyInv /\ BlsWritten /\ KeysWritten

LEMMA NextWritten == GovInv /\ WrittenInv /\ [Next]_vars => WrittenInv'
<1> SUFFICES ASSUME GovInv, WrittenInv, [Next]_vars, ~torn'
             PROVE  KeyInv' /\ BlsWritten' /\ KeysWritten'
  BY DEF WrittenInv
<1>1. ASSUME UNCHANGED <<height, disk, mem, todo, torn>>
      PROVE  KeyInv' /\ BlsWritten' /\ KeysWritten'
  <2>1. Read("bls", GenesisRecords.bls)' = Read("bls", GenesisRecords.bls)
    BY <1>1 DEF Read
  <2>2. KeyInv /\ BlsWritten /\ KeysWritten
    BY <1>1 DEF WrittenInv
  <2>3. KeyInv'
    BY <1>1, <2>2 DEF KeyInv, KeysOnDisk, BlsOnDisk, KeysToCome
  <2> QED
    BY <1>1, <2>1, <2>2, <2>3 DEF BlsWritten, KeysWritten
<1>2. CASE \E cmds \in Menu : Extend(cmds)
  BY <1>1, <1>2 DEF Extend
<1>3. CASE Commit
  <2>1. KeyInv /\ BlsWritten /\ KeysWritten
    BY <1>3 DEF Commit, WrittenInv
  <2> QED
    BY <1>3, <2>1, CommitKeys, CommitWritten
<1>4. CASE Put
  <2>1. KeyInv /\ BlsWritten /\ KeysWritten
    BY <1>4 DEF Put, WrittenInv
  <2> QED
    BY <1>4, <2>1, PutKeys, PutWritten
<1>5. CASE PutFails
  BY <1>5 DEF PutFails
<1>6. CASE Crash
  <2>1. ~torn
    BY <1>6 DEF Crash
  <2>2. KeyInv /\ BlsWritten /\ KeysWritten
    BY <2>1 DEF WrittenInv
  <2> QED
    BY <1>6, <2>2, LostKeys, CrashWritten
<1>7. CASE Restart
  <2>1. ~torn /\ KeyInv /\ BlsWritten /\ KeysWritten
    BY <1>7 DEF Restart, WrittenInv
  <2> QED
    BY <1>7, <2>1, RestartWritten
<1>8. CASE UNCHANGED vars
  BY <1>1, <1>8 DEF vars
<1> QED
  BY <1>2, <1>3, <1>4, <1>5, <1>6, <1>7, <1>8 DEF Next

LEMMA WrittenAlways == Spec => []WrittenInv
<1>1. Init => WrittenInv
  BY InitKeys, InitWritten DEF WrittenInv
<1> QED
  BY <1>1, NextWritten, InvAlways, PTL DEF Spec

-----------------------------------------------------------------------------
(***************************************************************************)
(* The theorems.                                                           *)
(***************************************************************************)
\* A validator set history always starts at the genesis, has growing
\* boundaries and no weight of zero, in a node that starts from what a crash
\* left on disk too, and every key of the reverse index belongs to a
\* validator of the key history (apply_committed_reconfig, apply_rotation,
\* the loaders).
THEOREM TypeCorrect == Spec => []TypeOK
BY InvAlways, InvType, PTL

\* With the blocks of the whole chain kept (block_retention_window = 0, the
\* default) a running node has the validator sets that the chain yields, after
\* any crashes and lost writes: what verify_persisted_history_consistency
\* accepts at start is what the replay of the chain gives.
THEOREM SetsFromChain ==
    ASSUME Retention = 0
    PROVE  Spec => []SetsMatchChain
<1>1. GovInv => SetsMatchChain
  BY InvSets
<1> QED
  BY <1>1, InvAlways, PTL

\* Whatever blocks are kept, the sets of a running node are those of the chain
\* as long as no write was lost: every change of the sets is followed by its
\* put, and a start reads back what the puts have left.
THEOREM SetsPersisted == Spec => [](~torn => SetsMatchChain)
<1>1. GovInv => (~torn => SetsMatchChain)
  BY InvSets
<1> QED
  BY <1>1, InvAlways, PTL

\* With the whole chain kept, the BLS key and the consensus key of a validator
\* change at the same views in a running node, through rotations, cancelled
\* rotations, new members, lost writes of either record and restarts
\* (apply_rotation_command and apply_rotation_cancel_command change both
\* histories, and a start compares both with the chain).
THEOREM BlsKeysInStep ==
    ASSUME Retention = 0
    PROVE  Spec => []BlsInStep
<1>1. Spec => []KeyInv
  BY KeysAlways
<1> QED
  BY <1>1, InvBls, PTL

\* With the whole chain kept, a running node has a BLS key in force for every
\* member of every set at the view from which the set decides, so that it can
\* verify the certificates of that set (apply_committed_reconfigs,
\* pubkeys_for_set).
THEOREM CertificatesAlwaysVerifiable ==
    ASSUME Retention = 0
    PROVE  Spec => []CertificatesVerifiable
<1>1. Spec => []KeyInv
  BY KeysAlways
<1> QED
  BY <1>1, InvVerifiable, PTL

\* Whatever blocks are kept, a running node that lost no write has the BLS keys
\* in step with the consensus keys and a BLS key for every member of every set:
\* each change of either record is followed by its put, and a start reads both
\* back, with consensus keys derived from the sets when none were ever written
\* (from_persisted of the two key histories, from_set_history).
THEOREM KeysPersisted == Spec => [](~torn => BlsInStep /\ CertificatesVerifiable)
<1>1. WrittenInv => (~torn => BlsInStep /\ CertificatesVerifiable)
  BY InvBls, InvVerifiable DEF WrittenInv
<1> QED
  BY <1>1, WrittenAlways, PTL

LEMMA ScheduleInit == Init => Schedule!Init
BY GenesisParts DEF Init, Schedule!Init, from_genesis, Entry

LEMMA ScheduleStep ==
    ASSUME Retention = 0, GovInv, [Next]_vars
    PROVE  [Schedule!Commit]_Schedule!vars
<1>1. CASE Commit
  <2>1. /\ height' = height + 1
        /\ mem'.sets = mem.sets \/ Scheduled(mem.sets, mem'.sets, height')
    BY <1>1, CommitStep
  <2>2. ASSUME NEW s
        PROVE  Schedule!Last(s) = Last(s) /\ Schedule!Front(s) = Front(s)
    BY DEF Schedule!Last, Schedule!Front, Last, Front
  <2>3. ASSUME NEW S
        PROVE  Schedule!Cardinality(S) = Cardinality(S)
    BY DEF Schedule!Cardinality, Cardinality
  <2> QED
    BY <2>1, <2>2, <2>3 DEF Schedule!Commit, Schedule!Unscheduled, Scheduled
<1>2. CASE Restart
  BY <1>2, RestartStep DEF Schedule!vars
<1>3. CASE \E cmds \in Menu : Extend(cmds)
  BY <1>3 DEF Extend, Schedule!vars
<1>4. CASE Put \/ PutFails \/ Crash
  BY <1>4 DEF Put, PutFails, Crash, Schedule!vars
<1>5. CASE UNCHANGED vars
  BY <1>5 DEF vars, Schedule!vars
<1> QED
  BY <1>1, <1>2, <1>3, <1>4, <1>5 DEF Next

\* The node implements the schedule of validator sets: commits come one by
\* one, each schedules at most one set, at least the delay ahead, with at
\* least the floor of members and only when none is ahead, and no crash or
\* restart changes the set of a view (apply_committed_reconfigs, recover).
THEOREM ScheduleImplemented ==
    ASSUME Retention = 0
    PROVE  Spec => ScheduleRefined
<1>1. GovInv /\ [Next]_vars => [Schedule!Commit]_Schedule!vars
  BY ScheduleStep
<1> QED
  BY <1>1, ScheduleInit, InvAlways, PTL DEF Spec, ScheduleRefined, Schedule!Spec
=============================================================================
