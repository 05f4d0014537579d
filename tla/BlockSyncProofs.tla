--------------------------- MODULE BlockSyncProofs ---------------------------
(***************************************************************************)
(* Proofs about BlockSync for any number of peers, any caps and retry      *)
(* limits, and any losses: the caches and the requests stay within their   *)
(* limits, and no proposal waits for a block that nobody is asked for.     *)
(***************************************************************************)
EXTENDS BlockSync, FiniteSetTheorems, TLAPS

\* Of the loops only the facts about recursive functions are used here.
SameState(s, x, v) == s

Recursion == INSTANCE LoopProofs WITH Step <- SameState, Good <- SameState

-----------------------------------------------------------------------------
(* What HotStuffCore holds, at rest and in the middle of a step. *)
Heights == 0..LastHeight
Requests == UNION {[K -> Entry] : K \in SUBSET Heights}
Request == [h : Heights, peer : ToSet(Peers), height : Heights]

CoreState ==
    [pending : SUBSET Heights, parked : SUBSET (1..LastHeight), inflight : Requests,
     voted : Heights, high : Heights, committed : Heights,
     evicted : SUBSET Heights, out : Seq(Request)]

\* What ParkedIsRequested says, of the core in the middle of a step and of the
\* proposals not in X
Waits(s, X) ==
    \A h \in s.parked \ X :
        h - 1 > s.committed /\ h - 1 \notin s.evicted =>
            h - 1 \in s.pending \/ h - 1 \in DOMAIN s.inflight

Good(X) == {s \in CoreState : Cardinality(s.parked) <= ParkedCap /\ Waits(s, X)}

(* The inductive invariant: the core is good, and what is under way is a
   proposal or a certificate of the chain. *)
RangesOK(open) == \A k \in DOMAIN open : open[k].attempts \in 1..MaxAttempts

NetOK ==
    \A m \in net : /\ m.kind = "proposal" => m.h \in 1..LastHeight
                   /\ m.kind = "newView" => m.h \in Heights /\ m.from \in ToSet(Peers)

SyncInv ==
    /\ core \in Good({}) /\ core.out = <<>> /\ RangesOK(ranges) /\ NetOK
    /\ timer \in {"off", "armed", "spent"} /\ ticks \in 0..TickQueue
    /\ connected \subseteq ToSet(Peers) /\ calm \in BOOLEAN /\ faults \in 0..MaxFaults
    /\ tip \in Heights

-----------------------------------------------------------------------------
(***************************************************************************)
(* Numbers, sets and sequences.                                            *)
(***************************************************************************)
LEMMA MinOf ==
    ASSUME NEW S \in SUBSET Nat, S # {}
    PROVE  Min(S) \in S
<1>1. PICK m \in S : \A y \in S : m <= y
  BY Recursion!Least
<1> QED
  BY <1>1 DEF Min

LEMMA Constants ==
    /\ LastHeight \in Nat /\ Start \in 0..LastHeight
    /\ {Ranges, ParkedCap, PerPeer, MaxAttempts, TickQueue} \subseteq Nat \ {0}
    /\ MaxBackoff \in Nat /\ MaxFaults \in Nat
    /\ Len(Peers) \in Nat \ {0} /\ DOMAIN Peers = 1..Len(Peers)
    /\ ToSet(Peers) = {Peers[i] : i \in 1..Len(Peers)}
<1>1. Peers \in Seq(ToSet(Peers)) /\ Len(Peers) > 0
  BY BlockSyncAssumption
<1>2. Len(Peers) \in Nat \ {0} /\ DOMAIN Peers = 1..Len(Peers)
  BY <1>1
<1> QED
  BY <1>2, BlockSyncAssumption DEF ToSet

LEMMA SubsetOfHeights ==
    ASSUME NEW S \in SUBSET Heights
    PROVE  IsFiniteSet(S) /\ Cardinality(S) \in Nat /\ S \in SUBSET Nat
<1>1. Heights \subseteq Nat /\ IsFiniteSet(Heights)
  BY Constants, FS_Interval DEF Heights
<1> QED
  BY <1>1, FS_Subset, FS_CardinalityType

\* SetToSeq and SetToSeqs only have the elements of their sets.
LEMMA SetToSeqRange ==
    ASSUME NEW S, IsFiniteSet(S)
    PROVE  /\ Cardinality(S) \in Nat
           /\ SetToSeq(S) \in [1..Cardinality(S) -> S] /\ Len(SetToSeq(S)) = Cardinality(S)
<1> DEFINE n == Cardinality(S)
<1>1. n \in Nat
  BY FS_CardinalityType
<1>2. PICK f \in [1..n -> S] : IsInjective(f)
  <2>1. ExistsBijection(1..n, S)
    BY <1>1, FS_CountingElements, FS_CardinalityType
  <2>2. PICK f : f \in Bijection(1..n, S)
    BY <2>1 DEF ExistsBijection
  <2> QED
    BY <2>2 DEF Bijection, Injection, IsInjective
<1>3. SetToSeq(S) \in [1..n -> S]
  BY <1>2 DEF SetToSeq
<1> QED
  BY <1>1, <1>3


-----------------------------------------------------------------------------
(***************************************************************************)
(* Requests.                                                               *)
(***************************************************************************)
LEMMA PutRequest ==
    ASSUME NEW r \in Requests, NEW h \in Heights, NEW e \in Entry
    PROVE  Put(r, h, e) \in Requests /\ DOMAIN Put(r, h, e) = DOMAIN r \cup {h}
<1>1. PICK K \in SUBSET Heights : r \in [K -> Entry]
  BY DEF Requests
<1>2. Put(r, h, e) \in [K \cup {h} -> Entry]
  BY <1>1 DEF Put
<1>3. K \cup {h} \in SUBSET Heights
  OBVIOUS
<1> QED
  BY <1>1, <1>2, <1>3 DEF Requests

LEMMA WithoutRequest ==
    ASSUME NEW r \in Requests, NEW H
    PROVE  Without(r, H) \in Requests /\ DOMAIN Without(r, H) = DOMAIN r \ H
<1>1. PICK K \in SUBSET Heights : r \in [K -> Entry]
  BY DEF Requests
<1>2. Without(r, H) \in [K \ H -> Entry]
  BY <1>1 DEF Without
<1>3. K \ H \in SUBSET Heights
  OBVIOUS
<1> QED
  BY <1>1, <1>2, <1>3 DEF Requests

LEMMA EntryOfRequest ==
    ASSUME NEW r \in Requests
    PROVE  DOMAIN r \in SUBSET Heights /\ \A h \in DOMAIN r : r[h] \in Entry
BY DEF Requests

LEMMA EntryChange ==
    ASSUME NEW e \in Entry, NEW a \in 1..MaxAttempts, NEW z \in 0..MaxBackoff
    PROVE  [e EXCEPT !.attempts = a, !.age = z] \in Entry
BY DEF Entry

LEMMA ChangeRequest ==
    ASSUME NEW r \in Requests, NEW h \in DOMAIN r, NEW e \in Entry
    PROVE  [r EXCEPT ![h] = e] \in Requests /\ DOMAIN [r EXCEPT ![h] = e] = DOMAIN r
<1>1. PICK K \in SUBSET Heights : r \in [K -> Entry]
  BY DEF Requests
<1>2. [r EXCEPT ![h] = e] \in [K -> Entry]
  BY <1>1
<1> QED
  BY <1>1, <1>2 DEF Requests

\* The peers that are asked are validators, also when the ring wraps round.
LEMMA PickIsPeer ==
    ASSUME NEW sender \in ToSet(Peers), NEW attempts \in Nat
    PROVE  pick_block_sync_peer(sender, attempts) \in ToSet(Peers)
<1> DEFINE n == Len(Peers)
           round == attempts \div PerPeer
           at == CHOOSE i \in DOMAIN Peers : Peers[i] = sender
           j == (at - 1 + round) % n
<1>1. n \in Nat \ {0} /\ DOMAIN Peers = 1..n /\ PerPeer \in Nat \ {0}
  BY Constants
<1>2. \E i \in DOMAIN Peers : Peers[i] = sender
  BY Constants
<1>3. at \in 1..n
  BY <1>1, <1>2
<1>4. round \in Nat
  BY <1>1
<1> HIDE DEF at, round, n
<1>5. j \in 0..n - 1
  BY <1>1, <1>3, <1>4
<1>6. j + 1 \in 1..n
  BY <1>1, <1>5
<1>7. Peers[j + 1] \in ToSet(Peers)
  BY <1>6, Constants DEF n
<1> QED
  BY <1>7 DEF pick_block_sync_peer, at, round, n

LEMMA ProposerIsPeer ==
    ASSUME NEW h \in Nat
    PROVE  Proposer(h) \in ToSet(Peers)
<1>1. Len(Peers) \in Nat \ {0}
  BY Constants
<1>2. h % Len(Peers) \in 0..Len(Peers) - 1
  BY <1>1
<1>3. (h % Len(Peers)) + 1 \in 1..Len(Peers)
  BY <1>1, <1>2
<1> QED
  BY <1>3, Constants DEF Proposer

-----------------------------------------------------------------------------
(***************************************************************************)
(* Each operation of the core keeps it good.                               *)
(***************************************************************************)
LEMMA GoodFields ==
    ASSUME NEW X, NEW s \in Good(X)
    PROVE  /\ s \in CoreState /\ Waits(s, X) /\ Cardinality(s.parked) <= ParkedCap
           /\ s.pending \in SUBSET Heights /\ s.parked \in SUBSET (1..LastHeight)
           /\ s.parked \in SUBSET Heights
           /\ s.inflight \in Requests /\ s.evicted \in SUBSET Heights /\ s.out \in Seq(Request)
           /\ s.voted \in Heights /\ s.high \in Heights /\ s.committed \in Heights
<1>1. s \in CoreState
  BY DEF Good
<1>2. s.parked \in SUBSET (1..LastHeight)
  BY <1>1 DEF CoreState
<1>3. s.parked \in SUBSET Heights
  BY <1>2, Constants DEF Heights
<1> QED
  BY <1>1, <1>2, <1>3 DEF Good, CoreState

\* Fewer proposals wait, and no request is forgotten but of those.
LEMMA FewerWait ==
    ASSUME NEW X, NEW s \in Good(X), NEW P \in SUBSET s.parked, NEW r \in Requests,
           \A h \in P : h - 1 \in DOMAIN s.inflight => h - 1 \in DOMAIN r
    PROVE  [s EXCEPT !.parked = P, !.inflight = r] \in Good(X)
<1> DEFINE t == [s EXCEPT !.parked = P, !.inflight = r]
<1>0. s \in CoreState /\ P \in SUBSET (1..LastHeight)
  BY GoodFields
<1>1. t \in CoreState
  BY <1>0 DEF CoreState
<1>2. /\ t.parked = P /\ t.inflight = r /\ t.committed = s.committed
      /\ t.evicted = s.evicted /\ t.pending = s.pending
  BY <1>0 DEF CoreState
<1> HIDE DEF t
<1>3. Waits(t, X)
  BY <1>2, GoodFields DEF Waits
<1>4. Cardinality(P) <= ParkedCap
  <2>1. IsFiniteSet(s.parked) /\ Cardinality(s.parked) \in Nat
    BY GoodFields, SubsetOfHeights
  <2>2. Cardinality(P) <= Cardinality(s.parked) /\ Cardinality(P) \in Nat
    BY <2>1, FS_Subset, FS_CardinalityType
  <2> QED
    BY <2>1, <2>2, GoodFields, Constants
<1>5. t \in Good(X)
  BY <1>1, <1>2, <1>3, <1>4 DEF Good
<1> QED
  BY <1>5 DEF t

LEMMA AskGood ==
    ASSUME NEW X, NEW s \in Good(X), NEW h \in DOMAIN s.inflight, NEW p \in ToSet(Peers)
    PROVE  Ask(s, h, p) \in Good(X) /\ Ask(s, h, p).inflight = s.inflight
<1> DEFINE q == [h |-> h, peer |-> p, height |-> s.inflight[h].height]
           t == [s EXCEPT !.out = Append(s.out, q)]
<1>1. h \in Heights /\ s.inflight[h] \in Entry
  BY GoodFields, EntryOfRequest
<1>2. q \in Request
  BY <1>1 DEF Request, Entry, Heights
<1>3. Append(s.out, q) \in Seq(Request)
  BY <1>2, GoodFields
<1> HIDE DEF q
<1>0. s \in CoreState
  BY GoodFields
<1>4. /\ t \in CoreState /\ t.parked = s.parked /\ t.inflight = s.inflight
      /\ t.committed = s.committed /\ t.evicted = s.evicted /\ t.pending = s.pending
  BY <1>0, <1>3 DEF CoreState
<1> HIDE DEF t
<1>5. t \in Good(X)
  BY <1>4, GoodFields DEF Good, Waits
<1> QED
  BY <1>4, <1>5 DEF Ask, t, q

\* A request is sent again only within its attempts.
LEMMA AskAgainGood ==
    ASSUME NEW X, NEW s \in Good(X), NEW h \in DOMAIN s.inflight, s.inflight[h].attempts < MaxAttempts
    PROVE  AskAgain(s, h) \in Good(X) /\ DOMAIN AskAgain(s, h).inflight = DOMAIN s.inflight
<1> DEFINE e == s.inflight[h]
           f == [e EXCEPT !.attempts = @ + 1, !.age = 0]
           r == [s.inflight EXCEPT ![h] = f]
           c == [s EXCEPT !.inflight[h].attempts = @ + 1, !.inflight[h].age = 0]
           t == [s EXCEPT !.parked = s.parked, !.inflight = r]
<1>1. e \in Entry /\ s.inflight \in Requests
  BY GoodFields, EntryOfRequest
<1>2. f \in Entry /\ e.attempts \in Nat /\ e.sender \in ToSet(Peers)
  <2>1. MaxAttempts \in Nat /\ MaxBackoff \in Nat /\ e.attempts < MaxAttempts
    BY Constants
  <2>2. e.attempts \in 1..MaxAttempts /\ e.sender \in ToSet(Peers)
    BY <1>1 DEF Entry
  <2>3. e.attempts + 1 \in 1..MaxAttempts /\ 0 \in 0..MaxBackoff
    BY <2>1, <2>2
  <2>4. f \in Entry
    BY <1>1, <2>3, EntryChange
  <2> QED
    BY <2>2, <2>4
<1>3. r \in Requests /\ DOMAIN r = DOMAIN s.inflight
  BY <1>1, <1>2, ChangeRequest
<1>4. c = t
  <2>1. DOMAIN s.inflight \in SUBSET Heights
    BY GoodFields, EntryOfRequest
  <2> QED
    BY <1>1, GoodFields DEF CoreState, Entry, Requests
<1>5. t \in Good(X) /\ t.inflight = r
  <2> HIDE DEF r
  <2>1. t \in Good(X)
    BY <1>3, FewerWait
  <2>2. t.inflight = r
    BY GoodFields DEF CoreState
  <2> QED
    BY <2>1, <2>2
<1>6. pick_block_sync_peer(e.sender, e.attempts) \in ToSet(Peers)
  BY <1>2, PickIsPeer
<1> HIDE DEF r, e, t, c
<1>7. Ask(t, h, pick_block_sync_peer(e.sender, e.attempts)) \in Good(X)
  BY <1>3, <1>5, <1>6, AskGood
<1>8. Ask(t, h, pick_block_sync_peer(e.sender, e.attempts)).inflight = r
  BY <1>3, <1>5, <1>6, AskGood
<1> QED
  BY <1>3, <1>4, <1>7, <1>8 DEF AskAgain, c, e

LEMMA OpenGood ==
    ASSUME NEW X, NEW s \in Good(X), NEW h \in Heights, NEW e \in Entry
    PROVE  /\ [s EXCEPT !.inflight = Put(@, h, e)] \in Good(X)
           /\ [s EXCEPT !.inflight = Put(@, h, e)].inflight = Put(s.inflight, h, e)
<1> DEFINE r == Put(s.inflight, h, e)
           t == [s EXCEPT !.parked = s.parked, !.inflight = r]
<1>1. r \in Requests /\ DOMAIN r = DOMAIN s.inflight \cup {h}
  BY GoodFields, PutRequest
<1> HIDE DEF r
<1>2. t \in Good(X)
  BY <1>1, FewerWait
<1>0. s \in CoreState
  BY GoodFields
<1>3. [s EXCEPT !.inflight = r] = t /\ t.inflight = r
  BY <1>0 DEF CoreState
<1> QED
  BY <1>2, <1>3 DEF r

\* A request is open after it was to be sent.
LEMMA EmitGood ==
    ASSUME NEW X, NEW s \in Good(X), NEW h \in Heights, NEW p \in ToSet(Peers), NEW height \in Heights
    PROVE  /\ try_emit_block_sync_retry(s, h, p, height) \in Good(X)
           /\ h \in DOMAIN try_emit_block_sync_retry(s, h, p, height).inflight
<1> DEFINE first == [sender |-> p, attempts |-> 1, age |-> 0, height |-> height]
           t == [s EXCEPT !.inflight = Put(@, h, first)]
<1>1. first \in Entry
  BY Constants DEF Entry, Heights
<1> HIDE DEF first
<1>2. CASE h \notin DOMAIN s.inflight
  <2>1. t \in Good(X) /\ t.inflight = Put(s.inflight, h, first)
    BY <1>1, OpenGood
  <2>2. h \in DOMAIN t.inflight
    <3>1. DOMAIN Put(s.inflight, h, first) = DOMAIN s.inflight \cup {h}
      BY <1>1, GoodFields, PutRequest
    <3> QED
      BY <2>1, <3>1
  <2> HIDE DEF t
  <2>3. Ask(t, h, p) \in Good(X) /\ Ask(t, h, p).inflight = t.inflight
    BY <2>1, <2>2, AskGood
  <2>4. try_emit_block_sync_retry(s, h, p, height) = Ask(t, h, p)
    BY <1>2 DEF try_emit_block_sync_retry, t, first
  <2> QED
    BY <2>2, <2>3, <2>4
<1>3. CASE h \in DOMAIN s.inflight
  <2>1. s.inflight[h].attempts \in Nat /\ MaxAttempts \in Nat
    BY <1>3, GoodFields, EntryOfRequest, Constants DEF Entry
  <2>2. CASE s.inflight[h].attempts >= MaxAttempts
    BY <1>3, <2>2 DEF try_emit_block_sync_retry
  <2>3. CASE ~(s.inflight[h].attempts >= MaxAttempts)
    <3>1. s.inflight[h].attempts < MaxAttempts
      BY <2>1, <2>3
    <3>2. AskAgain(s, h) \in Good(X) /\ h \in DOMAIN AskAgain(s, h).inflight
      BY <1>3, <3>1, AskAgainGood
    <3> QED
      BY <1>3, <2>3, <3>2 DEF try_emit_block_sync_retry
  <2> QED
    BY <2>2, <2>3
<1> QED
  BY <1>2, <1>3

\* A request is given up together with the proposal that waits for it.
LEMMA DropGood ==
    ASSUME NEW X, NEW s \in Good(X), NEW h \in Heights
    PROVE  drop_parked_for_parent(s, h) \in Good(X)
<1> DEFINE P == s.parked \ {h + 1}
           r == Without(s.inflight, {h})
<1>1. r \in Requests /\ DOMAIN r = DOMAIN s.inflight \ {h}
  BY GoodFields, WithoutRequest
<1>2. \A k \in P : k - 1 # h
  BY GoodFields, Constants DEF Heights
<1>3. P \in SUBSET s.parked
  OBVIOUS
<1> HIDE DEF P, r
<1>4. [s EXCEPT !.parked = P, !.inflight = r] \in Good(X)
  BY <1>1, <1>2, <1>3, FewerWait
<1> QED
  BY <1>4 DEF drop_parked_for_parent, P, r

LEMMA TickGood ==
    ASSUME NEW X, NEW s \in Good(X), NEW h \in Heights
    PROVE  run_block_sync_retry_tick_for_parent(s, h) \in Good(X)
<1>1. CASE h \in DOMAIN s.inflight /\ s.inflight[h].attempts < MaxAttempts
  BY <1>1, AskAgainGood, DropGood DEF run_block_sync_retry_tick_for_parent
<1>2. CASE h \in DOMAIN s.inflight /\ ~(s.inflight[h].attempts < MaxAttempts)
  <2>1. s.inflight[h].attempts >= MaxAttempts
    BY <1>2, GoodFields, EntryOfRequest, Constants DEF Entry
  <2> QED
    BY <1>2, <2>1, DropGood DEF run_block_sync_retry_tick_for_parent
<1>3. CASE h \notin DOMAIN s.inflight
  BY <1>3 DEF run_block_sync_retry_tick_for_parent
<1> QED
  BY <1>1, <1>2, <1>3

LEMMA RetryGood ==
    ASSUME NEW X, NEW s \in Good(X), NEW h \in Heights
    PROVE  run_block_sync_retry_for_parent(s, h) \in Good(X)
<1>1. CASE h \in DOMAIN s.inflight
  <2>1. s.inflight[h].sender \in ToSet(Peers) /\ s.inflight[h].height \in Heights
    BY <1>1, GoodFields, EntryOfRequest DEF Entry, Heights
  <2> QED
    BY <1>1, <2>1, EmitGood, DropGood DEF run_block_sync_retry_for_parent
<1>2. CASE h \notin DOMAIN s.inflight
  BY <1>2 DEF run_block_sync_retry_for_parent
<1> QED
  BY <1>1, <1>2

\* Whatever is evicted to make room is remembered, and what is inserted needs no
\* request.
LEMMA InsertGood ==
    ASSUME NEW X, NEW s \in Good(X), NEW h \in Heights
    PROVE  insert_pending_block(s, h) \in Good(X)
<1> DEFINE victims == s.pending \ protected_block_hashes(s)
           full == h \notin s.pending /\ Cardinality(s.pending) >= PendingCap
           victim == IF full /\ victims # {} THEN {Min(victims)} ELSE {}
           r == Without(s.inflight, {h})
           B == (s.pending \ victim) \cup {h}
           E == s.evicted \cup victim
           u == [s EXCEPT !.pending = B, !.evicted = E]
           t == [u EXCEPT !.inflight = r]
<1>0. s \in CoreState /\ s.pending \in SUBSET Heights /\ s.evicted \in SUBSET Heights
  BY GoodFields
<1>1. victim \in SUBSET s.pending /\ h \notin victim
  <2>1. victims # {} => Min(victims) \in victims
    <3>1. victims \in SUBSET Nat
      BY <1>0, SubsetOfHeights
    <3> HIDE DEF victims
    <3> QED
      BY <3>1, MinOf
  <2>2. victims \in SUBSET s.pending
    OBVIOUS
  <2> HIDE DEF victims
  <2> QED
    BY <2>1, <2>2
<1> HIDE DEF victim
<1>2. B \in SUBSET Heights /\ E \in SUBSET Heights
  BY <1>0, <1>1
<1>3. r \in Requests /\ DOMAIN r = DOMAIN s.inflight \ {h}
  BY GoodFields, WithoutRequest
<1>4. s.pending \subseteq B \cup E /\ s.evicted \subseteq E /\ h \in B
  OBVIOUS
<1>4a. u.inflight = s.inflight
  BY <1>0 DEF CoreState
<1>5. insert_pending_block(s, h) = t
  BY <1>4a DEF insert_pending_block, insert_pending, victim
<1> HIDE DEF B, E, r
<1>6. /\ t \in CoreState /\ t.parked = s.parked /\ t.inflight = r
      /\ t.committed = s.committed /\ t.evicted = E /\ t.pending = B
  BY <1>0, <1>2, <1>3 DEF CoreState
<1> HIDE DEF t, u
<1>7. Waits(s, X) /\ Cardinality(s.parked) <= ParkedCap
  BY GoodFields
<1>8. Waits(t, X)
  BY <1>3, <1>4, <1>6, <1>7 DEF Waits
<1> QED
  BY <1>5, <1>6, <1>7, <1>8 DEF Good

LEMMA EvictParkedGood ==
    ASSUME NEW X, NEW s \in Good(X), NEW h \in 1..LastHeight
    PROVE  LET t == evict_parked_to_fit_one(s, h)
           IN  t \in Good(X) /\ Cardinality(t.parked \cup {h}) <= ParkedCap
<1> DEFINE t == evict_parked_to_fit_one(s, h)
<1>0. /\ s \in CoreState /\ s.parked \in SUBSET Heights /\ Cardinality(s.parked) <= ParkedCap
      /\ s.inflight \in Requests
  BY GoodFields
<1>1. IsFiniteSet(s.parked) /\ Cardinality(s.parked) \in Nat /\ s.parked \in SUBSET Nat
  BY <1>0, SubsetOfHeights
<1>2. ParkedCap \in Nat \ {0}
  BY Constants
<1>3. CASE h \in s.parked
  <2>1. t = s /\ s.parked \cup {h} = s.parked
    BY <1>3 DEF evict_parked_to_fit_one
  <2> QED
    BY <1>0, <2>1
<1>4. CASE h \notin s.parked /\ ~(Cardinality(s.parked) >= ParkedCap)
  <2>1. t = s
    BY <1>4 DEF evict_parked_to_fit_one
  <2>2. Cardinality(s.parked \cup {h}) = Cardinality(s.parked) + 1
    BY <1>1, <1>4, FS_AddElement
  <2> QED
    BY <1>1, <1>2, <1>4, <2>1, <2>2
<1>5. CASE h \notin s.parked /\ Cardinality(s.parked) >= ParkedCap
  <2> DEFINE m == Min(s.parked)
             P == s.parked \ {m}
             v == [s EXCEPT !.parked = P, !.inflight = s.inflight]
  <2>1. Cardinality(s.parked) = ParkedCap
    BY <1>0, <1>1, <1>2, <1>5
  <2>2. s.parked # {}
    BY <1>2, <2>1, FS_EmptySet
  <2>3. m \in s.parked
    BY <1>1, <2>2, MinOf
  <2> HIDE DEF m
  <2>4. IsFiniteSet(P) /\ Cardinality(P) = Cardinality(s.parked) - 1
    BY <1>1, <2>3, FS_RemoveElement
  <2>5. P \in SUBSET s.parked /\ h \notin P
    BY <1>5
  <2> HIDE DEF P
  <2>6. Cardinality(P \cup {h}) = Cardinality(P) + 1
    BY <2>4, <2>5, FS_AddElement
  <2>7. v \in Good(X)
    BY <1>0, <2>5, FewerWait
  <2>8. t = v
    BY <1>0, <1>5 DEF evict_parked_to_fit_one, P, m, CoreState
  <2>9. v.parked = P
    BY <1>0 DEF CoreState
  <2> QED
    BY <1>1, <2>1, <2>4, <2>6, <2>7, <2>8, <2>9
<1> QED
  BY <1>3, <1>4, <1>5

\* A proposal that is parked has an open request for its parent.
LEMMA ParkGood ==
    ASSUME NEW s \in Good({}), NEW h \in 1..LastHeight
    PROVE  Park(s, h) \in Good({})
<1> DEFINE e == evict_parked_to_fit_one(s, h)
           P == e.parked \cup {h}
           t == [e EXCEPT !.parked = P]
           u == try_emit_block_sync_retry(t, h - 1, Proposer(h), h - 1)
<1>1. e \in Good({}) /\ Cardinality(P) <= ParkedCap
  BY EvictParkedGood
<1> HIDE DEF e
<1>2. e \in CoreState /\ P \in SUBSET (1..LastHeight) /\ Waits(e, {})
  BY <1>1, GoodFields
<1>2a. P \ {h} \subseteq e.parked
  OBVIOUS
<1> HIDE DEF P
<1>3. /\ t \in CoreState /\ t.parked = P /\ t.inflight = e.inflight
      /\ t.committed = e.committed /\ t.evicted = e.evicted /\ t.pending = e.pending
  BY <1>2 DEF CoreState
<1> HIDE DEF t
<1>4. t \in Good({h})
  <2>1. Waits(t, {h})
    BY <1>2, <1>2a, <1>3 DEF Waits
  <2> QED
    BY <1>1, <1>3, <2>1 DEF Good
<1>5. h - 1 \in Heights /\ Proposer(h) \in ToSet(Peers)
  BY ProposerIsPeer, Constants DEF Heights
<1>6. u \in Good({h}) /\ h - 1 \in DOMAIN u.inflight
  BY <1>4, <1>5, EmitGood
<1>7. Park(s, h) = u
  BY DEF Park, t, P, e
<1> HIDE DEF u
<1>8. u \in CoreState /\ Cardinality(u.parked) <= ParkedCap /\ Waits(u, {h})
  BY <1>6, GoodFields
<1>9. Waits(u, {})
  BY <1>6, <1>8 DEF Waits
<1> QED
  BY <1>7, <1>8, <1>9 DEF Good

LEMMA VoteGood ==
    ASSUME NEW X, NEW s \in Good(X), NEW h \in 1..LastHeight
    PROVE  VoteFor(s, h) \in Good(X)
<1> DEFINE q == Higher(s.high, h - 1)
           t == [s EXCEPT !.voted = h, !.high = q]
<1>0. s \in CoreState /\ s.high \in Heights /\ Waits(s, X) /\ Cardinality(s.parked) <= ParkedCap
  BY GoodFields
<1>1. h \in Heights /\ q \in Heights
  BY <1>0, Constants DEF Heights, Higher
<1> HIDE DEF q
<1>2. /\ t \in CoreState /\ t.parked = s.parked /\ t.inflight = s.inflight
      /\ t.committed = s.committed /\ t.evicted = s.evicted /\ t.pending = s.pending
  BY <1>0, <1>1 DEF CoreState
<1> HIDE DEF t
<1>3. t \in Good(X)
  BY <1>0, <1>2 DEF Good, Waits
<1> QED
  BY <1>3 DEF VoteFor, t, q

\* What a commit prunes is below it.
LEMMA CommitGood ==
    ASSUME NEW X, NEW s \in Good(X), NEW h \in 1..LastHeight
    PROVE  CommitThreeChain(s, h) \in Good(X)
<1> DEFINE c == Higher(s.committed, h - 3)
           B == {k \in s.pending : k > h - 3}
           t == [s EXCEPT !.committed = c, !.pending = B]
<1>0. /\ s \in CoreState /\ s.committed \in Heights /\ s.pending \in SUBSET Heights
      /\ s.parked \in SUBSET (1..LastHeight)
      /\ Waits(s, X) /\ Cardinality(s.parked) <= ParkedCap
  BY GoodFields
<1>1. CASE {h - 1, h - 2, h - 3} \subseteq s.pending
  <2>1. h - 3 \in Heights
    BY <1>0, <1>1
  <2>2. c \in Heights /\ c >= s.committed /\ c >= h - 3
    BY <1>0, <2>1 DEF Heights, Higher
  <2>3. B \in SUBSET Heights
    BY <1>0
  <2> HIDE DEF c, B
  <2>4. /\ t \in CoreState /\ t.parked = s.parked /\ t.inflight = s.inflight
        /\ t.committed = c /\ t.evicted = s.evicted /\ t.pending = B
    BY <1>0, <2>2, <2>3 DEF CoreState
  <2>5. CommitThreeChain(s, h) = t
    BY <1>1 DEF CommitThreeChain, c, B
  <2> HIDE DEF t
  <2>6. ASSUME NEW k \in s.parked, k - 1 > c
        PROVE  k - 1 > s.committed /\ (k - 1 \in s.pending => k - 1 \in B)
    BY <1>0, <2>1, <2>2, <2>6, Constants DEF Heights, B
  <2>7. Waits(t, X)
    BY <1>0, <2>4, <2>6 DEF Waits
  <2> QED
    BY <1>0, <2>4, <2>5, <2>7 DEF Good
<1>2. CASE ~({h - 1, h - 2, h - 3} \subseteq s.pending)
  BY <1>2 DEF CommitThreeChain
<1> QED
  BY <1>1, <1>2

LEMMA ProposalGood ==
    ASSUME NEW s \in Good({}), NEW h \in 1..LastHeight
    PROVE  on_proposal_received(s, h) \in Good({})
<1>1. h \in Heights
  BY Constants DEF Heights
<1>2. insert_pending_block(s, h) \in Good({})
  BY <1>1, InsertGood
<1>3. VoteFor(insert_pending_block(s, h), h) \in Good({})
  BY <1>2, VoteGood
<1>4. CommitThreeChain(VoteFor(insert_pending_block(s, h), h), h) \in Good({})
  BY <1>3, CommitGood
<1> QED
  BY <1>4, ParkGood DEF on_proposal_received

\* Only the proposal that is retried waits for the request that is closed.
LEMMA UnparkGood ==
    ASSUME NEW s \in Good({}), NEW h \in 1..LastHeight
    PROVE  Unpark(s, h) \in Good({})
<1> DEFINE P == s.parked \ {h}
           r == Without(s.inflight, {h - 1})
           t == [s EXCEPT !.parked = P, !.inflight = r]
<1>1. r \in Requests /\ DOMAIN r = DOMAIN s.inflight \ {h - 1}
  BY GoodFields, WithoutRequest
<1>2. \A k \in P : k - 1 # h - 1
  BY GoodFields
<1>3. P \in SUBSET s.parked
  OBVIOUS
<1>4. Unpark(s, h) = on_proposal_received(t, h)
  BY DEF Unpark
<1> HIDE DEF P, r
<1>5. t \in Good({})
  BY <1>1, <1>2, <1>3, FewerWait
<1> QED
  BY <1>4, <1>5, ProposalGood

LEMMA AgedGood ==
    ASSUME NEW s \in Good({})
    PROVE  Aged(s) \in Good({})
<1> DEFINE old(h) == [s.inflight[h] EXCEPT !.age = Lower(@ + 1, MaxBackoff)]
           r == [h \in DOMAIN s.inflight |-> old(h)]
           t == [s EXCEPT !.parked = s.parked, !.inflight = r]
<1>0. s \in CoreState /\ DOMAIN s.inflight \in SUBSET Heights
  BY GoodFields, EntryOfRequest
<1>1. ASSUME NEW h \in DOMAIN s.inflight
      PROVE  old(h) \in Entry
  <2> DEFINE e == s.inflight[h]
             z == Lower(e.age + 1, MaxBackoff)
  <2>1. e \in Entry
    BY GoodFields, EntryOfRequest
  <2>2. z \in 0..MaxBackoff
    <3>1. MaxBackoff \in Nat
      BY Constants
    <3> HIDE DEF e
    <3>2. e.age \in 0..MaxBackoff
      BY <2>1 DEF Entry
    <3> QED
      BY <3>1, <3>2 DEF Lower
  <2> HIDE DEF e, z
  <2>3. [e EXCEPT !.age = z] \in Entry
    BY <2>1, <2>2 DEF Entry
  <2> QED
    BY <2>3 DEF e, z
<1> HIDE DEF old
<1>2. r \in Requests /\ DOMAIN r = DOMAIN s.inflight
  BY <1>0, <1>1 DEF Requests
<1>3. Aged(s) = [s EXCEPT !.inflight = r]
  BY DEF Aged, old
<1> HIDE DEF r
<1>4. t \in Good({})
  BY <1>2, FewerWait
<1>5. t = [s EXCEPT !.inflight = r]
  BY <1>0 DEF CoreState
<1> QED
  BY <1>3, <1>4, <1>5

-----------------------------------------------------------------------------
(***************************************************************************)
(* The loops.                                                              *)
(***************************************************************************)
LEMMA UnparkAlong ==
    ASSUME NEW s \in Good({}), NEW seq, NEW n \in Nat, Len(seq) = n,
           \A k \in 1..n : seq[k] \in 1..LastHeight
    PROVE  Along(Unpark, s, seq) \in Good({})
<1> DEFINE X == Good({})
           F == [k \in 1..n |-> [t \in X |-> Unpark(t, seq[k])]]
           at == CHOOSE h : h = [i \in 0..n |-> IF i = 0 THEN s ELSE Unpark(h[i - 1], seq[i])]
<1>1. s \in X
  OBVIOUS
<1>2. F \in [1..n -> [X -> X]]
  BY UnparkGood
<1>3. \A k \in 1..n : \A t \in X : F[k][t] = Unpark(t, seq[k])
  OBVIOUS
<1> HIDE DEF F, X
<1>4. PICK g : Recursion!Runs(g, X, s, n, F)
  BY <1>1, <1>2, Recursion!RunOf, Zenon
<1>5. g \in [0..n -> X] /\ g[0] = s /\ \A k \in 1..n : g[k] = F[k][g[k - 1]]
  BY <1>4 DEF Recursion!Runs
<1>6. g = [k \in 0..n |-> IF k = 0 THEN s ELSE Unpark(g[k - 1], seq[k])]
  <2>1. ASSUME NEW k \in 0..n
        PROVE  g[k] = IF k = 0 THEN s ELSE Unpark(g[k - 1], seq[k])
    <3>1. CASE k # 0
      <4>1. k \in 1..n /\ k - 1 \in 0..n
        BY <3>1
      <4> QED
        BY <1>3, <1>5, <3>1, <4>1
    <3> QED
      BY <1>5, <3>1
  <2> QED
    BY <1>5, <2>1
<1>7. at = [k \in 0..n |-> IF k = 0 THEN s ELSE Unpark(at[k - 1], seq[k])]
  BY <1>6, Zenon
<1> HIDE DEF at
<1> DEFINE S == {k \in 0..n : at[k] \in X}
<1>8. 0 \in S
  BY <1>1, <1>7
<1>9. ASSUME NEW k \in 0..n - 1, k \in S
      PROVE  k + 1 \in S
  <2>1. k + 1 \in 1..n /\ k + 1 \in 0..n /\ k + 1 # 0 /\ (k + 1) - 1 = k
    BY <1>1
  <2>2. at[k + 1] = Unpark(at[k], seq[k + 1])
    BY <1>7, <2>1
  <2> QED
    BY <1>9, <2>1, <2>2, UnparkGood DEF X
<1> HIDE DEF S
<1>10. n \in S
  BY <1>1, <1>8, <1>9, Recursion!Induct
<1>11. at[n] \in X
  BY <1>10 DEF S
<1> QED
  BY <1>11 DEF Along, AlongTo, at, X

LEMMA RetryAlong ==
    ASSUME NEW s \in Good({}), NEW seq, NEW n \in Nat, Len(seq) = n,
           \A k \in 1..n : seq[k] \in Heights
    PROVE  Along(run_block_sync_retry_for_parent, s, seq) \in Good({})
<1> DEFINE X == Good({})
           F == [k \in 1..n |-> [t \in X |-> run_block_sync_retry_for_parent(t, seq[k])]]
           at == CHOOSE h : h = [i \in 0..n |->
                     IF i = 0 THEN s ELSE run_block_sync_retry_for_parent(h[i - 1], seq[i])]
<1>1. s \in X
  OBVIOUS
<1>2. F \in [1..n -> [X -> X]]
  BY RetryGood
<1>3. \A k \in 1..n : \A t \in X : F[k][t] = run_block_sync_retry_for_parent(t, seq[k])
  OBVIOUS
<1> HIDE DEF F, X
<1>4. PICK g : Recursion!Runs(g, X, s, n, F)
  BY <1>1, <1>2, Recursion!RunOf, Zenon
<1>5. g \in [0..n -> X] /\ g[0] = s /\ \A k \in 1..n : g[k] = F[k][g[k - 1]]
  BY <1>4 DEF Recursion!Runs
<1>6. g = [k \in 0..n |-> IF k = 0 THEN s ELSE run_block_sync_retry_for_parent(g[k - 1], seq[k])]
  <2>1. ASSUME NEW k \in 0..n
        PROVE  g[k] = IF k = 0 THEN s ELSE run_block_sync_retry_for_parent(g[k - 1], seq[k])
    <3>1. CASE k # 0
      <4>1. k \in 1..n /\ k - 1 \in 0..n
        BY <3>1
      <4> QED
        BY <1>3, <1>5, <3>1, <4>1
    <3> QED
      BY <1>5, <3>1
  <2> QED
    BY <1>5, <2>1
<1>7. at = [k \in 0..n |-> IF k = 0 THEN s ELSE run_block_sync_retry_for_parent(at[k - 1], seq[k])]
  BY <1>6, Zenon
<1> HIDE DEF at
<1> DEFINE S == {k \in 0..n : at[k] \in X}
<1>8. 0 \in S
  BY <1>1, <1>7
<1>9. ASSUME NEW k \in 0..n - 1, k \in S
      PROVE  k + 1 \in S
  <2>1. k + 1 \in 1..n /\ k + 1 \in 0..n /\ k + 1 # 0 /\ (k + 1) - 1 = k
    BY <1>1
  <2>2. at[k + 1] = run_block_sync_retry_for_parent(at[k], seq[k + 1])
    BY <1>7, <2>1
  <2> QED
    BY <1>9, <2>1, <2>2, RetryGood DEF X
<1> HIDE DEF S
<1>10. n \in S
  BY <1>1, <1>8, <1>9, Recursion!Induct
<1>11. at[n] \in X
  BY <1>10 DEF S
<1> QED
  BY <1>11 DEF Along, AlongTo, at, X

LEMMA TickAlong ==
    ASSUME NEW s \in Good({}), NEW seq, NEW n \in Nat, Len(seq) = n,
           \A k \in 1..n : seq[k] \in Heights
    PROVE  Along(run_block_sync_retry_tick_for_parent, s, seq) \in Good({})
<1> DEFINE X == Good({})
           F == [k \in 1..n |-> [t \in X |-> run_block_sync_retry_tick_for_parent(t, seq[k])]]
           at == CHOOSE h : h = [i \in 0..n |->
                     IF i = 0 THEN s ELSE run_block_sync_retry_tick_for_parent(h[i - 1], seq[i])]
<1>1. s \in X
  OBVIOUS
<1>2. F \in [1..n -> [X -> X]]
  BY TickGood
<1>3. \A k \in 1..n : \A t \in X : F[k][t] = run_block_sync_retry_tick_for_parent(t, seq[k])
  OBVIOUS
<1> HIDE DEF F, X
<1>4. PICK g : Recursion!Runs(g, X, s, n, F)
  BY <1>1, <1>2, Recursion!RunOf, Zenon
<1>5. g \in [0..n -> X] /\ g[0] = s /\ \A k \in 1..n : g[k] = F[k][g[k - 1]]
  BY <1>4 DEF Recursion!Runs
<1>6. g = [k \in 0..n |-> IF k = 0 THEN s ELSE run_block_sync_retry_tick_for_parent(g[k - 1], seq[k])]
  <2>1. ASSUME NEW k \in 0..n
        PROVE  g[k] = IF k = 0 THEN s ELSE run_block_sync_retry_tick_for_parent(g[k - 1], seq[k])
    <3>1. CASE k # 0
      <4>1. k \in 1..n /\ k - 1 \in 0..n
        BY <3>1
      <4> QED
        BY <1>3, <1>5, <3>1, <4>1
    <3> QED
      BY <1>5, <3>1
  <2> QED
    BY <1>5, <2>1
<1>7. at = [k \in 0..n |-> IF k = 0 THEN s ELSE run_block_sync_retry_tick_for_parent(at[k - 1], seq[k])]
  BY <1>6, Zenon
<1> HIDE DEF at
<1> DEFINE S == {k \in 0..n : at[k] \in X}
<1>8. 0 \in S
  BY <1>1, <1>7
<1>9. ASSUME NEW k \in 0..n - 1, k \in S
      PROVE  k + 1 \in S
  <2>1. k + 1 \in 1..n /\ k + 1 \in 0..n /\ k + 1 # 0 /\ (k + 1) - 1 = k
    BY <1>1
  <2>2. at[k + 1] = run_block_sync_retry_tick_for_parent(at[k], seq[k + 1])
    BY <1>7, <2>1
  <2> QED
    BY <1>9, <2>1, <2>2, TickGood DEF X
<1> HIDE DEF S
<1>10. n \in S
  BY <1>1, <1>8, <1>9, Recursion!Induct
<1>11. at[n] \in X
  BY <1>10 DEF S
<1> QED
  BY <1>11 DEF Along, AlongTo, at, X

LEMMA InsertAlong ==
    ASSUME NEW s \in Good({}), NEW blocks
    PROVE  InsertBlocks(s, blocks) \in Good({})
<1> DEFINE n == LastHeight
           seq == [h \in 1..LastHeight |-> h]
           Insert(t, h) == IF h \in blocks THEN insert_pending_block(t, h) ELSE t
           X == Good({})
           F == [k \in 1..n |-> [t \in X |-> Insert(t, seq[k])]]
           at == CHOOSE h : h = [i \in 0..n |-> IF i = 0 THEN s ELSE Insert(h[i - 1], seq[i])]
<1>1. s \in X
  OBVIOUS
<1>a. n \in Nat /\ Len(seq) = n /\ \A k \in 1..n : seq[k] = k /\ seq[k] \in Heights
  BY Constants DEF Heights
<1> HIDE DEF n, seq
<1>b. \A u \in X : \A h \in Heights : Insert(u, h) \in X
  BY InsertGood
<1> HIDE DEF Insert
<1>2. F \in [1..n -> [X -> X]]
  BY <1>a, <1>b
<1>3. \A k \in 1..n : \A t \in X : F[k][t] = Insert(t, seq[k])
  OBVIOUS
<1> HIDE DEF F, X
<1>4. PICK g : Recursion!Runs(g, X, s, n, F)
  BY <1>a, <1>1, <1>2, Recursion!RunOf, Zenon
<1>5. g \in [0..n -> X] /\ g[0] = s /\ \A k \in 1..n : g[k] = F[k][g[k - 1]]
  BY <1>4 DEF Recursion!Runs
<1>6. g = [k \in 0..n |-> IF k = 0 THEN s ELSE Insert(g[k - 1], seq[k])]
  <2>1. ASSUME NEW k \in 0..n
        PROVE  g[k] = IF k = 0 THEN s ELSE Insert(g[k - 1], seq[k])
    <3>1. CASE k # 0
      <4>1. k \in 1..n /\ k - 1 \in 0..n
        BY <1>a, <3>1
      <4> QED
        BY <1>3, <1>5, <3>1, <4>1
    <3> QED
      BY <1>5, <3>1
  <2> QED
    BY <1>5, <2>1
<1>7. at = [k \in 0..n |-> IF k = 0 THEN s ELSE Insert(at[k - 1], seq[k])]
  BY <1>6, Zenon
<1> HIDE DEF at
<1> DEFINE S == {k \in 0..n : at[k] \in X}
<1>8. 0 \in S
  BY <1>a, <1>1, <1>7
<1>9. ASSUME NEW k \in 0..n - 1, k \in S
      PROVE  k + 1 \in S
  <2>1. k + 1 \in 1..n /\ k + 1 \in 0..n /\ k + 1 # 0 /\ (k + 1) - 1 = k
    BY <1>a
  <2>2. at[k + 1] = Insert(at[k], seq[k + 1])
    BY <1>7, <2>1
  <2> QED
    BY <1>a, <1>b, <1>9, <2>1, <2>2
<1> HIDE DEF S
<1>10. n \in S
  BY <1>a, <1>8, <1>9, Recursion!Induct
<1>11. at[n] \in X
  BY <1>10 DEF S
<1>12. Along(Insert, s, seq) = at[n]
  BY <1>a DEF Along, AlongTo, at
<1>13. InsertBlocks(s, blocks) = Along(Insert, s, seq)
  BY DEF InsertBlocks, Insert, seq, Along, AlongTo
<1> QED
  BY <1>11, <1>12, <1>13 DEF X

LEMMA OrderRange ==
    ASSUME NEW S, IsFiniteSet(S), NEW order \in SetToSeqs(S)
    PROVE  /\ Cardinality(S) \in Nat /\ Len(order) = Cardinality(S)
           /\ \A k \in 1..Cardinality(S) : order[k] \in S
<1> DEFINE n == Cardinality(S)
<1>1. n \in Nat
  BY FS_CardinalityType
<1>2. order \in [1..n -> S]
  BY DEF SetToSeqs
<1> QED
  BY <1>1, <1>2

\* A new view retries the proposals that are ready, in any order, and then the
\* requests that are open.
LEMMA AdvanceGood ==
    ASSUME NEW s \in Good({}), NEW order \in SetToSeqs(Ready(s))
    PROVE  on_pacemaker_advance(s, order) \in Good({})
<1> DEFINE u == Along(Unpark, s, order)
           waiting == {h - 1 : h \in u.parked} \cup ({u.high} \ u.pending)
           seq == SetToSeq(waiting)
<1>1. u \in Good({})
  <2>1. Ready(s) \in SUBSET (1..LastHeight) /\ Ready(s) \in SUBSET Heights
    BY GoodFields DEF Ready
  <2>2. IsFiniteSet(Ready(s))
    BY <2>1, SubsetOfHeights
  <2>3. /\ Cardinality(Ready(s)) \in Nat /\ Len(order) = Cardinality(Ready(s))
        /\ \A k \in 1..Cardinality(Ready(s)) : order[k] \in 1..LastHeight
    BY <2>1, <2>2, OrderRange
  <2> QED
    BY <2>3, UnparkAlong
<1> HIDE DEF u
<1>2. waiting \in SUBSET Heights
  <2>1. u.parked \in SUBSET (1..LastHeight) /\ u.high \in Heights
    BY <1>1, GoodFields
  <2>2. \A h \in u.parked : h - 1 \in Heights
    BY <2>1, Constants DEF Heights
  <2> QED
    BY <2>1, <2>2
<1> HIDE DEF waiting
<1>3. IsFiniteSet(waiting)
  BY <1>2, SubsetOfHeights
<1>4. /\ Cardinality(waiting) \in Nat /\ Len(seq) = Cardinality(waiting)
      /\ \A k \in 1..Cardinality(waiting) : seq[k] \in Heights
  BY <1>2, <1>3, SetToSeqRange
<1> HIDE DEF seq
<1>5. Along(run_block_sync_retry_for_parent, u, seq) \in Good({})
  BY <1>1, <1>4, RetryAlong
<1> QED
  BY <1>5 DEF on_pacemaker_advance, u, waiting, seq

LEMMA StepTickGood ==
    ASSUME NEW s \in Good({})
    PROVE  step_block_sync_retry_tick(s) \in Good({})
<1> DEFINE S == DOMAIN s.inflight
           seq == SetToSeq(S)
<1>1. S \in SUBSET Heights
  BY GoodFields, EntryOfRequest
<1> HIDE DEF S
<1>2. IsFiniteSet(S)
  BY <1>1, SubsetOfHeights
<1>3. /\ Cardinality(S) \in Nat /\ Len(seq) = Cardinality(S)
      /\ \A k \in 1..Cardinality(S) : seq[k] \in Heights
  BY <1>1, <1>2, SetToSeqRange
<1> HIDE DEF seq
<1>4. Along(run_block_sync_retry_tick_for_parent, s, seq) \in Good({})
  BY <1>3, TickAlong
<1> QED
  BY <1>4 DEF step_block_sync_retry_tick, S, seq

LEMMA NewViewGood ==
    ASSUME NEW s \in Good({}), NEW h \in Heights, NEW p \in ToSet(Peers)
    PROVE  on_new_view_received(s, h, p) \in Good({})
<1> DEFINE t == [s EXCEPT !.high = h]
<1>0. s \in CoreState /\ Waits(s, {}) /\ Cardinality(s.parked) <= ParkedCap
  BY GoodFields
<1>1. /\ t \in CoreState /\ t.parked = s.parked /\ t.inflight = s.inflight
      /\ t.committed = s.committed /\ t.evicted = s.evicted /\ t.pending = s.pending
  BY <1>0 DEF CoreState
<1> HIDE DEF t
<1>2. t \in Good({})
  BY <1>0, <1>1 DEF Good, Waits
<1>3. 0 \in Heights
  BY Constants DEF Heights
<1>4. try_emit_block_sync_retry(t, h, p, 0) \in Good({})
  BY <1>2, <1>3, EmitGood
<1> QED
  BY <1>2, <1>4 DEF on_new_view_received, t

-----------------------------------------------------------------------------
(***************************************************************************)
(* The steps.                                                              *)
(***************************************************************************)
Bare(asked) == \A m \in asked : m.kind = "rangeRequest"

\* What the end of an event establishes
AfterEvent ==
    /\ core' \in Good({}) /\ core'.out = <<>> /\ RangesOK(ranges') /\ NetOK'
    /\ timer' \in {"off", "armed", "spent"}

LEMMA SentAreRequests ==
    ASSUME NEW requests
    PROVE  \A m \in Sent(requests).msgs : m.kind = "request"
<1> DEFINE rerouted(i) == Cardinality({j \in 1..i : Rerouted(requests[j])})
           turn(n) == (rr + n) % Len(Peers)
           pool(i) == Sorted(Holders(requests[i].height))
           dest(i) == IF Rerouted(requests[i])
                        THEN pool(i)[(turn(rerouted(i - 1)) % Len(pool(i))) + 1]
                        ELSE requests[i].peer
           M == {[kind |-> "request", h |-> requests[i].h, to |-> dest(i)] :
                    i \in DOMAIN requests}
           last == turn(rerouted(Len(requests)))
<1>1. Sent(requests) = [msgs |-> M, rr |-> last]
  BY DEF Sent
<1> HIDE DEF dest, last
<1>2. \A m \in M : m.kind = "request"
  OBVIOUS
<1> HIDE DEF M
<1> QED
  BY <1>1, <1>2

LEMMA DoneKeeps ==
    ASSUME SyncInv, NEW s \in Good({}), NEW open, RangesOK(open), NEW asked, Bare(asked),
           NEW taken, Done(s, open, asked, taken)
    PROVE  AfterEvent
<1> DEFINE t == [s EXCEPT !.out = <<>>]
<1>0. /\ s \in CoreState /\ Waits(s, {}) /\ Cardinality(s.parked) <= ParkedCap
      /\ <<>> \in Seq(Request)
  BY GoodFields
<1>1. /\ t \in CoreState /\ t.parked = s.parked /\ t.inflight = s.inflight /\ t.out = <<>>
      /\ t.committed = s.committed /\ t.evicted = s.evicted /\ t.pending = s.pending
  BY <1>0 DEF CoreState
<1> HIDE DEF t
<1>2. t \in Good({})
  BY <1>0, <1>1 DEF Good, Waits
<1>3. core' = t /\ ranges' = open
  BY DEF Done, t
<1>4. timer' \in {"off", "armed", "spent"}
  BY DEF Done, maintain_block_sync_retry_timer, SyncInv
<1>5. NetOK'
  <2>1. \A m \in Sent(s.out).msgs : m.kind = "request"
    BY SentAreRequests
  <2>2. net' \subseteq net \cup Sent(s.out).msgs \cup asked
    BY DEF Done
  <2> QED
    BY <2>1, <2>2 DEF NetOK, SyncInv, Bare
<1> QED
  BY <1>1, <1>2, <1>3, <1>4, <1>5 DEF AfterEvent

LEMMA AfterEventInv ==
    ASSUME SyncInv, AfterEvent, UNCHANGED <<ticks, connected, tip, calm, faults>>
    PROVE  SyncInv'
BY DEF SyncInv, AfterEvent

LEMMA RangeRequestBare ==
    ASSUME NEW s, NEW open, NEW h, RangesOK(open)
    PROVE  LET r == maybe_emit_block_range_request(s, open, h)
           IN  RangesOK(r.open) /\ Bare(r.asked)
<1>1. 1 \in 1..MaxAttempts
  BY Constants
<1> QED
  BY <1>1 DEF maybe_emit_block_range_request, RangesOK, Bare, RangeRequest

LEMMA ReceiveProposalInv ==
    ASSUME SyncInv, NEW m \in net, ReceiveProposal(m)
    PROVE  SyncInv'
<1> DEFINE s == on_proposal_received(core, m.h)
           r == maybe_emit_block_range_request(s, ranges, m.h)
<1>1. m.h \in 1..LastHeight /\ core \in Good({}) /\ RangesOK(ranges)
  BY DEF ReceiveProposal, SyncInv, NetOK
<1>2. s \in Good({})
  BY <1>1, ProposalGood
<1>3. Done(s, r.open, r.asked, {m}) \/ Done(s, ranges, {}, {m})
  BY DEF ReceiveProposal
<1> HIDE DEF s
<1>4. RangesOK(r.open) /\ Bare(r.asked) /\ Bare({})
  BY <1>1, RangeRequestBare DEF Bare
<1> HIDE DEF r
<1>5. AfterEvent
  BY <1>1, <1>2, <1>3, <1>4, DoneKeeps
<1> QED
  BY <1>5, AfterEventInv DEF ReceiveProposal

LEMMA ReceiveNewViewInv ==
    ASSUME SyncInv, NEW m \in net, ReceiveNewView(m)
    PROVE  SyncInv'
<1>1. m.h \in Heights /\ m.from \in ToSet(Peers) /\ core \in Good({}) /\ RangesOK(ranges)
  BY DEF ReceiveNewView, SyncInv, NetOK
<1>2. on_new_view_received(core, m.h, m.from) \in Good({}) /\ Bare({})
  BY <1>1, NewViewGood DEF Bare
<1>3. AfterEvent
  BY <1>1, <1>2, DoneKeeps DEF ReceiveNewView
<1> QED
  BY <1>3, AfterEventInv DEF ReceiveNewView

LEMMA PacemakerAdvanceInv ==
    ASSUME SyncInv, PacemakerAdvance
    PROVE  SyncInv'
<1>1. Aged(core) \in Good({}) /\ RangesOK(ranges) /\ Bare({})
  BY AgedGood DEF SyncInv, Bare
<1>2. PICK order \in SetToSeqs(Ready(Aged(core))) :
          Done(on_pacemaker_advance(Aged(core), order), ranges, {}, {})
  BY DEF PacemakerAdvance
<1>3. on_pacemaker_advance(Aged(core), order) \in Good({})
  BY <1>1, AdvanceGood
<1>4. AfterEvent
  BY <1>1, <1>2, <1>3, DoneKeeps
<1> QED
  BY <1>4, AfterEventInv DEF PacemakerAdvance

LEMMA ReceiveBlockInv ==
    ASSUME SyncInv, NEW m \in net, ReceiveBlock(m)
    PROVE  SyncInv'
<1> DEFINE s == insert_pending_block(core, m.h)
<1>1. core \in Good({}) /\ RangesOK(ranges) /\ Bare({})
  BY DEF SyncInv, Bare
<1>2. CASE m.found /\ m.h \in DOMAIN core.inflight
  <2>1. m.h \in Heights
    BY <1>1, <1>2, GoodFields, EntryOfRequest
  <2>2. s \in Good({})
    BY <1>1, <2>1, InsertGood
  <2>3. PICK order \in SetToSeqs(Ready(s)) :
            Done(on_pacemaker_advance(s, order), ranges, {}, {m})
    BY <1>2 DEF ReceiveBlock
  <2> HIDE DEF s
  <2>4. on_pacemaker_advance(s, order) \in Good({})
    BY <2>2, AdvanceGood
  <2>5. AfterEvent
    BY <1>1, <2>3, <2>4, DoneKeeps
  <2> QED
    BY <2>5, AfterEventInv DEF ReceiveBlock
<1>3. CASE ~(m.found /\ m.h \in DOMAIN core.inflight)
  <2>1. Done(core, ranges, {}, {m})
    BY <1>3 DEF ReceiveBlock
  <2>2. AfterEvent
    BY <1>1, <2>1, DoneKeeps
  <2> QED
    BY <2>2, AfterEventInv DEF ReceiveBlock
<1> QED
  BY <1>2, <1>3

LEMMA RangeResponseInv ==
    ASSUME SyncInv, NEW m \in net, handle_block_range_response(m)
    PROVE  SyncInv'
<1> DEFINE key == <<m.from, m.to>>
           open == Without(ranges, {key})
           s == InsertBlocks(core, m.blocks)
           end(t) == IF t.committed >= m.from /\ t.parked # {}
                       THEN LET r == maybe_emit_block_range_request(t, open, Max(t.parked))
                            IN Done(t, r.open, r.asked, {m})
                       ELSE Done(t, open, {}, {m})
<1>1. core \in Good({}) /\ RangesOK(ranges) /\ Bare({})
  BY DEF SyncInv, Bare
<1>2. RangesOK(open)
  BY <1>1 DEF RangesOK, Without
<1>3. s \in Good({})
  BY <1>1, InsertAlong
<1>4. \/ Done(core, ranges, {}, {m})
      \/ end(s)
      \/ \E order \in SetToSeqs(Ready(s)) : end(on_pacemaker_advance(s, order))
  BY DEF handle_block_range_response
<1> HIDE DEF open, s
<1>5. ASSUME NEW t \in Good({}), end(t)
      PROVE  AfterEvent
  <2> DEFINE r == maybe_emit_block_range_request(t, open, Max(t.parked))
  <2>1. RangesOK(r.open) /\ Bare(r.asked)
    BY <1>2, RangeRequestBare
  <2>2. Done(t, r.open, r.asked, {m}) \/ Done(t, open, {}, {m})
    BY <1>5
  <2> HIDE DEF r
  <2> QED
    BY <1>1, <1>2, <2>1, <2>2, DoneKeeps
<1> HIDE DEF end
<1>6. AfterEvent
  <2>1. CASE Done(core, ranges, {}, {m})
    BY <1>1, <2>1, DoneKeeps
  <2>2. CASE end(s)
    BY <1>3, <1>5, <2>2
  <2>3. CASE \E order \in SetToSeqs(Ready(s)) : end(on_pacemaker_advance(s, order))
    <3>1. PICK order \in SetToSeqs(Ready(s)) : end(on_pacemaker_advance(s, order))
      BY <2>3
    <3>2. on_pacemaker_advance(s, order) \in Good({})
      BY <1>3, AdvanceGood
    <3> QED
      BY <1>5, <3>1, <3>2
  <2> QED
    BY <1>4, <2>1, <2>2, <2>3
<1> QED
  BY <1>6, AfterEventInv DEF handle_block_range_response

LEMMA RetryTickInv ==
    ASSUME SyncInv, RetryTick
    PROVE  SyncInv'
<1> DEFINE s == step_block_sync_retry_tick(core)
<1>1. core \in Good({}) /\ RangesOK(ranges)
  BY DEF SyncInv
<1>2. s \in Good({})
  BY <1>1, StepTickGood
<1>3. PICK due \in SUBSET DOMAIN ranges :
          LET r == maintain_block_sync_range_retry(ranges, due)
          IN  Done(s, r.open, r.asked, {})
  BY DEF RetryTick
<1> HIDE DEF s
<1> DEFINE r == maintain_block_sync_range_retry(ranges, due)
<1>4. RangesOK(r.open) /\ Bare(r.asked)
  <2> DEFINE over == {k \in DOMAIN ranges : ranges[k].attempts >= MaxAttempts}
             open == [k \in DOMAIN ranges \ over |->
                        IF k \in due \ over THEN [ranges[k] EXCEPT !.attempts = @ + 1]
                        ELSE ranges[k]]
             asked == {RangeRequest(k, ranges[k].peer) : k \in due \ over}
  <2>1. r = [open |-> open, asked |-> asked]
    BY DEF maintain_block_sync_range_retry
  <2>2. MaxAttempts \in Nat
    BY Constants
  <2>3. ASSUME NEW k \in DOMAIN ranges \ over
        PROVE  open[k].attempts \in 1..MaxAttempts
    <3>1. ranges[k].attempts \in 1..MaxAttempts /\ ranges[k].attempts + 1 \in 1..MaxAttempts
      BY <1>1, <2>2 DEF RangesOK
    <3>2. CASE k \in due \ over
      <4>1. open[k] = [ranges[k] EXCEPT !.attempts = @ + 1]
        BY <3>2
      <4>2. [ranges[k] EXCEPT !.attempts = @ + 1].attempts \in 1..MaxAttempts
        BY <3>1
      <4> QED
        BY <4>1, <4>2
    <3>3. CASE k \notin due \ over
      BY <3>1, <3>3
    <3> QED
      BY <3>2, <3>3
  <2>4. Bare(asked)
    BY DEF Bare, RangeRequest
  <2>5. DOMAIN open = DOMAIN ranges \ over
    OBVIOUS
  <2> HIDE DEF open, asked
  <2> QED
    BY <2>1, <2>3, <2>4, <2>5 DEF RangesOK
<1>5. AfterEvent
  <2> HIDE DEF r
  <2>1. Done(s, r.open, r.asked, {})
    BY <1>3 DEF r
  <2> QED
    BY <1>2, <1>4, <2>1, DoneKeeps
<1>6. ticks' \in 0..TickQueue
  BY Constants DEF SyncInv, RetryTick
<1> QED
  BY <1>5, <1>6 DEF SyncInv, AfterEvent, RetryTick

\* The steps that leave the core alone
LEMMA OtherStepsInv ==
    ASSUME SyncInv,
           \/ \E m \in net : PeerStatus(m) \/ ServeBlock(m) \/ ServeBlockRange(m) \/ Lose(m)
           \/ \E p \in ToSet(Peers) : Connect(p) \/ Disconnect(p) \/ Announce(p)
           \/ TimerFires \/ Propose \/ BecomeCalm \/ UNCHANGED vars
    PROVE  SyncInv'
<1>1. CASE \E m \in net : PeerStatus(m) \/ ServeBlock(m) \/ ServeBlockRange(m) \/ Lose(m)
  <2>1. PICK m \in net : PeerStatus(m) \/ ServeBlock(m) \/ ServeBlockRange(m) \/ Lose(m)
    BY <1>1
  <2>2. /\ UNCHANGED <<core, ranges, timer, ticks, connected, tip, calm>>
        /\ faults' \in 0..MaxFaults
    BY <2>1, Constants DEF PeerStatus, ServeBlock, ServeBlockRange, Lose, SyncInv
  <2>3. \A x \in net' : x \in net \/ x.kind \in {"block", "range"}
    BY <2>1 DEF PeerStatus, ServeBlock, ServeBlockRange, Lose
  <2>4. NetOK'
    BY <2>3 DEF NetOK, SyncInv
  <2> QED
    BY <2>2, <2>4 DEF SyncInv
<1>2. CASE \E p \in ToSet(Peers) : Connect(p) \/ Disconnect(p) \/ Announce(p)
  <2>1. PICK p \in ToSet(Peers) : Connect(p) \/ Disconnect(p) \/ Announce(p)
    BY <1>2
  <2>2. /\ UNCHANGED <<core, ranges, timer, ticks, tip, calm>>
        /\ faults' \in 0..MaxFaults /\ connected' \subseteq ToSet(Peers)
    BY <2>1, Constants DEF Connect, Disconnect, Announce, SyncInv
  <2>3. NetOK'
    <3>1. CASE Connect(p) \/ Disconnect(p)
      BY <3>1 DEF Connect, Disconnect, NetOK, SyncInv
    <3>2. CASE Announce(p)
      <4>1. tip - 1 \in Heights
        BY <3>2, Constants DEF Announce, SyncInv, Heights
      <4>2. \A x \in net' : \/ x \in net
                            \/ x = [kind |-> "status", h |-> tip - 3, from |-> p]
                            \/ x = [kind |-> "newView", h |-> tip - 1, from |-> p]
        BY <3>2 DEF Announce
      <4> QED
        BY <4>1, <4>2 DEF NetOK, SyncInv
    <3> QED
      BY <2>1, <3>1, <3>2
  <2> QED
    BY <2>2, <2>3 DEF SyncInv
<1>3. CASE TimerFires
  <2>1. ticks' \in 0..TickQueue
    BY <1>3, Constants DEF TimerFires, SyncInv
  <2> QED
    BY <1>3, <2>1 DEF TimerFires, SyncInv, NetOK
<1>4. CASE Propose
  <2>1. tip + 1 \in 1..LastHeight /\ tip' \in Heights
    BY <1>4, Constants DEF Propose, SyncInv, Heights
  <2>2. NetOK'
    BY <1>4, <2>1 DEF Propose, SyncInv, NetOK
  <2> QED
    BY <1>4, <2>1, <2>2 DEF Propose, SyncInv
<1>5. CASE BecomeCalm
  BY <1>5 DEF BecomeCalm, SyncInv, NetOK
<1>6. CASE UNCHANGED vars
  BY <1>6 DEF vars, SyncInv, NetOK
<1> QED
  BY <1>1, <1>2, <1>3, <1>4, <1>5, <1>6

LEMMA InitInv == Init => SyncInv
<1> SUFFICES ASSUME Init
             PROVE  SyncInv
  OBVIOUS
<1>1. /\ core.pending = {0} /\ core.parked = {} /\ core.inflight = NoRequests
      /\ core.voted = 0 /\ core.high = 0 /\ core.committed = 0
      /\ core.evicted = {} /\ core.out = <<>>
  BY DEF Init
<1>2. 0 \in Heights /\ Start \in Heights
  BY Constants DEF Heights
<1>3. NoRequests \in Requests
  <2>1. NoRequests \in [{} -> Entry]
    BY DEF NoRequests
  <2> QED
    BY <2>1 DEF Requests
<1>4. core \in CoreState
  <2>1. {0} \in SUBSET Heights /\ {} \in SUBSET Heights /\ {} \in SUBSET (1..LastHeight)
        /\ <<>> \in Seq(Request)
    BY <1>2
  <2> QED
    BY <1>2, <1>3, <2>1 DEF Init, CoreState
<1>5. core \in Good({})
  <2>1. Cardinality(core.parked) <= ParkedCap
    BY <1>1, FS_EmptySet, Constants
  <2>2. Waits(core, {})
    BY <1>1 DEF Waits
  <2> QED
    BY <1>4, <2>1, <2>2 DEF Good
<1>6. RangesOK(ranges) /\ NetOK
  BY DEF Init, RangesOK, NetOK
<1>7. /\ timer = "off" /\ ticks = 0 /\ faults = 0 /\ calm = FALSE /\ tip = Start
      /\ connected = ToSet(Peers)
  BY DEF Init
<1>8. 0 \in 0..TickQueue /\ 0 \in 0..MaxFaults
  BY Constants
<1> QED
  BY <1>1, <1>2, <1>5, <1>6, <1>7, <1>8 DEF SyncInv

LEMMA Invariance == Spec => []SyncInv
<1>1. SyncInv /\ [Next]_vars => SyncInv'
  <2> SUFFICES ASSUME SyncInv, [Next]_vars
               PROVE  SyncInv'
    OBVIOUS
  <2>1. CASE \E m \in net : \/ ReceiveProposal(m) \/ ReceiveNewView(m) \/ ReceiveBlock(m)
                            \/ handle_block_range_response(m)
    BY <2>1, ReceiveProposalInv, ReceiveNewViewInv, ReceiveBlockInv, RangeResponseInv
  <2>2. CASE PacemakerAdvance \/ RetryTick
    BY <2>2, PacemakerAdvanceInv, RetryTickInv
  <2>3. CASE \/ \E m \in net : PeerStatus(m) \/ ServeBlock(m) \/ ServeBlockRange(m) \/ Lose(m)
             \/ \E p \in ToSet(Peers) : Connect(p) \/ Disconnect(p) \/ Announce(p)
             \/ TimerFires \/ Propose \/ BecomeCalm \/ UNCHANGED vars
    BY <2>3, OtherStepsInv
  <2> QED
    BY <2>1, <2>2, <2>3 DEF Next, Deliver
<1> QED
  BY <1>1, InitInv, PTL DEF Spec

-----------------------------------------------------------------------------
(* The caches of HotStuffCore and the requests stay within their limits,
   whatever is lost, answered late or retried by the view and by the timer: no
   more proposals wait than parked_proposals_capacity (evict_parked_to_fit_one),
   and neither a block nor a range is asked for more than
   block_sync_max_attempts times. *)
THEOREM TypeCorrect == Spec => []TypeOK
<1>1. SyncInv => TypeOK
  <2> SUFFICES ASSUME SyncInv
               PROVE  TypeOK
    OBVIOUS
  <2>1. core \in Good({})
    BY DEF SyncInv
  <2>2. /\ core.pending \in SUBSET Heights /\ core.parked \in SUBSET (1..LastHeight)
        /\ core.committed \in Heights /\ Cardinality(core.parked) <= ParkedCap
    BY <2>1, GoodFields
  <2>3. \A h \in DOMAIN core.inflight : core.inflight[h] \in Entry
    BY <2>1, GoodFields, EntryOfRequest
  <2> QED
    BY <2>2, <2>3 DEF SyncInv, TypeOK, RangesOK, Heights
<1> QED
  BY <1>1, Invariance, PTL

(* No parked proposal is orphaned (on_proposal_received, drop_parked_for_parent,
   insert_pending_block): as long as it waits for a parent above the last commit
   that was not evicted again, the parent is there or a request for it is open,
   so that a later view or tick asks again. *)
THEOREM ParkedAreRequested == Spec => []ParkedIsRequested
<1>1. SyncInv => ParkedIsRequested
  <2> SUFFICES ASSUME SyncInv
               PROVE  ParkedIsRequested
    OBVIOUS
  <2>1. Waits(core, {})
    BY GoodFields DEF SyncInv
  <2> QED
    BY <2>1 DEF Waits, ParkedIsRequested
<1> QED
  BY <1>1, Invariance, PTL
=============================================================================
