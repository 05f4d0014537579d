--------------------------- MODULE OverlayProofs ---------------------------
(***************************************************************************)
(* Proofs about Overlay for any number of peers, any capacities of the     *)
(* channels and any rates: the type invariant, the bound on what a peer    *)
(* gets through the rate limiter, and the agreement of the loop's picture  *)
(* of its peers with the driver's and of the driver's with the swarm's.    *)
(***************************************************************************)
EXTENDS Overlay, FiniteSetTheorems, SequenceTheorems, TLAPS

-----------------------------------------------------------------------------
(* What the variables hold, entry by entry. *)
Sides == {"dialed", "accepted"}
Message == [kind : {"message"}, peer : Talkers, of : Tags, size : Sizes \cup {0}]
SwarmEvent ==
    [kind : {"up"}, peer : Peers, side : Sides]
        \cup [kind : {"down"}, peer : Peers, left : Nat] \cup Message
NodeEvent == [kind : {"connected", "disconnected"}, peer : Peers] \cup Message
DiscoEvent == [kind : {"added", "removed"}, peer : Peers]
Command == [kind : {"disconnect", "send_to"}, peer : Peers] \cup [kind : {"broadcast"}]

(* Of a handler of the driver, at most one event and one broadcast are left, the
   broadcast last. *)
EventSends == {ToEvents(e) : e \in NodeEvent}
DiscoSends == {ToDisco(e) : e \in DiscoEvent}
HandlerSends ==
    {<<>>} \cup {<<a>> : a \in EventSends \cup DiscoSends}
        \cup {<<a, b>> : a \in EventSends, b \in DiscoSends}

NetworkType ==
    /\ links \in [Peers -> SUBSET Sides] /\ dialing \subseteq Bootstraps
    /\ swarm \in Seq(SwarmEvent)
    /\ messages \in 0..MaxMessages /\ faults \in 0..MaxFaults /\ now \in 0..MaxTime

DriverType ==
    driver \in [peers : SUBSET Peers, outbound_bootstrap : SUBSET Bootstraps,
                sends : HandlerSends]

ChannelType ==
    /\ events \in Seq(NodeEvent) /\ Len(events) <= EventCap
    /\ cmds \in Seq(Command) /\ Len(cmds) <= CmdCap
    /\ disco \in Seq(DiscoEvent) /\ Len(disco) <= DiscoCap
    /\ lagged \in BOOLEAN

NodeType ==
    /\ node \in [phase : {"starting", "subscribed", "running"},
                 peers_connected : SUBSET Peers,
                 sends : 0..Max({1, MaxReplies}),
                 waiting : {<<>>} \cup {<<c>> : c \in Command}]
    /\ node.waiting # <<>> => node.sends > 0
    /\ calls \in 0..MaxCalls

(***************************************************************************)
(* A bucket that was full at `since`: what it has given and what is left   *)
(* in it is at most what it held and what was poured into it until its     *)
(* last refill.                                                            *)
(***************************************************************************)
Bucket == [tokens : Nat, last_refill : Nat]

BucketAccount(b, rate, given, since, t) ==
    /\ b \in Bucket /\ given \in Nat
    /\ since <= b.last_refill /\ b.last_refill <= t
    /\ given + b.tokens <= capacity(rate) + (b.last_refill - since) * rate

PeerState ==
    [buckets : [Kinds -> Bucket], bytes_bucket : Bucket, outbound_bytes_bucket : Bucket,
     violations : Seq(Nat), disconnect_dispatched : BOOLEAN]

Count == [since : Nat, messages : [Kinds -> Nat], bytes : Nat]

PeerAccount(st, c, t) ==
    /\ st \in PeerState /\ c \in Count
    /\ \A k \in Kinds : BucketAccount(st.buckets[k], KindRate[k], c.messages[k], c.since, t)
    /\ BucketAccount(st.bytes_bucket, BytesRate, c.bytes, c.since, t)
    /\ st.outbound_bytes_bucket.last_refill <= t

MeterInv ==
    /\ DOMAIN limiter \subseteq Peers /\ DOMAIN admitted = DOMAIN limiter
    /\ \A p \in DOMAIN limiter : PeerAccount(limiter[p], admitted[p], now)

TypeInv == NetworkType /\ DriverType /\ ChannelType /\ NodeType

(***************************************************************************)
(* The last word of a channel on a peer p agrees with a set A of peers.  Y *)
(* and N are the entries that say that p is in the set and that it is not. *)
(***************************************************************************)
Silent(s, Y, N) == \A i \in DOMAIN s : s[i] \notin Y \cup N

LastWord(s, Y, N, p, A) ==
    \A i \in DOMAIN s :
        s[i] \in Y \cup N /\ (\A j \in DOMAIN s : i < j => s[j] \notin Y \cup N)
            => (s[i] \in Y <=> p \in A)

UpOf(p) == {e \in SwarmEvent : e.kind = "up" /\ e.peer = p}
DownOf(p) == {e \in SwarmEvent : e.kind = "down" /\ e.peer = p /\ e.left = 0}
AddedOf(p) == {[kind |-> "added", peer |-> p]}
RemovedOf(p) == {[kind |-> "removed", peer |-> p]}

Linked == {p \in Peers : links[p] # {}}

(* What the swarm has not yet told the driver ends with the state of the
   connections. *)
DriverFollows(p) ==
    /\ LastWord(swarm, UpOf(p), DownOf(p), p, Linked)
    /\ Silent(swarm, UpOf(p), DownOf(p)) => (p \in driver.peers <=> p \in Linked)

(* The broadcast about p that is left of the current handler. *)
Announcements(p) ==
    {w \in AddedOf(p) \cup RemovedOf(p) :
        driver.sends # <<>> /\ driver.sends[Len(driver.sends)] = ToDisco(w)}

(* What the driver has not yet told the loop ends with the driver's peers. *)
LoopFollows(p) ==
    /\ \A w \in Announcements(p) : w \in AddedOf(p) <=> p \in driver.peers
    /\ Announcements(p) = {} =>
         /\ LastWord(disco, AddedOf(p), RemovedOf(p), p, driver.peers)
         /\ node.phase = "running" /\ ~lagged /\ Silent(disco, AddedOf(p), RemovedOf(p))
              => (p \in node.peers_connected <=> p \in driver.peers)

FollowInv ==
    /\ node.phase = "starting" => disco = <<>> /\ ~lagged
    /\ \A p \in Peers : DriverFollows(p) /\ LoopFollows(p)

-----------------------------------------------------------------------------
(***************************************************************************)
(* The rate limiter.                                                       *)
(***************************************************************************)

\* capacity, limits.rs: a bucket holds at least one token.
LEMMA CapacityType ==
    ASSUME NEW rate \in Nat
    PROVE  capacity(rate) \in Nat /\ capacity(rate) >= 1
<1>1. Burst \in Nat
  BY RateLimiterAssumption
<1>2. rate * Burst \in Nat
  BY <1>1
<1> QED
  BY <1>2 DEF capacity

\* What is poured into a bucket over two intervals is poured over their union.
LEMMA Pours ==
    ASSUME NEW rate \in Nat, NEW since \in Nat, NEW mid \in Nat, NEW end \in Nat,
           since <= mid, mid <= end
    PROVE  /\ (mid - since) * rate \in Nat
           /\ (end - mid) * rate \in Nat
           /\ (end - since) * rate \in Nat
           /\ (end - since) * rate = (mid - since) * rate + (end - mid) * rate
<1>1. \A a, b \in Nat : a * b \in Nat
  OBVIOUS
<1>2. \A a, b, c \in Nat : (a + b) * c = a * c + b * c
  OBVIOUS
<1>3. mid - since \in Nat /\ end - mid \in Nat /\ end - since = (mid - since) + (end - mid)
  OBVIOUS
<1>4. ((mid - since) + (end - mid)) * rate = (mid - since) * rate + (end - mid) * rate
  BY <1>2, <1>3
<1>5. (mid - since) * rate \in Nat /\ (end - mid) * rate \in Nat
  BY <1>1, <1>3
<1> QED
  BY <1>3, <1>4, <1>5

\* A refill keeps the account of a bucket and brings it up to date.
LEMMA RefillAccount ==
    ASSUME NEW rate \in Nat, NEW b, NEW given, NEW since \in Nat, now \in Nat,
           BucketAccount(b, rate, given, since, now)
    PROVE  LET full == Refilled(b, rate, now)
           IN BucketAccount(full, rate, given, since, now)
<1>1. capacity(rate) \in Nat
  BY CapacityType
<1>2. b.tokens \in Nat /\ b.last_refill \in Nat /\ given \in Nat
  BY DEF BucketAccount, Bucket
<1>3. since <= b.last_refill /\ b.last_refill <= now
      /\ given + b.tokens <= capacity(rate) + (b.last_refill - since) * rate
  BY DEF BucketAccount
<1> DEFINE poured == (now - b.last_refill) * rate
           before == (b.last_refill - since) * rate
           after == (now - since) * rate
<1>4. poured \in Nat /\ before \in Nat /\ after \in Nat /\ after = before + poured
  BY <1>2, <1>3, Pours
<1> DEFINE t == IF b.tokens + poured <= capacity(rate) THEN b.tokens + poured ELSE capacity(rate)
<1> HIDE DEF poured, before, after
<1>5. t \in Nat /\ t <= b.tokens + poured
  BY <1>1, <1>2, <1>4
<1>6. given + b.tokens <= capacity(rate) + before
  BY <1>3 DEF before
<1> HIDE DEF t
<1>7. given + t <= capacity(rate) + after
  BY <1>1, <1>2, <1>4, <1>5, <1>6
<1>8. Refilled(b, rate, now) = [tokens |-> t, last_refill |-> now]
  BY DEF Refilled, t, poured
<1>9. since <= now
  BY <1>2, <1>3
<1> QED
  BY <1>2, <1>5, <1>7, <1>8, <1>9 DEF BucketAccount, Bucket, after

\* try_take, limits.rs: what the bucket gives is on the account.
LEMMA TakeAccount ==
    ASSUME NEW rate \in Nat, NEW b, NEW given, NEW since \in Nat, now \in Nat, NEW n \in Nat,
           BucketAccount(b, rate, given, since, now)
    PROVE  LET t == try_take(b, rate, now, n)
           IN /\ t.taken => BucketAccount(t.bucket, rate, given + n, since, now)
              /\ ~t.taken => BucketAccount(t.bucket, rate, given, since, now)
              /\ t.taken =>
                   BucketAccount([t.bucket EXCEPT !.tokens = @ + n], rate, given, since, now)
<1> DEFINE full == Refilled(b, rate, now)
           t == try_take(b, rate, now, n)
<1>1. BucketAccount(full, rate, given, since, now)
  BY RefillAccount
<1>2. full \in Bucket /\ full.tokens \in Nat /\ given \in Nat
  BY <1>1 DEF BucketAccount, Bucket
<1>3. (t.taken <=> full.tokens >= n)
      /\ t.bucket = [full EXCEPT !.tokens = IF full.tokens >= n THEN full.tokens - n ELSE full.tokens]
  BY DEF try_take
<1> HIDE DEF t, full
<1>4. ASSUME t.taken
      PROVE  /\ t.bucket = [full EXCEPT !.tokens = full.tokens - n]
             /\ [t.bucket EXCEPT !.tokens = @ + n] = full
  <2>1. t.bucket = [full EXCEPT !.tokens = full.tokens - n]
    BY <1>3, <1>4
  <2>2. full = [tokens |-> full.tokens, last_refill |-> full.last_refill]
    BY <1>2 DEF Bucket
  <2>3. [t.bucket EXCEPT !.tokens = @ + n] =
           [tokens |-> full.tokens - n + n, last_refill |-> full.last_refill]
    <3>1. t.bucket = [tokens |-> full.tokens - n, last_refill |-> full.last_refill]
      BY <2>1, <2>2
    <3> QED
      BY <3>1
  <2>4. full.tokens - n + n = full.tokens
    BY <1>2
  <2> QED
    BY <2>1, <2>2, <2>3, <2>4
<1>5. ASSUME ~t.taken
      PROVE  t.bucket = full
  BY <1>2, <1>3, <1>5 DEF Bucket
<1>6. ASSUME t.taken
      PROVE  BucketAccount(t.bucket, rate, given + n, since, now)
  <2>1. t.bucket = [tokens |-> full.tokens - n, last_refill |-> full.last_refill]
    BY <1>4, <1>6, <1>2 DEF Bucket
  <2>2. full.tokens - n \in Nat
    BY <1>2, <1>3, <1>6
  <2>3. given + n \in Nat /\ given + n + (full.tokens - n) = given + full.tokens
    BY <1>2
  <2> QED
    BY <1>1, <1>2, <2>1, <2>2, <2>3 DEF BucketAccount, Bucket
<1> QED
  BY <1>1, <1>3, <1>4, <1>5, <1>6 DEF t

\* The violations that are recent enough are kept, in order.
LEMMA ExpireType ==
    ASSUME NEW st \in PeerState, NEW t \in Nat
    PROVE  /\ Expire(st, t) \in PeerState
           /\ Expire(st, t).buckets = st.buckets
           /\ Expire(st, t).bytes_bucket = st.bytes_bucket
           /\ Expire(st, t).outbound_bytes_bucket = st.outbound_bytes_bucket
<1> DEFINE vs == st.violations
           old == {i \in DOMAIN vs : \A j \in 1..i : vs[j] < t - ViolationWindow}
           recent == SubSeq(vs, Cardinality(old) + 1, Len(vs))
<1>1. vs \in Seq(Nat) /\ Len(vs) \in Nat /\ DOMAIN vs = 1..Len(vs)
  BY DEF PeerState
<1>2. recent \in Seq(Nat)
  <2>1. IsFiniteSet(1..Len(vs)) /\ Cardinality(1..Len(vs)) = Len(vs)
    BY <1>1, FS_Interval
  <2>2. old \subseteq 1..Len(vs)
    BY <1>1
  <2>3. IsFiniteSet(old) /\ Cardinality(old) \in Nat /\ Cardinality(old) <= Len(vs)
    BY <2>1, <2>2, FS_Subset, FS_CardinalityType
  <2> DEFINE n == Cardinality(old)
             l == Len(vs)
  <2>4. n \in Nat /\ n <= l /\ l \in Nat
    BY <2>3, <1>1
  <2>5. \A i \in 1..l : vs[i] \in Nat
    BY <1>1
  <2> HIDE DEF n, l, vs
  <2>6. n + 1 \in Int /\ l \in Int /\ \A i \in (n + 1)..l : vs[i] \in Nat
    BY <2>4, <2>5
  <2>7. SubSeq(vs, n + 1, l) \in Seq(Nat)
    BY <2>6, SubSeqProperties
  <2> QED
    BY <2>7 DEF n, l
<1>3. Expire(st, t) = [st EXCEPT !.violations = recent,
                               !.disconnect_dispatched = @ /\ recent # <<>>]
  BY DEF Expire
<1> HIDE DEF recent
<1> QED
  BY <1>2, <1>3 DEF PeerState

\* admit, limits.rs: whatever the decision, both inbound buckets keep their
\* accounts; only a message that is allowed is charged.
LEMMA AdmitAccount ==
    ASSUME NEW st, NEW c, PeerAccount(st, c, now), now \in Nat,
           NEW kind \in Kinds, NEW bytes \in Nat
    PROVE  LET a == admit(st, kind, bytes, now)
               d == [c EXCEPT !.messages[kind] = @ + 1, !.bytes = @ + bytes]
           IN /\ a.decision \in {"allow", "drop", "disconnect"}
              /\ a.decision = "allow" => PeerAccount(a.state, d, now)
              /\ a.decision # "allow" => PeerAccount(a.state, c, now)
<1> DEFINE ex == Expire(st, now)
           byKind == try_take(ex.buckets[kind], KindRate[kind], now, 1)
           byBytes == try_take(ex.bytes_bucket, BytesRate, now, bytes)
           charged == [ex EXCEPT !.buckets[kind] = byKind.bucket, !.bytes_bucket = byBytes.bucket]
           refused == [charged EXCEPT
                        !.buckets[kind].tokens = IF byKind.taken THEN @ + 1 ELSE @,
                        !.bytes_bucket.tokens = IF byBytes.taken THEN @ + bytes ELSE @,
                        !.violations = Append(@, now)]
           warned == [refused EXCEPT !.disconnect_dispatched = TRUE]
           a == admit(st, kind, bytes, now)
           d == [c EXCEPT !.messages[kind] = @ + 1, !.bytes = @ + bytes]
           full == IF byKind.taken THEN [byKind.bucket EXCEPT !.tokens = @ + 1] ELSE byKind.bucket
           fullBytes == IF byBytes.taken THEN [byBytes.bucket EXCEPT !.tokens = @ + bytes]
                        ELSE byBytes.bucket
<1>1. KindRate[kind] \in Nat /\ BytesRate \in Nat /\ \A k \in Kinds : KindRate[k] \in Nat
  BY RateLimiterAssumption
<1>2. st \in PeerState /\ c \in Count /\ c.since \in Nat
  BY DEF PeerAccount, Count
<1>3. /\ ex \in PeerState /\ ex.buckets = st.buckets /\ ex.bytes_bucket = st.bytes_bucket
      /\ ex.outbound_bytes_bucket = st.outbound_bytes_bucket
  BY <1>2, ExpireType
<1>4. /\ \A k \in Kinds : BucketAccount(ex.buckets[k], KindRate[k], c.messages[k], c.since, now)
      /\ BucketAccount(ex.bytes_bucket, BytesRate, c.bytes, c.since, now)
      /\ ex.outbound_bytes_bucket.last_refill <= now
  BY <1>3 DEF PeerAccount
<1>5. /\ byKind.taken => BucketAccount(byKind.bucket, KindRate[kind], c.messages[kind] + 1, c.since, now)
      /\ BucketAccount(full, KindRate[kind], c.messages[kind], c.since, now)
  BY <1>1, <1>2, <1>4, TakeAccount
<1>6. /\ byBytes.taken => BucketAccount(byBytes.bucket, BytesRate, c.bytes + bytes, c.since, now)
      /\ BucketAccount(fullBytes, BytesRate, c.bytes, c.since, now)
  BY <1>1, <1>2, <1>4, TakeAccount
<1>7. \/ byKind.taken /\ byBytes.taken /\ a = [decision |-> "allow", state |-> charged]
      \/ a = [decision |-> "drop", state |-> refused]
      \/ a = [decision |-> "disconnect", state |-> warned]
  BY DEF admit
<1> HIDE DEF byKind, byBytes, ex, a
<1>8. ASSUME byKind.taken, byBytes.taken
      PROVE  PeerAccount(charged, d, now)
  <2>1. byKind.bucket \in Bucket /\ byBytes.bucket \in Bucket
    BY <1>5, <1>6, <1>8 DEF BucketAccount
  <2>2. /\ charged \in PeerState /\ charged.bytes_bucket = byBytes.bucket
        /\ charged.buckets = [ex.buckets EXCEPT ![kind] = byKind.bucket]
        /\ charged.outbound_bytes_bucket = ex.outbound_bytes_bucket
    BY <1>3, <2>1 DEF PeerState
  <2>3. c.messages \in [Kinds -> Nat] /\ c.bytes \in Nat
    BY <1>2 DEF Count
  <2>4. /\ d \in Count /\ d.since = c.since /\ d.bytes = c.bytes + bytes
        /\ d.messages = [c.messages EXCEPT ![kind] = @ + 1]
    <3> DEFINE ms == [c.messages EXCEPT ![kind] = c.messages[kind] + 1]
               bs == c.bytes + bytes
    <3>1. ms \in [Kinds -> Nat] /\ bs \in Nat
      BY <2>3
    <3>2. d = [c EXCEPT !.messages = ms, !.bytes = bs]
      OBVIOUS
    <3> HIDE DEF d, ms, bs
    <3>3. d \in Count /\ d.since = c.since /\ d.messages = ms /\ d.bytes = bs
      BY <1>2, <3>1, <3>2 DEF Count
    <3> QED
      BY <3>3 DEF ms, bs
  <2> HIDE DEF charged, d
  <2>5. ASSUME NEW k \in Kinds
        PROVE  BucketAccount(charged.buckets[k], KindRate[k], d.messages[k], d.since, now)
    <3>1. ex.buckets \in [Kinds -> Bucket]
      BY <1>3 DEF PeerState
    <3> QED
      BY <1>4, <1>5, <1>8, <2>2, <2>3, <2>4, <3>1
  <2> QED
    BY <1>4, <1>6, <1>8, <2>2, <2>4, <2>5 DEF PeerAccount
<1>9. /\ refused \in PeerState /\ refused.bytes_bucket = fullBytes
      /\ refused.buckets = [ex.buckets EXCEPT ![kind] = full]
      /\ refused.outbound_bytes_bucket = ex.outbound_bytes_bucket
  <2>1. full \in Bucket /\ fullBytes \in Bucket
    BY <1>5, <1>6 DEF BucketAccount
  <2>2. /\ charged.bytes_bucket = byBytes.bucket
        /\ charged.buckets = [ex.buckets EXCEPT ![kind] = byKind.bucket]
        /\ charged = [buckets |-> charged.buckets, bytes_bucket |-> charged.bytes_bucket,
                      outbound_bytes_bucket |-> ex.outbound_bytes_bucket,
                      violations |-> ex.violations,
                      disconnect_dispatched |-> ex.disconnect_dispatched]
    <3> DEFINE bs == [ex.buckets EXCEPT ![kind] = byKind.bucket]
    <3>1. charged = [ex EXCEPT !.buckets = bs, !.bytes_bucket = byBytes.bucket]
      OBVIOUS
    <3> HIDE DEF charged, bs
    <3>2. /\ charged.bytes_bucket = byBytes.bucket /\ charged.buckets = bs
          /\ charged = [buckets |-> bs, bytes_bucket |-> byBytes.bucket,
                        outbound_bytes_bucket |-> ex.outbound_bytes_bucket,
                        violations |-> ex.violations,
                        disconnect_dispatched |-> ex.disconnect_dispatched]
      BY <1>3, <3>1 DEF PeerState
    <3> QED
      BY <3>2 DEF bs
  <2>3. ex.buckets \in [Kinds -> Bucket] /\ ex.violations \in Seq(Nat)
        /\ ex.disconnect_dispatched \in BOOLEAN /\ ex.outbound_bytes_bucket \in Bucket
    BY <1>3 DEF PeerState
  <2> HIDE DEF charged
  <2>4. charged.buckets[kind] = byKind.bucket
    BY <2>2, <2>3
  <2>10. byKind.bucket \in Bucket /\ byBytes.bucket \in Bucket
    BY <1>4, <1>1, <1>2, TakeAccount DEF byKind, byBytes, BucketAccount
  <2>5. refused = [buckets |-> [charged.buckets EXCEPT ![kind] = full],
                   bytes_bucket |-> fullBytes,
                   outbound_bytes_bucket |-> ex.outbound_bytes_bucket,
                   violations |-> Append(ex.violations, now),
                   disconnect_dispatched |-> ex.disconnect_dispatched]
    <3> DEFINE bs == [charged.buckets EXCEPT ![kind] = full]
               vs == Append(ex.violations, now)
    <3>1. [charged.buckets[kind] EXCEPT !.tokens =
              IF byKind.taken THEN charged.buckets[kind].tokens + 1
              ELSE charged.buckets[kind].tokens] = full
      <4>1. byKind.bucket = [byKind.bucket EXCEPT !.tokens = byKind.bucket.tokens]
        BY <2>10 DEF Bucket
      <4> QED
        BY <2>4, <4>1 DEF full
    <3>2. [charged.bytes_bucket EXCEPT !.tokens =
              IF byBytes.taken THEN charged.bytes_bucket.tokens + bytes
              ELSE charged.bytes_bucket.tokens] = fullBytes
      <4>1. byBytes.bucket = [byBytes.bucket EXCEPT !.tokens = byBytes.bucket.tokens]
        BY <2>10 DEF Bucket
      <4> QED
        BY <2>2, <4>1 DEF fullBytes
    <3>3. refused = [charged EXCEPT !.buckets = bs, !.bytes_bucket = fullBytes, !.violations = vs]
      <4> DEFINE x == IF byKind.taken THEN charged.buckets[kind].tokens + 1
                      ELSE charged.buckets[kind].tokens
                 y == IF byBytes.taken THEN charged.bytes_bucket.tokens + bytes
                      ELSE charged.bytes_bucket.tokens
                 z == Append(charged.violations, now)
      <4>1. refused = [charged EXCEPT !.buckets[kind].tokens = x, !.bytes_bucket.tokens = y,
                                      !.violations = z]
        OBVIOUS
      <4>2. [charged.buckets[kind] EXCEPT !.tokens = x] = full
            /\ [charged.bytes_bucket EXCEPT !.tokens = y] = fullBytes /\ z = vs
        BY <3>1, <3>2, <2>2
      <4> HIDE DEF x, y, z, refused, full, fullBytes, vs
      <4>3. refused = [charged EXCEPT
                         !.buckets = [charged.buckets EXCEPT
                                        ![kind] = [charged.buckets[kind] EXCEPT !.tokens = x]],
                         !.bytes_bucket = [charged.bytes_bucket EXCEPT !.tokens = y],
                         !.violations = z]
        BY <4>1
      <4> QED
        BY <4>2, <4>3
    <3> HIDE DEF refused, bs, vs, full, fullBytes
    <3>4. refused = [buckets |-> bs, bytes_bucket |-> fullBytes,
                     outbound_bytes_bucket |-> ex.outbound_bytes_bucket,
                     violations |-> vs,
                     disconnect_dispatched |-> ex.disconnect_dispatched]
      <4>1. charged \in PeerState
        BY <2>2, <2>3, <2>10 DEF PeerState
      <4>2. /\ charged.outbound_bytes_bucket = ex.outbound_bytes_bucket
            /\ charged.disconnect_dispatched = ex.disconnect_dispatched
        BY <2>2
      <4> QED
        BY <3>3, <4>1, <4>2 DEF PeerState
    <3> QED
      BY <3>4 DEF bs, vs
  <2>6. [charged.buckets EXCEPT ![kind] = full] = [ex.buckets EXCEPT ![kind] = full]
    BY <2>2, <2>3
  <2>7. [ex.buckets EXCEPT ![kind] = full] \in [Kinds -> Bucket]
    BY <2>1, <2>3
  <2>8. Append(ex.violations, now) \in Seq(Nat)
    BY <2>3
  <2> HIDE DEF refused, full, fullBytes
  <2> QED
    BY <2>1, <2>3, <2>5, <2>6, <2>7, <2>8 DEF PeerState
<1> HIDE DEF refused, full, fullBytes
<1>10. /\ warned \in PeerState /\ warned.bytes_bucket = fullBytes
       /\ warned.buckets = [ex.buckets EXCEPT ![kind] = full]
       /\ warned.outbound_bytes_bucket = ex.outbound_bytes_bucket
  BY <1>9 DEF PeerState
<1> HIDE DEF warned
<1>11. ASSUME NEW z, z \in PeerState, z.bytes_bucket = fullBytes,
              z.buckets = [ex.buckets EXCEPT ![kind] = full],
              z.outbound_bytes_bucket = ex.outbound_bytes_bucket
       PROVE  PeerAccount(z, c, now)
  <2>1. ex.buckets \in [Kinds -> Bucket]
    BY <1>3 DEF PeerState
  <2>2. ASSUME NEW k \in Kinds
        PROVE  BucketAccount(z.buckets[k], KindRate[k], c.messages[k], c.since, now)
    BY <1>4, <1>5, <1>11, <2>1
  <2> QED
    BY <1>2, <1>4, <1>6, <1>11, <2>2 DEF PeerAccount
<1>12. PeerAccount(refused, c, now) /\ PeerAccount(warned, c, now)
  BY <1>9, <1>10, <1>11
<1>13. CASE byKind.taken /\ byBytes.taken /\ a = [decision |-> "allow", state |-> charged]
  <2>1. a.decision = "allow" /\ a.state = charged
    BY <1>13
  <2> QED
    BY <1>8, <1>13, <2>1 DEF a
<1>14. CASE a = [decision |-> "drop", state |-> refused]
  <2>1. a.decision = "drop" /\ a.state = refused
    BY <1>14
  <2> QED
    BY <1>12, <2>1 DEF a
<1>15. CASE a = [decision |-> "disconnect", state |-> warned]
  <2>1. a.decision = "disconnect" /\ a.state = warned
    BY <1>15
  <2> QED
    BY <1>12, <2>1 DEF a
<1> QED
  BY <1>7, <1>13, <1>14, <1>15

\* admit_outbound, limits.rs: the inbound buckets are not touched.
LEMMA AdmitOutboundAccount ==
    ASSUME NEW st, NEW c, PeerAccount(st, c, now), now \in Nat, NEW bytes \in Nat
    PROVE  PeerAccount(admit_outbound(st, bytes, now).state, c, now)
<1> DEFINE b == st.outbound_bytes_bucket
           t == b.tokens + (now - b.last_refill) * OutboundRate
           out == try_take(b, OutboundRate, now, bytes)
<1>1. OutboundRate \in Nat /\ capacity(OutboundRate) \in Nat
  BY RateLimiterAssumption, CapacityType
<1>2. b \in Bucket /\ b.tokens \in Nat /\ b.last_refill \in Nat /\ b.last_refill <= now
      /\ st \in PeerState
  BY DEF PeerAccount, PeerState, Bucket
<1>3. (now - b.last_refill) * OutboundRate \in Nat
  BY <1>1, <1>2, Pours
<1>4. t \in Nat
  BY <1>2, <1>3
<1> DEFINE full == Refilled(b, OutboundRate, now)
<1>5. full = [tokens |-> IF t <= capacity(OutboundRate) THEN t ELSE capacity(OutboundRate),
              last_refill |-> now]
  BY DEF Refilled
<1> HIDE DEF t
<1>6. full.tokens \in Nat /\ full.last_refill = now
  BY <1>1, <1>4, <1>5
<1>7. out.bucket = [full EXCEPT !.tokens = IF full.tokens >= bytes THEN full.tokens - bytes
                                           ELSE full.tokens]
  BY DEF try_take
<1>8. out.bucket \in Bucket /\ out.bucket.last_refill = now
  <2>1. out.bucket = [tokens |-> IF full.tokens >= bytes THEN full.tokens - bytes
                                 ELSE full.tokens, last_refill |-> now]
    BY <1>5, <1>7
  <2> HIDE DEF out, full
  <2> QED
    BY <1>6, <2>1 DEF Bucket
<1>9. admit_outbound(st, bytes, now).state = [st EXCEPT !.outbound_bytes_bucket = out.bucket]
  BY DEF admit_outbound
<1> HIDE DEF out
<1>10. now <= now
  OBVIOUS
<1> QED
  BY <1>2, <1>8, <1>9, <1>10 DEF PeerAccount, PeerState

\* A peer that is first heard of has full buckets and has got nothing through.
LEMMA FreshAccount ==
    ASSUME now \in Nat
    PROVE  PeerAccount(NewPeerState(now), NothingSince(now), now)
<1>1. ASSUME NEW rate \in Nat
      PROVE  BucketAccount(FullBucket(rate, now), rate, 0, now, now)
  <2>1. capacity(rate) \in Nat
    BY CapacityType
  <2>2. (now - now) * rate = 0
    OBVIOUS
  <2> QED
    BY <2>1, <2>2 DEF BucketAccount, FullBucket, Bucket
<1>2. /\ KindRate \in [Kinds -> Nat] /\ BytesRate \in Nat /\ OutboundRate \in Nat
  BY RateLimiterAssumption
<1>3. NewPeerState(now) \in PeerState
  <2>1. \A rate \in Nat : FullBucket(rate, now) \in Bucket
    BY <1>1 DEF BucketAccount
  <2>2. <<>> \in Seq(Nat)
    OBVIOUS
  <2> QED
    BY <1>2, <2>1, <2>2 DEF NewPeerState, PeerState
<1>4. NothingSince(now) \in Count
  BY DEF NothingSince, Count
<1>5. \A k \in Kinds : /\ NewPeerState(now).buckets[k] = FullBucket(KindRate[k], now)
                       /\ NothingSince(now).messages[k] = 0
  BY DEF NewPeerState, NothingSince
<1>6. /\ NewPeerState(now).bytes_bucket = FullBucket(BytesRate, now)
      /\ NewPeerState(now).outbound_bytes_bucket.last_refill = now
      /\ NothingSince(now).bytes = 0 /\ NothingSince(now).since = now
  BY DEF NewPeerState, NothingSince, FullBucket
<1>7. now <= now
  OBVIOUS
<1> QED
  BY <1>1, <1>2, <1>3, <1>4, <1>5, <1>6, <1>7 DEF PeerAccount

-----------------------------------------------------------------------------
(***************************************************************************)
(* The type invariant.                                                     *)
(***************************************************************************)

\* The smaller of two integers.
LEMMA MinOfTwo ==
    ASSUME NEW a \in Int, NEW b \in Int
    PROVE  Min({a, b}) \in Int /\ Min({a, b}) <= a /\ Min({a, b}) <= b
<1>1. \E x \in {a, b} : \A y \in {a, b} : x <= y
  <2>1. CASE a <= b
    BY <2>1
  <2>2. CASE b <= a
    BY <2>2
  <2> QED
    BY <2>1, <2>2
<1>2. Min({a, b}) \in {a, b} /\ \A y \in {a, b} : Min({a, b}) <= y
  BY <1>1 DEF Min
<1> QED
  BY <1>2

\* The larger of two integers.
LEMMA MaxOfTwo ==
    ASSUME NEW a \in Int, NEW b \in Int
    PROVE  Max({a, b}) \in Int /\ a <= Max({a, b}) /\ b <= Max({a, b})
<1>1. \E x \in {a, b} : \A y \in {a, b} : x >= y
  <2>1. CASE a <= b
    BY <2>1
  <2>2. CASE b <= a
    BY <2>2
  <2> QED
    BY <2>1, <2>2
<1>2. Max({a, b}) \in {a, b} /\ \A y \in {a, b} : Max({a, b}) >= y
  BY <1>1 DEF Max
<1> QED
  BY <1>2

\* A handler sends no more messages than the bounds allow.
LEMMA SendsBounded ==
    ASSUME calls \in 0..MaxCalls, NEW n \in {1, MaxReplies}, NEW k \in Sends(n)
    PROVE  k \in 0..Max({1, MaxReplies}) /\ calls + k \in 0..MaxCalls
<1>1. MaxCalls \in Nat /\ MaxReplies \in Nat
  BY OverlayAssumption
<1>2. /\ Min({n, MaxCalls - calls}) \in Int /\ Min({n, MaxCalls - calls}) <= n
      /\ Min({n, MaxCalls - calls}) <= MaxCalls - calls
  <2>1. n \in Int /\ MaxCalls - calls \in Int
    BY <1>1
  <2> QED
    BY <2>1, MinOfTwo
<1>3. /\ Max({1, MaxReplies}) \in Int /\ 1 <= Max({1, MaxReplies})
      /\ MaxReplies <= Max({1, MaxReplies})
  BY <1>1, MaxOfTwo
<1>4. k \in 0..Min({n, MaxCalls - calls})
  BY DEF Sends
<1> HIDE DEF Min, Max
<1> QED
  BY <1>1, <1>2, <1>3, <1>4

\* A peer has at most two connections.
LEMMA LinksFinite ==
    ASSUME NEW S \in SUBSET Sides
    PROVE  /\ IsFiniteSet(S) /\ Cardinality(S) \in Nat
           /\ Cardinality(S) = 0 <=> S = {}
<1>1. IsFiniteSet(Sides)
  <2>1. IsFiniteSet({"dialed"})
    BY FS_Singleton
  <2>2. IsFiniteSet({"dialed"} \cup {"accepted"})
    BY <2>1, FS_AddElement
  <2>3. Sides = {"dialed"} \cup {"accepted"}
    BY DEF Sides
  <2> QED
    BY <2>2, <2>3
<1>2. IsFiniteSet(S)
  BY <1>1, FS_Subset
<1> QED
  BY <1>2, FS_CardinalityType, FS_EmptySet

\* disconnect_peer_id: one closed-connection event for each connection, the last
\* of them with none left.
LEMMA HangupType ==
    ASSUME NEW p \in Peers, links[p] \in SUBSET Sides
    PROVE  /\ Hangup(p) \in Seq(SwarmEvent)
           /\ Len(Hangup(p)) = Cardinality(links[p])
           /\ \A i \in 1..Cardinality(links[p]) :
                Hangup(p)[i] = Down(p, Cardinality(links[p]) - i)
<1> DEFINE n == Cardinality(links[p])
<1>1. n \in Nat
  BY LinksFinite
<1>2. Hangup(p) = [i \in 1..n |-> Down(p, n - i)]
  BY DEF Hangup
<1> HIDE DEF n
<1>3. \A i \in 1..n : Down(p, n - i) \in SwarmEvent
  BY <1>1 DEF Down, SwarmEvent
<1>4. Hangup(p) \in [1..n -> SwarmEvent]
  BY <1>2, <1>3
<1>5. Hangup(p) \in Seq(SwarmEvent)
  BY <1>1, <1>4
<1>6. Len(Hangup(p)) = n
  BY <1>1, <1>4, <1>5
<1> QED
  BY <1>2, <1>5, <1>6 DEF n

\* The values that the constants have.
LEMMA Constants ==
    /\ Bootstraps \subseteq Peers /\ Talkers \subseteq Peers
    /\ Sizes \subseteq Nat /\ OutSizes \subseteq Nat
    /\ EventCap \in Nat /\ EventCap > 0 /\ CmdCap \in Nat /\ CmdCap > 0
    /\ DiscoCap \in Nat /\ DiscoCap > 0
    /\ MaxCalls \in Nat /\ MaxReplies \in Nat /\ MaxMessages \in Nat /\ MaxFaults \in Nat
    /\ MaxTime \in Nat
BY OverlayAssumption

\* Init
LEMMA InitType == Init => TypeInv
<1> SUFFICES ASSUME Init PROVE TypeInv
  OBVIOUS
<1>1. NetworkType
  BY Constants DEF Init, NetworkType, Sides
<1>2. DriverType
  BY DEF Init, DriverType, HandlerSends
<1>3. ChannelType
  <2>1. <<>> \in Seq(NodeEvent) /\ <<>> \in Seq(Command) /\ <<>> \in Seq(DiscoEvent)
        /\ Len(<<>>) = 0
    OBVIOUS
  <2>2. events = <<>> /\ cmds = <<>> /\ disco = <<>> /\ lagged = FALSE
    BY DEF Init
  <2>3. 0 <= EventCap /\ 0 <= CmdCap /\ 0 <= DiscoCap
    BY Constants
  <2> QED
    BY <2>1, <2>2, <2>3 DEF ChannelType
<1>4. NodeType
  <2>1. 0 \in 0..Max({1, MaxReplies})
    BY Constants, MaxOfTwo
  <2> QED
    BY <2>1, Constants DEF Init, NodeType
<1> QED
  BY <1>1, <1>2, <1>3, <1>4 DEF TypeInv

\* libp2p and the other nodes.
LEMMA NetworkStepType ==
    ASSUME TypeInv,
           \/ Tick \/ redial_missing_bootstraps
           \/ \E p \in Talkers, kind \in Tags, size \in Sizes : PeerSends(p, kind, size)
           \/ \E p \in Peers :
                \/ DialSucceeds(p) \/ DialFails(p) \/ Accept(p)
                \/ \E side \in {"dialed", "accepted"} : Breaks(p, side)
    PROVE  TypeInv'
<1> USE DEF TypeInv
<1>1. CASE Tick
  BY <1>1, Constants DEF Tick, network, channels, NetworkType, DriverType, ChannelType, NodeType
<1>2. CASE redial_missing_bootstraps
  BY <1>2 DEF redial_missing_bootstraps, bootstraps_to_redial, channels, NetworkType, DriverType,
              ChannelType, NodeType
<1>3. ASSUME NEW p \in Talkers, NEW kind \in Tags, NEW size \in Sizes, PeerSends(p, kind, size)
      PROVE  TypeInv'
  <2> DEFINE e == [kind |-> "message", peer |-> p, of |-> kind,
                   size |-> IF kind \in Kinds THEN size ELSE 0]
  <2>1. e \in SwarmEvent
    BY DEF SwarmEvent, Message
  <2>2. swarm' = Append(swarm, e)
    BY <1>3 DEF PeerSends
  <2> HIDE DEF e
  <2> QED
    BY <1>3, <2>1, <2>2, Constants DEF PeerSends, channels, NetworkType, DriverType, ChannelType, NodeType
<1>4. ASSUME NEW p \in Peers, NEW side \in Sides, Established(p, side), dialing' \subseteq Bootstraps,
             UNCHANGED <<driver, channels, node, metered, now, messages, calls, faults>>
      PROVE  TypeInv'
  <2>1. Up(p, side) \in SwarmEvent
    BY DEF Up, SwarmEvent
  <2>2. links \in [Peers -> SUBSET Sides] /\ swarm \in Seq(SwarmEvent)
    BY DEF NetworkType
  <2>3. links' \in [Peers -> SUBSET Sides]
    BY <1>4, <2>2 DEF Established
  <2>4. swarm' \in Seq(SwarmEvent)
    BY <1>4, <2>1, <2>2 DEF Established
  <2> QED
    BY <1>4, <2>3, <2>4 DEF channels, NetworkType, DriverType, ChannelType, NodeType
<1>5. ASSUME NEW p \in Peers, DialSucceeds(p) \/ Accept(p)
      PROVE  TypeInv'
  <2>1. "dialed" \in Sides /\ "accepted" \in Sides
    BY DEF Sides
  <2>2. CASE DialSucceeds(p)
    BY <1>4, <2>1, <2>2 DEF DialSucceeds, NetworkType
  <2>3. CASE Accept(p)
    BY <1>4, <2>1, <2>3 DEF Accept, NetworkType
  <2> QED
    BY <1>5, <2>2, <2>3
<1>6. ASSUME NEW p \in Peers, DialFails(p)
      PROVE  TypeInv'
  BY <1>6, Constants DEF DialFails, channels, NetworkType, DriverType, ChannelType, NodeType
<1>7. ASSUME NEW p \in Peers, NEW side \in {"dialed", "accepted"}, Breaks(p, side)
      PROVE  TypeInv'
  <2>1. links \in [Peers -> SUBSET Sides] /\ swarm \in Seq(SwarmEvent)
        /\ links[p] \in SUBSET Sides /\ links[p] # {}
    BY <1>7 DEF NetworkType, Breaks
  <2>2. Cardinality(links[p]) \in Nat /\ Cardinality(links[p]) # 0
    BY <2>1, LinksFinite
  <2>3. Down(p, Cardinality(links[p]) - 1) \in SwarmEvent
    <3> DEFINE n == Cardinality(links[p])
    <3> HIDE DEF n
    <3>1. n \in Nat /\ n # 0
      BY <2>2 DEF n
    <3>2. Down(p, n - 1) \in SwarmEvent
      BY <3>1 DEF Down, SwarmEvent
    <3> QED
      BY <3>2 DEF n
  <2>4. links' \in [Peers -> SUBSET Sides]
    BY <1>7, <2>1 DEF Breaks
  <2>5. swarm' \in Seq(SwarmEvent)
    BY <1>7, <2>1, <2>3 DEF Breaks
  <2>6. faults' \in 0..MaxFaults
    BY <1>7, Constants DEF Breaks, NetworkType
  <2> QED
    BY <1>7, <2>4, <2>5, <2>6 DEF Breaks, channels, NetworkType, DriverType, ChannelType, NodeType
<1> QED
  BY <1>1, <1>2, <1>3, <1>5, <1>6, <1>7

\* A send of the driver and what is left of its handler.
LEMMA HandlerRest ==
    ASSUME NEW s \in HandlerSends, s # <<>>
    PROVE  /\ Tail(s) \in HandlerSends
           /\ Head(s) \in EventSends \cup DiscoSends
           /\ Head(s) = s[1] /\ Len(s) \in Nat \ {0}
           /\ Len(s) = 1 => Tail(s) = <<>>
           /\ Len(s) # 1 => Len(s) = 2 /\ Head(s) \in EventSends /\ s[2] \in DiscoSends
                            /\ Tail(s) = <<s[2]>>
<1>1. CASE \E a \in EventSends \cup DiscoSends : s = <<a>>
  <2>1. PICK a \in EventSends \cup DiscoSends : s = <<a>>
    BY <1>1
  <2>2. Tail(s) = <<>> /\ Head(s) = a /\ s[1] = a /\ Len(s) = 1
    BY <2>1
  <2> QED
    BY <2>2 DEF HandlerSends
<1>2. CASE \E a \in EventSends, b \in DiscoSends : s = <<a, b>>
  <2>1. PICK a \in EventSends, b \in DiscoSends : s = <<a, b>>
    BY <1>2
  <2>2. Tail(s) = <<b>> /\ Head(s) = a /\ s[1] = a /\ s[2] = b /\ Len(s) = 2
    BY <2>1
  <2>3. <<b>> \in HandlerSends
    BY DEF HandlerSends
  <2>4. Len(s) \in Nat \ {0} /\ Len(s) # 1
    BY <2>2
  <2>5. Tail(s) = <<s[2]>>
    BY <2>2, Zenon
  <2> QED
    BY <2>2, <2>3, <2>4, <2>5, Zenon
<1> QED
  BY <1>1, <1>2 DEF HandlerSends

\* HandleCommand, HandleSwarmEvent, DriverSends.
LEMMA DriverStepType ==
    ASSUME TypeInv, DriverSteps
    PROVE  TypeInv'
<1> USE DEF TypeInv
<1>1. CASE HandleCommand
  <2> DEFINE cmd == Head(cmds)
  <2>1. cmds \in Seq(Command) /\ cmds # <<>> /\ Len(cmds) <= CmdCap
    BY <1>1 DEF HandleCommand, ChannelType
  <2>2. cmd \in Command /\ cmds' \in Seq(Command) /\ Len(cmds') <= CmdCap
    BY <1>1, <2>1, Constants DEF HandleCommand
  <2>3. links' \in [Peers -> SUBSET Sides] /\ swarm' \in Seq(SwarmEvent)
    <3>1. links \in [Peers -> SUBSET Sides] /\ swarm \in Seq(SwarmEvent)
      BY DEF NetworkType
    <3>2. CASE cmd.kind = "disconnect"
      <4>1. cmd.peer \in Peers
        BY <2>2, <3>2 DEF Command
      <4>2. Hangup(cmd.peer) \in Seq(SwarmEvent)
        BY <3>1, <4>1, HangupType
      <4>3. links' = [links EXCEPT ![cmd.peer] = {}] /\ swarm' = swarm \o Hangup(cmd.peer)
        BY <1>1, <3>2 DEF HandleCommand
      <4> HIDE DEF cmd
      <4> QED
        BY <3>1, <4>1, <4>2, <4>3
    <3>3. CASE cmd.kind # "disconnect"
      BY <1>1, <3>1, <3>3 DEF HandleCommand
    <3> QED
      BY <3>2, <3>3
  <2> QED
    BY <1>1, <2>2, <2>3 DEF HandleCommand, NetworkType, DriverType, ChannelType, NodeType
<1>2. CASE HandleSwarmEvent
  <2> DEFINE e == Head(swarm)
  <2>1. swarm \in Seq(SwarmEvent) /\ swarm # <<>> /\ driver.sends = <<>>
    BY <1>2 DEF HandleSwarmEvent, NetworkType, Idle
  <2>2. e \in SwarmEvent /\ swarm' \in Seq(SwarmEvent)
    BY <1>2, <2>1 DEF HandleSwarmEvent
  <2>3. driver' = on_swarm_event(driver, e)
    BY <1>2 DEF HandleSwarmEvent
  <2> HIDE DEF e
  <2>4. /\ driver \in [peers : SUBSET Peers, outbound_bootstrap : SUBSET Bootstraps,
                       sends : HandlerSends]
        /\ driver.peers \subseteq Peers /\ driver.outbound_bootstrap \subseteq Bootstraps
    BY DEF DriverType
  <2>5. ASSUME NEW p \in Peers, NEW word \in {"connected", "disconnected"},
               NEW tag \in {"added", "removed"}
        PROVE  <<ToEvents([kind |-> word, peer |-> p]), ToDisco([kind |-> tag, peer |-> p])>>
                  \in HandlerSends
    <3>1. [kind |-> word, peer |-> p] \in NodeEvent /\ [kind |-> tag, peer |-> p] \in DiscoEvent
      BY DEF NodeEvent, DiscoEvent
    <3> QED
      BY <3>1 DEF HandlerSends, EventSends, DiscoSends
  <2>6. CASE e.kind = "up"
    <3>1. e.peer \in Peers
      BY <2>2, <2>6 DEF SwarmEvent, Message
    <3>2. driver' = on_connected(driver, e.peer, e.side)
      BY <2>3, <2>6 DEF on_swarm_event
    <3> DEFINE ob == IF e.side = "dialed" /\ e.peer \in Bootstraps
                     THEN driver.outbound_bootstrap \cup {e.peer} ELSE driver.outbound_bootstrap
               new == <<ToEvents([kind |-> "connected", peer |-> e.peer]),
                        ToDisco([kind |-> "added", peer |-> e.peer])>>
    <3>3. ob \in SUBSET Bootstraps /\ new \in HandlerSends
      BY <2>4, <2>5, <3>1
    <3>4. \/ driver' = [driver EXCEPT !.outbound_bootstrap = ob]
          \/ driver' = [[driver EXCEPT !.outbound_bootstrap = ob]
                          EXCEPT !.peers = driver.peers \cup {e.peer}, !.sends = new]
      BY <2>4, <3>2 DEF on_connected
    <3> HIDE DEF ob, new
    <3>5. DriverType'
      BY <2>4, <3>1, <3>3, <3>4 DEF DriverType
    <3> QED
      BY <1>2, <2>2, <3>5 DEF HandleSwarmEvent, channels, NetworkType, ChannelType, NodeType
  <2>7. CASE e.kind = "down" /\ e.left = 0
    <3>1. e.peer \in Peers
      BY <2>2, <2>7 DEF SwarmEvent, Message
    <3>2. driver' = on_disconnected(driver, e.peer)
      BY <2>3, <2>7 DEF on_swarm_event
    <3> DEFINE ob == driver.outbound_bootstrap \ {e.peer}
               new == <<ToEvents([kind |-> "disconnected", peer |-> e.peer]),
                        ToDisco([kind |-> "removed", peer |-> e.peer])>>
    <3>3. ob \in SUBSET Bootstraps /\ new \in HandlerSends
      BY <2>4, <2>5, <3>1
    <3>4. \/ driver' = [driver EXCEPT !.outbound_bootstrap = ob]
          \/ driver' = [[driver EXCEPT !.outbound_bootstrap = ob]
                          EXCEPT !.peers = driver.peers \ {e.peer}, !.sends = new]
      BY <2>4, <3>2 DEF on_disconnected
    <3> HIDE DEF ob, new
    <3>5. DriverType'
      BY <2>4, <3>1, <3>3, <3>4 DEF DriverType
    <3> QED
      BY <1>2, <2>2, <3>5 DEF HandleSwarmEvent, channels, NetworkType, ChannelType, NodeType
  <2>8. CASE e.kind = "message"
    <3>1. e \in Message
      BY <2>2, <2>8 DEF SwarmEvent
    <3>2. driver' = [driver EXCEPT !.sends = <<ToEvents(e)>>]
      BY <2>3, <2>8 DEF on_swarm_event
    <3>3. <<ToEvents(e)>> \in HandlerSends
      BY <3>1 DEF HandlerSends, EventSends, NodeEvent
    <3>4. DriverType'
      BY <2>4, <3>2, <3>3 DEF DriverType
    <3> QED
      BY <1>2, <2>2, <3>4 DEF HandleSwarmEvent, channels, NetworkType, ChannelType, NodeType
  <2>9. CASE e.kind = "down" /\ e.left # 0
    <3>1. driver' = driver
      BY <2>3, <2>9 DEF on_swarm_event
    <3> QED
      BY <1>2, <2>2, <3>1 DEF HandleSwarmEvent, channels, NetworkType, DriverType, ChannelType, NodeType
  <2>10. e.kind \in {"up", "down", "message"}
    BY <2>2 DEF SwarmEvent, Message
  <2> QED
    BY <2>6, <2>7, <2>8, <2>9, <2>10
<1>3. CASE DriverSends
  <2> DEFINE send == Head(driver.sends)
  <2>1. driver.sends \in HandlerSends /\ driver.sends # <<>>
    BY <1>3 DEF DriverSends, DriverType, Idle
  <2>2. Tail(driver.sends) \in HandlerSends /\ send \in EventSends \cup DiscoSends
    BY <2>1, HandlerRest
  <2>3. DriverType'
    BY <1>3, <2>2 DEF DriverSends, DriverType
  <2>4. /\ send.to = "events" => send.e \in NodeEvent
        /\ send.to = "disco" => send.e \in DiscoEvent
    BY <2>2 DEF EventSends, DiscoSends, ToEvents, ToDisco
  <2>5. ChannelType'
    <3>0. UNCHANGED cmds
      BY <1>3 DEF DriverSends
    <3> HIDE DEF send
    <3>1. CASE send.to = "events" /\ Len(events) < EventCap /\ events' = Append(events, send.e)
               /\ UNCHANGED <<disco, lagged>>
      BY <2>4, <3>0, <3>1, Constants DEF ChannelType
    <3>2. CASE UNCHANGED <<events, disco, lagged>>
      BY <3>0, <3>2 DEF ChannelType
    <3>3. CASE /\ send.to = "disco"
               /\ disco' = Append(IF Len(disco) = DiscoCap THEN Tail(disco) ELSE disco, send.e)
               /\ lagged' = (lagged \/ Len(disco) = DiscoCap)
               /\ UNCHANGED events
      <4> DEFINE kept == IF Len(disco) = DiscoCap THEN Tail(disco) ELSE disco
      <4>1. kept \in Seq(DiscoEvent) /\ Len(kept) < DiscoCap
        <5>1. disco \in Seq(DiscoEvent) /\ Len(disco) <= DiscoCap
          BY DEF ChannelType
        <5>2. CASE Len(disco) = DiscoCap
          <6>1. disco # <<>>
            BY <5>1, <5>2, Constants
          <6> QED
            BY <5>1, <5>2, <6>1, Constants
        <5>3. CASE Len(disco) # DiscoCap
          BY <5>1, <5>3, Constants
        <5> QED
          BY <5>2, <5>3
      <4> HIDE DEF kept
      <4>2. disco' = Append(kept, send.e)
        BY <3>3 DEF kept
      <4> QED
        BY <2>4, <3>0, <3>3, <4>1, <4>2, Constants DEF ChannelType
    <3> QED
      BY <1>3, <3>1, <3>2, <3>3 DEF DriverSends, send
  <2> QED
    BY <1>3, <2>3, <2>5 DEF DriverSends, network, NetworkType, NodeType
<1> QED
  BY <1>1, <1>2, <1>3 DEF DriverSteps

\* The steps of the consensus loop.
LEMMA NodeStepType ==
    ASSUME TypeInv, DOMAIN limiter \subseteq Peers, NodeSteps
    PROVE  TypeInv'
<1> USE DEF TypeInv
<1> DEFINE Node == [phase : {"starting", "subscribed", "running"},
                    peers_connected : SUBSET Peers,
                    sends : 0..Max({1, MaxReplies}),
                    waiting : {<<>>} \cup {<<c>> : c \in Command}]
<1>a. /\ node \in Node /\ node.peers_connected \subseteq Peers
      /\ node.sends \in 0..Max({1, MaxReplies}) /\ Max({1, MaxReplies}) \in Int
      /\ node.waiting # <<>> => node.sends > 0
      /\ calls \in 0..MaxCalls /\ driver.peers \subseteq Peers
  <2>1. 1 \in Int /\ MaxReplies \in Int
    BY Constants
  <2>2. Max({1, MaxReplies}) \in Int
    BY <2>1, MaxOfTwo
  <2>3. node \in Node /\ driver \in [peers : SUBSET Peers, outbound_bootstrap : SUBSET Bootstraps,
                                     sends : HandlerSends]
        /\ (node.waiting # <<>> => node.sends > 0) /\ calls \in 0..MaxCalls
    BY Zenon DEF NodeType, DriverType
  <2> QED
    BY <2>2, <2>3
<1> HIDE DEF Max
<1>1. CASE Subscribe
  BY <1>1, <1>a DEF Subscribe, network, channels, NetworkType, DriverType, ChannelType, NodeType
<1>2. CASE ReadKnownPeers
  BY <1>2, <1>a DEF ReadKnownPeers, known_peers, network, channels, NetworkType, DriverType,
                    ChannelType, NodeType
<1>3. CASE TakeDiscovery
  <2>1. CASE lagged /\ lagged' = FALSE /\ node' = OnLagged(node) /\ UNCHANGED <<disco, calls>>
    BY <1>3, <1>a, <2>1 DEF TakeDiscovery, OnLagged, known_peers, network, NetworkType, DriverType,
                            ChannelType, NodeType
  <2>2. CASE /\ disco # <<>> /\ disco' = Tail(disco) /\ UNCHANGED lagged
             /\ \E k \in Sends(1) :
                   /\ node' = [OnDiscoveryEvent(node, Head(disco)) EXCEPT !.sends = k]
                   /\ calls' = calls + k
    <3>1. PICK k \in Sends(1) :
                   /\ node' = [OnDiscoveryEvent(node, Head(disco)) EXCEPT !.sends = k]
                   /\ calls' = calls + k
      BY <2>2
    <3>2. k \in 0..Max({1, MaxReplies}) /\ calls' \in 0..MaxCalls
      BY <1>a, <3>1, SendsBounded
    <3>3. Head(disco) \in DiscoEvent /\ Tail(disco) \in Seq(DiscoEvent)
          /\ Len(Tail(disco)) <= DiscoCap
      BY <2>2, Constants DEF ChannelType
    <3>4. Head(disco).peer \in Peers
      BY <3>3 DEF DiscoEvent
    <3>5. PICK S \in SUBSET Peers : node' = [[node EXCEPT !.peers_connected = S] EXCEPT !.sends = k]
      BY <1>a, <3>1, <3>4 DEF OnDiscoveryEvent
    <3>6. node.sends = 0
      BY <1>3 DEF TakeDiscovery, Free
    <3>7. node.waiting = <<>>
      BY <1>a, <3>6
    <3>8. NodeType'
      BY <1>a, <3>2, <3>5, <3>7 DEF NodeType
    <3> QED
      BY <1>3, <2>2, <3>3, <3>8 DEF TakeDiscovery, network, NetworkType, DriverType, ChannelType
  <2> QED
    BY <1>3, <2>1, <2>2 DEF TakeDiscovery
<1>4. CASE TakeMessage
  <2> DEFINE m == Head(events)
  <2>1. m \in NodeEvent /\ m.kind = "message" /\ events' \in Seq(NodeEvent) /\ Len(events') <= EventCap
    BY <1>4, Constants DEF TakeMessage, ChannelType
  <2>2. m.peer \in Peers
    BY <2>1, Constants DEF NodeEvent, Message
  <2>3. cmds' \in Seq(Command) /\ Len(cmds') <= CmdCap
    <3>1. [kind |-> "disconnect", peer |-> m.peer] \in Command
      BY <2>2 DEF Command
    <3>2. cmds \in Seq(Command) /\ Len(cmds) <= CmdCap
      BY DEF ChannelType
    <3>3. \/ cmds' = cmds
          \/ cmds' = TrySend([kind |-> "disconnect", peer |-> m.peer])
      BY <1>4 DEF TakeMessage, admit_inbound, Meter
    <3> HIDE DEF m
    <3> QED
      BY <3>1, <3>2, <3>3, Constants DEF TrySend
  <2>4. NodeType'
    <3>1. \/ UNCHANGED <<node, calls>>
          \/ \E k \in Sends(MaxReplies) : node' = [node EXCEPT !.sends = k] /\ calls' = calls + k
      BY <1>4 DEF TakeMessage, admit_inbound, Meter
    <3>2. CASE UNCHANGED <<node, calls>>
      BY <3>2 DEF NodeType
    <3>3. CASE \E k \in Sends(MaxReplies) : node' = [node EXCEPT !.sends = k] /\ calls' = calls + k
      <4>1. PICK k \in Sends(MaxReplies) : node' = [node EXCEPT !.sends = k] /\ calls' = calls + k
        BY <3>3
      <4>2. k \in 0..Max({1, MaxReplies}) /\ calls' \in 0..MaxCalls
        BY <1>a, <4>1, SendsBounded
      <4>3. node.waiting = <<>>
        BY <1>4, <1>a DEF TakeMessage, Free
      <4> QED
        BY <1>a, <4>1, <4>2, <4>3 DEF NodeType
    <3> QED
      BY <3>1, <3>2, <3>3
  <2> HIDE DEF m
  <2> QED
    BY <1>4, <2>1, <2>3, <2>4 DEF TakeMessage, network, NetworkType, DriverType, ChannelType
<1>5. CASE TakePeerEvent
  BY <1>5, Constants DEF TakePeerEvent, network, NetworkType, DriverType, ChannelType, NodeType
<1>6. CASE send_outbound
  <2>1. node.sends > 0 /\ node.waiting = <<>>
    BY <1>6 DEF send_outbound
  <2>2. NodeType'
    <3>0. calls' = calls
      BY <1>6 DEF send_outbound
    <3>1. CASE \E c \in Command : node' = [node EXCEPT !.waiting = <<c>>]
      BY <1>a, <2>1, <3>0, <3>1 DEF NodeType
    <3>2. CASE node' = [node EXCEPT !.sends = @ - 1]
      <4>1. node.sends - 1 \in 0..Max({1, MaxReplies})
        BY <1>a, <2>1
      <4> QED
        BY <1>a, <2>1, <3>0, <3>2, <4>1 DEF NodeType
    <3>3. [kind |-> "broadcast"] \in Command
          /\ \A p \in Talkers : [kind |-> "send_to", peer |-> p] \in Command
      BY Constants DEF Command
    <3> QED
      BY <1>6, <3>1, <3>2, <3>3 DEF send_outbound
  <2> QED
    BY <1>6, <2>2 DEF send_outbound, network, channels, NetworkType, DriverType, ChannelType
<1>7. CASE Handover
  <2>1. PICK c \in Command : node.waiting = <<c>>
    BY <1>7, <1>a DEF Handover
  <2>2. node.waiting[1] = c /\ node.sends > 0
    BY <1>a, <2>1
  <2>3. node.sends - 1 \in 0..Max({1, MaxReplies})
    BY <1>a, <2>2
  <2>4. NodeType'
    BY <1>7, <1>a, <2>3 DEF Handover, NodeType
  <2>5. cmds' \in Seq(Command) /\ Len(cmds') <= CmdCap
    BY <1>7, <2>2, Constants DEF Handover, ChannelType
  <2> QED
    BY <1>7, <2>4, <2>5 DEF Handover, network, NetworkType, DriverType, ChannelType
<1> QED
  BY <1>1, <1>2, <1>3, <1>4, <1>5, <1>6, <1>7 DEF NodeSteps

-----------------------------------------------------------------------------
(***************************************************************************)
(* The accounts of the peers.                                              *)
(***************************************************************************)

\* Time passes: an account stays good.
LEMMA AccountLater ==
    ASSUME NEW st, NEW c, NEW s \in Nat, NEW t \in Nat, s <= t, PeerAccount(st, c, s)
    PROVE  PeerAccount(st, c, t)
<1>1. ASSUME NEW b, NEW rate, NEW given, NEW since, BucketAccount(b, rate, given, since, s)
      PROVE  BucketAccount(b, rate, given, since, t)
  <2>1. b.last_refill \in Nat /\ b.last_refill <= s
    BY <1>1 DEF BucketAccount, Bucket
  <2>2. b.last_refill <= t
    BY <2>1
  <2> QED
    BY <1>1, <2>2 DEF BucketAccount
<1>2. st.outbound_bytes_bucket.last_refill <= t
  <2>1. st.outbound_bytes_bucket.last_refill \in Nat /\ st.outbound_bytes_bucket.last_refill <= s
    BY DEF PeerAccount, PeerState, Bucket
  <2> QED
    BY <2>1
<1> QED
  BY <1>1, <1>2 DEF PeerAccount

\* A peer that is not known yet starts with full buckets.
LEMMA StateAccount ==
    ASSUME MeterInv, now \in Nat, NEW p
    PROVE  PeerAccount(StateOf(p), CountOf(p), now)
<1>1. CASE p \in DOMAIN limiter
  BY <1>1 DEF MeterInv, StateOf, CountOf
<1>2. CASE p \notin DOMAIN limiter
  BY <1>2, FreshAccount DEF StateOf, CountOf
<1> QED
  BY <1>1, <1>2

\* The rate limiter's map with one entry replaced.
LEMMA PutAccount ==
    ASSUME MeterInv, NEW p \in Peers, NEW st, NEW c, PeerAccount(st, c, now),
           limiter' = Put(limiter, p, st), admitted' = Put(admitted, p, c), now' = now
    PROVE  MeterInv'
<1>1. DOMAIN limiter' = DOMAIN limiter \cup {p} /\ DOMAIN admitted' = DOMAIN limiter'
  BY DEF Put, MeterInv
<1>2. ASSUME NEW q \in DOMAIN limiter'
      PROVE  PeerAccount(limiter'[q], admitted'[q], now')
  <2>1. CASE q = p
    <3>1. limiter'[q] = st /\ admitted'[q] = c
      BY <1>1, <2>1 DEF Put, MeterInv
    <3> QED
      BY <3>1
  <2>2. CASE q # p
    <3>1. q \in DOMAIN limiter /\ limiter'[q] = limiter[q] /\ admitted'[q] = admitted[q]
      BY <1>1, <2>2 DEF Put, MeterInv
    <3> QED
      BY <3>1 DEF MeterInv
  <2> QED
    BY <2>1, <2>2
<1> QED
  BY <1>1, <1>2 DEF MeterInv

\* Every step keeps the accounts.
LEMMA MeterStep ==
    ASSUME TypeInv, MeterInv, [Next]_vars
    PROVE  MeterInv'
<1>a. now \in Nat
  BY Constants DEF TypeInv, NetworkType
<1>1. CASE UNCHANGED <<metered, now>>
  BY <1>1 DEF MeterInv, metered
<1>2. CASE Tick
  <2>1. now' \in Nat /\ now <= now' /\ limiter' = limiter /\ admitted' = admitted
    BY <1>2, <1>a DEF Tick, metered
  <2> QED
    BY <1>a, <2>1, AccountLater DEF MeterInv
<1>3. CASE TakeMessage
  <2> DEFINE m == Head(events)
             a == admit(StateOf(m.peer), m.of, m.size, now)
             c == CountOf(m.peer)
             d == [c EXCEPT !.messages[m.of] = @ + 1, !.bytes = @ + m.size]
  <2>0. CASE m.of \notin Kinds
    BY <1>1, <1>3, <2>0 DEF TakeMessage, admit_inbound, metered
  <2> SUFFICES ASSUME m.of \in Kinds
               PROVE  MeterInv'
    BY <2>0
  <2>1. m \in NodeEvent /\ m.kind = "message" /\ Meter(m) /\ now' = now
    BY <1>3 DEF TakeMessage, TypeInv, ChannelType, admit_inbound
  <2>2. m.peer \in Peers /\ m.of \in Kinds /\ m.size \in Nat
    <3>1. m \in Message
      BY <2>1 DEF NodeEvent, Message
    <3>2. m.peer \in Talkers /\ m.size \in Sizes \cup {0}
      BY <3>1 DEF Message
    <3>3. Talkers \subseteq Peers /\ Sizes \cup {0} \subseteq Nat
      BY OverlayAssumption
    <3> HIDE DEF m
    <3>4. m.size \in Nat
      BY <3>2, <3>3, Zenon
    <3> QED
      BY <3>2, <3>3, <3>4
  <2> HIDE DEF m
  <2>3. PeerAccount(StateOf(m.peer), c, now)
    BY <1>a, StateAccount
  <2>4. /\ limiter' = Put(limiter, m.peer, a.state)
        /\ admitted' = Put(admitted, m.peer, IF a.decision = "allow" THEN d ELSE c)
    BY <2>1 DEF Meter
  <2>5. PeerAccount(a.state, IF a.decision = "allow" THEN d ELSE c, now)
    BY <1>a, <2>2, <2>3, AdmitAccount
  <2> HIDE DEF a, c, d
  <2> QED
    BY <2>1, <2>2, <2>4, <2>5, PutAccount
<1>4. CASE TakePeerEvent
  <2>1. now' = now
    BY <1>4 DEF TakePeerEvent
  <2>2. CASE limiter' = limiter /\ admitted' = admitted
    BY <2>1, <2>2 DEF MeterInv
  <2>3. CASE \E p : limiter' = Forget(limiter, p) /\ admitted' = Forget(admitted, p)
    BY <2>1, <2>3 DEF MeterInv, Forget
  <2> QED
    BY <1>4, <2>2, <2>3 DEF TakePeerEvent
<1>5. CASE send_outbound
  <2>1. CASE UNCHANGED metered
    BY <1>1, <1>5, <2>1 DEF send_outbound
  <2>2. CASE \E p \in Talkers, size \in OutSizes :
                LET a == admit_outbound(StateOf(p), size, now)
                IN /\ limiter' = Put(limiter, p, a.state)
                   /\ admitted' = Put(admitted, p, CountOf(p))
    <3>1. PICK p \in Talkers, size \in OutSizes :
                /\ limiter' = Put(limiter, p, admit_outbound(StateOf(p), size, now).state)
                /\ admitted' = Put(admitted, p, CountOf(p))
      BY <2>2
    <3>2. PeerAccount(StateOf(p), CountOf(p), now)
      BY <1>a, StateAccount
    <3>3. size \in Nat /\ p \in Peers
      BY Constants
    <3>4. PeerAccount(admit_outbound(StateOf(p), size, now).state, CountOf(p), now)
      BY <1>a, <3>2, <3>3, AdmitOutboundAccount
    <3>5. now' = now
      BY <1>5 DEF send_outbound
    <3> QED
      BY <3>1, <3>3, <3>4, <3>5, PutAccount
  <2> QED
    BY <1>5, <2>1, <2>2 DEF send_outbound
<1>6. CASE \/ DriverSteps \/ redial_missing_bootstraps
           \/ Subscribe \/ ReadKnownPeers \/ TakeDiscovery \/ Handover
  <2>1. UNCHANGED <<metered, now>>
    BY <1>6 DEF DriverSteps, HandleCommand, HandleSwarmEvent, DriverSends, redial_missing_bootstraps,
                Subscribe, ReadKnownPeers, TakeDiscovery, Handover
  <2> QED
    BY <1>1, <2>1
<1>7. CASE \E p \in Talkers, kind \in Tags, size \in Sizes : PeerSends(p, kind, size)
  BY <1>1, <1>7 DEF PeerSends
<1>8. ASSUME NEW p \in Peers,
             \/ DialSucceeds(p) \/ DialFails(p) \/ Accept(p)
             \/ \E side \in {"dialed", "accepted"} : Breaks(p, side)
      PROVE  MeterInv'
  BY <1>1, <1>8 DEF DialSucceeds, DialFails, Accept, Breaks
<1>9. CASE UNCHANGED vars
  BY <1>1, <1>9 DEF vars, metered
<1> QED
  BY <1>2, <1>3, <1>4, <1>5, <1>6, <1>7, <1>8, <1>9 DEF Next, NodeSteps

\* The accounts give the bound.
LEMMA AccountBounds ==
    ASSUME TypeInv, MeterInv
    PROVE  AdmissionBounded
<1>a. now \in Nat
  BY Constants DEF TypeInv, NetworkType
<1>1. ASSUME NEW b, NEW rate \in Nat, NEW given, NEW since \in Nat,
             BucketAccount(b, rate, given, since, now)
      PROVE  given <= capacity(rate) + (now - since) * rate
  <2>1. capacity(rate) \in Nat
    BY CapacityType
  <2>2. /\ b.tokens \in Nat /\ b.last_refill \in Nat /\ given \in Nat
        /\ since <= b.last_refill /\ b.last_refill <= now
        /\ given + b.tokens <= capacity(rate) + (b.last_refill - since) * rate
    BY <1>1 DEF BucketAccount, Bucket
  <2> DEFINE before == (b.last_refill - since) * rate
             poured == (now - b.last_refill) * rate
             all == (now - since) * rate
  <2>3. before \in Nat /\ poured \in Nat /\ all \in Nat /\ all = before + poured
    BY <1>a, <2>2, Pours
  <2>4. given + b.tokens <= capacity(rate) + before
    BY <2>2
  <2> HIDE DEF before, poured, all
  <2>5. given <= capacity(rate) + all
    BY <2>1, <2>2, <2>3, <2>4
  <2> QED
    BY <2>5 DEF all
<1>2. ASSUME NEW p \in DOMAIN admitted
      PROVE  LET elapsed == now - admitted[p].since
             IN /\ admitted[p].bytes <= capacity(BytesRate) + elapsed * BytesRate
                /\ \A k \in Kinds :
                     admitted[p].messages[k] <= capacity(KindRate[k]) + elapsed * KindRate[k]
  <2>1. PeerAccount(limiter[p], admitted[p], now)
    BY DEF MeterInv
  <2>2. admitted[p].since \in Nat
    BY <2>1 DEF PeerAccount, Count
  <2>3. BytesRate \in Nat /\ \A k \in Kinds : KindRate[k] \in Nat
    BY RateLimiterAssumption
  <2>4. admitted[p].bytes <= capacity(BytesRate) + (now - admitted[p].since) * BytesRate
    BY <1>1, <2>1, <2>2, <2>3 DEF PeerAccount
  <2>5. ASSUME NEW k \in Kinds
        PROVE  admitted[p].messages[k]
                  <= capacity(KindRate[k]) + (now - admitted[p].since) * KindRate[k]
    BY <1>1, <2>1, <2>2, <2>3 DEF PeerAccount
  <2> QED
    BY <2>4, <2>5
<1> QED
  BY <1>2 DEF AdmissionBounded

\* The type invariant and the accounts hold together, since what is known to the
\* limiter are peers.
LEMMA TypeMeterInvariant == Spec => [](TypeInv /\ MeterInv)
<1>1. Init => TypeInv /\ MeterInv
  <2>1. Init => MeterInv
    BY DEF Init, MeterInv
  <2> QED
    BY <2>1, InitType
<1>2. TypeInv /\ MeterInv /\ [Next]_vars => (TypeInv /\ MeterInv)'
  <2> SUFFICES ASSUME TypeInv, MeterInv, [Next]_vars PROVE TypeInv' /\ MeterInv'
    OBVIOUS
  <2>1. MeterInv'
    BY MeterStep
  <2>2. CASE DriverSteps
    BY <2>1, <2>2, DriverStepType
  <2>3. CASE NodeSteps
    BY <2>1, <2>3, NodeStepType DEF MeterInv
  <2>4. CASE UNCHANGED vars
    BY <2>1, <2>4 DEF vars, TypeInv, NetworkType, DriverType, ChannelType, NodeType
  <2> QED
    BY <2>1, <2>2, <2>3, <2>4, NetworkStepType DEF Next
<1> QED
  BY <1>1, <1>2, PTL DEF Spec

\* The variables keep their types and no channel ever holds more than its
\* capacity: the driver waits for room among the events, the loop for room among
\* the commands, and a full broadcast channel drops its oldest entry.
THEOREM TypeCorrect == Spec => []TypeOK
<1>1. TypeInv /\ MeterInv => TypeOK
  <2> SUFFICES ASSUME TypeInv, MeterInv PROVE TypeOK
    OBVIOUS
  <2>1. Len(node.waiting) <= 1
    <3>1. node.waiting = <<>> \/ \E c \in Command : node.waiting = <<c>>
      BY DEF TypeInv, NodeType
    <3>2. CASE node.waiting = <<>>
      <4>1. Len(node.waiting) = 0
        BY <3>2
      <4> QED
        BY <4>1
    <3>3. CASE \E c \in Command : node.waiting = <<c>>
      <4>1. Len(node.waiting) = 1
        BY <3>3
      <4> QED
        BY <4>1
    <3> QED
      BY <3>1, <3>2, <3>3
  <2>2. /\ node.phase \in {"starting", "subscribed", "running"}
        /\ node.peers_connected \subseteq Peers /\ node.sends \in 0..Max({1, MaxReplies})
    BY DEF TypeInv, NodeType
  <2>3. driver.peers \subseteq Peers /\ driver.outbound_bootstrap \subseteq Bootstraps
    BY DEF TypeInv, DriverType
  <2> QED
    BY <2>1, <2>2, <2>3, Zenon
       DEF TypeOK, TypeInv, NetworkType, ChannelType, NodeType, MeterInv, Sides
<1> QED
  BY <1>1, TypeMeterInvariant, PTL

\* However the messages of a peer are refused, refunded and refilled in between
\* (admit, limits.rs), since it is known the peer has never got more through, in
\* messages with a known wire tag, than one burst and the rate allow, for each
\* kind of message and in bytes.  What comes without such a tag is not metered
\* (admit_inbound) and not counted here.
THEOREM AdmissionIsBounded == Spec => []AdmissionBounded
<1>1. TypeInv /\ MeterInv => AdmissionBounded
  BY AccountBounds
<1> QED
  BY <1>1, TypeMeterInvariant, PTL

-----------------------------------------------------------------------------
(***************************************************************************)
(* The last word of a channel.                                             *)
(***************************************************************************)

\* An entry is added.
LEMMA WordAppend ==
    ASSUME NEW S, NEW s \in Seq(S), NEW e, NEW Y, NEW N, NEW p, NEW A, NEW B
    PROVE  /\ e \in Y \cup N /\ (e \in Y <=> p \in B) =>
                LastWord(Append(s, e), Y, N, p, B) /\ ~Silent(Append(s, e), Y, N)
           /\ e \notin Y \cup N /\ LastWord(s, Y, N, p, A) /\ (p \in A <=> p \in B) =>
                LastWord(Append(s, e), Y, N, p, B)
           /\ Silent(Append(s, e), Y, N) => Silent(s, Y, N)
<1> DEFINE t == Append(s, e)
           n == Len(s)
<1>1. n \in Nat /\ DOMAIN s = 1..n
  OBVIOUS
<1>2. DOMAIN t = 1..(n + 1) /\ t[n + 1] = e /\ \A i \in 1..n : t[i] = s[i]
  <2>1. t \in Seq(S \cup {e}) /\ Len(t) = n + 1
    OBVIOUS
  <2> QED
    BY <2>1
<1> HIDE DEF t, n
<1>3. n + 1 \in DOMAIN t /\ \A i \in DOMAIN t : i # n + 1 => i \in 1..n /\ i < n + 1
  BY <1>1, <1>2
<1>4. \A i \in DOMAIN s : i \in DOMAIN t /\ t[i] = s[i] /\ i < n + 1
  BY <1>1, <1>2
<1>5. ASSUME e \in Y \cup N, e \in Y <=> p \in B
      PROVE  LastWord(t, Y, N, p, B) /\ ~Silent(t, Y, N)
  BY <1>2, <1>3, <1>5 DEF LastWord, Silent
<1>6. ASSUME e \notin Y \cup N, LastWord(s, Y, N, p, A), p \in A <=> p \in B
      PROVE  LastWord(t, Y, N, p, B)
  <2> SUFFICES ASSUME NEW i \in DOMAIN t, t[i] \in Y \cup N,
                      \A j \in DOMAIN t : i < j => t[j] \notin Y \cup N
               PROVE  t[i] \in Y <=> p \in B
    BY DEF LastWord
  <2>1. i \in DOMAIN s /\ t[i] = s[i]
    BY <1>1, <1>2, <1>3, <1>6
  <2>2. \A j \in DOMAIN s : i < j => s[j] \notin Y \cup N
    BY <1>4
  <2> QED
    BY <1>6, <2>1, <2>2 DEF LastWord
<1>7. Silent(t, Y, N) => Silent(s, Y, N)
  BY <1>4 DEF Silent
<1> QED
  BY <1>5, <1>6, <1>7 DEF t

\* The oldest entry is taken.
LEMMA WordTail ==
    ASSUME NEW S, NEW s \in Seq(S), s # <<>>, NEW Y, NEW N, NEW p, NEW A
    PROVE  /\ LastWord(s, Y, N, p, A) => LastWord(Tail(s), Y, N, p, A)
           /\ LastWord(s, Y, N, p, A) /\ Silent(Tail(s), Y, N) /\ Head(s) \in Y \cup N =>
                (Head(s) \in Y <=> p \in A)
           /\ Silent(Tail(s), Y, N) /\ Head(s) \notin Y \cup N => Silent(s, Y, N)
<1> DEFINE t == Tail(s)
           n == Len(s)
<1>1. n \in Nat /\ n > 0 /\ DOMAIN s = 1..n /\ Head(s) = s[1]
  OBVIOUS
<1>2. DOMAIN t = 1..(n - 1) /\ \A i \in 1..(n - 1) : t[i] = s[i + 1]
  OBVIOUS
<1> HIDE DEF t, n
<1>3. \A i \in DOMAIN t : i \in Int /\ i + 1 \in DOMAIN s /\ t[i] = s[i + 1]
  BY <1>1, <1>2
<1>4. \A j \in DOMAIN s : j \in Int /\ (1 < j => j - 1 \in DOMAIN t /\ t[j - 1] = s[j])
  BY <1>1, <1>2
<1>5. \A j \in DOMAIN s : j = 1 \/ 1 < j
  BY <1>1
<1>6. ASSUME LastWord(s, Y, N, p, A)
      PROVE  LastWord(t, Y, N, p, A)
  <2> SUFFICES ASSUME NEW i \in DOMAIN t, t[i] \in Y \cup N,
                      \A j \in DOMAIN t : i < j => t[j] \notin Y \cup N
               PROVE  t[i] \in Y <=> p \in A
    BY DEF LastWord
  <2>1. i + 1 \in DOMAIN s /\ s[i + 1] = t[i] /\ i \in Int /\ i >= 1
    BY <1>1, <1>2, <1>3
  <2>2. ASSUME NEW j \in DOMAIN s, i + 1 < j
        PROVE  s[j] \notin Y \cup N
    <3>1. j \in Int /\ j - 1 \in DOMAIN t /\ t[j - 1] = s[j]
      BY <1>4, <2>1, <2>2
    <3>2. i < j - 1
      BY <2>1, <2>2, <3>1
    <3> QED
      BY <3>1, <3>2
  <2> QED
    BY <1>6, <2>1, <2>2 DEF LastWord
<1>7. ASSUME LastWord(s, Y, N, p, A), Silent(t, Y, N), s[1] \in Y \cup N
      PROVE  s[1] \in Y <=> p \in A
  <2>1. 1 \in DOMAIN s
    BY <1>1
  <2>2. \A j \in DOMAIN s : 1 < j => s[j] \notin Y \cup N
    BY <1>4, <1>7 DEF Silent
  <2> QED
    BY <1>7, <2>1, <2>2 DEF LastWord
<1>8. Silent(t, Y, N) /\ s[1] \notin Y \cup N => Silent(s, Y, N)
  BY <1>4, <1>5 DEF Silent
<1> QED
  BY <1>1, <1>6, <1>7, <1>8 DEF t

\* Several entries are added, the last of which is a word on p, or none.
LEMMA WordConcat ==
    ASSUME NEW S, NEW s \in Seq(S), NEW u \in Seq(S), NEW Y, NEW N, NEW p, NEW A, NEW B
    PROVE  /\ u # <<>> /\ u[Len(u)] \in N /\ u[Len(u)] \notin Y /\ p \notin B =>
                LastWord(s \o u, Y, N, p, B) /\ ~Silent(s \o u, Y, N)
           /\ Silent(u, Y, N) /\ LastWord(s, Y, N, p, A) /\ (p \in A <=> p \in B) =>
                LastWord(s \o u, Y, N, p, B)
           /\ Silent(s \o u, Y, N) => Silent(s, Y, N)
<1> DEFINE t == s \o u
           n == Len(s)
           m == Len(u)
<1>1. n \in Nat /\ DOMAIN s = 1..n /\ m \in Nat /\ DOMAIN u = 1..m
  OBVIOUS
<1>2. /\ DOMAIN t = 1..(n + m) /\ \A i \in 1..n : t[i] = s[i]
      /\ \A i \in 1..m : t[n + i] = u[i]
  OBVIOUS
<1>3. u # <<>> => m > 0
  OBVIOUS
<1> HIDE DEF t, n, m
<1>4. \A i \in DOMAIN t : i \in Int /\ (i \in 1..n \/ (i - n \in DOMAIN u /\ t[i] = u[i - n]))
  <2> SUFFICES ASSUME NEW i \in DOMAIN t, i \notin 1..n
               PROVE  i - n \in DOMAIN u /\ t[i] = u[i - n]
    BY <1>1, <1>2
  <2>1. i - n \in 1..m /\ n + (i - n) = i
    BY <1>1, <1>2
  <2> QED
    BY <1>1, <1>2, <2>1
<1>5. \A i \in DOMAIN s : i \in DOMAIN t /\ t[i] = s[i]
  BY <1>1, <1>2
<1>6. ASSUME u # <<>>, u[m] \in N, u[m] \notin Y, p \notin B
      PROVE  LastWord(t, Y, N, p, B) /\ ~Silent(t, Y, N)
  <2>1. n + m \in DOMAIN t /\ t[n + m] = u[m]
    BY <1>1, <1>2, <1>3, <1>6
  <2>2. \A i \in DOMAIN t : i = n + m \/ i < n + m
    BY <1>1, <1>2
  <2> QED
    BY <1>6, <2>1, <2>2 DEF LastWord, Silent
<1>7. ASSUME Silent(u, Y, N), LastWord(s, Y, N, p, A), p \in A <=> p \in B
      PROVE  LastWord(t, Y, N, p, B)
  <2> SUFFICES ASSUME NEW i \in DOMAIN t, t[i] \in Y \cup N,
                      \A j \in DOMAIN t : i < j => t[j] \notin Y \cup N
               PROVE  t[i] \in Y <=> p \in B
    BY DEF LastWord
  <2>1. i \in DOMAIN s /\ t[i] = s[i]
    BY <1>1, <1>2, <1>4, <1>7 DEF Silent
  <2>2. \A j \in DOMAIN s : i < j => s[j] \notin Y \cup N
    BY <1>5
  <2> QED
    BY <1>7, <2>1, <2>2 DEF LastWord
<1>8. Silent(t, Y, N) => Silent(s, Y, N)
  BY <1>5 DEF Silent
<1> QED
  BY <1>6, <1>7, <1>8 DEF t, m

-----------------------------------------------------------------------------
(***************************************************************************)
(* Who thinks whom connected.                                              *)
(***************************************************************************)

\* What the entries of the swarm say.
LEMMA SwarmWords ==
    ASSUME NEW p, NEW e \in SwarmEvent
    PROVE  /\ e \in UpOf(p) <=> e.kind = "up" /\ e.peer = p
           /\ e \in DownOf(p) <=> e.kind = "down" /\ e.peer = p /\ e.left = 0
           /\ e.kind = "up" => e.peer \in Peers
           /\ e.kind = "down" => e.peer \in Peers /\ e.left \in Nat
           /\ e.kind \in {"up", "down", "message"}
BY DEF UpOf, DownOf, SwarmEvent, Message

\* What the broadcasts say.
LEMMA DiscoWords ==
    ASSUME NEW p, NEW w \in DiscoEvent
    PROVE  /\ w \in AddedOf(p) <=> w.kind = "added" /\ w.peer = p
           /\ w \in RemovedOf(p) <=> w.kind = "removed" /\ w.peer = p
           /\ w.kind \in {"added", "removed"} /\ w.peer \in Peers
BY DEF AddedOf, RemovedOf, DiscoEvent

\* The driver's picture of p only depends on these.
LEMMA DriverFrame ==
    ASSUME NEW p, DriverFollows(p), UNCHANGED <<links, swarm, driver.peers>>
    PROVE  DriverFollows(p)'
<1>1. Linked' = Linked
  BY DEF Linked
<1>2. driver'.peers = driver.peers /\ swarm' = swarm
  OBVIOUS
<1> QED
  BY <1>1, <1>2 DEF DriverFollows, LastWord, Silent

\* And the loop's on these.
LEMMA LoopFrame ==
    ASSUME NEW p, LoopFollows(p), UNCHANGED <<driver, disco, lagged, node.phase, node.peers_connected>>
    PROVE  LoopFollows(p)'
<1>1. Announcements(p)' = Announcements(p)
  BY DEF Announcements
<1> QED
  BY <1>1 DEF LoopFollows, LastWord, Silent

\* Connections are established and break, messages arrive: the driver's picture
\* is behind, and the swarm's events say how.
LEMMA NetworkFollows ==
    ASSUME TypeInv, NEW p \in Peers, DriverFollows(p), NEW q \in Peers, driver'.peers = driver.peers,
           \/ \E side \in Sides : Established(q, side)
           \/ \E side \in Sides : Breaks(q, side)
           \/ /\ links' = links
              /\ \E kind \in Tags, size \in Sizes :
                   q \in Talkers /\ PeerSends(q, kind, size)
    PROVE  DriverFollows(p)'
<1>0. links \in [Peers -> SUBSET Sides] /\ swarm \in Seq(SwarmEvent)
  BY DEF TypeInv, NetworkType
<1>1. ASSUME NEW side \in Sides, Established(q, side)
      PROVE  DriverFollows(p)'
  <2>1. Up(q, side) \in SwarmEvent /\ Up(q, side).kind = "up" /\ Up(q, side).peer = q
    BY DEF Up, SwarmEvent
  <2>2. swarm' = Append(swarm, Up(q, side))
    BY <1>1 DEF Established
  <2>3. q \in Linked' /\ (p # q => (p \in Linked' <=> p \in Linked))
    BY <1>0, <1>1 DEF Established, Linked
  <2>4. p = q => Up(q, side) \in UpOf(p)
    BY <2>1, SwarmWords
  <2>5. p # q => Up(q, side) \notin UpOf(p) \cup DownOf(p)
    BY <2>1, SwarmWords
  <2>6. CASE p = q
    BY <1>0, <2>2, <2>3, <2>4, <2>6, WordAppend DEF DriverFollows
  <2>7. CASE p # q
    BY <1>0, <2>2, <2>3, <2>5, <2>7, WordAppend DEF DriverFollows
  <2> QED
    BY <2>6, <2>7
<1>2. ASSUME NEW side \in Sides, Breaks(q, side)
      PROVE  DriverFollows(p)'
  <2> DEFINE n == Cardinality(links[q])
             e == Down(q, n - 1)
  <2>1. links[q] \in SUBSET Sides /\ side \in links[q] /\ links'[q] = links[q] \ {side}
    BY <1>0, <1>2 DEF Breaks
  <2>2. IsFiniteSet(links[q]) /\ n \in Nat /\ n # 0
    BY <2>1, LinksFinite
  <2>3. n - 1 = 0 <=> links'[q] = {}
    <3>1. Cardinality(links'[q]) = n - 1
      <4>1. Cardinality(links[q] \ {side}) = Cardinality(links[q]) - 1
        BY <2>1, <2>2, FS_RemoveElement, Zenon
      <4> QED
        BY <2>1, <4>1
    <3>2. links'[q] \in SUBSET Sides
      BY <2>1
    <3> QED
      BY <3>1, <3>2, LinksFinite
  <2>4. swarm' = Append(swarm, e)
    BY <1>2 DEF Breaks
  <2> HIDE DEF n
  <2>5. e \in SwarmEvent /\ e.kind = "down" /\ e.peer = q /\ e.left = n - 1
    BY <2>2 DEF Down, SwarmEvent
  <2> HIDE DEF e
  <2>6. q \in Linked /\ (q \in Linked' <=> n - 1 # 0) /\ (p # q => (p \in Linked' <=> p \in Linked))
    BY <1>0, <1>2, <2>1, <2>3 DEF Breaks, Linked
  <2>7. CASE p = q /\ n - 1 = 0
    <3>1. e \in DownOf(p) /\ e \notin UpOf(p) /\ p \notin Linked'
      BY <2>5, <2>6, <2>7, SwarmWords
    <3> QED
      BY <1>0, <2>4, <3>1, WordAppend DEF DriverFollows
  <2>8. CASE p # q \/ n - 1 # 0
    <3>1. e \notin UpOf(p) \cup DownOf(p) /\ (p \in Linked' <=> p \in Linked)
      BY <2>5, <2>6, <2>8, SwarmWords
    <3> QED
      BY <1>0, <2>4, <3>1, WordAppend DEF DriverFollows
  <2> QED
    BY <2>7, <2>8
<1>3. ASSUME links' = links, NEW kind \in Tags, NEW size \in Sizes, q \in Talkers,
             PeerSends(q, kind, size)
      PROVE  DriverFollows(p)'
  <2> DEFINE e == [kind |-> "message", peer |-> q, of |-> kind,
                   size |-> IF kind \in Kinds THEN size ELSE 0]
  <2>1. e \in SwarmEvent /\ e.kind = "message"
    BY <1>3 DEF SwarmEvent, Message
  <2>2. swarm' = Append(swarm, e)
    BY <1>3 DEF PeerSends
  <2> HIDE DEF e
  <2>3. e \notin UpOf(p) \cup DownOf(p)
    BY <2>1, SwarmWords
  <2>4. Linked' = Linked
    BY <1>3 DEF Linked
  <2> QED
    BY <1>0, <2>2, <2>3, <2>4, WordAppend DEF DriverFollows
<1> QED
  BY <1>1, <1>2, <1>3

\* A disconnection that the rate limiter ordered closes every connection of the
\* peer at once; the last of its events says that none is left.
LEMMA CommandFollows ==
    ASSUME TypeInv, NEW p \in Peers, DriverFollows(p), HandleCommand
    PROVE  DriverFollows(p)'
<1> DEFINE cmd == Head(cmds)
           q == cmd.peer
           u == Hangup(q)
<1>0. links \in [Peers -> SUBSET Sides] /\ swarm \in Seq(SwarmEvent) /\ driver' = driver
  BY DEF TypeInv, NetworkType, HandleCommand
<1>1. CASE cmd.kind # "disconnect"
  BY <1>0, <1>1, DriverFrame DEF HandleCommand
<1>2. CASE cmd.kind = "disconnect"
  <2>1. cmd \in Command
    BY DEF TypeInv, ChannelType, HandleCommand
  <2>2. q \in Peers
    BY <1>2, <2>1 DEF Command
  <2>3. links' = [links EXCEPT ![q] = {}] /\ swarm' = swarm \o u
    BY <1>2 DEF HandleCommand
  <2> DEFINE n == Cardinality(links[q])
  <2> HIDE DEF cmd, q
  <2>4. n \in Nat /\ (n = 0 <=> links[q] = {}) /\ links[q] \in SUBSET Sides
    BY <1>0, <2>2, LinksFinite
  <2>5. u \in Seq(SwarmEvent) /\ Len(u) = n /\ \A i \in 1..n : u[i] = Down(q, n - i)
    BY <2>2, <2>4, HangupType
  <2> HIDE DEF u, n
  <2>6. q \notin Linked' /\ (p # q => (p \in Linked' <=> p \in Linked))
    BY <1>0, <2>2, <2>3 DEF Linked
  <2>7. CASE p = q /\ n # 0
    <3>1. u # <<>> /\ u[Len(u)] = Down(q, n - n) /\ n - n = 0
      BY <2>4, <2>5, <2>7
    <3>2. Down(q, 0) \in DownOf(p) /\ Down(q, 0) \notin UpOf(p)
      BY <2>2, <2>7 DEF DownOf, UpOf, Down, SwarmEvent
    <3>3. u[Len(u)] \in DownOf(p) /\ u[Len(u)] \notin UpOf(p)
      BY <3>1, <3>2
    <3> QED
      BY <1>0, <2>3, <2>5, <2>6, <2>7, <3>1, <3>3, WordConcat DEF DriverFollows
  <2>8. CASE p # q \/ n = 0
    <3>1. Silent(u, UpOf(p), DownOf(p))
      <4> SUFFICES ASSUME NEW i \in DOMAIN u
                   PROVE  u[i] \notin UpOf(p) \cup DownOf(p)
        BY DEF Silent
      <4>1. i \in 1..n /\ u[i] = Down(q, n - i) /\ u[i] \in SwarmEvent
        BY <2>4, <2>5
      <4>2. n # 0
        BY <2>4, <4>1
      <4>3. u[i].peer = q
        BY <4>1 DEF Down
      <4> QED
        BY <2>8, <4>1, <4>2, <4>3, SwarmWords
    <3>2. p \in Linked' <=> p \in Linked
      BY <2>4, <2>6, <2>8 DEF Linked
    <3> QED
      BY <1>0, <2>3, <2>5, <3>1, <3>2, WordConcat DEF DriverFollows
  <2> QED
    BY <2>7, <2>8
<1> QED
  BY <1>1, <1>2

\* on_connected and on_disconnected, driver.rs: what the driver makes of an event.
LEMMA EventHandled ==
    ASSUME TypeInv, HandleSwarmEvent
    PROVE  LET e == Head(swarm)
           IN /\ e \in SwarmEvent
              /\ \A p \in Peers :
                   /\ e \in UpOf(p) => p \in driver'.peers
                   /\ e \in DownOf(p) => p \notin driver'.peers
                   /\ e \notin UpOf(p) \cup DownOf(p) =>
                        /\ p \in driver'.peers <=> p \in driver.peers
                        /\ Announcements(p)' = {}
                   /\ \A w \in Announcements(p)' : w \in AddedOf(p) <=> p \in driver'.peers
                   /\ Announcements(p)' = {} => (p \in driver'.peers <=> p \in driver.peers)
<1> DEFINE e == Head(swarm)
<1>1. e \in SwarmEvent
  BY DEF TypeInv, NetworkType, HandleSwarmEvent
<1>2. /\ driver \in [peers : SUBSET Peers, outbound_bootstrap : SUBSET Bootstraps,
                     sends : HandlerSends]
      /\ driver' = on_swarm_event(driver, e) /\ driver.sends = <<>>
  BY DEF TypeInv, DriverType, HandleSwarmEvent, Idle
<1> HIDE DEF e
<1>3. ASSUME NEW p \in Peers, driver'.sends = <<>>
      PROVE  Announcements(p)' = {}
  BY <1>3 DEF Announcements
<1>4. ASSUME NEW p \in Peers, NEW q \in Peers, NEW a, NEW tag \in {"added", "removed"},
             driver'.sends = <<a, ToDisco([kind |-> tag, peer |-> q])>>
      PROVE  /\ p # q => Announcements(p)' = {}
             /\ p = q => Announcements(p)' = {[kind |-> tag, peer |-> q]}
  <2> DEFINE x == [kind |-> tag, peer |-> q]
  <2>1. driver'.sends # <<>> /\ driver'.sends[Len(driver'.sends)] = ToDisco(x)
    BY <1>4
  <2>2. \A w : ToDisco(w) = ToDisco(x) <=> w = x
    BY DEF ToDisco
  <2>3. Announcements(p)' = {w \in AddedOf(p) \cup RemovedOf(p) : w = x}
    BY <2>1, <2>2 DEF Announcements, AddedOf, RemovedOf
  <2>4. p = q => x \in AddedOf(p) \cup RemovedOf(p)
    BY DEF AddedOf, RemovedOf
  <2>5. p # q => x \notin AddedOf(p) \cup RemovedOf(p)
    BY DEF AddedOf, RemovedOf
  <2> HIDE DEF x
  <2>6. (p # q => Announcements(p)' = {}) /\ (p = q => Announcements(p)' = {x})
    BY <2>3, <2>4, <2>5
  <2> QED
    BY <2>6 DEF x
<1>5. ASSUME NEW p \in Peers
      PROVE  /\ e \in UpOf(p) => p \in driver'.peers
             /\ e \in DownOf(p) => p \notin driver'.peers
             /\ e \notin UpOf(p) \cup DownOf(p) =>
                  (p \in driver'.peers <=> p \in driver.peers) /\ Announcements(p)' = {}
             /\ \A w \in Announcements(p)' : w \in AddedOf(p) <=> p \in driver'.peers
             /\ Announcements(p)' = {} => (p \in driver'.peers <=> p \in driver.peers)
  <2> DEFINE q == e.peer
  <2>1. CASE e.kind = "up"
    <3>1. q \in Peers /\ driver' = on_connected(driver, q, e.side)
      BY <1>1, <1>2, <2>1, SwarmWords DEF on_swarm_event
    <3>2. (e \in UpOf(p) <=> p = q) /\ e \notin DownOf(p)
      BY <1>1, <2>1, SwarmWords
    <3> DEFINE ob == IF e.side = "dialed" /\ q \in Bootstraps
                     THEN driver.outbound_bootstrap \cup {q} ELSE driver.outbound_bootstrap
               a == ToEvents([kind |-> "connected", peer |-> q])
               new == <<a, ToDisco([kind |-> "added", peer |-> q])>>
    <3>3. CASE q \in driver.peers
      <4>1. driver' = [driver EXCEPT !.outbound_bootstrap = ob]
        BY <1>2, <3>1, <3>3 DEF on_connected
      <4> HIDE DEF ob
      <4>2. driver'.peers = driver.peers /\ driver'.sends = <<>>
        BY <1>2, <4>1
      <4> QED
        BY <1>3, <3>2, <3>3, <4>2
    <3>4. CASE q \notin driver.peers
      <4>1. driver' = [[driver EXCEPT !.outbound_bootstrap = ob]
                          EXCEPT !.peers = driver.peers \cup {q}, !.sends = new]
        BY <1>2, <3>1, <3>4 DEF on_connected
      <4> HIDE DEF ob, a, new
      <4>2. driver'.peers = driver.peers \cup {q} /\ driver'.sends = new
        BY <1>2, <4>1
      <4>3. /\ p # q => Announcements(p)' = {}
            /\ p = q => Announcements(p)' = {[kind |-> "added", peer |-> q]}
        BY <1>4, <3>1, <4>2 DEF new
      <4>4. p = q => [kind |-> "added", peer |-> q] \in AddedOf(p)
        BY DEF AddedOf
      <4> HIDE DEF q
      <4> QED
        BY <3>2, <4>2, <4>3, <4>4
    <3> QED
      BY <3>3, <3>4
  <2>2. CASE e.kind = "down" /\ e.left = 0
    <3>1. q \in Peers /\ driver' = on_disconnected(driver, q)
      BY <1>1, <1>2, <2>2, SwarmWords DEF on_swarm_event
    <3>2. (e \in DownOf(p) <=> p = q) /\ e \notin UpOf(p)
      BY <1>1, <2>2, SwarmWords
    <3> DEFINE ob == driver.outbound_bootstrap \ {q}
               a == ToEvents([kind |-> "disconnected", peer |-> q])
               new == <<a, ToDisco([kind |-> "removed", peer |-> q])>>
    <3>3. CASE q \notin driver.peers
      <4>1. driver' = [driver EXCEPT !.outbound_bootstrap = ob]
        BY <1>2, <3>1, <3>3 DEF on_disconnected
      <4> HIDE DEF ob
      <4>2. driver'.peers = driver.peers /\ driver'.sends = <<>>
        BY <1>2, <4>1
      <4> QED
        BY <1>3, <3>2, <3>3, <4>2
    <3>4. CASE q \in driver.peers
      <4>1. driver' = [[driver EXCEPT !.outbound_bootstrap = ob]
                          EXCEPT !.peers = driver.peers \ {q}, !.sends = new]
        BY <1>2, <3>1, <3>4 DEF on_disconnected
      <4> HIDE DEF ob, a, new
      <4>2. driver'.peers = driver.peers \ {q} /\ driver'.sends = new
        BY <1>2, <4>1
      <4>3. /\ p # q => Announcements(p)' = {}
            /\ p = q => Announcements(p)' = {[kind |-> "removed", peer |-> q]}
        BY <1>4, <3>1, <4>2 DEF new
      <4>4. [kind |-> "removed", peer |-> q] \notin AddedOf(p)
        BY DEF AddedOf
      <4> HIDE DEF q
      <4> QED
        BY <3>2, <3>4, <4>2, <4>3, <4>4
    <3> QED
      BY <3>3, <3>4
  <2>3. CASE e.kind = "message"
    <3>1. driver' = [driver EXCEPT !.sends = <<ToEvents(e)>>]
      BY <1>2, <2>3 DEF on_swarm_event
    <3>2. driver'.peers = driver.peers /\ driver'.sends = <<ToEvents(e)>>
      BY <1>2, <3>1
    <3>3. driver'.sends[Len(driver'.sends)] = ToEvents(e)
      BY <3>2
    <3>4. \A w : ToEvents(e) # ToDisco(w)
      BY DEF ToEvents, ToDisco
    <3>5. Announcements(p)' = {}
      BY <3>3, <3>4 DEF Announcements
    <3>6. e \notin UpOf(p) \cup DownOf(p)
      BY <1>1, <2>3, SwarmWords
    <3> QED
      BY <3>2, <3>5, <3>6
  <2>4. CASE e.kind = "down" /\ e.left # 0
    <3>1. driver' = driver
      BY <1>2, <2>4 DEF on_swarm_event
    <3>2. e \notin UpOf(p) \cup DownOf(p)
      BY <1>1, <2>4, SwarmWords
    <3> QED
      BY <1>2, <1>3, <3>1, <3>2
  <2> QED
    BY <1>1, <2>1, <2>2, <2>3, <2>4, SwarmWords
<1> QED
  BY <1>1, <1>5 DEF e

\* The driver takes an event of the swarm.
LEMMA EventFollows ==
    ASSUME TypeInv, NEW p \in Peers, DriverFollows(p), LoopFollows(p), HandleSwarmEvent
    PROVE  DriverFollows(p)' /\ LoopFollows(p)'
<1> DEFINE e == Head(swarm)
<1>0. swarm \in Seq(SwarmEvent) /\ swarm # <<>> /\ swarm' = Tail(swarm) /\ links' = links
      /\ driver.sends = <<>> /\ UNCHANGED <<disco, lagged, node>>
  BY DEF TypeInv, NetworkType, HandleSwarmEvent, channels, Idle
<1>1. /\ e \in UpOf(p) => p \in driver'.peers
      /\ e \in DownOf(p) => p \notin driver'.peers
      /\ e \notin UpOf(p) \cup DownOf(p) =>
           (p \in driver'.peers <=> p \in driver.peers) /\ Announcements(p)' = {}
      /\ \A w \in Announcements(p)' : w \in AddedOf(p) <=> p \in driver'.peers
      /\ Announcements(p)' = {} => (p \in driver'.peers <=> p \in driver.peers)
  BY EventHandled
<1>2. Linked' = Linked
  BY <1>0 DEF Linked
<1>3. UpOf(p) \cap DownOf(p) = {}
  BY DEF UpOf, DownOf
<1>4. DriverFollows(p)'
  <2>1. LastWord(Tail(swarm), UpOf(p), DownOf(p), p, Linked)
    BY <1>0, WordTail DEF DriverFollows
  <2>2. ASSUME Silent(Tail(swarm), UpOf(p), DownOf(p))
        PROVE  p \in driver'.peers <=> p \in Linked
    <3>1. CASE e \in UpOf(p) \cup DownOf(p)
      <4>1. e \in UpOf(p) <=> p \in Linked
        BY <1>0, <2>2, <3>1, WordTail DEF DriverFollows
      <4> QED
        BY <1>1, <3>1, <4>1
    <3>2. CASE e \notin UpOf(p) \cup DownOf(p)
      <4>1. Silent(swarm, UpOf(p), DownOf(p))
        BY <1>0, <2>2, <3>2, WordTail
      <4> QED
        BY <1>1, <3>2, <4>1 DEF DriverFollows
    <3> QED
      BY <3>1, <3>2
  <2> HIDE DEF e
  <2> QED
    BY <1>0, <1>2, <2>1, <2>2 DEF DriverFollows
<1>5. LoopFollows(p)'
  <2>1. Announcements(p) = {}
    BY <1>0 DEF Announcements
  <2>2. /\ LastWord(disco, AddedOf(p), RemovedOf(p), p, driver.peers)
        /\ node.phase = "running" /\ ~lagged /\ Silent(disco, AddedOf(p), RemovedOf(p))
              => (p \in node.peers_connected <=> p \in driver.peers)
    BY <2>1 DEF LoopFollows
  <2>3. ASSUME Announcements(p)' = {}
        PROVE  LastWord(disco, AddedOf(p), RemovedOf(p), p, driver'.peers)
    BY <1>1, <2>2, <2>3 DEF LastWord
  <2> HIDE DEF e
  <2> QED
    BY <1>0, <1>1, <2>2, <2>3 DEF LoopFollows
<1> QED
  BY <1>4, <1>5

\* The driver sends what is left of a handler.
LEMMA SendFollows ==
    ASSUME TypeInv, FollowInv, NEW p \in Peers, DriverSends
    PROVE  LoopFollows(p)'
<1> DEFINE send == Head(driver.sends)
           s == driver.sends
<1>0. /\ s \in HandlerSends /\ s # <<>> /\ driver'.sends = Tail(s) /\ driver'.peers = driver.peers
      /\ node' = node /\ disco \in Seq(DiscoEvent)
  BY DEF TypeInv, DriverType, ChannelType, DriverSends, Idle
<1>1. /\ Tail(s) \in HandlerSends /\ send \in EventSends \cup DiscoSends
      /\ send = s[1] /\ Len(s) \in Nat \ {0}
      /\ Len(s) = 1 => Tail(s) = <<>>
      /\ Len(s) # 1 => Len(s) = 2 /\ send \in EventSends /\ s[2] \in DiscoSends /\ Tail(s) = <<s[2]>>
  BY <1>0, HandlerRest
<1>2. LoopFollows(p)
  BY DEF FollowInv
<1>3. (\A x \in EventSends : x.to = "events") /\ (\A x \in DiscoSends : x.to = "disco")
  BY DEF EventSends, DiscoSends, ToEvents, ToDisco
<1>4. CASE send.to = "events"
  <2>1. UNCHANGED <<disco, lagged>>
    BY <1>4 DEF DriverSends
  <2>2. send \in EventSends /\ \A w : send # ToDisco(w)
    BY <1>1, <1>3, <1>4 DEF ToDisco
  <2>3. Announcements(p)' = Announcements(p)
    <3>1. CASE Len(s) = 1
      <4>1. driver'.sends = <<>> /\ s[Len(s)] = send
        BY <1>0, <1>1, <3>1
      <4> HIDE DEF s, send
      <4> QED
        BY <2>2, <4>1 DEF Announcements, s
    <3>2. CASE Len(s) # 1
      <4>1. driver'.sends = <<s[2]>> /\ s[Len(s)] = s[2]
        BY <1>0, <1>1, <3>2
      <4>2. driver'.sends # <<>> /\ driver'.sends[Len(driver'.sends)] = s[2]
        BY <4>1
      <4> QED
        BY <1>0, <4>1, <4>2 DEF Announcements
    <3> QED
      BY <3>1, <3>2
  <2> HIDE DEF s, send
  <2> QED
    BY <1>0, <1>2, <2>1, <2>3 DEF LoopFollows
<1>5. CASE send.to = "disco"
  <2>1. send \in DiscoSends /\ Len(s) = 1 /\ driver'.sends = <<>> /\ s[Len(s)] = send
    BY <1>0, <1>1, <1>3, <1>5
  <2>2. PICK w \in DiscoEvent : send = ToDisco(w)
    BY <2>1 DEF DiscoSends
  <2>3. send.e = w
    BY <2>2 DEF ToDisco
  <2>4. Announcements(p)' = {}
    BY <2>1 DEF Announcements
  <2>5. w \in AddedOf(p) \cup RemovedOf(p) => w \in Announcements(p)
    BY <1>0, <2>1, <2>2 DEF Announcements
  <2>6. w \in AddedOf(p) \cup RemovedOf(p) => (w \in AddedOf(p) <=> p \in driver.peers)
    BY <1>2, <2>5 DEF LoopFollows
  <2>7. w \notin AddedOf(p) \cup RemovedOf(p) => Announcements(p) = {}
    <3>1. \A v : ToDisco(v) = ToDisco(w) <=> v = w
      BY DEF ToDisco
    <3> HIDE DEF s, send
    <3> QED
      BY <2>1, <2>2, <3>1 DEF Announcements, s
  <2> HIDE DEF s, send
  <2>8. CASE node.phase = "starting"
    <3>1. disco = <<>> /\ UNCHANGED disco
      BY <2>8, <1>5 DEF FollowInv, DriverSends, send
    <3>2. LastWord(disco', AddedOf(p), RemovedOf(p), p, driver'.peers)
      BY <3>1 DEF LastWord
    <3> QED
      BY <1>0, <2>4, <2>8, <3>2 DEF LoopFollows
  <2>9. CASE node.phase # "starting"
    <3> DEFINE kept == IF Len(disco) = DiscoCap THEN Tail(disco) ELSE disco
    <3>1. disco' = Append(kept, w) /\ lagged' = (lagged \/ Len(disco) = DiscoCap)
      BY <1>5, <2>3, <2>9 DEF DriverSends, send
    <3>2. kept \in Seq(DiscoEvent) /\ (Len(disco) = DiscoCap => disco # <<>>)
      <4>1. Len(disco) = DiscoCap => disco # <<>>
        BY Constants
      <4> QED
        BY <1>0, <4>1
    <3>3. CASE w \in AddedOf(p) \cup RemovedOf(p)
      <4> HIDE DEF kept
      <4>1. LastWord(disco', AddedOf(p), RemovedOf(p), p, driver.peers)
            /\ ~Silent(disco', AddedOf(p), RemovedOf(p))
        BY <2>6, <3>1, <3>2, <3>3, WordAppend
      <4> QED
        BY <1>0, <2>4, <4>1 DEF LoopFollows
    <3>4. CASE w \notin AddedOf(p) \cup RemovedOf(p)
      <4>1. /\ LastWord(disco, AddedOf(p), RemovedOf(p), p, driver.peers)
            /\ node.phase = "running" /\ ~lagged /\ Silent(disco, AddedOf(p), RemovedOf(p))
                  => (p \in node.peers_connected <=> p \in driver.peers)
        BY <1>2, <2>7, <3>4 DEF LoopFollows
      <4>2. LastWord(kept, AddedOf(p), RemovedOf(p), p, driver.peers)
        BY <1>0, <3>2, <4>1, WordTail
      <4>3. ~lagged' => ~lagged /\ kept = disco
        BY <3>1
      <4> HIDE DEF kept
      <4>4. LastWord(disco', AddedOf(p), RemovedOf(p), p, driver.peers)
            /\ (Silent(disco', AddedOf(p), RemovedOf(p)) => Silent(kept, AddedOf(p), RemovedOf(p)))
        BY <3>1, <3>2, <3>4, <4>2, WordAppend
      <4> QED
        BY <1>0, <2>4, <4>1, <4>3, <4>4 DEF LoopFollows
    <3> QED
      BY <3>3, <3>4
  <2> QED
    BY <2>8, <2>9
<1> QED
  BY <1>1, <1>3, <1>4, <1>5

\* The loop takes a discovery event, or learns that it has missed some.
LEMMA DiscoveryFollows ==
    ASSUME TypeInv, NEW p \in Peers, LoopFollows(p), TakeDiscovery
    PROVE  LoopFollows(p)'
<1>0. /\ driver' = driver /\ disco \in Seq(DiscoEvent)
      /\ node \in [phase : {"starting", "subscribed", "running"}, peers_connected : SUBSET Peers,
                   sends : 0..Max({1, MaxReplies}),
                   waiting : {<<>>} \cup {<<c>> : c \in Command}]
  BY DEF TypeInv, ChannelType, NodeType, TakeDiscovery
<1>1. Announcements(p)' = Announcements(p)
  BY <1>0 DEF Announcements
<1>2. CASE lagged' = FALSE /\ node' = OnLagged(node) /\ UNCHANGED disco
  <2>1. node'.peers_connected = driver.peers
    BY <1>0, <1>2 DEF OnLagged, known_peers
  <2> QED
    BY <1>0, <1>1, <1>2, <2>1 DEF LoopFollows
<1>3. CASE /\ ~lagged /\ disco # <<>> /\ disco' = Tail(disco) /\ UNCHANGED lagged
           /\ \E k \in Sends(1) : node' = [OnDiscoveryEvent(node, Head(disco)) EXCEPT !.sends = k]
  <2> DEFINE w == Head(disco)
  <2>1. w \in DiscoEvent
    BY <1>0, <1>3
  <2>2. /\ node'.phase = node.phase
        /\ node'.peers_connected = IF w.kind = "added" THEN node.peers_connected \cup {w.peer}
                                   ELSE node.peers_connected \ {w.peer}
    BY <1>0, <1>3 DEF OnDiscoveryEvent
  <2>3. node.phase = "running"
    BY DEF TakeDiscovery, Free
  <2> HIDE DEF w
  <2>4. ASSUME Announcements(p) = {}
        PROVE  /\ LastWord(disco', AddedOf(p), RemovedOf(p), p, driver.peers)
               /\ Silent(disco', AddedOf(p), RemovedOf(p)) =>
                    (p \in node'.peers_connected <=> p \in driver.peers)
    <3>1. LastWord(disco, AddedOf(p), RemovedOf(p), p, driver.peers)
      BY <2>4 DEF LoopFollows
    <3>2. LastWord(disco', AddedOf(p), RemovedOf(p), p, driver.peers)
      BY <1>0, <1>3, <3>1, WordTail
    <3>3. ASSUME Silent(disco', AddedOf(p), RemovedOf(p))
          PROVE  p \in node'.peers_connected <=> p \in driver.peers
      <4>1. CASE w \in AddedOf(p) \cup RemovedOf(p)
        <5>1. w \in AddedOf(p) <=> p \in driver.peers
          BY <1>0, <1>3, <3>1, <3>3, <4>1, WordTail DEF w
        <5> QED
          BY <2>1, <2>2, <4>1, <5>1, DiscoWords
      <4>2. CASE w \notin AddedOf(p) \cup RemovedOf(p)
        <5>1. Silent(disco, AddedOf(p), RemovedOf(p))
          BY <1>0, <1>3, <3>3, <4>2, WordTail DEF w
        <5>2. w.peer # p
          BY <2>1, <4>2, DiscoWords
        <5>3. p \in node.peers_connected <=> p \in driver.peers
          BY <1>3, <2>3, <2>4, <5>1 DEF LoopFollows
        <5> QED
          BY <2>2, <5>2, <5>3
      <4> QED
        BY <4>1, <4>2
    <3> QED
      BY <3>2, <3>3
  <2> QED
    BY <1>0, <1>1, <2>4 DEF LoopFollows
<1> QED
  BY <1>2, <1>3 DEF TakeDiscovery

\* Every step keeps FollowInv.
LEMMA FollowStep ==
    ASSUME TypeInv, FollowInv, [Next]_vars
    PROVE  FollowInv'
<1>a. ASSUME NEW p \in Peers
      PROVE  DriverFollows(p) /\ LoopFollows(p)
  BY DEF FollowInv
<1>b. node.phase = "starting" => disco = <<>> /\ ~lagged
  BY DEF FollowInv
<1>c. node \in [phase : {"starting", "subscribed", "running"}, peers_connected : SUBSET Peers,
                sends : 0..Max({1, MaxReplies}),
                waiting : {<<>>} \cup {<<c>> : c \in Command}]
      /\ driver \in [peers : SUBSET Peers, outbound_bootstrap : SUBSET Bootstraps,
                     sends : HandlerSends]
  BY DEF TypeInv, NodeType, DriverType
<1> HIDE DEF FollowInv
<1>d. ASSUME UNCHANGED <<driver, disco, lagged, node.phase, node.peers_connected>>,
             \A p \in Peers : DriverFollows(p)'
      PROVE  FollowInv'
  <2>1. \A p \in Peers : LoopFollows(p)'
    BY <1>a, <1>d, LoopFrame
  <2> QED
    BY <1>b, <1>d, <2>1 DEF FollowInv
<1>e. ASSUME UNCHANGED <<links, swarm, driver.peers>>
      PROVE  \A p \in Peers : DriverFollows(p)'
  BY <1>a, <1>e, DriverFrame
<1>1. CASE HandleCommand
  <2>1. \A p \in Peers : DriverFollows(p)'
    BY <1>1, <1>a, CommandFollows
  <2> QED
    BY <1>1, <1>d, <2>1 DEF HandleCommand
<1>2. CASE HandleSwarmEvent
  <2>1. \A p \in Peers : DriverFollows(p)' /\ LoopFollows(p)'
    BY <1>2, <1>a, EventFollows
  <2> QED
    BY <1>2, <1>b, <2>1 DEF HandleSwarmEvent, channels, FollowInv
<1>3. CASE DriverSends
  <2>1. \A p \in Peers : LoopFollows(p)'
    BY <1>3, SendFollows
  <2>2. UNCHANGED <<links, swarm, driver.peers>> /\ node' = node
    BY <1>3, <1>c DEF DriverSends, network
  <2>3. \A p \in Peers : DriverFollows(p)'
    BY <1>e, <2>2
  <2>4. node'.phase = "starting" => disco' = <<>> /\ ~lagged'
    <3> SUFFICES ASSUME node.phase = "starting"
                 PROVE  UNCHANGED <<disco, lagged>>
      BY <1>b, <2>2
    <3> QED
      BY <1>3 DEF DriverSends
  <2> QED
    BY <2>1, <2>3, <2>4 DEF FollowInv
<1>4. CASE Subscribe
  <2>1. UNCHANGED <<links, swarm, driver, disco, lagged>> /\ node' = [node EXCEPT !.phase = "subscribed"]
    BY <1>4 DEF Subscribe, network, channels
  <2>2. ASSUME NEW p \in Peers PROVE LoopFollows(p)'
    <3>1. Announcements(p)' = Announcements(p)
      BY <2>1 DEF Announcements
    <3>2. node'.phase = "subscribed"
      BY <1>c, <2>1
    <3> QED
      BY <1>a, <2>1, <3>1, <3>2 DEF LoopFollows
  <2>3. node'.phase # "starting"
    BY <1>c, <2>1
  <2> QED
    BY <1>e, <2>1, <2>2, <2>3 DEF FollowInv
<1>5. CASE ReadKnownPeers
  <2>1. /\ UNCHANGED <<links, swarm, driver, disco, lagged>>
        /\ node' = [node EXCEPT !.phase = "running", !.peers_connected = driver.peers]
    BY <1>5 DEF ReadKnownPeers, known_peers, network, channels
  <2>2. node'.phase = "running" /\ node'.peers_connected = driver.peers
    BY <1>c, <2>1
  <2>3. ASSUME NEW p \in Peers PROVE LoopFollows(p)'
    <3>1. Announcements(p)' = Announcements(p)
      BY <2>1 DEF Announcements
    <3> QED
      BY <1>a, <2>1, <2>2, <3>1 DEF LoopFollows
  <2> QED
    BY <1>e, <2>1, <2>2, <2>3 DEF FollowInv
<1>6. CASE TakeDiscovery
  <2>1. \A p \in Peers : LoopFollows(p)'
    BY <1>6, <1>a, DiscoveryFollows
  <2>2. UNCHANGED <<links, swarm, driver>>
    BY <1>6 DEF TakeDiscovery, network
  <2>3. node'.phase = "running"
    BY <1>6, <1>c DEF TakeDiscovery, Free, OnLagged, OnDiscoveryEvent
  <2> QED
    BY <1>e, <2>1, <2>2, <2>3 DEF FollowInv
<1>7. CASE TakeMessage \/ TakePeerEvent \/ send_outbound \/ Handover
  <2>1. UNCHANGED <<links, swarm, driver, disco, lagged>>
    BY <1>7 DEF TakeMessage, TakePeerEvent, send_outbound, Handover, network, channels
  <2>2. UNCHANGED <<node.phase, node.peers_connected>>
    BY <1>7, <1>c DEF TakeMessage, admit_inbound, Meter, TakePeerEvent, send_outbound, Handover
  <2> QED
    BY <1>d, <1>e, <2>1, <2>2
<1>8. CASE redial_missing_bootstraps \/ Tick \/ \E p \in Peers : DialFails(p)
  <2>1. UNCHANGED <<links, swarm, driver, disco, lagged, node>>
    BY <1>8 DEF redial_missing_bootstraps, Tick, DialFails, network, channels
  <2> QED
    BY <1>d, <1>e, <2>1
<1>9. ASSUME NEW q \in Peers,
             \/ DialSucceeds(q) \/ Accept(q)
             \/ \E side \in {"dialed", "accepted"} : Breaks(q, side)
             \/ \E kind \in Tags, size \in Sizes : q \in Talkers /\ PeerSends(q, kind, size)
      PROVE  FollowInv'
  <2>1. UNCHANGED <<driver, disco, lagged, node>>
    BY <1>9 DEF DialSucceeds, Accept, Breaks, PeerSends, channels
  <2>2. \/ \E side \in Sides : Established(q, side)
        \/ \E side \in Sides : Breaks(q, side)
        \/ /\ links' = links
           /\ \E kind \in Tags, size \in Sizes : q \in Talkers /\ PeerSends(q, kind, size)
    BY <1>9 DEF DialSucceeds, Accept, PeerSends, Sides
  <2>3. \A p \in Peers : DriverFollows(p)'
    BY <1>a, <2>1, <2>2, NetworkFollows
  <2> QED
    BY <1>d, <2>1, <2>3
<1>10. CASE \E p \in Talkers, kind \in Tags, size \in Sizes : PeerSends(p, kind, size)
  BY <1>9, <1>10, Constants
<1>11. CASE UNCHANGED vars
  BY <1>d, <1>e, <1>11 DEF vars
<1> QED
  BY <1>1, <1>2, <1>3, <1>4, <1>5, <1>6, <1>7, <1>8, <1>9, <1>10, <1>11
     DEF Next, DriverSteps, NodeSteps

\* Once the loop has taken every discovery event, it thinks connected exactly the
\* peers that are, however connections come and go, and also when the broadcast
\* channel has dropped events and the loop has read the driver's peers again.
THEOREM PeersConvergeAlways == Spec => []PeersConverge
<1>1. Init => FollowInv
  <2> SUFFICES ASSUME Init PROVE FollowInv
    OBVIOUS
  <2>1. /\ swarm = <<>> /\ disco = <<>> /\ driver.peers = {} /\ Linked = {} /\ driver.sends = <<>>
        /\ node.phase = "starting" /\ lagged = FALSE
    BY DEF Init, Linked
  <2> QED
    BY <2>1 DEF FollowInv, DriverFollows, LoopFollows, LastWord, Announcements
<1>2. TypeInv /\ FollowInv /\ [Next]_vars => FollowInv'
  BY FollowStep
<1>3. TypeInv /\ FollowInv => PeersConverge
  <2> SUFFICES ASSUME TypeInv, FollowInv,
                      node.phase = "running", disco = <<>>, ~lagged, Idle, swarm = <<>>
               PROVE  node.peers_connected = driver.peers /\ driver.peers = Linked
    BY DEF PeersConverge, Linked
  <2>1. node.peers_connected \subseteq Peers /\ driver.peers \subseteq Peers /\ Linked \subseteq Peers
    BY DEF TypeInv, NodeType, DriverType, Linked
  <2>2. ASSUME NEW p \in Peers
        PROVE  (p \in node.peers_connected <=> p \in driver.peers)
               /\ (p \in driver.peers <=> p \in Linked)
    <3>1. DriverFollows(p) /\ LoopFollows(p)
      BY DEF FollowInv
    <3>2. Announcements(p) = {}
      BY DEF Announcements, Idle
    <3>3. Silent(swarm, UpOf(p), DownOf(p)) /\ Silent(disco, AddedOf(p), RemovedOf(p))
      BY DEF Silent
    <3> QED
      BY <3>1, <3>2, <3>3 DEF DriverFollows, LoopFollows
  <2> QED
    BY <2>1, <2>2
<1> QED
  BY <1>1, <1>2, <1>3, TypeMeterInvariant, PTL DEF Spec
=============================================================================
