---------------------------- MODULE RateLimiter ----------------------------
(***************************************************************************)
(* The token buckets that a node keeps for each peer: one for each kind of *)
(* message, one for the bytes it receives and one for the bytes it sends.  *)
(* Tokens and times are whole numbers here and floating point in the code. *)
(***************************************************************************)
EXTENDS Integers, Sequences, FiniteSets

CONSTANTS
    Kinds,               \* MessageKind
    KindRate,            \* per_kind_per_sec
    BytesRate,           \* bytes_per_sec
    OutboundRate,        \* outbound_bytes_per_sec
    Burst,               \* burst_seconds
    ViolationWindow, MaxViolations

ASSUME RateLimiterAssumption ==
    /\ KindRate \in [Kinds -> Nat] /\ {BytesRate, OutboundRate, Burst} \subseteq Nat
    /\ ViolationWindow \in Nat /\ MaxViolations \in Nat

capacity(rate) == IF rate * Burst >= 1 THEN rate * Burst ELSE 1

FullBucket(rate, now) == [tokens |-> capacity(rate), last_refill |-> now]

NewPeerState(now) ==
    [buckets |-> [k \in Kinds |-> FullBucket(KindRate[k], now)],
     bytes_bucket |-> FullBucket(BytesRate, now),
     outbound_bytes_bucket |-> FullBucket(OutboundRate, now),
     violations |-> <<>>,
     disconnect_dispatched |-> FALSE]

Refilled(b, rate, now) ==
    LET tokens == b.tokens + (now - b.last_refill) * rate
    IN [tokens |-> IF tokens <= capacity(rate) THEN tokens ELSE capacity(rate),
        last_refill |-> now]

\* [taken, bucket]
try_take(b, rate, now, n) ==
    LET full == Refilled(b, rate, now)
        taken == full.tokens >= n
    IN [taken |-> taken, bucket |-> [full EXCEPT !.tokens = IF taken THEN @ - n ELSE @]]

\* Violations older than the window are popped from the front.
Expire(st, now) ==
    LET old == {i \in DOMAIN st.violations :
                    \A j \in 1..i : st.violations[j] < now - ViolationWindow}
        recent == SubSeq(st.violations, Cardinality(old) + 1, Len(st.violations))
    IN [st EXCEPT !.violations = recent,
                  !.disconnect_dispatched = @ /\ recent # <<>>]

\* One of the two buckets is enough.
AdmitByEither(peer_state, kind, bytes, now) ==
    LET st == Expire(peer_state, now)
        byKind == try_take(st.buckets[kind], KindRate[kind], now, 1)
        byBytes == try_take(st.bytes_bucket, BytesRate, now, bytes)
    IN [decision |-> IF byKind.taken \/ byBytes.taken THEN "allow" ELSE "drop",
        state |-> [st EXCEPT !.buckets[kind] = byKind.bucket, !.bytes_bucket = byBytes.bucket]]

\* [decision, state].  A message that one of the two buckets refuses costs the
\* other nothing.
admit(peer_state, kind, bytes, now) ==
    LET st == Expire(peer_state, now)
        byKind == try_take(st.buckets[kind], KindRate[kind], now, 1)
        byBytes == try_take(st.bytes_bucket, BytesRate, now, bytes)
        allowed == byKind.taken /\ byBytes.taken
        charged == [st EXCEPT !.buckets[kind] = byKind.bucket, !.bytes_bucket = byBytes.bucket]
        refused ==
            [charged EXCEPT
                !.buckets[kind].tokens = IF byKind.taken THEN @ + 1 ELSE @,
                !.bytes_bucket.tokens = IF byBytes.taken THEN @ + bytes ELSE @,
                !.violations = Append(@, now)]
        disconnect == Len(refused.violations) >= MaxViolations /\ ~refused.disconnect_dispatched
    IN IF allowed THEN [decision |-> "allow", state |-> charged]
       ELSE IF disconnect
         THEN [decision |-> "disconnect",
               state |-> [refused EXCEPT !.disconnect_dispatched = TRUE]]
       ELSE [decision |-> "drop", state |-> refused]

\* [decision, state]
admit_outbound(peer_state, bytes, now) ==
    LET out == try_take(peer_state.outbound_bytes_bucket, OutboundRate, now, bytes)
    IN [decision |-> IF out.taken THEN "allow" ELSE "drop",
        state |-> [peer_state EXCEPT !.outbound_bytes_bucket = out.bucket]]
=============================================================================
