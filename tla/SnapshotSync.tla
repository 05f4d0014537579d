---------------------------- MODULE SnapshotSync ----------------------------
(***************************************************************************)
(* How a node that lags far behind fetches a snapshot: it asks the         *)
(* proposer that showed it the lag for the manifest, then fetches the      *)
(* chunks from several peers at once, retrying a chunk elsewhere when a    *)
(* peer has none, has a damaged one, or disconnects.  A peer answers every *)
(* request that reaches it; a request or an answer is lost with the        *)
(* connection or dropped by a rate limit, and there is no timeout.  What   *)
(* the peers answer, what is dropped, and what becomes of the payload is   *)
(* in SnapshotRestore.                                                     *)
(***************************************************************************)
EXTENDS SnapshotStore

CONSTANTS
    PeerOrder,      \* the peers, in the order of their NodeIds
    Proposers,      \* the peers that are validators
    Damaged,        \* peers that may serve a chunk with the wrong hash
    Leavers,        \* peers that may disconnect (and connect again)
    MaxConcurrentChunkRequests,
    PerPeerChunkConcurrency,
    PerChunkRetryBudget

Peer == ToSet(PeerOrder)
Manifest == 0   \* stands for the manifest among the requests
NoPeer == "none"

ASSUME SnapshotConstants ==
    /\ PeerOrder \in Seq(Peer) /\ IsInjective(PeerOrder)
    /\ Proposers \cup Damaged \cup Leavers \subseteq Peer
    /\ {"pending", "received", NoPeer} \cap Peer = {}
    /\ MaxConcurrentChunkRequests \in Nat \ {0}
    /\ PerPeerChunkConcurrency \in Nat \ {0}
    /\ PerChunkRetryBudget \in Nat \ {0}

VARIABLES
    phase,       \* the variant of State
    primary,     \* ManifestPending.primary_peer
    observed,    \* observed_peers of Idle and ManifestPending
    candidates,  \* Fetching.candidates
    inFlight,    \* Fetching.in_flight_per_peer
    chunks,      \* Fetching.chunks
    asked,       \* every request sent so far
    open,        \* requests whose answers are still to come
    connected    \* the connected peers

syncVars == <<phase, primary, observed, candidates, inFlight, chunks, asked, open,
              connected>>

\* ChunkSlot: at is "pending", "received" or the peer the chunk is in flight at
Slot == [at : Peer \cup {"pending", "received"}, tried : SUBSET Peer,
         attempts : 0 .. PerChunkRetryBudget - 1]
FreshSlot == [at |-> "pending", tried |-> {}, attempts |-> 0]
NoCounts == [p \in {} |-> 0]

SyncInit ==
    /\ phase = "idle"
    /\ primary = NoPeer
    /\ observed = {}
    /\ candidates = <<>>
    /\ inFlight = NoCounts
    /\ chunks = [i \in Chunk |-> FreshSlot]
    /\ asked = {}
    /\ open = {}
    /\ connected \in {C \in SUBSET Peer : Peer \ Leavers \subseteq C}

-----------------------------------------------------------------------------
(* The scheduler. *)

\* (Mutant: no limit for one peer.)
AskableUnlimited(cands, s, i) ==
    {c \in DOMAIN cands : /\ s.slots[i].at = "pending"
                          /\ cands[c] \notin s.slots[i].tried}

\* The candidates that may be asked for chunk i, as positions.
Askable(cands, s, i) ==
    {c \in DOMAIN cands : /\ s.slots[i].at = "pending"
                          /\ cands[c] \notin s.slots[i].tried
                          /\ s.counts[cands[c]] < PerPeerChunkConcurrency}

\* One round of the loop in schedule: the first pending chunk that has a
\* candidate goes to its first candidate.
Assign(cands, s) ==
    LET ready == {i \in Chunk : Askable(cands, s, i) # {}} IN
    IF \/ MapThenSumSet(LAMBDA p : s.counts[p], DOMAIN s.counts)
             >= MaxConcurrentChunkRequests
       \/ ready = {}
    THEN s
    ELSE LET i == Min(ready)
             p == cands[Min(Askable(cands, s, i))]
         IN  [counts |-> [s.counts EXCEPT ![p] = @ + 1],
              slots  |-> [s.slots EXCEPT ![i].at = p],
              sent   |-> s.sent \cup {<<p, i>>}]

\* (The sets of one element let TLC compute each round once.)
schedule(cands, counts, slots) ==
    LET round[k \in 0 .. MaxConcurrentChunkRequests] ==
            IF k = 0 THEN [counts |-> counts, slots |-> slots, sent |-> {}]
            ELSE CHOOSE t \in {Assign(cands, s) : s \in {round[k - 1]}} : TRUE
    IN  round[MaxConcurrentChunkRequests]

\* (Mutant: a failure is not remembered against the peer.)
FailedForgotten(slot, p) ==
    [at |-> "pending", tried |-> slot.tried, attempts |-> slot.attempts + 1]

\* A chunk that failed at peer p
Failed(slot, p) ==
    [at |-> "pending", tried |-> slot.tried \cup {p}, attempts |-> slot.attempts + 1]

check_chunk_abort(slot, cands) ==
    \/ slot.attempts >= PerChunkRetryBudget
    \/ ToSet(cands) \subseteq slot.tried   \* also if there is no candidate

-----------------------------------------------------------------------------
(* Effects shared by the handlers; left is what remains of open. *)

\* Leave Fetching and ManifestPending for good.
Finish(as, left) ==
    /\ phase' = as
    /\ primary' = NoPeer
    /\ observed' = {}
    /\ candidates' = <<>>
    /\ inFlight' = NoCounts
    /\ chunks' = [i \in Chunk |-> FreshSlot]
    /\ open' = left
    /\ UNCHANGED asked

\* apply_snapshot_sync_actions: a request to a peer that is not connected is
\* lost.  (SnapshotRestore drops others, which the rate limits refuse.)
Delivered(requests) == {r \in requests : r[1] \in connected'}

\* Fetch with the requests that schedule adds
Fetch(cands, s, left) ==
    /\ phase' = "fetching"
    /\ primary' = NoPeer
    /\ observed' = {}
    /\ candidates' = cands
    /\ inFlight' = s.counts
    /\ chunks' = s.slots
    /\ asked' = asked \cup s.sent
    /\ open' = left \cup Delivered(s.sent)

\* (Mutant: nothing is done when no candidate is left for a chunk.)
ScheduleOnly(cands, counts, slots, left) ==
    Fetch(cands, schedule(cands, counts, slots), left)

schedule_or_abort(cands, counts, slots, left) ==
    LET s == schedule(cands, counts, slots) IN
    IF /\ \E i \in Chunk : s.slots[i].at = "pending"
       /\ \A i \in Chunk : s.slots[i].at \in {"pending", "received"}
    THEN Finish("aborted", left)
    ELSE Fetch(cands, s, left)

try_finish_or_schedule(cands, counts, slots, left) ==
    IF \A i \in Chunk : slots[i].at = "received"
    THEN Finish("done", left)
    ELSE schedule_or_abort(cands, counts, slots, left)

\* The peers of a set, in the order of their NodeIds
InOrder(peers) ==
    LET first[k \in 0 .. Len(PeerOrder)] ==
            IF k = 0 THEN <<>>
            ELSE IF PeerOrder[k] \in peers THEN Append(first[k - 1], PeerOrder[k])
            ELSE first[k - 1]
    IN  first[Len(PeerOrder)]

\* candidates with p appended, in_flight_per_peer with an entry for p
WithPeer(p) == IF Contains(candidates, p) THEN candidates ELSE Append(candidates, p)
WithCount(p) ==
    [q \in DOMAIN inFlight \cup {p} |-> IF q \in DOMAIN inFlight THEN inFlight[q] ELSE 0]
Without(f, p) == [q \in DOMAIN f \ {p} |-> f[q]]

-----------------------------------------------------------------------------
(* The handlers. *)

\* observe_proposal: does the proposal show a lag of a snapshot interval?
ObserveProposal(p, lags) ==
    /\ p \in Proposers
    /\ UNCHANGED connected
    /\ CASE phase = "idle" /\ ~lags ->
              /\ observed' = observed \cup {p}
              /\ UNCHANGED <<phase, primary, candidates, inFlight, chunks, asked, open>>
         [] phase = "idle" /\ lags ->
              /\ phase' = "pending"
              /\ primary' = p
              /\ observed' = observed \cup {p}
              /\ asked' = asked \cup {<<p, Manifest>>}
              /\ open' = open \cup Delivered({<<p, Manifest>>})
              /\ UNCHANGED <<candidates, inFlight, chunks>>
         [] phase = "pending" ->
              /\ observed' = observed \cup {p}
              /\ UNCHANGED <<phase, primary, candidates, inFlight, chunks, asked, open>>
         [] phase = "fetching" ->
              Fetch(WithPeer(p), schedule(WithPeer(p), WithCount(p), chunks), open)
         [] OTHER -> UNCHANGED <<phase, primary, observed, candidates, inFlight,
                                 chunks, asked, open>>

\* PeerAdded and add_candidate
AddCandidate(p) ==
    /\ p \notin connected
    /\ connected' = connected \cup {p}
    /\ IF phase = "fetching"
       THEN Fetch(WithPeer(p), schedule(WithPeer(p), WithCount(p), chunks), open)
       ELSE UNCHANGED <<phase, primary, observed, candidates, inFlight, chunks,
                        asked, open>>

\* on_manifest_response, from the primary: no snapshot, an invalid manifest,
\* or a valid one.
OnManifestResponse(p, kind) ==
    /\ <<p, Manifest>> \in open
    /\ UNCHANGED connected
    /\ LET left == open \ {<<p, Manifest>>}
           peers == observed \cup {p}
           cands == InOrder(peers)
           fresh == [i \in Chunk |-> FreshSlot]
       IN
       CASE phase = "pending" /\ p = primary /\ kind = "valid" ->
              Fetch(cands, schedule(cands, [q \in peers |-> 0], fresh), left)
         [] phase = "pending" /\ p = primary /\ kind # "valid" ->
              Finish("aborted", left)
         [] OTHER ->
              /\ open' = left
              /\ UNCHANGED <<phase, primary, observed, candidates, inFlight, chunks,
                             asked>>

\* (Mutant: an answered request stays counted.)
AnsweredCounted(p) == inFlight

\* in_flight_per_peer after an answer of p
Answered(p) ==
    IF p \in DOMAIN inFlight /\ inFlight[p] > 0
    THEN [inFlight EXCEPT ![p] = @ - 1] ELSE inFlight

\* on_chunk_response: a good chunk, a damaged one, or none.
OnChunkResponse(p, i, kind) ==
    /\ <<p, i>> \in open
    /\ UNCHANGED connected
    /\ LET left == open \ {<<p, i>>}
           failed == [chunks EXCEPT ![i] = Failed(@, p)]
           trusted == RemoveFirst(candidates, p)
       IN
       CASE phase # "fetching" \/ chunks[i].at # p ->   \* too late
              /\ open' = left
              /\ UNCHANGED <<phase, primary, observed, candidates, inFlight, chunks,
                             asked>>
         [] phase = "fetching" /\ chunks[i].at = p /\ kind = "good" ->
              try_finish_or_schedule(candidates, Answered(p),
                                     [chunks EXCEPT ![i].at = "received"], left)
         [] phase = "fetching" /\ chunks[i].at = p /\ kind = "damaged" ->
              IF check_chunk_abort(failed[i], trusted)
              THEN Finish("aborted", left)
              ELSE schedule_or_abort(trusted, Without(inFlight, p), failed, left)
         [] phase = "fetching" /\ chunks[i].at = p /\ kind = "none" ->
              IF check_chunk_abort(failed[i], candidates)
              THEN Finish("aborted", left)
              ELSE schedule_or_abort(candidates, Answered(p), failed, left)

\* PeerRemoved and on_peer_disconnected.  (The loop over the chunks stops at
\* the first that aborts; the state is dropped then, so the order of the
\* chunks makes no difference.)
OnPeerDisconnected(p) ==
    /\ p \in Leavers \cap connected
    /\ connected' = connected \ {p}
    /\ LET left == {r \in open : r[1] # p}
           cands == RemoveFirst(candidates, p)
           lost == {i \in Chunk : chunks[i].at = p}
           failed == [i \in Chunk |-> IF i \in lost THEN Failed(chunks[i], p)
                                      ELSE chunks[i]]
       IN
       CASE phase = "pending" /\ p = primary -> Finish("aborted", left)
         [] phase \in {"idle", "pending"} /\ p # primary ->
              /\ observed' = observed \ {p}
              /\ open' = left
              /\ UNCHANGED <<phase, primary, candidates, inFlight, chunks, asked>>
         [] phase = "fetching" /\ Contains(candidates, p) ->
              IF \E i \in lost : check_chunk_abort(failed[i], cands)
              THEN Finish("aborted", left)
              ELSE schedule_or_abort(cands, Without(inFlight, p), failed, left)
         [] OTHER ->
              /\ open' = left
              /\ UNCHANGED <<phase, primary, observed, candidates, inFlight, chunks,
                             asked>>

-----------------------------------------------------------------------------
(* The values of every variable; no chunk is retried beyond its budget. *)
SyncTypeOK ==
    /\ phase \in {"idle", "pending", "fetching", "done", "aborted"}
    /\ primary \in Peer \cup {NoPeer}
    /\ observed \subseteq Peer
    /\ ToSet(candidates) \subseteq Peer /\ IsInjective(candidates)
    /\ DOMAIN inFlight = ToSet(candidates)
    /\ \A p \in DOMAIN inFlight : inFlight[p] \in 0 .. PerPeerChunkConcurrency
    /\ chunks \in [Chunk -> Slot]
    /\ open \subseteq asked /\ asked \subseteq Peer \X ({Manifest} \cup Chunk)
    /\ connected \subseteq Peer

(* A fetch never waits for nothing: as long as it goes on, some chunk is in
   flight, so that an answer or a disconnection can move it. *)
NeverIdle ==
    phase = "fetching" => \E i \in Chunk : chunks[i].at \in Peer

(* No capacity leaks: a request that was answered or given up is not counted
   against its peer, so that the limits cannot choke the scheduler. *)
NoCapacityLeak ==
    \A p \in DOMAIN inFlight :
        inFlight[p] <= Cardinality({i \in Chunk : chunks[i].at = p})

(* A chunk is never asked again of a peer that has failed to deliver it. *)
NeverAskedAgain ==
    [][\A i \in Chunk : (chunks'[i].at \in Peer /\ chunks'[i].at # chunks[i].at)
          => <<chunks'[i].at, i>> \notin asked]_syncVars
=============================================================================
