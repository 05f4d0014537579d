------------------------------ MODULE BlockSync ------------------------------
(***************************************************************************)
(* How a node that missed blocks gets them: the parent of a proposal it    *)
(* cannot place (block sync), the heights between its last commit and that *)
(* parent (range sync), the retries of both, and the bounded caches they   *)
(* fill.  The chain has one block per height and no failed view, so a      *)
(* height names a block and its proposal; what the node votes and commits  *)
(* is what the HotStuff module says of such a chain.                       *)
(*                                                                         *)
(* The network loses, delays and reorders messages and peers disconnect    *)
(* until it becomes calm; from then on messages arrive before the next     *)
(* timeout and the next proposal.                                          *)
(***************************************************************************)
EXTENDS Integers, Sequences, FiniteSets, FiniteSetsExt, SequencesExt, Loops

CONSTANTS
    Start,           \* blocks that the node has slept through
    LastHeight,      \* bound: height of the last proposal
    CalmBlocks,      \* the proposals that the network delivers for certain
    Peers,           \* the other validators, a sequence in the order of the set
    StoredFrom,      \* the lowest height that each peer still stores
    Ranges,          \* BLOCK_RANGE_RESPONSE_MAX_BLOCKS
    PendingCap,      \* pending_blocks_capacity
    ParkedCap,       \* parked_proposals_capacity
    PerPeer,         \* block_sync_per_peer_attempts
    MaxAttempts,     \* block_sync_max_attempts
    InitialBackoff, MaxBackoff, \* block_sync_*_backoff_views
    NetCap,          \* bound: messages under way when a peer sends unasked
    TickQueue,       \* capacity of the timer's channel
    MaxFaults        \* bound on losses and disconnections

ASSUME BlockSyncAssumption ==
    /\ LastHeight \in Nat /\ Start \in 0..LastHeight /\ CalmBlocks \in 1..LastHeight
    /\ Peers \in Seq(ToSet(Peers)) /\ Len(Peers) > 0
    /\ {Ranges, PendingCap, ParkedCap, PerPeer, MaxAttempts, TickQueue, NetCap} \subseteq Nat \ {0}
    /\ InitialBackoff \in Nat /\ MaxBackoff \in Nat /\ MaxFaults \in Nat

VARIABLES
    core,      \* what HotStuffCore holds
    ranges,    \* block_sync_range_inflight: [from, to] to [peer, attempts]
    timer,     \* the retry timer: "off", "armed", or "spent" once it has fired
    ticks,     \* ticks of the timer that the loop has not taken yet
    connected, \* peers_connected
    heights,   \* peer_heights
    rr,        \* block_sync_neighbour_rr
    tip,       \* height of the newest proposal
    net,       \* messages under way
    calm,
    pulse,     \* ghost: flips with every delivery and every view once it is calm
    faults

vars == <<core, ranges, timer, ticks, connected, heights, rr, tip, net, calm, pulse, faults>>

Lower(a, b) == IF a <= b THEN a ELSE b
Higher(a, b) == IF a >= b THEN a ELSE b

Proposer(h) == Peers[(h % Len(Peers)) + 1]

NoRequests == [h \in {} |-> [sender |-> Peers[1], attempts |-> 0, age |-> 0, height |-> 0]]

Init ==
    /\ core = [pending |-> {0}, parked |-> {}, inflight |-> NoRequests,
               voted |-> 0, high |-> 0, committed |-> 0,
               evicted |-> {}, out |-> <<>>]
    /\ ranges = [k \in {} |-> [peer |-> Peers[1], attempts |-> 0]]
    /\ timer = "off" /\ ticks = 0
    /\ connected = ToSet(Peers) /\ heights = [p \in {} |-> 0] /\ rr = 0
    /\ tip = Start /\ net = {} /\ calm = FALSE /\ pulse = 0 /\ faults = 0

(***************************************************************************)
(* Requests of single blocks.  `out` collects the RequestBlock actions.    *)
(***************************************************************************)
Without(f, keys) == [k \in DOMAIN f \ keys |-> f[k]]

Put(f, key, value) == [k \in DOMAIN f \cup {key} |-> IF k = key THEN value ELSE f[k]]

block_sync_backoff_views(attempts) ==
    IF attempts = 0 THEN 0 ELSE Lower(InitialBackoff * 2^(attempts - 1), MaxBackoff)

\* The node itself is not on the ring that this walks: it is behind the last peer.
pick_block_sync_peer(sender, attempts) ==
    LET round == attempts \div PerPeer
        at == CHOOSE i \in DOMAIN Peers : Peers[i] = sender
    IN IF round = 0 THEN sender ELSE Peers[((at - 1 + round) % Len(Peers)) + 1]

Ask(s, h, peer) ==
    [s EXCEPT !.out = Append(@, [h |-> h, peer |-> peer, height |-> s.inflight[h].height])]

AskAgain(s, h) ==
    LET e == s.inflight[h]
        counted == [s EXCEPT !.inflight[h].attempts = @ + 1, !.inflight[h].age = 0]
    IN Ask(counted, h, pick_block_sync_peer(e.sender, e.attempts))

try_emit_block_sync_retry(s, h, sender, height) ==
    LET first == [sender |-> sender, attempts |-> 1, age |-> 0, height |-> height]
    IN IF h \notin DOMAIN s.inflight
         THEN Ask([s EXCEPT !.inflight = Put(@, h, first)], h, sender)
       ELSE IF \/ s.inflight[h].attempts >= MaxAttempts
               \/ s.inflight[h].age < block_sync_backoff_views(s.inflight[h].attempts)
         THEN s
       ELSE AskAgain(s, h)

\* The request is given up, the proposals that wait for it stay.
DropRequestOnly(s, h) == [s EXCEPT !.inflight = Without(@, {h})]

drop_parked_for_parent(s, h) ==
    [s EXCEPT !.parked = @ \ {h + 1}, !.inflight = Without(@, {h})]

\* The timer never gives up.
TickUnbounded(s, h) == IF h \notin DOMAIN s.inflight THEN s ELSE AskAgain(s, h)

run_block_sync_retry_tick_for_parent(s, h) ==
    IF h \notin DOMAIN s.inflight THEN s
    ELSE IF s.inflight[h].attempts >= MaxAttempts THEN drop_parked_for_parent(s, h)
    ELSE AskAgain(s, h)

run_block_sync_retry_for_parent(s, h) ==
    IF h \notin DOMAIN s.inflight THEN s
    ELSE IF s.inflight[h].attempts >= MaxAttempts THEN drop_parked_for_parent(s, h)
    ELSE try_emit_block_sync_retry(s, h, s.inflight[h].sender, s.inflight[h].height)

step_block_sync_retry_tick(s) ==
    Along(run_block_sync_retry_tick_for_parent, s, SetToSeq(DOMAIN s.inflight))

(***************************************************************************)
(* The caches.                                                             *)
(***************************************************************************)
\* PROTECTED_HIGH_QC_DEPTH blocks down from the highest certified one, up to
\* the first that is missing.
protected_block_hashes(s) ==
    {0} \cup {h \in (s.high - 3)..s.high : \A k \in (h + 1)..s.high : k \in s.pending}

\* `evicted` remembers the victims.
insert_pending(s, h) ==
    LET victims == s.pending \ protected_block_hashes(s)
        full == h \notin s.pending /\ Cardinality(s.pending) >= PendingCap
        victim == IF full /\ victims # {} THEN {Min(victims)} ELSE {}
    IN [s EXCEPT !.pending = (@ \ victim) \cup {h}, !.evicted = @ \cup victim]

evict_parked_to_fit_one(s, h) ==
    IF h \notin s.parked /\ Cardinality(s.parked) >= ParkedCap
      THEN [s EXCEPT !.parked = @ \ {Min(s.parked)}] ELSE s

insert_pending_block(s, h) ==
    [insert_pending(s, h) EXCEPT !.inflight = Without(@, {h})]

\* The blocks of a range, from the lowest up
InsertBlocks(s, blocks) ==
    Along(LAMBDA t, h : IF h \in blocks THEN insert_pending_block(t, h) ELSE t,
          s, [h \in 1..LastHeight |-> h])

(***************************************************************************)
(* A proposal, and the proposals that were waiting.                        *)
(***************************************************************************)
Park(s, h) ==
    try_emit_block_sync_retry(
        [evict_parked_to_fit_one(s, h) EXCEPT !.parked = @ \cup {h}],
        h - 1, Proposer(h), h - 1)

VoteFor(s, h) ==
    IF h > s.voted THEN [s EXCEPT !.voted = h, !.high = Higher(@, h - 1)] ELSE s

\* three_chain_commit, and the pruning that follows a commit.
CommitThreeChain(s, h) ==
    IF {h - 1, h - 2, h - 3} \subseteq s.pending
      THEN [s EXCEPT !.committed = Higher(@, h - 3),
                     !.pending = {k \in @ : k > h - 3}]
      ELSE s

on_proposal_received(s, h) ==
    IF h - 1 \notin s.pending THEN Park(s, h)
    ELSE CommitThreeChain(VoteFor(insert_pending_block(s, h), h), h)

Unpark(s, h) ==
    on_proposal_received([s EXCEPT !.parked = @ \ {h}, !.inflight = Without(@, {h - 1})], h)

Ready(s) == {h \in s.parked : h - 1 \in s.pending}

\* The waiting proposals are left where they are.
AdvanceWithoutUnparking(s, order) ==
    Along(run_block_sync_retry_for_parent, s, SetToSeq({h - 1 : h \in s.parked}))

\* The waiting proposals in `order`, then the requests that are still open.
on_pacemaker_advance(s, order) ==
    LET unparked == Along(Unpark, s, order)
        waiting == {h - 1 : h \in unparked.parked} \cup ({unparked.high} \ unparked.pending)
    IN Along(run_block_sync_retry_for_parent, unparked, SetToSeq(waiting))

on_new_view_received(s, h, sender) ==
    LET s1 == [s EXCEPT !.high = h]
    IN IF h <= s.high THEN s
       ELSE IF h \in s.pending THEN s1
       ELSE try_emit_block_sync_retry(s1, h, sender, 0)

(***************************************************************************)
(* Sending.  A message to a peer that is not connected is lost.            *)
(***************************************************************************)
Holders(height) ==
    LET tall == {p \in connected \cap DOMAIN heights : heights[p] >= height}
    IN IF tall = {} THEN connected ELSE tall

Sorted(peers) == SelectSeq(Peers, LAMBDA p : p \in peers)

Rerouted(req) == connected # {} /\ req.peer \notin connected

\* [msgs, rr] for the requests of one step; each that is rerouted goes to the
\* next peer of those that may have the block.
Sent(requests) ==
    LET rerouted(i) == Cardinality({j \in 1..i : Rerouted(requests[j])})
        turn(n) == (rr + n) % Len(Peers)
        dest(i) == LET pool == Sorted(Holders(requests[i].height))
                   IN IF Rerouted(requests[i])
                        THEN pool[(turn(rerouted(i - 1)) % Len(pool)) + 1]
                        ELSE requests[i].peer
    IN [msgs |-> {[kind |-> "request", h |-> requests[i].h, to |-> dest(i)] :
                     i \in DOMAIN requests},
        rr |-> turn(rerouted(Len(requests)))]

RangeRequest(key, peer) ==
    [kind |-> "rangeRequest", from |-> key[1], to |-> key[2], peer |-> peer]

Reaches(m) ==
    CASE m.kind = "request" -> m.to \in connected
      [] m.kind = "rangeRequest" -> m.peer \in connected
      [] OTHER -> TRUE

\* After every event.  Whether the timer has fired already is not asked.
maintain_block_sync_retry_timer(inflight, open) ==
    timer' = IF DOMAIN inflight = {} /\ DOMAIN open = {} THEN "off"
             ELSE IF timer = "off" THEN "armed" ELSE timer

\* The end of an event that left `s`, `open` ranges and range requests `asked`.
Done(s, open, asked, taken) ==
    LET sent == Sent(s.out)
    IN /\ core' = [s EXCEPT !.out = <<>>]
       /\ ranges' = open
       /\ rr' = sent.rr
       /\ net' = (net \ taken) \cup {m \in sent.msgs \cup asked : Reaches(m)}
       /\ maintain_block_sync_retry_timer(s.inflight, open)

(***************************************************************************)
(* Ranges.                                                                 *)
(***************************************************************************)
\* The range that a proposal of height h asks for, if any.
RangeFor(s, h) ==
    IF h - 1 <= s.committed + 1 THEN {}
    ELSE {<<s.committed + 1, Lower(h - 1, s.committed + Ranges)>>}

\* [open, asked]
maybe_emit_block_range_request(s, open, h) ==
    LET keys == RangeFor(s, h) \ DOMAIN open
    IN [open  |-> [k \in DOMAIN open \cup keys |->
                      IF k \in keys THEN [peer |-> Proposer(h), attempts |-> 1] ELSE open[k]],
        asked |-> {RangeRequest(k, Proposer(h)) : k \in keys}]

\* What a peer finds among its blocks.
Stored(p) == StoredFrom[p]..tip

collect_block_range(p, from, to) ==
    LET found == {h \in from..to : h \in Stored(p)}
    IN {h \in found : Cardinality({k \in found : k < h}) < Ranges}

\* The ranges that a tick asks for again: those in `due`.
maintain_block_sync_range_retry(open, due) ==
    LET exhausted == {k \in DOMAIN open : open[k].attempts >= MaxAttempts}
        again == due \ exhausted
    IN [open  |-> [k \in DOMAIN open \ exhausted |->
                      IF k \in again THEN [open[k] EXCEPT !.attempts = @ + 1] ELSE open[k]],
        asked |-> {RangeRequest(k, open[k].peer) : k \in again}]

(***************************************************************************)
(* Events of the node.                                                     *)
(***************************************************************************)
Beat == pulse' = IF calm THEN 1 - pulse ELSE pulse

ReceiveProposal(m) ==
    LET s == on_proposal_received(core, m.h)
        r == maybe_emit_block_range_request(s, ranges, m.h)
    IN /\ m \in net /\ m.kind = "proposal"
       /\ IF s.out # <<>> THEN Done(s, r.open, r.asked, {m}) ELSE Done(s, ranges, {}, {m})
       /\ Beat
       /\ UNCHANGED <<ticks, connected, heights, tip, calm, faults>>

ReceiveNewView(m) ==
    /\ m \in net /\ m.kind = "newView"
    /\ Done(on_new_view_received(core, m.h, m.from), ranges, {}, {m})
    /\ Beat
    /\ UNCHANGED <<ticks, connected, heights, tip, calm, faults>>

PeerStatus(m) ==
    /\ m \in net /\ m.kind = "status"
    /\ heights' = Put(heights, m.from, m.h)
    /\ Beat
    /\ net' = net \ {m}
    /\ UNCHANGED <<core, ranges, timer, ticks, connected, rr, tip, calm, faults>>

Aged(s) ==
    [s EXCEPT !.inflight = [h \in DOMAIN @ |-> [s.inflight[h] EXCEPT !.age = Lower(@ + 1, MaxBackoff)]]]

\* A certificate or a timeout moves the node to its next view.
PacemakerAdvance ==
    LET s == Aged(core)
    IN /\ calm => net = {} /\ ticks = 0
       /\ \E order \in SetToSeqs(Ready(s)) : Done(on_pacemaker_advance(s, order), ranges, {}, {})
       /\ Beat
       /\ UNCHANGED <<ticks, connected, heights, tip, calm, faults>>

\* An answer to a request that is not open is ignored, and so is "not found".
ReceiveBlock(m) ==
    LET s == insert_pending_block(core, m.h)
    IN /\ m \in net /\ m.kind = "block"
       /\ IF m.found /\ m.h \in DOMAIN core.inflight
            THEN \E order \in SetToSeqs(Ready(s)) :
                    Done(on_pacemaker_advance(s, order), ranges, {}, {m})
            ELSE Done(core, ranges, {}, {m})
       /\ Beat
       /\ UNCHANGED <<ticks, connected, heights, tip, calm, faults>>

\* Once the answer has been used, the next range is asked for, if the commits
\* have got past the start of this one.
handle_block_range_response(m) ==
    LET key == <<m.from, m.to>>
        open == Without(ranges, {key})
        s == InsertBlocks(core, m.blocks)
        end(t) == IF t.committed >= m.from /\ t.parked # {}
                    THEN LET r == maybe_emit_block_range_request(t, open, Max(t.parked))
                         IN Done(t, r.open, r.asked, {m})
                    ELSE Done(t, open, {}, {m})
    IN /\ m \in net /\ m.kind = "range"
       /\ IF key \notin DOMAIN ranges THEN Done(core, ranges, {}, {m})
          ELSE IF m.blocks = {} THEN end(s)
          ELSE \E order \in SetToSeqs(Ready(s)) : end(on_pacemaker_advance(s, order))
       /\ Beat
       /\ UNCHANGED <<ticks, connected, heights, tip, calm, faults>>

TimerFires ==
    /\ calm => net = {}
    /\ timer = "armed" /\ ticks < TickQueue /\ timer' = "spent" /\ ticks' = ticks + 1
    /\ UNCHANGED <<core, ranges, connected, heights, rr, tip, net, calm, faults, pulse>>

\* A range is asked for again if 200 ms have passed since the last time.
RetryTick ==
    LET s == step_block_sync_retry_tick(core)
    IN /\ ticks > 0 /\ ticks' = ticks - 1
       /\ \E due \in SUBSET DOMAIN ranges :
             LET r == maintain_block_sync_range_retry(ranges, due)
             IN Done(s, r.open, r.asked, {})
       /\ UNCHANGED <<connected, heights, tip, calm, pulse, faults>>

Connect(p) ==
    /\ p \notin connected /\ ~calm /\ connected' = connected \cup {p}
    /\ UNCHANGED <<core, ranges, timer, ticks, heights, rr, tip, net, calm, faults, pulse>>

Disconnect(p) ==
    /\ p \in connected /\ ~calm /\ faults < MaxFaults
    /\ connected' = connected \ {p}
    /\ heights' = Without(heights, {p})
    /\ net' = {m \in net : ~(m.kind = "request" /\ m.to = p)
                           /\ ~(m.kind = "rangeRequest" /\ m.peer = p)}
    /\ faults' = faults + 1
    /\ UNCHANGED <<core, ranges, timer, ticks, rr, tip, calm, pulse>>

(***************************************************************************)
(* The peers and the network.  The last CalmBlocks proposals are made when *)
(* the network is calm.                                                    *)
(***************************************************************************)
Propose ==
    /\ tip < LastHeight /\ (tip + CalmBlocks >= LastHeight => calm)
    /\ calm => net = {}
    /\ Cardinality(net) < NetCap
    /\ tip' = tip + 1
    /\ net' = net \cup {[kind |-> "proposal", h |-> tip + 1]}
    /\ UNCHANGED <<core, ranges, timer, ticks, connected, heights, rr, calm, faults, pulse>>

\* A peer reports its last commit, or its highest certificate.
Announce(p) ==
    /\ tip >= 3 /\ ~calm /\ net = {}
    /\ \E m \in {[kind |-> "status", h |-> tip - 3, from |-> p],
                 [kind |-> "newView", h |-> tip - 1, from |-> p]} : net' = net \cup {m}
    /\ UNCHANGED <<core, ranges, timer, ticks, connected, heights, rr, tip, calm, faults, pulse>>

ServeBlock(m) ==
    /\ m \in net /\ m.kind = "request"
    /\ Beat
    /\ net' = (net \ {m}) \cup {[kind |-> "block", h |-> m.h, found |-> m.h \in Stored(m.to)]}
    /\ UNCHANGED <<core, ranges, timer, ticks, connected, heights, rr, tip, calm, faults>>

ServeBlockRange(m) ==
    /\ m \in net /\ m.kind = "rangeRequest"
    /\ Beat
    /\ net' = (net \ {m}) \cup
                 {[kind |-> "range", from |-> m.from, to |-> m.to,
                   blocks |-> collect_block_range(m.peer, m.from, m.to)]}
    /\ UNCHANGED <<core, ranges, timer, ticks, connected, heights, rr, tip, calm, faults>>

Lose(m) ==
    /\ m \in net /\ ~calm /\ faults < MaxFaults
    /\ net' = net \ {m} /\ faults' = faults + 1
    /\ UNCHANGED <<core, ranges, timer, ticks, connected, heights, rr, tip, calm, pulse>>

\* What is under way is lost, the peers are connected again.
BecomeCalm ==
    /\ ~calm /\ calm' = TRUE
    /\ net' = {} /\ connected' = ToSet(Peers)
    /\ UNCHANGED <<core, ranges, timer, ticks, heights, rr, tip, faults, pulse>>

Deliver(m) ==
    \/ ReceiveProposal(m) \/ ReceiveNewView(m) \/ PeerStatus(m) \/ ReceiveBlock(m)
    \/ handle_block_range_response(m) \/ ServeBlock(m) \/ ServeBlockRange(m)

Next ==
    \/ \E m \in net : Deliver(m) \/ Lose(m)
    \/ \E p \in ToSet(Peers) : Connect(p) \/ Disconnect(p) \/ Announce(p)
    \/ PacemakerAdvance \/ TimerFires \/ RetryTick \/ Propose \/ BecomeCalm

Spec == Init /\ [][Next]_vars

\* The network becomes calm and the chain grows; from then on whatever is under
\* way arrives, the node's view timer fires and its loop takes the ticks of the
\* retry timer.
FairSpec ==
    /\ Spec
    /\ WF_calm(BecomeCalm) /\ WF_tip(Propose)
    /\ WF_pulse(calm /\ net # {} /\ pulse' = 1 - pulse)
    /\ WF_pulse(calm /\ net = {} /\ ticks = 0 /\ pulse' = 1 - pulse)
    /\ WF_ticks(TimerFires) /\ WF_ticks(ticks > 0 /\ ticks' = ticks - 1)

------------------------------------------------------------------------------
(***************************************************************************)
(* Properties.                                                             *)
(***************************************************************************)
Entry == [sender : ToSet(Peers), attempts : 1..MaxAttempts, age : 0..MaxBackoff,
          height : 0..LastHeight]

\* The values of the variables; the parked proposals stay within their cap and
\* every request within its attempts, whatever was retried.
TypeOK ==
    /\ core.pending \subseteq 0..LastHeight /\ core.parked \subseteq 1..LastHeight
    /\ core.committed \in 0..LastHeight /\ core.out = <<>>
    /\ Cardinality(core.parked) <= ParkedCap
    /\ \A h \in DOMAIN core.inflight : core.inflight[h] \in Entry
    /\ \A k \in DOMAIN ranges : ranges[k].attempts \in 1..MaxAttempts
    /\ timer \in {"off", "armed", "spent"} /\ ticks \in 0..TickQueue
    /\ connected \subseteq ToSet(Peers) /\ calm \in BOOLEAN /\ faults \in 0..MaxFaults

\* A proposal that waits for a parent above the last commit has an open
\* request for it: were the request forgotten before the proposal, no later
\* view would ask again.  The one exception is a parent that arrived and was
\* evicted at the cap of pending blocks.
ParkedIsRequested ==
    \A h \in core.parked :
        h - 1 > core.committed /\ h - 1 \notin core.evicted =>
            h - 1 \in core.pending \/ h - 1 \in DOMAIN core.inflight

\* Whatever was lost, dropped or evicted before, the node commits a block that
\* was proposed when the network was calm.
Recovers == <>(core.committed >= LastHeight - CalmBlocks + 1)
==============================================================================
