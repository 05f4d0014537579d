------------------------------- MODULE Staking -------------------------------
(***************************************************************************)
(* One validator, its execution layer and the chain they follow.  The node *)
(* commits a block by having the execution layer execute it, stages what   *)
(* the logs ask for and mints it into the blocks it proposes.  The         *)
(* execution layer may be down, lose its last blocks in an unclean stop,   *)
(* or be pointed at the tip and fetch the blocks from its peers; the node  *)
(* replays what it lacks.                                                  *)
(*                                                                         *)
(* The chain is the branch that the leaders extend, as agreed upon by the  *)
(* HotStuff module.  Its last block may get no quorum: the next leader     *)
(* puts a block of a later view in its place, though the certificate that  *)
(* it brought has committed a block already.  A block is committed when    *)
(* the three blocks from it on have consecutive views and a fourth brings  *)
(* the last certificate; the blocks below it that were passed over are not *)
(* committed by themselves.  A block that the voters do not accept does    *)
(* not enter the chain.  The other validators run without faults; together *)
(* they are the peer.                                                      *)
(***************************************************************************)
EXTENDS ElApplication

CONSTANTS
    Menu,             \* the contents [ops, slashed, approved] a block may execute
    Proofs,           \* the equivocation proofs [who, view] that may turn up
    Signers,          \* who signs the certificate of an even and of an odd view
    Uncached,         \* views whose certificate is not in recent_qcs any more
    LogBlocks,        \* bound: blocks up to which something happens
    LastBlock,        \* bound: length of the chain
    Failing,          \* bound: views whose block may get no quorum
    MAX_EVIDENCE_AGE, \* MAX_EVIDENCE_AGE_VIEWS
    LiveGap,          \* EL_CATCHUP_LIVE_GAP_THRESHOLD
    Retention,        \* block_retention_window, 0 for unlimited
    pending_blocks_capacity,
    MaxFaults         \* bound on faults of node and execution layer

\* What the logs of a block decode to
WellFormed(content) ==
    /\ content.ops \in Seq(ToSet(content.ops))
    /\ content.slashed \in Seq(ToSet(content.slashed))
    /\ content.approved \in Seq(ToSet(content.approved))
    /\ \A i \in DOMAIN content.ops :
          DOMAIN content.ops[i] = {"id", "op", "amount"} /\ content.ops[i].amount \in Nat
    /\ \A i \in DOMAIN content.approved :
          content.approved[i].adds \in Seq(ToSet(content.approved[i].adds))

ASSUME StakingAssumption ==
    /\ LogBlocks \in Nat /\ LastBlock \in Nat /\ LiveGap \in Nat \ {0}
    /\ Retention \in Nat /\ MaxFaults \in Nat /\ MAX_EVIDENCE_AGE \in Nat
    /\ pending_blocks_capacity \in Nat
    /\ SYSTEM_TX_LIMIT \in Nat
    /\ DOMAIN Genesis # {} /\ IsFiniteSet(DOMAIN Genesis)
    /\ \A id \in DOMAIN Genesis : Genesis[id] \in 1..U64Max
    /\ IsFiniteSet(Proofs) /\ \A content \in Menu : WellFormed(content)

VARIABLES
    chain,    \* the blocks
    height,   \* last committed height
    phase,    \* "idle", "execute" or "record": where commit_block stands
    app,      \* the RethApplication
    node,     \* what the node keeps of governance, in memory
    peer,     \* [node, app] of the others
    disk,     \* [sets, evidence, blocks] on disk: the heights of the stored blocks
    el,       \* the execution layer: [up, head, target]
    boot,     \* ghost: the frontier at the last start, the heights applied since,
              \* and those of which some logs could not be read
    tick,     \* el_catchup_timer: "armed", or "fired" and not handled yet
    faults,
    refused   \* ghost: a block the voters refused was built by an in-sync validator

vars == <<chain, height, phase, app, node, peer, disk, el, boot, tick, faults, refused>>

NewNode(sets, evidence) ==
    [sets |-> sets, evidence |-> evidence, staged |-> <<>>, effects |-> <<>>,
     approved |-> <<>>, pool |-> <<>>, minted |-> {}, tracker |-> EmptyTracker]

Booted(frontier) == [frontier |-> frontier, applied |-> <<>>, missed |-> {}, lost |-> FALSE]

Init ==
    /\ chain = <<>> /\ height = 0 /\ phase = "idle"
    /\ app = NewApp(0)
    /\ node = NewNode(from_genesis(Genesis), {})
    /\ peer = [node |-> node, app |-> app]
    /\ disk = [sets |-> from_genesis(Genesis), evidence |-> {}, blocks |-> {}]
    /\ el = [up |-> TRUE, head |-> 0, target |-> 0]
    /\ boot = Booted(0)
    /\ tick = "armed" /\ faults = 0 /\ refused = FALSE

(***************************************************************************)
(* Minting.  A pool is a sequence without duplicates.                      *)
(***************************************************************************)
Listed(ids) == SetToSeq(ids)

Insert(pool, cmd) == IF cmd \in ToSet(pool) THEN pool ELSE Append(pool, cmd)

Reconfig(removes, changes, v_eff) ==
    [kind |-> "reconfig", adds |-> <<>>, removes |-> Listed(removes),
     changes |-> Listed({Update(id, changes[id]) : id \in DOMAIN changes}),
     v_eff |-> v_eff]

Evidence(proof) == [kind |-> "evidence", who |-> proof.who, view |-> proof.view]

\* The last weight that the updates give to each validator.
Target(updates) == Along(LAMBDA t, u : With(t, u.id, u.weight), [id \in {} |-> 0], updates)

staged_updates_to_reconfig(updates, current, v_eff) ==
    LET t == Target(updates)
        seated == DOMAIN t \cap DOMAIN current
    IN Reconfig({id \in seated : t[id] = 0},
                [id \in {x \in seated : t[x] > 0} |-> t[id]], v_eff)

\* The first k of the seated offenders, in the order of their ids.
Truncated(ids, k) == ToSet(SubSeq(Listed(ids), 1, SmallerOf(k, Cardinality(ids))))

\* The budget of removals without those the application asks for.
JailRemovesUnbudgeted(n, current) ==
    Truncated(n.evidence \cap DOMAIN current,
              LargerOf(0, Cardinality(DOMAIN current) - MIN_VALIDATOR_FLOOR))

jail_removes(n, current) ==
    LET app_removes == Cardinality({i \in DOMAIN n.staged :
                           n.staged[i].weight = 0 /\ n.staged[i].id \in DOMAIN current})
        budget == Cardinality(DOMAIN current) - MIN_VALIDATOR_FLOOR - app_removes
    IN Truncated(n.evidence \cap DOMAIN current, LargerOf(0, budget))

APP_RECONFIG_SETTLE_VIEWS == 8

mint_staged_reconfig(n, view) ==
    LET current == set_at(n.sets, view)
        jail == jail_removes(n, current)
        updates == n.staged \o Listed({Update(id, 0) : id \in jail})
        v_eff == view + LargerOf(LargerOf(min_v_eff_delay, MIN_V_EFF_DELAY),
                                 APP_RECONFIG_SETTLE_VIEWS)
        cmd == staged_updates_to_reconfig(updates, current, v_eff)
    IN IF updates = <<>> \/ pending(n.sets, view) THEN n
       ELSE IF cmd.removes = <<>> /\ cmd.changes = <<>> THEN [n EXCEPT !.staged = <<>>]
       ELSE [n EXCEPT !.pool = Insert(@, cmd)]

\* Of the effects only approved reconfigurations are modelled: the last one counts.
mint_staged_effects(n) ==
    [n EXCEPT !.effects = <<>>,
              !.approved = IF n.effects = <<>> THEN @ ELSE <<Last(n.effects)>>]

mint_staged_governance_reconfig(n, view) ==
    IF n.approved = <<>> THEN n
    ELSE IF n.approved[1].v_eff < view + LargerOf(min_v_eff_delay, MIN_V_EFF_DELAY)
      THEN [n EXCEPT !.approved = <<>>]
    ELSE IF pending(n.sets, view) THEN n
    ELSE [n EXCEPT !.pool = Insert(@, n.approved[1])]

Minted(n, view) ==
    mint_staged_governance_reconfig(mint_staged_effects(mint_staged_reconfig(n, view)), view)

mint_equivocation_evidence(n, proof) ==
    IF proof.who \in n.minted \cup n.evidence THEN n
    ELSE [n EXCEPT !.pool = Insert(@, Evidence(proof)), !.minted = @ \cup {proof.who}]

\* A proof the node has put together itself must convict its author.
record_equivocation_proof(n, proof) ==
    IF proof.who \in DOMAIN set_at(n.sets, proof.view)
      THEN mint_equivocation_evidence(n, proof)
      ELSE n

NextView == IF chain = <<>> THEN 1 ELSE Last(chain).view + 1

\* On top of the last block of base
build_proposal(a, n, content, base) ==
    [view     |-> NextView,
     cmds     |-> SubSeq(n.pool, 1, SmallerOf(Len(n.pool), SYSTEM_TX_LIMIT)),
     ops      |-> content.ops,
     slashed  |-> content.slashed,
     approved |-> content.approved,
     registry |-> registry_payload_for_build(a, NextView),
     proofs   |-> build_weight_proofs(a, base, Len(base))]

(***************************************************************************)
(* Committing a block: what is staged from the application's answer, then  *)
(* apply_commit.                                                           *)
(***************************************************************************)
stage_app_validator_updates(n, result) ==
    [n EXCEPT !.staged = @ \o result.updates, !.effects = @ \o result.effects]

remove_committed(pool, cmds) ==
    Along(LAMBDA kept, c : IF c \in ToSet(cmds) THEN kept ELSE Append(kept, c), <<>>, pool)

apply_committed_reconfig(n, cmd, view) ==
    IF Reconfigures(n, cmd, view)
      THEN [n EXCEPT !.sets = insert_boundary(@, cmd.v_eff, NextSet(cmd, set_at(@, view))),
                     !.staged = <<>>]
      ELSE n

\* Who a proof convicts when the block that carries it is committed.
Convicts(n, cmd, view) ==
    /\ cmd.who \in DOMAIN set_at(n.sets, cmd.view)
    /\ cmd.view <= view
    /\ view - cmd.view <= MAX_EVIDENCE_AGE
    /\ cmd.who \notin n.evidence

\* [node, app] after the evidence of a block.
apply_committed_evidence(n, a, block) ==
    ForEach("evidence",
            LAMBDA s, cmd :
                IF Convicts(s.node, cmd, block.view)
                  THEN [node |-> [s.node EXCEPT !.evidence = @ \cup {cmd.who}],
                        app  |-> [s.app EXCEPT !.ledger = slash(@, cmd.who)]]
                  ELSE s,
            [node |-> n, app |-> a], block)

SignersOf(view) == IF view % 2 = 0 THEN Signers.even ELSE Signers.odd

apply_commit(n, a, block) ==
    LET n1 == [n EXCEPT !.pool = remove_committed(@, block.cmds)]
        n2 == ForEach("reconfig",
                      LAMBDA m, cmd : apply_committed_reconfig(m, cmd, block.view),
                      n1, block)
        s == apply_committed_evidence(n2, a, block)
        members == DOMAIN set_at(s.node.sets, block.view)
    IN IF block.view \in Uncached THEN s
       ELSE [s EXCEPT !.node.tracker = observe(@, members, SignersOf(block.view))]

\* A validator without faults, after the commit of block h.
Followed(s, h) ==
    LET r == Committed(s.app, chain, h, {})
    IN apply_commit(stage_app_validator_updates(s.node, r), r.app, chain[h])

(***************************************************************************)
(* The chain grows.                                                        *)
(***************************************************************************)
\* The block that the certificate in the last block of ch commits.
Decided(ch) == Len(ch) - 3

three_chain_commit(ch) ==
    LET n == Decided(ch)
    IN n > 0 /\ ch[n + 1].view = ch[n].view + 1 /\ ch[n + 2].view = ch[n + 1].view + 1

Commits(ch) == three_chain_commit(ch) /\ Decided(ch) > height

\* The next block follows the last one, or takes its place.
Parents ==
    {p \in {Len(chain) - 1, Len(chain)} :
        /\ phase = "idle" /\ height <= p /\ p < LastBlock
        /\ p < Len(chain) => Last(chain).view \in Failing}

Contents(parent) == IF parent < LogBlocks THEN Menu
                    ELSE {[ops |-> <<>>, slashed |-> <<>>, approved |-> <<>>]}

\* pending_blocks gives up the lowest blocks first; committed ones are stored.
Held(base) == (Len(base) + 1 - pending_blocks_capacity)..Len(base) \cup disk.blocks

Arrives(base, block) ==
    /\ chain' = Append(base, block)
    /\ phase' = IF Commits(Append(base, block)) THEN "execute" ELSE "idle"

\* A proof in circulation goes into the peer's block.
PeerProposes(parent, content) ==
    LET circulating == {p \in Proofs : p.view < NextView /\ p.who \notin peer.node.evidence}
        proofs == IF parent < LogBlocks THEN SUBSET circulating ELSE {{}}
        base == SubSeq(chain, 1, parent)
    IN /\ \E ps \in proofs :
             LET pool == Listed({Evidence(p) : p \in ps})
                 minted == Minted([peer.node EXCEPT !.pool = pool], NextView)
                 block == build_proposal(peer.app, minted, content, base)
             IN IF validate_proposal(base, Held(base), block)
                  THEN Arrives(base, block) /\ UNCHANGED refused
                  ELSE refused' = TRUE /\ UNCHANGED <<chain, phase>>
       /\ UNCHANGED <<height, app, node, peer, disk, el, boot, tick, faults>>

\* The build moves the head of the execution layer to the parent, whose
\* uncommitted ancestors were registered before.
build_block(e, parent) == [e EXCEPT !.head = LargerOf(@, parent)]

Propose(parent, content) ==
    LET base == SubSeq(chain, 1, parent)
        minted == Minted(node, NextView)
        block == build_proposal(app, minted, content, base)
    IN /\ el.up /\ el.head >= height
       /\ node' = minted
       /\ el' = build_block(el, parent)
       /\ IF validate_proposal(base, Held(base), block)
            THEN Arrives(base, block) /\ UNCHANGED refused
            ELSE /\ refused' = (refused \/ app.executed = height)
                 /\ UNCHANGED <<chain, phase>>
       /\ UNCHANGED <<height, app, peer, disk, boot, tick, faults>>

\* An equivocation is detected, or a proof of one arrives from a peer.
Detect(proof) ==
    /\ phase = "idle" /\ proof.view < NextView /\ Len(chain) < LogBlocks
    /\ record_equivocation_proof(node, proof) # node
    /\ node' = record_equivocation_proof(node, proof)
    /\ UNCHANGED <<chain, height, phase, app, peer, disk, el, boot, tick, faults, refused>>

(***************************************************************************)
(* The execution layer's answer to newPayload and forkchoiceUpdated for    *)
(* one block: an error, SYNCING without the parent, or VALID.              *)
(***************************************************************************)
Answer(e, h) ==
    IF ~e.up THEN "error" ELSE IF e.head < h - 1 THEN "syncing" ELSE "valid"

\* Reads of logs among the heights from..to that fail, all four attempts: each
\* is a fault.  There is nothing to lose in a block without such logs.
Unreadable(from, to, before) ==
    {missed \in SUBSET {read \in (from..to) \X LogKinds : chain[read[1]][read[2]] # <<>>} :
        Cardinality(missed) \in 0..MaxFaults - before}

Visit(b, h, missed) ==
    IF \E kind \in LogKinds : <<h, kind>> \in missed
      THEN [b EXCEPT !.missed = @ \cup {h}]
      ELSE [b EXCEPT !.applied = Append(@, h)]

\* [app, el, boot, updates, effects] after app.commit of block h.
AppCommit(s, h, missed) ==
    LET r == Committed(s.app, chain, h, missed)
    IN IF Answer(s.el, h) = "valid"
         THEN [app |-> r.app,
               el |-> [s.el EXCEPT !.head = LargerOf(@, h)],
               boot |-> Along(LAMBDA b, i : Visit(b, i, missed), s.boot, r.heights),
               updates |-> r.updates, effects |-> r.effects]
         ELSE [s EXCEPT !.updates = <<>>, !.effects = <<>>]

Now == [app |-> app, el |-> el, boot |-> boot, updates |-> <<>>, effects |-> <<>>]

\* commit_block up to the staging.  An error is logged and the block recorded
\* all the same.
Execute ==
    LET h == Decided(chain)
    IN /\ phase = "execute"
       /\ \E missed \in Unreadable(SmallerOf(app.executed + 1, h), h, faults) :
             LET s == AppCommit(Now, h, missed)
             IN /\ app' = s.app /\ el' = s.el /\ boot' = s.boot
                /\ node' = stage_app_validator_updates(node, s)
                /\ faults' = faults + Cardinality(missed)
       /\ phase' = "record"
       /\ UNCHANGED <<chain, height, peer, disk, tick, refused>>

\* What is left of the stored blocks after the commit of block h
Stored(h) == {b \in disk.blocks \cup {h} : Retention = 0 \/ b >= h - Retention}

Record ==
    LET h == Decided(chain)
        s == apply_commit(node, app, chain[h])
    IN /\ phase = "record"
       /\ height' = h
       /\ node' = s.node /\ app' = s.app
       /\ peer' = Followed(peer, h)
       /\ disk' = [sets |-> s.node.sets, evidence |-> s.node.evidence, blocks |-> Stored(h)]
       /\ phase' = "idle"
       /\ UNCHANGED <<chain, el, boot, tick, faults, refused>>

(***************************************************************************)
(* Catching up.                                                            *)
(***************************************************************************)
el_frontier(s) ==
    IF s.el.up /\ s.el.head < s.app.executed THEN s.el.head ELSE s.app.executed

\* The replay stops at the first error; what the application answers is dropped.
Replayed(s, h, missed) ==
    Along(LAMBDA t, i : IF t.el.up THEN AppCommit(t, i, missed) ELSE t,
          s, Heights(el_frontier(s) + 1, h))

\* Without the hand-off of a gap that is not stored.
CatchUpStoredOnly(s, h, min_gap, missed) ==
    IF h = 0 \/ h - el_frontier(s) < LargerOf(min_gap, 1) THEN s
    ELSE IF el_frontier(s) + 1..h \subseteq disk.blocks THEN Replayed(s, h, missed)
    ELSE s

el_catchup_replay(s, h, min_gap, missed) ==
    IF h = 0 \/ h - el_frontier(s) < LargerOf(min_gap, 1) THEN s
    ELSE IF el_frontier(s) + 1..h \subseteq disk.blocks THEN Replayed(s, h, missed)
    ELSE IF s.el.up THEN [s EXCEPT !.el.target = h]
    ELSE s

CatchUp(s, min_gap, before) ==
    \E missed \in Unreadable(el_frontier(s) + 1, height, before) :
        LET t == el_catchup_replay(s, height, min_gap, missed)
        IN /\ app' = t.app /\ el' = t.el /\ boot' = t.boot
           /\ faults' = before + Cardinality(missed)

TimerFires ==
    /\ tick = "armed" /\ tick' = "fired"
    /\ UNCHANGED <<chain, height, phase, app, node, peer, disk, el, boot, faults, refused>>

Tick ==
    /\ phase = "idle" /\ tick = "fired"
    /\ CatchUp(Now, LiveGap, faults)
    /\ tick' = "armed"
    /\ UNCHANGED <<chain, height, phase, node, peer, disk, refused>>

(***************************************************************************)
(* Faults.  The tracked frontier of a node that starts is the head of the  *)
(* execution layer; ledger, weights and what was staged start anew.        *)
(***************************************************************************)
Restart ==
    LET fresh == [Now EXCEPT !.app = NewApp(el.head), !.boot = Booted(el.head)]
    IN /\ faults < MaxFaults /\ el.up
       /\ node' = NewNode(disk.sets, disk.evidence)
       /\ phase' = IF Commits(chain) THEN "execute" ELSE "idle"
       /\ CatchUp(fresh, 1, faults + 1)
       /\ tick' = "armed"
       /\ UNCHANGED <<chain, height, peer, disk, refused>>

ElStops ==
    /\ el.up /\ faults < MaxFaults
    /\ \E head \in {el.head} \cup {LargerOf(0, el.head - 1)} :
          /\ el' = [up |-> FALSE, head |-> head, target |-> 0]
          /\ boot' = [boot EXCEPT !.lost = @ \/ head < app.executed]
    /\ faults' = faults + 1
    /\ UNCHANGED <<chain, height, phase, app, node, peer, disk, tick, refused>>

ElStarts ==
    /\ ~el.up
    /\ el' = [el EXCEPT !.up = TRUE]
    /\ UNCHANGED <<chain, height, phase, app, node, peer, disk, boot, tick, faults, refused>>

ElSyncs ==
    /\ el.up /\ el.target > el.head
    /\ el' = [el EXCEPT !.head = el.target]
    /\ UNCHANGED <<chain, height, phase, app, node, peer, disk, boot, tick, faults, refused>>

Next ==
    \/ \E parent \in Parents : \E content \in Contents(parent) : PeerProposes(parent, content)
    \/ \E parent \in Parents : \E content \in Contents(parent) : Propose(parent, content)
    \/ \E proof \in Proofs : Detect(proof)
    \/ Execute \/ Record \/ TimerFires \/ Tick \/ Restart \/ ElStops \/ ElStarts \/ ElSyncs

Spec == Init /\ [][Next]_vars

\* The event loop goes on, its timer is armed again after every tick, and the
\* execution layer is restarted and fetches what it is pointed at.  Each
\* action is named by the part of the state that it alone changes.
FairSpec ==
    /\ Spec
    /\ WF_phase(phase = "execute" /\ phase' = "record")
    /\ WF_phase(phase = "record" /\ phase' = "idle")
    /\ WF_tick(tick = "armed" /\ tick' = "fired")
    /\ WF_tick(phase = "idle" /\ tick = "fired" /\ tick' = "armed")
    /\ WF_el(ElStarts) /\ WF_el(ElSyncs)

------------------------------------------------------------------------------
(***************************************************************************)
(* Properties.                                                             *)
(***************************************************************************)
\* The values of the variables; no stake is zero or beyond u64, and a validator
\* with nothing left to release has no queue.
TypeOK ==
    /\ height \in 0..LastBlock /\ phase \in {"idle", "execute", "record"}
    /\ tick \in {"armed", "fired"}
    /\ height <= Len(chain) /\ faults \in 0..MaxFaults /\ refused \in BOOLEAN
    /\ app.executed \in 0..LastBlock /\ el.head \in 0..LastBlock
    /\ \A id \in DOMAIN app.ledger.stake : app.ledger.stake[id] \in 1..U64Max
    /\ \A id \in DOMAIN app.ledger.unbonding : app.ledger.unbonding[id] # <<>>
    /\ \A i \in DOMAIN node.sets : DOMAIN node.sets[i].val # {}

\* Since the start of the node the heights are taken in the order of the
\* chain, none twice and none left out, whether they came with a commit, with
\* the replay of a gap or with the backfill of blocks the execution layer
\* fetched itself or that were passed over: the logs of each were applied to
\* the ledger, or some of them could not be read.  Unless the execution layer
\* has lost executed blocks under a running node.
AppliedInOrder ==
    ~boot.lost =>
        /\ \A i \in 2..Len(boot.applied) : boot.applied[i - 1] < boot.applied[i]
        /\ ToSet(boot.applied) \cap boot.missed = {}
        /\ \E first \in 1..boot.frontier + 1 :
              ToSet(boot.applied) \cup boot.missed = first..app.executed

\* The registry once the blocks of the chain are executed.
Registry ==
    Along(LAMBDA r, block : apply_registry_writes(r, block.registry),
          genesis_seed_storage, chain)

\* A view has failed: its block was given up.
Failed == chain # <<>> /\ Last(chain).view > Len(chain)

\* A change of stake in the ledger of a that the blocks of the chain will not
\* write into the registry is still waiting to be carried by one.
Remembers(a) ==
    LET r == Registry
    IN \A id \in DOMAIN Genesis \cup DOMAIN a.ledger.stake :
          stake_of(a.ledger, id) # weightOf(r, id) =>
              id \in DOMAIN a.weights \/ id \in Ids(a.ledger.pending)

\* While nothing fails and every view has its quorum, no delta is forgotten
\* between proposals and commits, although a weight that changes back and
\* forth is in several blocks on their way with old values.
NoWeightForgotten == faults = 0 /\ ~Failed => Remembers(app)

\* The same for the validators without faults, whatever views fail.  The code
\* does not ensure it: reconcile_pending_weights strikes out a weight when a
\* block that carried an equal one is committed, though the block that is to
\* carry it now may have been given up (Abandoned.cfg).
WeightsOutliveViews == Remembers(peer.app)

\* The running counts of the tracker are what a walk over its window gives.
CountsMatchWindow ==
    LET obs == node.tracker.obs
        counted(ids(_)) == [id \in DOMAIN node.tracker.counts |->
                               Cardinality({i \in DOMAIN obs : id \in ids(obs[i])})]
    IN /\ Len(obs) <= Window
       /\ DOMAIN node.tracker.counts = UNION {obs[i].members : i \in DOMAIN obs}
       /\ \A id \in DOMAIN node.tracker.counts :
             /\ node.tracker.counts[id].member = counted(LAMBDA o : o.members)[id]
             /\ node.tracker.counts[id].credited = counted(LAMBDA o : o.credited)[id]

\* A reconfiguration that the node mints itself and that removes an offender
\* the application has not asked to remove.
Jails(cmd) ==
    /\ cmd.kind = "reconfig"
    /\ cmd \notin ToSet(node.approved) \cup ToSet(node.effects)
    /\ \E id \in ToSet(cmd.removes) \cap node.evidence :
          \A j \in DOMAIN node.staged : node.staged[j].id # id

\* A reconfiguration that jails an offender is not one that the floor of the
\* validator set would refuse when it is minted, whatever the application
\* wants removed as well: the jail takes what the floor leaves it.
JailKeepsFloor ==
    [][\A cmd \in ToSet(node'.pool) \ ToSet(node.pool) :
          Jails(cmd) =>
              Cardinality(DOMAIN set_at(node.sets, NextView) \ ToSet(cmd.removes))
                  >= MIN_VALIDATOR_FLOOR]_vars

\* The execution layer does not stay behind: again and again its head is
\* within the threshold of the committed height.
CatchesUp == []<>(height - el.head < LiveGap)

\* A block that an honest validator builds in step with the chain is not refused
\* by the voters: its proofs are those of the logs that its weights are derived
\* from.  The code does not ensure it (Weights.cfg).
HonestProposalAccepted == ~refused
==============================================================================
