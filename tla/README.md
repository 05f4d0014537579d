# A TLA+ model of boule

boule is a HotStuff consensus node in Rust: a safety core that votes and
commits, a pacemaker that changes views, an event loop that carries out what
they decide, and an execution client (reth) that executes committed blocks.
This directory holds TLA+ modules of the node, the TLC configurations that
check them and TLAPS proofs about the consensus core, leader election, the
transport overlay, block sync, snapshots, governance and staking. Paths below are relative to `src/crates/`
unless they begin with `src/`.

## 1. Inventory

| Part | State | Operations | What makes it correct |
|---|---|---|---|
| Stake and quorums (`boule-consensus/src/hotstuff/qc.rs`, `validator_set.rs`) | members and weights | sum of weights, `has_quorum`, the two thresholds | quorums intersect; both forms of the threshold agree |
| Leader election (`pacemaker/leader.rs`, `step/mod.rs:221`) | priorities and frontier of the accumulator | `leader_for_view`, `round_robin_leader` | every node elects the same leader, whatever it asked before; proportional to stake |
| Safety core (`hotstuff/`) | `high_qc`, `locked`, `last_voted_view`, `proposed_in_view`, pending blocks, parked proposals, open block requests, vote buckets | proposal, vote, new view, pacemaker advance, become leader, proposal built, retry tick | one vote and one certificate per view, agreement on committed blocks |
| Pacemaker (`pacemaker/mod.rs`, `view_timer.rs`) | current view, failures | `OnQc`, `OnTimeoutCert`, `OnTimeout`, `OnRoundSync` | views only grow; a quorum ends up in one view |
| Timeout buckets (`boule-node/src/consensus_node/timeout_bucket.rs`) | timeout votes per view | count, round synchronisation, certificate | adopted certificates are genuine |
| Event loop, interpreter (`consensus_node/mod.rs`, `action_interpreter.rs`) | loopback stack, stashed proposal, pacing | dispatch, persist buffering, broadcast, suppression, build, commit, nested drain | persist before send; order of effects |
| Persistence, recovery (`persistence.rs`, `commit.rs`) | voted view, high QC, lock, proposed view, timeout vote, last commit, blocks | `persist_updates`, `apply_commit`, `recover_state` | nothing a node said is forgotten by a crash |
| Block and range sync (`step/block_sync.rs`, `step/eviction.rs`, `block_sync_retry_timer.rs`, `action_interpreter.rs:443`) | open requests and ranges, backoff, timer, bounded caches | request, answer, retry, give up, evict | a missing block is eventually found |
| Snapshot sync (`snapshot_sync.rs`, `snapshot_io.rs`, `replication/snapshot.rs`) | phase, candidates, chunk slots | manifest, chunks, disconnects, restore, take, prune | a fetch ends; limits hold; a restore is atomic |
| Validator sets and keys (`validator_history.rs`, `reconfig*.rs`, `validator_rotation.rs`, `*_key_history.rs`, `*_apply.rs`) | histories by effective view, staged updates | stage, mint, validate, apply, rotate, cancel | all nodes use the same set in a view; one pending boundary |
| Evidence, parameters, endpoints, liveness tracker | seen messages, minted and committed evidence, boundaries, sequence numbers | mint, apply, expire | at most once per validator; monotone sequence numbers |
| Limits (`rate_limit.rs`, `limits.rs`, `boule-core/src/transport/limits.rs`) | token buckets, counters | admit, drop, refill | bounded use, no leak |
| Execution client (`boule-reth*`) | head, executed frontier | validate, build, commit, catch-up | executes what is committed |
| Stake, evidence and registry (`boule-reth/src/application.rs`, `staking.rs`, `weight_proof.rs`, `app_reconfig.rs`, `evidence_apply.rs`) | ledger, pending weights, recent blocks, staged updates, pool, evidence | commit, backfill, mint, build, validate, slash, jail | each log counts once and in order; no weight is lost; honest proposals are accepted |
| Transport (`boule-transport-libp2p/src/overlay.rs`, `consensus_node/mod.rs`) | connections, three channels, the driver's and the loop's peers | dial, accept, disconnect, redial, send, meter | the loop's peers are the real ones; bootstraps come back |
| Storage (`boule-core/src/storage/`) | keys and values | get, put, delete, scan, atomic batch | – |
| Identity, cryptography, CLI, configuration, APIs, bundle | – | I/O, wiring | external to the models |

How the parts interact: the event loop takes one event at a time (a message, a
timer, a discovery event) and calls the core and the pacemaker, which return
lists of actions; the interpreter executes a list in order. A broadcast comes
back to the node itself through the loopback stack, which is drained *inside*
the interpretation of the list, so handlers nest. Safety records are buffered
and flushed in one batch before the next action of the list. The application
is called for validation, building and commit. After a crash the node rebuilds
the core from the safety records and enters the view after the latest it voted
in or knows certified.

What is hard to test here: crashes between two writes or sends; nested
handlers, whose lists of actions interleave; proposals that are parked and
retried out of order; two leader rules that disagree for unequal stakes;
messages delivered again after a restart; and anything that needs several view
changes on two branches. `PROJECT.json` lists these hazards, each at its line,
with the properties that cover them.

## 2. Modules

| Module | Models | |
|---|---|---|
| `Quorums` | `qc.rs`, `validator_set.rs` | weights as a function on sets of signers that is additive on disjoint unions |
| `LeaderSelection`, `LeaderCache` | `leader.rs`, `round_robin_leader` | the rules as operators; the stateful selector across changes of the set |
| `HotStuff` | core, pacemaker, timeout buckets, interpreter, persistence, recovery | one action per handler or interpreter step |
| `BlockSync` | block sync, range sync, retry timer, the bounded caches | a node that is behind, its peers and the network |
| `KeyValue`, `SnapshotStore` | `storage/`, `replication/snapshot.rs` | operators on a store |
| `SnapshotSync`, `SnapshotRestore` | `snapshot_sync.rs`; `snapshot_io.rs`, `adopt_snapshot`, the serving side | the fetch; its composition with peers that take and prune snapshots and a node that restores |
| `Histories`, `GovernanceCommands` | `*_history.rs`, `reconfig*.rs`, `validator_rotation.rs`, `endpoint_registry.rs`, `consensus_params.rs`, `*_apply.rs`, `history_commitment.rs` | records by effective view; what commands do to them, as operators |
| `Governance` | the node that commits, persists and reloads them | one action per commit, write, fault and start |
| `ValidatorSchedule` | – | abstract: what a node promises about its validator sets; refined by `Governance` |
| `StakeLedger`, `ElApplication` | `staking.rs`, `liveness_tracker.rs`; `application.rs`, `weight_proof.rs`, `executor.rs`, `Registry.sol` | operators |
| `Staking` | `app_reconfig.rs`, `evidence_apply.rs`, `equivocation.rs`, commit and catch-up | node, peers, execution layer and chain |
| `RateLimiter`, `Overlay` | `boule-core/src/transport/limits.rs`; `overlay.rs` and the receiving loop | token buckets; driver, loop and channels |
| `Loops` | `for` loops | what a step makes of a state along a sequence |
| `MC*` | – | instances for TLC |
| `HotStuffProofs`, `LeaderProofs`, `BlockSyncProofs`, `OverlayProofs`, `SnapshotProofs`, `GovernanceProofs`, `StakingProofs` | – | theorems about the modules they are named after (section 5); those about `Quorums` are in `HotStuffProofs` |
| `LoopProofs` | – | lemmas for the proofs: recursive functions over the natural numbers; the loops of `Loops`, for any step and invariant |

How they compose: `MCHotStuff` takes its leaders from `LeaderSelection` and
`HotStuff` its certificates from `Quorums`. The modules above consensus
(`Governance`, `Staking`, `SnapshotRestore`, `BlockSync`) take the chain it
agrees on as given: in `Governance` and `BlockSync` one block per view, block *i*
committed when block *i* + 3 arrives, in `SnapshotRestore` with the lag as a
constant, in `Staking` with views that fail and commits that pass over blocks. `ElApplication` builds on
`StakeLedger` and on the reconfiguration rules of `GovernanceCommands`,
`Staking` on both; `SnapshotRestore` on `SnapshotSync` on `SnapshotStore` on
`KeyValue`; `Overlay` on `RateLimiter`.

### HotStuff

*State.* `highQc`, `locked`, `lastVoted`, `proposedIn`, `pending`, `parked`,
`inflight`, `votes` are the fields of `HotStuffCore` and its state; `pmView` the
pacemaker's view; `timeouts`, `stash`, `paced`, `loopback` the node's. `disk` is
the durable storage, `executed` and `failed` what the application has been given
and has executed or answered with an error (`CommitFails`; the node logs the
error and records the block all the same); the three survive `Restart`. `msgs` is the set of all messages ever sent: a node may
receive any of them any number of times or never, so loss, duplication, delay
and reordering need no action.

*The call stack.* `agenda[n]` is what is left to do of the event that node `n`
is handling: calls (`recv`, `cert`, `advance`, `lead`, `drain`, ...) and actions
(`send`, `build`, `commit`, `flush`). Each step executes the head and puts the
calls it makes in its place, as the nested `await`s of the code do. `pre` of an
action is the batch that the interpreter has buffered when it reaches it;
`PersistUpdates` writes it in a step of its own, so a crash can fall before and
after. `UnparkOne` chooses among the parked proposals because they are in a
`HashMap`.

*Abstractions.* A block is the sequence of headers from genesis to itself
(hashes are collision free), so ancestors need no lookup, but a handler may use
an ancestor only if the block is in `pending`, as in the code. A certificate is
identified with the block it certifies; only messages that were really sent
are received, so signatures hold. The application may refuse any `Refusable`
payload, `FailingBuilders` may fail to build and the application of
`FailingApps` to commit. Timers may fire at any time.
Block sync may give up any request at any time and is answered with blocks
somebody has voted for; `BlockSync` has the details.

### LeaderCache

`Regimes` are the validator sets in order. `LeaderForView` is a query, which
extends or bypasses the cached frontier of its regime; `SetSelector` is what
`apply_committed_reconfigs` does when a boundary becomes known: a longer
history and an empty selector. A step of the accumulator keeps the sum of the
priorities at zero and nobody's debt reaches the total weight, so that somebody
may be owed as much as all the others together can owe: the bound in
`PrioritiesBounded` grows with the number of validators (with the stakes 30, 1,
3, 30, 1 a priority exceeds the total). It is still far from the ends of `i128`.

### BlockSync

`core` holds what `HotStuffCore` keeps of the chain (pending blocks, parked
proposals, open requests with sender, attempts and age, last commit), `ranges`
the open ranges, `timer` and `ticks` the retry timer and its channel. Peers have
pruned up to `StoredFrom`; the network loses messages and connections until
`BecomeCalm`. The chain has one block per height, so a height stands for a
block. A node answers a proposal by placing it or parking it and asking for the
parent; the height of the parent against the last commit decides whether a
range is asked for; the evictions follow `evict_*_to_fit_one`. Two ghosts:
`evicted` in `core`, the parents that arrived and were evicted again, and
`pulse`, on which the fairness of deliveries is stated.

### SnapshotSync, SnapshotStore, SnapshotRestore

`phase` is the variant of the enum, `chunks` the slots, `inFlight` the counts
per peer. `open` is the set of requests that a connected peer has received and
not answered: a disconnection, or a request to a peer that is not connected,
loses it, and so do the rate limiters of either side, which drop messages of
connected peers (`AnswerDropped`; a request that is dropped and an answer that is
dropped look the same to the node). Peers commit the chain, take a snapshot every `IntervalBlocks`, prune
to `RetentionCount`, crash between the batch of a snapshot and the deletions,
and import snapshots that an operator copied. `wanted` is the manifest,
`stage` how far `restore_from_snapshot` has got: application and batch, then
the histories in memory, then one put for each. `CatchUp` is block sync going
on in parallel. A history is the set of heights whose blocks changed it, of
sets, of keys (consensus and BLS) or of operators' keys; the last are in the
manifest and in the claim of the header, and the restore neither installs nor
writes them. The content of a chunk is the height of its snapshot.

### Histories, GovernanceCommands, Governance

A history is a sequence of entries `[from, val]`; keys have one per validator,
and the consensus keys a reverse index. Signatures are the keys that made them.
The code applies the same commands twice: by the pure functions of
`history_commitment.rs` (`PostBlock`) and by the wrappers that run at commit
(`apply_committed_*`); both are modelled, because the check at start compares
them. A commitment is the tuple of what is hashed. `Commit` stores the block and
changes the memory, each `Put` writes one record, in the order of the code;
`Crash` and `PutFails` may come between any two. `Restart` loads what the
loaders accept (`SetsLoadable`, ...), takes the genesis values for what is not
there, and runs `verify_persisted_history_consistency`.

*Refinement.* `ValidatorSchedule` has two variables, the view of the last commit
and the schedule of sets, and one action: a commit may append one set with at
least `Floor` members, at least `Delay` views ahead, if no set is still ahead.
`Governance` implements it with `now <- height`, `sched <- mem.sets` for all
behaviours, crashes included: a restart must come back with the very schedule
the node had, or not at all.

### StakeLedger, ElApplication, Staking

`app` is `RethApplication` (executed frontier, ledger, pending weights, ring of
recent blocks), `node` what the consensus node keeps (sets, evidence, staged
updates, effects, pool, tracker), `el` the execution layer: up or down, its
head, and the head it was pointed at. `Execute` and `Record` are the two halves
of `commit_block`; `Tick` is the catch-up timer; `Restart` rebuilds the
application from the head of the execution layer and the node from disk.
`ElStops` may lose the newest block. Each read of logs, of the block or of a gap,
may fail in all its attempts (`Unreadable`): the logs are dropped and the height
is taken without them.

The chain is the branch the leaders extend. A block of a view in `Failing` may
get no quorum: the next leader, who has the certificate of its parent, puts
another block in its place, although the certificate it carried may have
committed a block (`Parents`). A block is committed when three blocks have
consecutive views; the next commit passes over those that have not
(`three_chain_commit`), and their logs come with the backfill. Only the last
block is ever replaced, since a block with a child is certified; branches that
compete for longer are left to `HotStuff`. The other validators run without
faults, their execution layers answer, and they are one peer, which is what
`Followed` computes. A voter holds the blocks in `pending_blocks` and those that
are stored (`Held`) and refuses a proof anchored elsewhere. A transaction emits one
staking log; amounts are words that saturate at `U64Max`; the proof of a weight
is the height it is anchored at. The registry contract is the fold of
`apply_registry_writes` over the chain. Ghosts: `boot` (the heights applied to the
ledger since the start, and those of which some logs were missed) and `refused`.

### RateLimiter, Overlay

The driver and the loop are two tasks. `driver.sends` is what the driver has to
put into the event channel and the broadcast channel before it takes the next
event, `node.waiting` the command the loop waits to hand over. The broadcast
channel drops its oldest entry and sets `lagged`; the loop then reads the set of
known peers. A peer may have two connections, dialled and accepted; a bootstrap
is dialled again when the driver does not count it as dialled, whether or not a
connection is up. A message with an empty payload or an unknown tag is let
through unmetered, and nothing decodes it. The limiter
charges a bucket per kind and one for bytes, refunds the one that admitted when
the other refuses, counts violations and asks for a disconnection once. A
violation that has left the window is taken from the front of the queue only,
as in the code. `admitted` is a ghost that counts, per kind and in bytes, what a
peer has got through in metered messages since it is known.

## 3. Runs

Passing runs:

| Run | Instance | Shows |
|---|---|---|
| `leaders` | weights 3, 1, 2, then 3, 1, 2, 4, then 1, 1, 2; 20 views | the cache and the replaced selector are transparent, leadership proportional, priorities bounded |
| `solo` | 1 validator, 2 payloads, 4 views, 1 crash, 3 timeouts, refusals, failing builds and commits, stash | types; the record of a commit is of a block the application was given; persist before send |
| `pair` | weights 2, 3; 2 views with two leaders each, 1 crash, 1 timeout | one vote and one certificate per view although two blocks compete; genuine certificates |
| `block_sync` | 2 blocks missed, 9 heights, caps of 6 and 2, ranges of 2, one loss | no parked proposal without a request; the node commits again (liveness) |
| `snapshot` | 2 peers, one damaged that may leave, 2 chunks, snapshots at 2 and 4, 1 crash, 1 import, any number of dropped messages | fetch: budgets, no silent stall, no leak, no repeated request, ends unless a message was lost (liveness); store: whole after any crash; restore: records agree, no vote forgotten, histories of the restored block, sound peers kept |
| `governance` | 4 validators, 12 menus of commands, 3 blocks, 2 faults | the sets of a running node are those of the chain; keys in step; records complete; every set certifiable; refinement of `ValidatorSchedule` |
| `staking` | 5 validators, 3 menus, 2 blocks with logs, chain of 8, a view that may fail, 1 fault | blocks taken in order, once; no weight forgotten while nothing fails; counts right; a jail leaves the floor; the execution layer catches up (liveness) |
| `overlay` | a bootstrap and a peer that dials in, channels of 1, 2 messages, 1 fault | the loop's peers converge; admission of metered messages bounded; bootstraps reconnect unless driver and loop wait for each other (liveness) |

The bounds are small because a step of the models is one call, write or message.
They are enough for what the properties are about. `solo` reaches a three-chain,
a commit and a crash between execution and record; `pair` needs both
validators for each quorum, although each has more than a third of the weight,
and has two valid proposals of a view that compete, ancestors fetched while a
proposal is parked, and a lock. In `block_sync` the gap is longer than one range, the caps are
reached and the peer that is asked first may have pruned. In `snapshot` the
second snapshot replaces the first while it is served, and the chain has a set
change before and a rotation at the first snapshot. In `governance` each
command is in time in one block and late in another, and a command can be
undone or overtaken by the next; three more blocks commit them. In `staking` a
weight changes twice before it is recorded, saturates, and is slashed; the gap
reaches past the retention of one block; the view that may fail is that of a
block with logs, and the certificate of one view is no longer cached when its
block is committed (`Uncached`). In `overlay` every channel, also that of the
commands, has room for one entry and fills up, so that the driver and the loop
do come to wait for each other.

*Reduction in `MCHotStuff`.* While a node handles an event it touches its own
state and adds messages; its steps commute with those of the others. `MCNext`
lets it finish (or crash) before another moves and drops deliveries that change
nothing (`Idempotent`). The theorems are about `Next`, without this reduction.
`MaxCommits` and `MaxTimeouts` bound what `MaxView` does not: a node that has
pruned genesis may ask for it and commit it again without end.

*Deadlock* is not checked where the system may stop: `governance` (the chain
ends, or the node refuses to start), `staking` (the chain ends), `snapshot`
(all is done) and `overlay` (nothing arrives any more), and along the schedules.

*Fairness.* Each assumption is one the code or its environment keeps:

* `snapshot`: no request stays open for ever: it is answered (`serve_snapshot_*`
  answer each, with `None` if they have nothing), dropped by a rate limiter or
  lost with the connection; and a restore that has begun goes on. `Ends` excuses
  a fetch that waits for a message that was lost, and no other.
* `block_sync`: the network becomes calm, after which messages arrive before the
  next timeout; the view timer fires; the loop takes the ticks of the retry
  timer. Nothing is assumed about the retry timer being armed.
* `staking`: the loop finishes a commit and takes timer ticks, a stopped
  execution layer is started again and fetches the block it is pointed at. The
  chain need not grow and the timer is armed again only by `Tick`.
* `overlay`: both tasks are scheduled, the redial timer ticks, a bootstrap that
  is dialled answers from some point on.

Runs that end in a violation, each with an entry under `findings`:

| Run | What the code does |
|---|---|
| `fork` | the lock is ordered by height: four honest validators, no crash; one of them commits y1 (height 1) and then z1 (height 3), which does not descend from y1 |
| `nested` | the flush of an outer handler overwrites the newer voted view of a nested one |
| `restart` | a node that lost nothing refuses to start: the claims in headers were computed without the uncommitted ancestors, the rebuild has them |
| `weights` | the weight in every honest proposal is proved by a newer log than the one it comes from and refused by the voters |

`fork` and `nested` are too long for breadth-first search. `MCSchedule` runs
`HotStuff` along a schedule of events; what a node does with each is the
unrestricted model, and where it has a choice (the order of parked proposals)
TLC explores all. Seven more configurations end in a counterexample and are
kept to reproduce it: `CommitGap.cfg` (`MCHotStuff`; a commit does not commit
the ancestors that were skipped), `Redelivery.cfg` (`MCSchedule`; a proposal
delivered again after a restart pairs an old block with the newest height in
the commit record), `OutOfOrder.cfg` (`MCSchedule`; a lock is persisted after
a vote when two parked proposals are retried in one step), `Reproposal.cfg`
(`MCSchedule`; a leader proposes twice in a view), `Reindex.cfg`
(`MCGovernance`; `RecordsComplete` fails once blocks are pruned), `Operators.cfg`
(`MCSnapshot`; a restored node has its own history of operators' keys, not that
of the manifest) and `Abandoned.cfg` (`MCStaking`; a weight is lost with a block
that gets no quorum). Section 4 has more on the last four. `Rebound.cfg`
(`MCStaking`) passes: the stake of one validator goes up or down in every block,
so that several blocks on their way carry different weights for it. It is the
instance that showed that `NoWeightForgotten` has to compare the ledger with the
registry of the whole chain, not of the executed blocks: while an old value is
on its way the registry at the committed height can differ from the stake with
nothing pending.

## 4. What the models show beyond the runs

Behaviour that is in the models, or was met while writing them, and that no
property demands otherwise because the code does not promise it:

* *Two proposals in a view.* `proposed_in_view` is tested when a build is
  requested and set, to whatever view, when it is carried out
  (`step/proposal.rs:28-42`). A nested handler may propose in a later view in
  between; the build of the earlier view then sets the field back, and the leader
  can propose in the later view again. `OneProposalPerView` is violated along
  `Reproposal.cfg` with four validators and no crash.
* *A commit the application fails.* The error is logged, nothing is staged and
  the block is recorded as committed (`commit.rs:19-28`). What the record promises
  is `RecordedIsPresented`: the application was asked. The execution layer gets
  the block by the catch-up, as in `Staking`.
* *Operators' keys after a restore.* `restore_from_snapshot` installs and writes
  the histories of sets, consensus keys and BLS keys; that of the operators' keys
  is in the manifest, is covered by the header's commitment, and is left as it was
  (`snapshot_io.rs:181-230`). `RestoredHistories` is about the others,
  `RestoredOperators` about this one, and `Operators.cfg` violates it.
* *A lost message ends no fetch.* Requests of snapshot sync have no timeout. A
  chunk is 1 MiB and so is the burst of the limiters on both sides, so a chunk
  with its framing can be dropped between connected peers; the fetch then waits
  until the peer disconnects, or for ever. `Ends` excuses this.
* *A weight lost with a block.* `reconcile_pending_weights` strikes out a pending
  weight when a committed block carried an equal one. Let a stake go 3, 2, 3: the
  block that carries the second 3 can commit the one that carried the first,
  which strikes it out; if the carrying block then gets no quorum, its
  replacement carries nothing and the registry stays at 2. `WeightsOutliveViews`
  is violated along `Abandoned.cfg`; `NoWeightForgotten` is stated for behaviours
  in which no view fails.
* *Durable records after a restore.* `adopt_snapshot` persists the snapshot's
  view as the last voted one even when it is lower; `RecordsAgree` and
  `MemoryKeepsVotes` say what does hold.
* *Restore over known sets.* `insert_validator_boundary` refuses a boundary not
  after the last, so a node that knows a set change fails to install the
  histories after the batch has been written.
* *Manifests near a command* are built before the block's own commands and
  verified against a header without the uncommitted ancestors; they are
  refused by every node (`RestoredHistories` holds because of that).
* *The retry timer* is never armed again once it has fired while anything is in
  flight; single blocks are retried on the next view (`Recovers`), a range
  whose only answer was lost stays open.
* *Staged updates* are cleared by any applied reconfiguration
  (`reconfig_apply.rs:264`), also one that did not contain them; the ledger and
  pending weights are rebuilt from genesis at a restart; logs that cannot be
  read in four attempts are dropped, at a commit and in a backfill, although the
  warning says they "must not be dropped" (`application.rs:301`).
  `AppliedInOrder` counts such heights as `missed`, and `NoWeightForgotten` is
  stated for behaviours without faults.
* *The floor and the application.* `mint_staged_reconfig` truncates the jail to
  the budget that `jail_removes` computes; the removals staged by the application
  itself are not truncated. `JailKeepsFloor` is about the commands that jail
  somebody; one that only removes what the application asks for can be below
  the floor and is refused when it is applied.
* *Driver and loop* can wait for each other for ever when both channels are
  full: the driver for room in the event channel, the loop for room in the
  command channel. The run `overlay` reaches this state (`WaitingOnEachOther`),
  and `Reconnects` says that it is the only way for a bootstrap to stay away.
* `detect_weight_extra_data_divergence` reports a safety violation in honest
  runs: a weight is carried by several pipelined blocks, and after the first of
  them commits it is no longer pending.
* *A former key after a cancelled rotation.* `cancel_pending_rotation` drops the
  key it removes from `pubkey_to_stable_id` (`validator_key_history.rs:280`). If
  the rotation went back to a former key of the same validator, that key is still
  in the history, and `from_persisted` brings it back into the index at the next
  start. A rotation that names the former key is then applied by a node that was
  restarted and ignored by one that was not (`Reindex.cfg`). Their BLS and
  consensus keys stay in step all the same (`KeysPersisted`).
* Validators that join are added to the key history of the commitment, not to
  that of the running node (`history_commitment.rs:359`).

## 5. Proofs

Every theorem is about the specification of its module with its constants left
open: any number of validators, peers, chunks, views and crashes, any weights,
capacities, rates and limits. The theorems about `HotStuff` are about `Next`,
without the reduction of `MCHotStuff`. The assumptions on constants are named
and evaluated by TLC in the runs:

| Assumption | Says | Why the code justifies it |
|---|---|---|
| `WeightsAdd` (`Quorums`) | weights of sets of signers are natural numbers, additive on disjoint sets | they are sums of `u64` weights |
| `ConstantsOK` (`HotStuff`) | types of the constants; who fails is a node | – |
| `RegimesOrdered` (`LeaderCache`) | validator sets are not empty, weights positive, boundaries increase from 0 | `ValidatorSet` and `insert_validator_boundary` refuse anything else |
| `RateLimiterAssumption`, `OverlayAssumption` | rates are natural numbers, channels have room for one entry | types; `tokio` channels of capacity 0 panic |
| `BlockSyncAssumption` | there is a peer, caps and attempts are positive, bounds are consistent | the defaults of `limits.rs`; a node without peers has nobody to ask |
| `GovernanceAssumption` | weights and effective views of commands are natural numbers, genesis weights positive, every genesis validator has a BLS key, which is not the mark for none | types of `ReconfigCommand` and of the rotation commands; `ValidatorSet::with_weights`; the genesis is checked |
| `StakingAssumption` | genesis weights positive and within `u64`, there is a genesis validator, logs and approved reconfigurations of a block are sequences, amounts natural numbers, finitely many proofs of equivocation, the gap that starts a catch-up positive; of the views that fail and the certificates that are not cached nothing | types of `StakingOp`, `ReconfigCommand` and the evidence; the genesis is checked; `EL_CATCHUP_LIVE_GAP_THRESHOLD` is 16 |
| `StoreConstants`, `SnapshotConstants`, `RestoreConstants` | at least one chunk, limits and retry budget positive, peers are ordered, the mark of a deletion is no value | `chunk_snapshot`; the constants of `snapshot_sync.rs`; order of `NodeId` |

### Quorums and consensus

* `HotStuffProofs`: `QuorumsIntersect`, `ThresholdIsQuorum` (the strict inequality
  of `has_quorum` and the rounded number of `quorum_weight_threshold` accept the
  same sets) and `HonestyMeetsQuorum`. From additivity alone.
* `HotStuffProofs`: `TypeCorrect`. `TypeOK` is inductive as it stands because it
  contains `Booting`: until the first view is entered the agenda holds the boot
  call only. Without it `Timeout(n, 0, ..)` and `Advance(0)` could not be
  excluded. One lemma per action.
* `HotStuffProofs`: `VotesPersistedFirst`, `Spec => PersistBeforeSend`. The
  property is not inductive: whether a vote may leave depends on batches that
  wait further down the agenda. The strengthening `VoteRecords` says that every
  vote waiting in the agenda or in the output of an unfinished step carries the
  record of its view in its batch, except possibly the head, whose record is
  then already on disk. Each action preserves it, and a vote leaves only from
  the head with an empty batch.
* `HotStuffProofs`: `CertificatesUnique`, `TypeOK /\ OneVotePerView =>
  CertifiedUnique`: two certificates of one view share a signer by
  `QuorumsIntersect`.
* `HotStuffProofs`: `CertificatesGenuine`, `Spec => []QcBacked`, and
  `RecordAfterApplication`, `Spec => []RecordedIsPresented`. Both follow from
  `SafetyInv`, which follows a certificate through everything that can carry
  one: messages, calls and batches waiting in the agenda and in the output of
  an unfinished step, the tree of pending and parked blocks (each block's parent
  is certified), the vote buckets (only votes that were sent), the records on
  disk. The set of certified blocks only grows, so a step can only disturb what
  it writes. For the record of a commit, the agenda is enough: an `apply` waits
  only for a block that the application has executed or has failed to commit.
* `HotStuffProofs`: `NoEquivocation`,
  `Spec /\ []SentVotesDurable => [](OneVotePerView /\ CertifiedUnique)`, and
  `NoEquivocationUntilCrash`, the same conclusion without a premise for states
  with `restarts = 0`. The invariant `VoteInv` gives each node a *book* of the
  blocks it has ever decided to vote for, sent or still waiting: one per view,
  none above `lastVoted`, and every vote in the agenda, in an unfinished output
  or on the wire is in it. A crash loses what has not left; the book is then cut
  to the votes that were sent, and `SentVotesDurable` says that the recovered
  `lastVoted` covers these. That premise is not a theorem of the code: the run
  `nested` is a behaviour in which the flush of an outer handler overwrites a
  newer record. The theorem says that this is the only road to equivocation.

### Leader election

`LeaderProofs`: `TypeCorrect`, `CacheIsTransparent`, `LeadershipIsProportional`,
`PrioritiesStayBounded`, for every sequence of validator sets. `CacheInv` says
that the priorities cached for a regime are those that `Walk` computes from zero
in as many steps as there are views; `Walk` is a recursive function, and that
walking *m* steps and then *n* is walking *m + n* is proved by induction
(`LoopProofs`). The other two come from `Accounts`, which one step of the
accumulator preserves: the priorities add up to zero, each is above minus the
total, and after *k* views each is *k* times the weight minus a multiple of the
total. After a whole period all are multiples of the total that lie above minus
the total and add up to zero, so they are zero.

### Block sync

`BlockSyncProofs`: `TypeCorrect` (the caps and the attempts are kept) and
`ParkedAreRequested` (`ParkedIsRequested`), from `SyncInv`: the core is `Good`,
and proposals and certificates under way are of the chain. Each operation of the
core leads from `Good` to `Good`, so the loops over waiting proposals, open
requests and the blocks of a range do (`RunOf` and `Induct` of `LoopProofs`).
While a proposal is being parked its request is not yet open, and `Good(X)`
excuses the proposals in `X`. What carries the proof: a request is dropped only
with the one proposal that waits for it or when its block is inserted, an evicted
block is remembered, and what a commit prunes is not above it.

### Governance

`GovernanceProofs`, for every menu of commands, every bound and any number of
crashes and lost writes:

* `ScheduleImplemented`: `Spec => ScheduleRefined`, the refinement of
  `ValidatorSchedule`, and `SetsFromChain`: `Spec => []SetsMatchChain`. Both
  assume `Retention = 0` (`block_retention_window`, whose default is 0): once the
  blocks of the replay are pruned the check at start compares nothing, and a
  write that was lost goes unnoticed.
* `SetsPersisted`: for every retention, `Spec => [](~torn => SetsMatchChain)`.
* `BlsKeysInStep` and `CertificatesAlwaysVerifiable`: with `Retention = 0`,
  `Spec => []BlsInStep` and `Spec => []CertificatesVerifiable`.
* `KeysPersisted`: for every retention,
  `Spec => [](~torn => BlsInStep /\ CertificatesVerifiable)`. It covers the
  restarts that the two theorems above do not reach: with the whole chain kept
  a node can refuse to start because of its own commands (run `restart`).
* `TypeCorrect`: `Spec => []TypeOK`.

The invariant is `GovInv`. Its core is `OnChain`: the sets in memory are
`ChainSets(chain, height)`, what the reconfigurations of the first `height`
blocks make of the genesis. A commit keeps it because the wrapper of the node
and the pure function of the commitment do the same to the sets
(`ReconfigSets`), although they do different things to the keys, and because no
later pass over the block touches the sets (`Keeps`). A restart keeps it because
what is loaded starts at the genesis (`DiskOK`) and the replay of the check
depends on nothing else that was loaded (`RebuiltSets`). For `SetsPersisted`,
`Written` says that unless a write was lost the disk has the sets or one of the
puts to be done brings them. The schedule's step comes from `BlockSetsShape`: of
all the reconfigurations of a block at most one takes effect, since it is
pending for those that follow.

The keys need a second invariant, `KeyInv`, since neither property is inductive.
`Sound` relates three records in memory: `Linked` says that every member ever has
BLS keys from the view of its membership on, that a validator with consensus keys
has as many entries in both histories and at the same views after the first, and
that one without has a single BLS key; `Heads` says that the consensus keys
begin with the membership too. A rotation or a cancellation appends to, or
shortens, both histories alike, because the index sends it to one validator
(`OwnersKnown`). `Heads` is a parameter of `Sound` and not part of `Linked`: the
pure function of the commitment adds the keys of new members itself and may add
one late, after a rotation that held the key was cancelled, so that a rebuilt
record is `Linked` and need not have its `Heads`. The rest of `KeyInv` says of the
disk and of the puts to be done what a restart needs: histories in order and
keys that begin with a membership. With `Retention = 0` the start compares what
was loaded with the replay (`RecoverSound`). For `KeysPersisted`, `BlsWritten` and
`KeysWritten` say that the disk has the record of the memory or that the last of
its puts to be done brings it, and that a disk without consensus keys belongs to
a node whose validators have never changed a key; then the keys that
`from_set_history` derives from the sets match (`RecoverWritten`).

A loop is a recursive function along a sequence of commands whose states have no
common type. `LoopProofs` proves the recurrence and the rule for invariants with
the step and the invariant as constant operators; the proofs instantiate it
once per loop.

### Overlay and rate limits

`OverlayProofs`: `TypeCorrect`, `AdmissionIsBounded`, `PeersConvergeAlways`.

* `MeterInv` keeps an account of each bucket: what a peer got through plus the
  tokens that are left is at most the capacity plus the rate times the time up
  to the last refill. Messages without a known tag touch no bucket and no
  account. A refund gives back what was taken in the same call, and a
  refill that the capacity cuts off only makes the left side smaller. It is an
  invariant together with `TypeInv`, which has the shapes of channel entries.
* `FollowInv` is about words in transit: `DriverFollows` says that the last
  event in the swarm's queue about a peer agrees with its connections (a second
  connection and the loss of one of two are silent), `LoopFollows` that the last
  announcement not yet taken by the loop agrees with the driver's peers; the
  channel may drop its oldest entry, after which `lagged` excuses the loop until
  it has read the driver's set. `PeersConverge` is the case of empty queues.

### Snapshots

`SnapshotProofs`, all from `FetchInv /\ RestoreInv`:

* `TypeCorrect`, `FetchNeverIdle` (`NeverIdle`), `CapacityNeverLeaks`
  (`NoCapacityLeak`), `PeersNeverAskedAgain` (`NeverAskedAgain`). `FetchInv`
  relates the slots to the requests that were ever made: a peer that was asked
  for a chunk is in the slot's `tried`, or serves it now, or the chunk is there.
  `schedule` is a recursive function of rounds; each keeps the counts at or below
  the chunks in flight, and if nothing is in flight after the last round then
  some chunk has no candidate left, for which the fetch aborts.
* `StoreStaysWhole` (`StoreWhole`). `PeerInv` gives a whole store in closed form
  (`Holding`: a set of heights, the latest, and the manifests), and each batch,
  import and interrupted pruning leads from one such store to another.
* `RecordsAlwaysAgree`, `VotesAreKept`, `HistoriesAreRestored` and
  `SoundPeersStay`, the last three action properties. For
  `RestoredHistories` the invariant `WantedInv` says that the manifest in use is
  that of a block of the chain and has passed `verify`, that is, its histories
  are those its header claims. A block that changes a history is in the claim of
  its own header and not in its manifest, so `verify` has refused it; the
  histories of the others are those of their block. The theorem is about the
  histories that are installed; the operators' keys, which are not, are the
  node's own before and after.

### Staking

`StakingProofs`, for every menu of logs, chain length, retention, anchor lag and
cap of pending blocks, and, except for the last, every number and order of
faults, of views that fail and of logs that cannot be read:

* `TypeCorrect` and `LogsAppliedInOrder` (`AppliedInOrder`), from
  `IInv == Place /\ Shape /\ Order`. `AppliedInOrder` relates the ghost to
  `app.executed` and is not inductive: `Tick` and `Execute` apply what lies between
  the executed frontier and a height that depends on the head of the execution
  layer and on how far `commit_block` has come. `Covers` is the statement itself:
  the heights applied and the heights missed are together those from some first
  one up to the executed frontier, the applied ones in order and none of them
  missed. `Order` adds that, unless the execution layer lost blocks, the frontier
  is not above its head nor, once something was taken, above the block in
  progress (`Bound`), and that it is the frontier of the start as long as nothing
  was. `Place` has what failed views leave of the chain: a block that is being
  committed lies above the last commit, at whatever distance. `el_catchup_replay` is a loop whose body commits
  a block, with a backfill inside; one turn leads from `Ordered` to `Ordered`, so the
  loop does. `Shape` has the ledger: stakes in `1..U64Max`, no empty queue of
  releases, no empty validator set, which need the saturating arithmetic.
* `TrackerCounts` (`CountsMatchWindow`), from `Shape`, which says it of the
  trackers of the node and of the peers; the work is that
  `observe` adds one observation to the counts of some and takes the oldest off
  the counts of others, and drops an entry when it reaches zero, while the
  property counts positions in a window that has moved by one.
* `JailLeavesTheFloor` (`JailKeepsFloor`), an action property. A new command of the
  pool that jails is the one that `mint_staged_reconfig` made; it removes the
  seated ones among the staged removals and at most the budget of offenders, and
  these two sets may overlap.
* `WeightsNeverForgotten` (`NoWeightForgotten`), from `WInv`: `IInv`, and, while
  there was no fault and no view has failed, `Calm`, which is `Steady`,
  `Balanced` and `Paced`. `Paced` says that every block has the view of its height
  and each is committed by the third after it, which a failed view ends for good. `Steady` says that the node and its peers have
  the same application and the same sets, up to the half of `commit_block` that
  is still to come, so that what a peer proposes is what the node waits to see
  carried. `Balanced` is the account of a weight. `Carried`: what is in
  `pending_weights` is the stake of now, save what was announced since.
  `Settled`: a validator that is in neither has its stake in the registry the
  chain leads to. `Written`: while the newest block has not been executed, it has
  brought all pending weights into that registry. The last is what makes it right
  that `reconcile_pending_weights` strikes off a weight which an older block
  carried, although newer blocks with other values of it are on their way.

### What is only model-checked

* Liveness (`Ends`, `Recovers`, `CatchesUp`, `Reconnects`): outside the prover's
  reach.
* `OneVotePerView` without premise is not a theorem (`nested`), nor is
  `Agreement` (`fork`).
* `OneProposalPerView` (`Reproposal.cfg`), `RestoredOperators` (`Operators.cfg`)
  and `WeightsOutliveViews` (`Abandoned.cfg`) do not hold (section 4).
* `RecordsComplete` of `Governance` is checked for a node that keeps the whole
  chain. It is not a theorem for every retention: `Reindex.cfg` violates it with
  a restart and no write lost (section 4).
* `RECURSIVE` operators are outside the prover's reach, and so are lemmas that
  take an operator as a parameter. What a recursive *function* computes is not:
  `LoopProofs` derives induction for a set, the uniqueness and the existence of
  what a recurrence defines from the well-foundedness of `<`, and it has
  operators as constants, which an `INSTANCE` replaces.

## 6. Plan

1. View synchronisation: pacemaker and timeout buckets with fair timers and a
   lossless network after some point; a quorum meets in a view.
2. `Governance` composed with `HotStuff`, for the keys by which messages are
   verified across a boundary.

## 7. Not modelled

* Cryptography, encodings, receipt tries, contract storage layouts: the models
  use the facts they establish (who signed, what is contained).
* The write-ahead log: the node opens it and neither reads nor writes it.
* `ConnectionLimiter` and `HandshakeLimiter`: called from nowhere in the node.
* The caps on vote and timeout buckets and on the maps of the equivocation
  detector, timer durations, the local signer that switches keys, gossip
  forwarding, roles other than validator.
* The execution of transactions, the engine protocol and libp2p: external,
  modelled by how the node uses them.
* Configuration, command line, APIs, metrics, deployment: wiring and I/O.
