---------------------------- MODULE ElApplication ----------------------------
(***************************************************************************)
(* RethApplication: what committing a block does to the node's picture of  *)
(* the execution layer, and the weights a proposer writes into the block   *)
(* it builds, with the proofs the voters ask for.                          *)
(*                                                                         *)
(* A block is [view, cmds, ops, slashed, approved, registry, proofs]: the  *)
(* commands, the logs its execution emits (stake operations, slashed       *)
(* validators, approved reconfigurations), what it writes into the         *)
(* registry (weights and the settled view), and for each weight the height *)
(* of the block that proves it.  A height names a block of the branch that *)
(* `chain` is: what is abandoned is cut off it before it grows again.      *)
(***************************************************************************)
EXTENDS StakeLedger, GovernanceCommands

CONSTANTS
    Genesis,                      \* the first validator set: members to stakes
    MAX_WEIGHT_PROOF_ANCHOR_LAG,  \* how far back a proof may reach
    SYSTEM_TX_LIMIT               \* commands taken from the pool for a block

\* [executed, ledger, weights, ring]: the tracked frontier, the ledger,
\* pending_weights and recent_committed.
NewApp(executed) ==
    [executed |-> executed, ledger |-> seeded_from(Genesis),
     weights |-> [id \in {} |-> 0], ring |-> <<>>]

(***************************************************************************)
(* Commit.                                                                 *)
(***************************************************************************)
\* The amount in a log is a word of 256 bits.
data_word_to_u64(word) == SmallerOf(word, U64Max)

parse_stake_logs(logs) ==
    [i \in DOMAIN logs |-> [logs[i] EXCEPT !.amount = data_word_to_u64(@)]]

\* The logs that are asked for one by one, named by the field of the block.
LogKinds == {"ops", "slashed", "approved"}

\* The logs of one kind in the block at height h.  They are dropped if they
\* are among those `missed`: eth_getLogs has failed four times.
get_logs_retry(chain, h, kind, missed) ==
    IF <<h, kind>> \in missed THEN <<>> ELSE chain[h][kind]

ApplyLogs(l, chain, h, missed) ==
    LET ops == parse_stake_logs(get_logs_retry(chain, h, "ops", missed))
        slashed == get_logs_retry(chain, h, "slashed", missed)
    IN Along(slash, Along(ApplyOp, advance_to_height(l, h), ops), slashed)

derive_predeploy_effects(chain, h, missed) == get_logs_retry(chain, h, "approved", missed)

Heights(a, b) == [i \in 1..LargerOf(0, b - a + 1) |-> a + i - 1]

\* The gap ends one height too early.
BackfillShort(a, chain, height, missed) ==
    LET gap == Heights(a.executed + 1, height - 2)
    IN [ledger  |-> Along(LAMBDA l, h : ApplyLogs(l, chain, h, missed), a.ledger, gap),
        heights |-> gap,
        effects |-> Along(LAMBDA e, h : e \o derive_predeploy_effects(chain, h, missed),
                          <<>>, gap)]

backfill_self_synced_gap(a, chain, height, missed) ==
    LET gap == Heights(a.executed + 1, height - 1)
    IN [ledger  |-> Along(LAMBDA l, h : ApplyLogs(l, chain, h, missed), a.ledger, gap),
        heights |-> gap,
        effects |-> Along(LAMBDA e, h : e \o derive_predeploy_effects(chain, h, missed),
                          <<>>, gap)]

reconcile_pending_weights(weights, carried, updates) ==
    LET done == {id \in DOMAIN weights \cap DOMAIN carried : weights[id] = carried[id]}
    IN Along(LAMBDA w, u : With(w, u.id, u.weight), Without(weights, done), updates)

Ringed(ring, height) ==
    LET longer == Append(ring, height)
    IN IF Len(longer) > MAX_WEIGHT_PROOF_ANCHOR_LAG + 2 THEN Tail(longer) ELSE longer

\* commit, once the execution layer has answered VALID.
Committed(a, chain, height, missed) ==
    LET gap == backfill_self_synced_gap(a, chain, height, missed)
        ledger == ApplyLogs(gap.ledger, chain, height, missed)
    IN [app     |-> [executed |-> height,
                     ledger   |-> take_updates(ledger),
                     weights  |-> reconcile_pending_weights(
                                      a.weights, chain[height].registry.weights,
                                      ledger.pending),
                     ring     |-> Ringed(a.ring, height)],
        heights |-> Append(gap.heights, height),
        updates |-> ledger.pending,
        effects |-> gap.effects \o derive_predeploy_effects(chain, height, missed)]

(***************************************************************************)
(* Proposals: each weight in pending_weights is recorded, with a proof     *)
(* anchored at the newest block that has a log for the validator.          *)
(***************************************************************************)
LogsFor(block, id) ==
    SelectSeq(block.ops \o [i \in DOMAIN block.slashed |->
                                [id |-> block.slashed[i], op |-> "slash", amount |-> 0]],
              LAMBDA o : o.id = id)

\* The first receipt with a log for the validator; a transaction emits one log.
generate_one(block, id) ==
    LET logs == parse_stake_logs(LogsFor(block, id))
    IN SubSeq(logs, 1, SmallerOf(Len(logs), 1))

\* The parent, the blocks above the tracked frontier, the ring from its end.
weight_proof_source_candidates(a, parent) ==
    LET above == Reverse(Heights(LargerOf(a.executed, 1), parent - 1))
        recent == SelectSeq(Reverse(a.ring), LAMBDA h : h \notin ToSet(above) \cup {parent})
        all == <<parent>> \o above \o recent
    IN SubSeq(all, 1, SmallerOf(Len(all), MAX_WEIGHT_PROOF_ANCHOR_LAG))

build_weight_proofs(a, chain, parent) ==
    LET candidates == weight_proof_source_candidates(a, parent)
        backing(id) == {i \in DOMAIN candidates :
                           candidates[i] > 0 /\ generate_one(chain[candidates[i]], id) # <<>>}
        proved == {id \in DOMAIN a.weights : backing(id) # {}}
    IN [id \in proved |->
           candidates[CHOOSE i \in backing(id) : \A j \in backing(id) : i <= j]]

check_weight_consistent_with_logs(weight, log) ==
    CASE log.op = "slash" -> weight = 0
      [] log.op = "unbond" -> TRUE
      [] log.op = "bond" -> weight >= log.amount

\* By a voter that has the blocks at the heights `held`, on top of `chain`
verify_against_recent(chain, held, block) ==
    \A id \in DOMAIN block.registry.weights :
        /\ id \in DOMAIN block.proofs
        /\ block.proofs[id] \in held
        /\ block.proofs[id] <= Len(chain)
        /\ Len(chain) + 1 - block.proofs[id] <= MAX_WEIGHT_PROOF_ANCHOR_LAG
        /\ check_weight_consistent_with_logs(
               block.registry.weights[id], generate_one(chain[block.proofs[id]], id)[1])

(***************************************************************************)
(* The registry payload of a block.  The keys of rotations are left out:   *)
(* the blocks of this module carry none.                                   *)
(***************************************************************************)
conservative_settled_view(view) == LargerOf(0, view - MIN_V_EFF_DELAY)

registry_payload_for_build(a, view) ==
    [weights |-> a.weights, settled |-> conservative_settled_view(view)]

validate_registry_extra_data(chain, held, block) ==
    /\ block.registry.settled = conservative_settled_view(block.view)
    /\ verify_against_recent(chain, held, block)

validate_proposal(chain, held, block) == validate_registry_extra_data(chain, held, block)

(***************************************************************************)
(* The registry contract, which the execution layer writes at the start of *)
(* a block.  The total weight follows from the weights and is left out.    *)
(***************************************************************************)
genesis_seed_storage == [weight |-> Genesis, settled |-> 0]

weightOf(r, id) == IF id \in DOMAIN r.weight THEN r.weight[id] ELSE 0

\* One recordWeight for each validator of the payload
recordWeights(r, weights) ==
    [r EXCEPT !.weight = [id \in DOMAIN @ \cup DOMAIN weights |->
                             IF id \in DOMAIN weights THEN weights[id] ELSE @[id]]]

recordSettled(r, view) == IF view <= r.settled THEN r ELSE [r EXCEPT !.settled = view]

apply_registry_writes(r, payload) ==
    recordSettled(recordWeights(r, payload.weights), payload.settled)
==============================================================================
