-------------------------- MODULE GovernanceCommands --------------------------
(***************************************************************************)
(* The commands by which a block changes who may vote, with which key and  *)
(* under which parameters, and what applying a block does to the records   *)
(* of a node.  A signature is modelled by the key that made it: `signers`  *)
(* is the set of keys that signed a command.  A block is a record with a   *)
(* view and a sequence `cmds`.                                             *)
(*                                                                         *)
(* Two functions of the code apply the same commands: the pure ones of     *)
(* history_commitment.rs, which the proposer, the voters and the start-up  *)
(* check use, and the wrappers of the node, which run at commit.           *)
(***************************************************************************)
EXTENDS Histories

CONSTANTS
    min_v_eff_delay,     \* configured delay of a reconfiguration
    MaxEndpoints         \* max_endpoint_list_length

MIN_V_EFF_DELAY == 4
MIN_VALIDATOR_FLOOR == 4
V_EFF_MIN_DELAY == 2
MIN_PARAM_V_EFF_DELAY == 2

LargerOf(a, b) == IF a >= b THEN a ELSE b

\* A pass over the commands of one kind in a block
ForEach(kind, step(_, _), s, block) ==
    Along(LAMBDA t, cmd : IF cmd.kind = kind THEN step(t, cmd) ELSE t, s, block.cmds)

Ids(entries) == {entries[i].id : i \in DOMAIN entries}

Distinct(entries) == Cardinality(Ids(entries)) = Len(entries)

(***************************************************************************)
(* Reconfiguration.                                                        *)
(***************************************************************************)
\* The consent of an operator covers the whole entry and the effective view.
Consents(add) == add.operator # NoKey => add.consent = add.operator

validate_against(cmd, set, view) ==
    LET adds == Ids(cmd.adds)
        changes == Ids(cmd.changes)
        removes == ToSet(cmd.removes)
    IN /\ cmd.v_eff >= view + LargerOf(min_v_eff_delay, MIN_V_EFF_DELAY)
       /\ \A i \in DOMAIN cmd.adds : cmd.adds[i].weight > 0
       /\ \A i \in DOMAIN cmd.changes : cmd.changes[i].weight > 0
       /\ Distinct(cmd.adds) /\ Distinct(cmd.changes)
       /\ Cardinality(removes) = Len(cmd.removes)
       /\ adds \cap removes = {} /\ adds \cap changes = {}
       /\ removes \cap changes = {}
       /\ removes \cup changes \subseteq DOMAIN set
       /\ adds \cap DOMAIN set = {}
       /\ \A i \in DOMAIN cmd.adds : cmd.adds[i].bls # NoKey
       /\ \A i \in DOMAIN cmd.adds : Consents(cmd.adds[i])
       /\ Cardinality((DOMAIN set \ removes) \cup adds) >= MIN_VALIDATOR_FLOOR

WeightIn(entries, id) ==
    entries[CHOOSE i \in DOMAIN entries : entries[i].id = id].weight

\* A removed validator kept with weight 0.
NextSetZeroed(cmd, set) ==
    [id \in DOMAIN set \cup Ids(cmd.adds) |->
        IF id \in Ids(cmd.adds) THEN WeightIn(cmd.adds, id)
        ELSE IF id \in ToSet(cmd.removes) THEN 0
        ELSE set[id]]

NextSet(cmd, set) ==
    [id \in (DOMAIN set \ ToSet(cmd.removes)) \cup Ids(cmd.adds) |->
        IF id \in Ids(cmd.adds) THEN WeightIn(cmd.adds, id)
        ELSE IF id \in Ids(cmd.changes) THEN WeightIn(cmd.changes, id)
        ELSE set[id]]

\* Without the test for a boundary that is still ahead.
ReconfiguresAnytime(h, cmd, view) ==
    validate_against(cmd, set_at(h.sets, view), view)

\* The tests that a reconfiguration of a block passes before it is applied.
Reconfigures(h, cmd, view) ==
    /\ validate_against(cmd, set_at(h.sets, view), view)
    /\ ~pending(h.sets, view)

RegisterOperators(ops, cmd) ==
    FoldLeft(LAMBDA f, add : IF add.operator = NoKey THEN f
                             ELSE register(f, add.id, cmd.v_eff, add.operator),
             ops, cmd.adds)

BlsIn(entries, id) ==
    entries[CHOOSE i \in DOMAIN entries : entries[i].id = id].bls

\* The key is registered for the view after the one it is needed in.
RegisterBlsLate(bls, cmd) ==
    [id \in DOMAIN bls \cup Ids(cmd.adds) |->
        IF id \in DOMAIN bls THEN bls[id]
        ELSE <<Entry(cmd.v_eff + 1, BlsIn(cmd.adds, id))>>]

\* One that is registered already keeps its keys.
RegisterBls(bls, cmd) ==
    [id \in DOMAIN bls \cup Ids(cmd.adds) |->
        IF id \in DOMAIN bls THEN bls[id]
        ELSE <<Entry(cmd.v_eff, BlsIn(cmd.adds, id))>>]

\* What both versions do: the boundary, the operator keys and the BLS keys.
Boundary(h, cmd, view) ==
    [h EXCEPT !.sets = insert_boundary(@, cmd.v_eff,
                                       NextSet(cmd, set_at(@, view))),
              !.ops = RegisterOperators(@, cmd),
              !.bls = RegisterBls(@, cmd)]

\* The pure version also gives each member without a key history its first key.
AddNewKeys(keys, set, from) ==
    add_validators(keys, DOMAIN set \ DOMAIN keys.byId, from)

PureReconfig(h, cmd, view) ==
    IF Reconfigures(h, cmd, view)
      THEN LET b == Boundary(h, cmd, view)
           IN [b EXCEPT !.keys = AddNewKeys(@, Last(b.sets).val, cmd.v_eff)]
      ELSE h

apply_reconfig_commands_to_set_history(h, block) ==
    ForEach("reconfig", LAMBDA g, cmd : PureReconfig(g, cmd, block.view), h, block)

(***************************************************************************)
(* Key rotation.  The fold keeps in `touched` the records to be persisted. *)
(***************************************************************************)
validate_structural(cmd, view) ==
    cmd.v_eff >= view + V_EFF_MIN_DELAY /\ cmd.new # cmd.validator

validate_scheme_consistency(cmd) == cmd.bls # NoKey

\* The four envelopes and the signatures each of them must carry.
RotationSigned(cmd, current) == {current, cmd.new} \subseteq cmd.signers

OperatorRotationSigned(cmd, operator) == {operator, cmd.new} \subseteq cmd.signers

OperatorKeySigned(cmd, operator) == {operator, cmd.new} \subseteq cmd.signers

CancelSigned(cmd, current, new) == {current, new} \subseteq cmd.signers

Rotated(h, cmd, id) ==
    [h EXCEPT !.keys = apply_rotation(@, cmd.validator, cmd.new, cmd.v_eff),
              !.bls = rotate(@, id, cmd.v_eff, cmd.bls),
              !.touched = @ \cup {"keys", "bls"}]

DualSignedRotation(h, cmd, view) ==
    LET current == current_key(h.keys, cmd.validator)
    IN IF /\ current # NoKey
          /\ RotationSigned(cmd, current)
          /\ validate_scheme_consistency(cmd)
          /\ validate_structural(cmd, view)
          /\ RotationApplies(h.keys, cmd.validator, cmd.new, cmd.v_eff)
         THEN Rotated(h, cmd, validator_for(h.keys, cmd.validator))
         ELSE h

\* A cancellation that leaves the BLS key to come.
CancelKeyOnly(h, cmd, view) ==
    LET new == pending_rotation_new_key(h.keys, cmd.validator, cmd.v_eff, view)
        current == key_at(h.keys.byId, validator_for(h.keys, cmd.validator), view)
    IN IF new # NoKey /\ CancelSigned(cmd, current, new)
         THEN [h EXCEPT
                 !.keys = cancel_pending_rotation(@, cmd.validator, cmd.v_eff, view),
                 !.touched = @ \cup {"keys", "bls"}]
         ELSE h

apply_rotation_cancel_command(h, cmd, view) ==
    LET new == pending_rotation_new_key(h.keys, cmd.validator, cmd.v_eff, view)
        id == validator_for(h.keys, cmd.validator)
        current == key_at(h.keys.byId, id, view)
    IN IF new # NoKey /\ current # NoKey /\ CancelSigned(cmd, current, new)
         THEN [h EXCEPT
                 !.keys = cancel_pending_rotation(@, cmd.validator, cmd.v_eff, view),
                 !.bls = cancel_rotation(@, id, cmd.v_eff, view),
                 !.touched = @ \cup {"keys", "bls"}]
         ELSE h

apply_operator_rotation_command(h, cmd, view) ==
    LET id == validator_for(h.keys, cmd.validator)
        operator == key_at(h.ops, id, view)
    IN IF /\ operator # NoKey
          /\ OperatorRotationSigned(cmd, operator)
          /\ validate_scheme_consistency(cmd)
          /\ validate_structural(cmd, view)
          /\ RotationApplies(h.keys, cmd.validator, cmd.new, cmd.v_eff)
         THEN Rotated(h, cmd, id)
         ELSE h

apply_operator_key_rotation_command(h, cmd, view) ==
    LET operator == key_at(h.ops, cmd.validator, view)
    IN IF /\ operator # NoKey
          /\ OperatorKeySigned(cmd, operator)
          /\ Rotates(h.ops, cmd.validator, cmd.v_eff)
         THEN [h EXCEPT !.ops = rotate(@, cmd.validator, cmd.v_eff, cmd.new),
                        !.touched = @ \cup {"ops"}]
         ELSE h

\* One pass over the block for each kind, in this order.
apply_rotation_commands_to_histories(h, block) ==
    LET step(g, cmd) == DualSignedRotation(g, cmd, block.view)
        undo(g, cmd) == apply_rotation_cancel_command(g, cmd, block.view)
        recover(g, cmd) == apply_operator_rotation_command(g, cmd, block.view)
        replace(g, cmd) == apply_operator_key_rotation_command(g, cmd, block.view)
        rotated == ForEach("rotate", step, h, block)
        undone == ForEach("cancel", undo, rotated, block)
        recovered == ForEach("operator_rotate", recover, undone, block)
    IN ForEach("operator_key", replace, recovered, block)

(***************************************************************************)
(* The commitment to the records after a block.                            *)
(***************************************************************************)
Commitment(h) == [sets |-> h.sets, keys |-> h.keys.byId, bls |-> h.bls, ops |-> h.ops]

PostBlock(h, block) ==
    apply_rotation_commands_to_histories(
        apply_reconfig_commands_to_set_history(h, block), block)

compute_post_block_commitment(h, block) == Commitment(PostBlock(h, block))

(***************************************************************************)
(* Endpoints: `last_seq` guards against replays, and a command for a       *)
(* validator without an entry creates an empty one even when it is refused.*)
(***************************************************************************)
NoEndpoints == [last_seq |-> 0, entries |-> <<>>]

EndpointsOf(reg, id) == IF id \in DOMAIN reg THEN reg[id] ELSE NoEndpoints

WithEndpoints(reg, id, e) ==
    [x \in DOMAIN reg \cup {id} |-> IF x = id THEN e ELSE reg[x]]

dedup_check(ids) == Cardinality(ToSet(ids)) = Len(ids)

SeedAccepted(ids) == dedup_check(ids) /\ Len(ids) <= MaxEndpoints

seed(reg, id, ids) ==
    WithEndpoints(reg, id, [last_seq |-> 0, entries |-> ids])

forget(reg, ids) == [id \in DOMAIN reg \ ids |-> reg[id]]

Proposed(cmd, entries) ==
    CASE cmd.op = "set"    -> cmd.ids
      [] cmd.op = "add"    -> entries \o cmd.ids
      [] cmd.op = "remove" -> SelectSeq(entries,
                                        LAMBDA e : e \notin ToSet(cmd.ids))

EndpointAccepted(reg, cmd) ==
    LET cur == EndpointsOf(reg, cmd.validator)
        proposed == Proposed(cmd, cur.entries)
    IN /\ cmd.seq > cur.last_seq
       /\ cmd.op # "remove" => dedup_check(proposed)
       /\ Len(proposed) <= MaxEndpoints

EndpointApplied(reg, cmd) ==
    LET cur == EndpointsOf(reg, cmd.validator)
    IN WithEndpoints(reg, cmd.validator,
           IF EndpointAccepted(reg, cmd)
             THEN [last_seq |-> cmd.seq, entries |-> Proposed(cmd, cur.entries)]
             ELSE cur)

(***************************************************************************)
(* The wrappers of the node, in the order in which apply_commit runs them. *)
(***************************************************************************)
SeedNew(reg, cmd) ==
    FoldLeft(LAMBDA r, add : IF add.endpoints # <<>> /\ SeedAccepted(add.endpoints)
                               THEN seed(r, add.id, add.endpoints) ELSE r,
             reg, cmd.adds)

Changed(field, old, new) == IF old # new THEN {field} ELSE {}

ApplyReconfig(h, cmd, view) ==
    IF Reconfigures(h, cmd, view)
      THEN LET b == Boundary(h, cmd, view)
               reg == forget(SeedNew(h.endpoints, cmd), ToSet(cmd.removes))
           IN [b EXCEPT !.endpoints = reg,
                        !.touched = @ \cup {"sets"}
                                      \cup Changed("ops", h.ops, b.ops)
                                      \cup Changed("bls", h.bls, b.bls)
                                      \cup Changed("endpoints", h.endpoints, reg)]
      ELSE h

apply_committed_reconfigs(h, block) ==
    ForEach("reconfig", LAMBDA g, cmd : ApplyReconfig(g, cmd, block.view), h, block)

apply_committed_rotations(h, block) ==
    apply_rotation_commands_to_histories(h, block)

SignedEndpointCommand(key, cmd) == key # NoKey /\ key \in cmd.signers

ApplyEndpoint(h, cmd, view) ==
    IF /\ cmd.validator \in DOMAIN set_at(h.sets, view)
       /\ SignedEndpointCommand(key_at(h.keys.byId, cmd.validator, view), cmd)
      THEN [h EXCEPT !.endpoints = EndpointApplied(@, cmd),
                     !.touched = IF EndpointAccepted(h.endpoints, cmd)
                                   THEN @ \cup {"endpoints"} ELSE @]
      ELSE h

apply_committed_endpoints(h, block) ==
    ForEach("endpoint", LAMBDA g, cmd : ApplyEndpoint(g, cmd, block.view), h, block)

\* A parameter change that stays in memory.
ApplyParamUnsaved(h, cmd, view) ==
    IF cmd.v_eff >= view + MIN_PARAM_V_EFF_DELAY /\ cmd.v_eff > Last(h.params).from
      THEN [h EXCEPT !.params = insert_params(@, cmd.v_eff, cmd.interval)]
      ELSE h

ApplyParam(h, cmd, view) ==
    IF cmd.v_eff >= view + MIN_PARAM_V_EFF_DELAY /\ cmd.v_eff > Last(h.params).from
      THEN [h EXCEPT !.params = insert_params(@, cmd.v_eff, cmd.interval),
                     !.touched = @ \cup {"params"}]
      ELSE h

apply_committed_param_updates(h, block) ==
    LET g == ForEach("param", LAMBDA f, cmd : ApplyParam(f, cmd, block.view), h, block)
    IN [g EXCEPT !.interval = params_at(g.params, block.view)]
==============================================================================
