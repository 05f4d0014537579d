------------------------------ MODULE Governance ------------------------------
(***************************************************************************)
(* One node that follows the committed chain and keeps the records of      *)
(* GovernanceCommands in memory and on disk.  The batch that stores a      *)
(* committed block is atomic; the records it changes are written           *)
(* afterwards, one storage.put each, and a crash can come between any two. *)
(* At start the node reads what is there, takes the genesis values for     *)
(* what is not, and compares the result with the chain.                    *)
(*                                                                         *)
(* The chain itself is agreed upon by the HotStuff module: block i has     *)
(* view i and is committed when block i + 3 arrives.                       *)
(***************************************************************************)
EXTENDS GovernanceCommands

CONSTANTS
    Genesis,         \* the first validator set: members to weights
    GenesisBls,      \* members to BLS keys
    GenesisOps,      \* some members to operator keys
    GenesisInterval, \* min_block_interval of the configuration
    Menu,            \* the command sequences a block may carry
    CommandBlocks,   \* bound: views up to which blocks carry commands
    Retention,       \* block_retention_window, 0 for unlimited
    MaxCrashes       \* bound on crashes

\* The numbers that a decoded command holds are unsigned.
WellFormed(cmd) ==
    /\ cmd.kind \in {"reconfig", "rotate", "operator_rotate"} => cmd.v_eff \in Nat
    /\ cmd.kind = "reconfig" =>
          /\ \A i \in DOMAIN cmd.adds : cmd.adds[i].weight \in Nat
          /\ \A i \in DOMAIN cmd.changes : cmd.changes[i].weight \in Nat

ASSUME GovernanceAssumption ==
    /\ Retention \in Nat /\ MaxCrashes \in Nat /\ CommandBlocks \in Nat
    /\ min_v_eff_delay \in Nat
    /\ \A cmds \in Menu :
          cmds \in Seq(ToSet(cmds)) /\ \A i \in DOMAIN cmds : WellFormed(cmds[i])
    /\ \A id \in DOMAIN Genesis : Genesis[id] \in Nat \ {0}
    /\ DOMAIN GenesisBls = DOMAIN Genesis
    /\ \A id \in DOMAIN GenesisBls : GenesisBls[id] # NoKey
    /\ DOMAIN GenesisOps \subseteq DOMAIN Genesis

VARIABLES
    chain,     \* the blocks [view, cmds, claim]
    height,    \* last_committed on disk
    disk,      \* the records on disk: a function from the fields written
    mem,       \* the records in memory
    todo,      \* the puts still to be done for the last commit
    status,    \* "up", "down" or "refused" (the start-up check failed)
    torn,      \* a put was lost, by a crash or by a storage error
    crashes

vars == <<chain, height, disk, mem, todo, status, torn, crashes>>

Fields == {"sets", "keys", "bls", "ops", "endpoints", "params"}

GenesisRecords ==
    [sets      |-> from_genesis(Genesis),
     keys      |-> KeyHistory(DOMAIN Genesis),
     bls       |-> with_genesis(GenesisBls),
     ops       |-> with_genesis(GenesisOps),
     endpoints |-> [id \in {} |-> NoEndpoints],
     params    |-> <<Entry(0, GenesisInterval)>>,
     interval  |-> GenesisInterval,
     touched   |-> {}]

Init ==
    /\ chain = <<>> /\ height = 0
    /\ disk = [f \in {} |-> <<>>]
    /\ mem = GenesisRecords
    /\ todo = <<>> /\ status = "up" /\ torn = FALSE /\ crashes = 0

(***************************************************************************)
(* Committing a block: the wrappers run in turn, each followed by the puts *)
(* of what it changed.                                                     *)
(***************************************************************************)
Stored(h, f) == IF f = "keys" THEN h.keys.byId ELSE h[f]

Puts(h, order) ==
    Along(LAMBDA puts, f : IF f \in h.touched
                             THEN Append(puts, [field |-> f, value |-> Stored(h, f)])
                             ELSE puts,
          <<>>, order)

Quiet(h) == [h EXCEPT !.touched = {}]

\* The records after each wrapper, and the puts of all of them.
Applied(h, block) ==
    LET h1 == apply_committed_reconfigs(Quiet(h), block)
        h2 == apply_committed_rotations(Quiet(h1), block)
        h3 == apply_committed_endpoints(Quiet(h2), block)
        h4 == apply_committed_param_updates(Quiet(h3), block)
    IN [records |-> Quiet(h4),
        puts    |-> Puts(h1, <<"ops", "bls", "endpoints", "sets">>)
                    \o Puts(h2, <<"ops", "keys", "bls">>)
                    \o Puts(h3, <<"endpoints">>)
                    \o Puts(h4, <<"params">>)]

\* The records of a node that has committed the first n blocks without a stop.
Followed(n) ==
    AlongTo(LAMBDA h, block : Applied(h, block).records, GenesisRecords, chain, n)

(***************************************************************************)
(* A proposer that runs since the genesis has committed all but the last   *)
(* three blocks when it computes the claim of the next one.                *)
(***************************************************************************)
Extend(cmds) ==
    LET view == Len(chain) + 1
        block == [view |-> view, cmds |-> cmds]
        claim == compute_post_block_commitment(Followed(LargerOf(0, view - 4)), block)
    IN /\ Len(chain) < height + 4
       /\ Len(chain) < CommandBlocks + 3
       /\ view > CommandBlocks => cmds = <<>>
       /\ chain' = Append(chain, [view |-> view, cmds |-> cmds, claim |-> claim])
       /\ UNCHANGED <<height, disk, mem, todo, status, torn, crashes>>

\* Ingress recomputes the claim of a proposal from the node's own records.
verify_proposal_history_commitment(block) ==
    compute_post_block_commitment(mem, block) = block.claim

\* A proposal arrives and commits the block three before it.
Commit ==
    /\ status = "up" /\ todo = <<>>
    /\ height + 4 <= Len(chain)
    /\ verify_proposal_history_commitment(chain[height + 4])
    /\ height' = height + 1
    /\ mem' = Applied(mem, chain[height']).records
    /\ todo' = Applied(mem, chain[height']).puts
    /\ UNCHANGED <<chain, disk, status, torn, crashes>>

Put ==
    /\ status = "up" /\ todo # <<>>
    /\ disk' = [f \in DOMAIN disk \cup {Head(todo).field} |->
                    IF f = Head(todo).field THEN Head(todo).value ELSE disk[f]]
    /\ todo' = Tail(todo)
    /\ UNCHANGED <<chain, height, mem, status, torn, crashes>>

\* A failed put is logged and forgotten.
PutFails ==
    /\ status = "up" /\ todo # <<>> /\ crashes < MaxCrashes
    /\ todo' = Tail(todo)
    /\ torn' = TRUE
    /\ crashes' = crashes + 1
    /\ UNCHANGED <<chain, height, disk, mem, status>>

\* The memory is lost: Restart reads none of it.  `mem` keeps its last value
\* only so that the refinement below can compare it with what comes back.
Crash ==
    /\ status = "up" /\ crashes < MaxCrashes
    /\ status' = "down"
    /\ torn' = (torn \/ todo # <<>>)
    /\ todo' = <<>>
    /\ crashes' = crashes + 1
    /\ UNCHANGED <<chain, height, disk, mem>>

(***************************************************************************)
(* Start.                                                                  *)
(***************************************************************************)
Read(f, default) == IF f \in DOMAIN disk THEN disk[f] ELSE default

recover ==
    LET sets == Read("sets", GenesisRecords.sets)
        params == IF ParamsLoadable(Read("params", <<>>))
                    THEN Read("params", GenesisRecords.params)
                    ELSE GenesisRecords.params
    IN [sets      |-> sets,
        keys      |-> IF "keys" \in DOMAIN disk THEN from_persisted(disk["keys"])
                      ELSE from_set_history(sets),
        bls       |-> Read("bls", GenesisRecords.bls),
        ops       |-> Read("ops", GenesisRecords.ops),
        endpoints |-> Read("endpoints", GenesisRecords.endpoints),
        params    |-> params,
        interval  |-> params_at(params, height),
        touched   |-> {}]

\* Of a loaded history, the first entry of the validators of the genesis.
genesis_only_seed(f) ==
    [id \in {x \in DOMAIN f : f[x][1].from = 0} |-> <<f[id][1]>>]

\* The pure rebuild of the first i blocks, from the seeds of the loaded records.
Rebuilt(h, i) ==
    LET first == h.sets[1].val
        start == [h EXCEPT !.sets = from_genesis(first),
                           !.keys = KeyHistory(DOMAIN first),
                           !.bls = genesis_only_seed(@),
                           !.ops = genesis_only_seed(@)]
    IN AlongTo(PostBlock, start, chain, i)

Pruned == Retention > 0 /\ height > Retention + 1

\* Only the claims of the blocks, not the records that were loaded.
VerifyClaimsOnly(h) ==
    height = 0 \/ Pruned
    \/ \A i \in 1..height : Commitment(Rebuilt(h, i)) = chain[i].claim

verify_persisted_history_consistency(h) ==
    \/ height = 0
    \/ Pruned
    \/ /\ \A i \in 1..height : Commitment(Rebuilt(h, i)) = chain[i].claim
       /\ LET r == Rebuilt(h, height)
          IN r.sets = h.sets /\ r.keys.byId = h.keys.byId /\ r.bls = h.bls

Starts ==
    /\ "sets" \in DOMAIN disk => SetsLoadable(disk["sets"])
    /\ "keys" \in DOMAIN disk => Loadable(disk["keys"])
    /\ "bls" \in DOMAIN disk => BlsLoadable(disk["bls"])
    /\ "ops" \in DOMAIN disk => OpsLoadable(disk["ops"])
    /\ verify_persisted_history_consistency(recover)

Restart ==
    /\ status = "down"
    /\ status' = IF Starts THEN "up" ELSE "refused"
    /\ mem' = IF Starts THEN recover ELSE mem
    /\ UNCHANGED <<chain, height, disk, todo, torn, crashes>>

Next ==
    \/ \E cmds \in Menu : Extend(cmds)
    \/ Commit \/ Put \/ PutFails \/ Crash \/ Restart

Spec == Init /\ [][Next]_vars

------------------------------------------------------------------------------
(***************************************************************************)
(* Properties.                                                             *)
(***************************************************************************)
\* Every record has entries in growing order that start at the genesis, the
\* sets have weights, and what is on disk or about to be written is a record.
TypeOK ==
    /\ height \in 0..Len(chain) /\ DOMAIN disk \subseteq Fields
    /\ status \in {"up", "down", "refused"} /\ torn \in BOOLEAN
    /\ crashes \in 0..MaxCrashes
    /\ \A i \in DOMAIN todo : todo[i].field \in Fields
    /\ mem.sets[1] = Entry(0, Genesis)
    /\ \A i \in DOMAIN mem.sets :
          /\ \A id \in DOMAIN mem.sets[i].val : mem.sets[i].val[id] \in Nat \ {0}
          /\ i > 1 => mem.sets[i - 1].from < mem.sets[i].from
    /\ \A k \in DOMAIN mem.keys.owner : mem.keys.owner[k] \in DOMAIN mem.keys.byId

\* A running node has the validator sets that the committed chain yields when
\* it is replayed from the genesis, whatever crashes and lost writes it has
\* been through: either the records were complete or the start-up check has
\* kept the node down.
SetsMatchChain ==
    status = "up" => mem.sets = Rebuilt(GenesisRecords, height).sets

\* In a running node the BLS key and the consensus key of a validator change
\* at the same views, although they are kept in two records that are written
\* by two puts and the errors of the second rotation are swallowed.
BlsInStep ==
    status = "up" =>
        \A id \in DOMAIN mem.keys.byId \cap DOMAIN mem.bls :
            /\ Len(mem.keys.byId[id]) = Len(mem.bls[id])
            /\ \A i \in DOMAIN mem.bls[id] :
                  mem.bls[id][i].from = mem.keys.byId[id][i].from

\* A running node can verify the certificates of every view it knows the set
\* of: each member has a BLS key when the set takes effect, although the set,
\* the registration and the rotations come from different commands and puts.
CertificatesVerifiable ==
    status = "up" =>
        \A i \in DOMAIN mem.sets :
            DOMAIN pubkeys_for_set(mem.bls, mem.sets[i].val, mem.sets[i].from)
                = DOMAIN mem.sets[i].val

\* Unless a write was lost, a running node has the operator keys, the BLS
\* keys, the parameters and the endpoints of a node that never stopped: every
\* change of a record is followed by its put.  Stated for a node that keeps the
\* whole chain: with pruned blocks Reindex.cfg violates it.
RecordsComplete ==
    (status = "up" /\ ~torn) =>
        LET f == Followed(height)
        IN /\ mem.ops = f.ops /\ mem.bls = f.bls
           /\ mem.params = f.params /\ mem.interval = f.interval
           /\ \A id \in DOMAIN mem.endpoints \cup DOMAIN f.endpoints :
                 EndpointsOf(mem.endpoints, id) = EndpointsOf(f.endpoints, id)

\* A node whose disk lost nothing starts again: the check at start tells
\* "tampered or rolled back" records from those the node wrote itself.
RestartAccepted == ~torn => status # "refused"

Schedule == INSTANCE ValidatorSchedule
    WITH Genesis <- Genesis, Delay <- MIN_V_EFF_DELAY, Floor <- MIN_VALIDATOR_FLOOR,
         now <- height, sched <- mem.sets

\* The node implements the schedule of validator sets: one scheduled change at
\* a time, far enough ahead, and no restart ever changes the set of a view.
ScheduleRefined == Schedule!Spec
==============================================================================
