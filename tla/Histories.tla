------------------------------ MODULE Histories ------------------------------
(***************************************************************************)
(* The records of what is in force from which view on: the validator sets, *)
(* the consensus keys with their reverse index, the BLS keys, the operator *)
(* keys and the consensus parameters.  They share one shape: a sequence of *)
(* entries [from, val] with growing `from`, and for the keys one such      *)
(* sequence per validator.  A validator is named by the key it joined with.*)
(***************************************************************************)
EXTENDS Integers, Sequences, FiniteSets, SequencesExt, Loops

Entry(from, val) == [from |-> from, val |-> val]

NoKey == "no key"

\* The entries in force at or before a view form a prefix.
Started(h, view) == Cardinality({i \in DOMAIN h : h[i].from <= view})

At(h, view) == h[Started(h, view)].val

(***************************************************************************)
(* ValidatorSetHistory: a set is a function from its members to weights.   *)
(***************************************************************************)
from_genesis(set) == <<Entry(0, set)>>

set_at(h, view) == At(h, view)

insert_boundary(h, from, set) ==
    IF from > Last(h).from THEN Append(h, Entry(from, set)) ELSE h

\* A boundary that no block up to `view` has reached.
pending(h, view) == \E i \in DOMAIN h : h[i].from # 0 /\ h[i].from > view

(***************************************************************************)
(* ConsensusParamHistory, with the parameters of the genesis as entry 0.   *)
(***************************************************************************)
insert_params(h, from, params) ==
    IF from > Last(h).from THEN Append(h, Entry(from, params)) ELSE h

params_at(h, view) == At(h, view)

(***************************************************************************)
(* BlsKeyHistory and OperatorKeyHistory: functions from the registered     *)
(* validators to their entries.                                            *)
(***************************************************************************)
with_genesis(keys) == [id \in DOMAIN keys |-> <<Entry(0, keys[id])>>]

register(f, id, from, key) ==
    IF id \in DOMAIN f
      THEN f
      ELSE [x \in DOMAIN f \cup {id} |->
                IF x = id THEN <<Entry(from, key)>> ELSE f[x]]

Rotates(f, id, from) == id \in DOMAIN f /\ from > Last(f[id]).from

rotate(f, id, from, key) ==
    IF Rotates(f, id, from)
      THEN [f EXCEPT ![id] = Append(@, Entry(from, key))]
      ELSE f

LastPending(f, id, from, view) ==
    id \in DOMAIN f /\ Last(f[id]).from = from /\ from > view

cancel_rotation(f, id, from, view) ==
    IF LastPending(f, id, from, view) THEN [f EXCEPT ![id] = Front(@)] ELSE f

key_at(f, id, view) ==
    IF id \in DOMAIN f /\ Started(f[id], view) > 0
      THEN At(f[id], view)
      ELSE NoKey

(***************************************************************************)
(* ValidatorKeyHistory: the entries of each validator, and `owner`, the    *)
(* reverse index from a key to the validator that uses or used it.         *)
(***************************************************************************)
Owned(owner, key, id) ==
    [k \in DOMAIN owner \cup {key} |-> IF k = key THEN id ELSE owner[k]]

KeyHistory(ids) ==
    [byId |-> [id \in ids |-> <<Entry(0, id)>>], owner |-> [id \in ids |-> id]]

\* The first boundary at which a validator is a member.
Joined(sets, id) ==
    CHOOSE i \in DOMAIN sets :
        /\ id \in DOMAIN sets[i].val
        /\ \A j \in 1..(i - 1) : id \notin DOMAIN sets[j].val

from_set_history(sets) ==
    LET ids == UNION {DOMAIN sets[i].val : i \in DOMAIN sets}
    IN [byId  |-> [id \in ids |-> <<Entry(sets[Joined(sets, id)].from, id)>>],
        owner |-> [id \in ids |-> id]]

\* Each of `ids` enters with its own key, unless the key is or was in use.
add_validators(k, ids, from) ==
    LET new == ids \ DOMAIN k.owner
    IN [byId  |-> [id \in DOMAIN k.byId \cup new |->
                      IF id \in new THEN <<Entry(from, id)>> ELSE k.byId[id]],
        owner |-> [key \in DOMAIN k.owner \cup new |->
                      IF key \in new THEN key ELSE k.owner[key]]]

validator_for(k, key) == IF key \in DOMAIN k.owner THEN k.owner[key] ELSE NoKey

\* The last key of a validator's history, in force or pending.
current_key(k, key) ==
    IF key \in DOMAIN k.owner THEN Last(k.byId[k.owner[key]]).val ELSE NoKey

\* What apply_rotation demands of a rotation of the validator behind `key`.
RotationApplies(k, key, new, from) ==
    /\ key \in DOMAIN k.owner
    /\ new \in DOMAIN k.owner => k.owner[new] = k.owner[key]
    /\ Rotates(k.byId, k.owner[key], from)

apply_rotation(k, key, new, from) ==
    [byId  |-> rotate(k.byId, k.owner[key], from, new),
     owner |-> Owned(k.owner, new, k.owner[key])]

pending_rotation_new_key(k, key, from, view) ==
    IF key \in DOMAIN k.owner /\ LastPending(k.byId, k.owner[key], from, view)
      THEN Last(k.byId[k.owner[key]]).val
      ELSE NoKey

cancel_pending_rotation(k, key, from, view) ==
    LET id == k.owner[key]
        removed == Last(k.byId[id]).val
    IN [byId  |-> cancel_rotation(k.byId, id, from, view),
        owner |-> [x \in DOMAIN k.owner \ {removed} |-> k.owner[x]]]

\* The BLS keys of a set at a view, for the members that have one by then.
pubkeys_for_set(f, set, view) ==
    [id \in {x \in DOMAIN set : key_at(f, x, view) # NoKey} |-> key_at(f, id, view)]

(***************************************************************************)
(* What the loaders of the persisted records accept.  Only the entries are *)
(* stored: the reverse index is built anew, and a key of two validators is *)
(* refused.                                                                *)
(***************************************************************************)
Growing(h) == \A i \in 2..Len(h) : h[i - 1].from < h[i].from

boundary_to_set(set) == \A id \in DOMAIN set : set[id] > 0

SetsLoadable(h) ==
    /\ h # <<>> /\ h[1].from = 0 /\ Growing(h)
    /\ \A i \in DOMAIN h : boundary_to_set(h[i].val)

BlsLoadable(f) == \A id \in DOMAIN f : f[id] # <<>> /\ Growing(f[id])

OpsLoadable(f) == \A id \in DOMAIN f : f[id] # <<>> /\ Growing(f[id])

ParamsLoadable(h) == Growing(h)

KeysOf(byId, id) == {byId[id][i].val : i \in DOMAIN byId[id]}

Loadable(byId) ==
    /\ \A id \in DOMAIN byId :
          byId[id] # <<>> /\ byId[id][1].val = id /\ Growing(byId[id])
    /\ \A id, other \in DOMAIN byId :
          id # other => KeysOf(byId, id) \cap KeysOf(byId, other) = {}

from_persisted(byId) ==
    [byId  |-> byId,
     owner |-> [key \in UNION {KeysOf(byId, id) : id \in DOMAIN byId} |->
                    CHOOSE id \in DOMAIN byId : key \in KeysOf(byId, id)]]
==============================================================================
