------------------------------ MODULE KeyValue ------------------------------
(***************************************************************************)
(* The key-value store: a function from keys to values.  A key is a        *)
(* sequence, so that a prefix of a key means what it does in the code.     *)
(* The disk store runs every operation in one transaction, the memory      *)
(* store under one lock, and the throttled store only delays the writes:   *)
(* for a node that calls them from one task all three are this.            *)
(***************************************************************************)
EXTENDS Integers, Sequences, SequencesExt, Functions

CONSTANT Gone   \* the value of a deletion in a batch, and of an absent key

Empty == [k \in {} |-> Gone]

get(kv, k) == IF k \in DOMAIN kv THEN kv[k] ELSE Gone

put(kv, k, v) == [x \in DOMAIN kv \cup {k} |-> IF x = k THEN v ELSE kv[x]]

delete(kv, k) == Restrict(kv, DOMAIN kv \ {k})

\* The keys of scan_prefix
scan_prefix(kv, prefix) == {k \in DOMAIN kv : IsPrefix(prefix, k)}

\* One operation of a batch
apply_op(kv, op) == IF op[2] = Gone THEN delete(kv, op[1]) ELSE put(kv, op[1], op[2])

\* A batch is a sequence of <<key, value>>, carried out in one transaction.
apply_batch(kv, ops) ==
    LET after[n \in 0 .. Len(ops)] ==
            IF n = 0 THEN kv ELSE apply_op(after[n - 1], ops[n])
    IN  after[Len(ops)]
=============================================================================
