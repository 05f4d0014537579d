---------------------------- MODULE SnapshotStore ----------------------------
(***************************************************************************)
(* The snapshots a node keeps in its key-value store: a manifest and its   *)
(* chunks for each height, and the key that names the latest.  A manifest  *)
(* is [height, hist, claim]: the height of its block, the changes of the   *)
(* validator histories it carries, and those the header of its block       *)
(* commits to.  A chunk is <<height, index>>: it stands for the bytes and  *)
(* for their hash.                                                         *)
(***************************************************************************)
EXTENDS Integers, FiniteSets, FiniteSetsExt, KeyValue

CONSTANTS
    ChunkCount,       \* manifest.chunk_count
    IntervalBlocks,   \* snapshot_interval_blocks
    RetentionCount    \* snapshot_retention_count

ASSUME StoreConstants ==
    /\ ChunkCount \in Nat \ {0}   \* chunk_snapshot makes one of an empty payload
    /\ IntervalBlocks \in Nat
    /\ RetentionCount \in Nat

Chunk == 1 .. ChunkCount

manifest_key(h) == <<"manifest", h>>
chunk_key(h, i) == <<"chunk", h, i>>
latest_key == <<"latest">>

should_snapshot_at(h) == IntervalBlocks > 0 /\ h > 0 /\ h % IntervalBlocks = 0

\* chunk_snapshot of the application's state at height h
chunk_snapshot(h) == [i \in Chunk |-> <<h, i>>]

\* save refuses chunks that do not have the hashes of the manifest.
save(kv, m, chunks) ==
    IF chunks = chunk_snapshot(m.height)
    THEN apply_batch(kv, <<<<manifest_key(m.height), m>>>>
                         \o [i \in Chunk |-> <<chunk_key(m.height, i), chunks[i]>>]
                         \o <<<<latest_key, m.height>>>>)
    ELSE kv

load_manifest(kv, h) == get(kv, manifest_key(h))

\* (Mutant: the height of the request is ignored.)
LoadLatestChunk(kv, h, i) == get(kv, chunk_key(get(kv, latest_key), i))

load_chunk(kv, h, i) == get(kv, chunk_key(h, i))

list_heights(kv) == {k[2] : k \in scan_prefix(kv, <<"manifest">>)}

\* A latest height without a manifest counts as none.
latest_height(kv) ==
    LET h == get(kv, latest_key) IN
    IF h # Gone /\ load_manifest(kv, h) # Gone THEN h ELSE Gone

\* (Mutant: the chunks are left behind.)
DeleteManifestOnly(kv, h) ==
    apply_batch(kv, <<<<manifest_key(h), Gone>>>>)

\* delete, one batch: the manifest, its chunks, and the latest height anew
delete_snapshot(kv, h) ==
    LET others == list_heights(kv) \ {h}
        chunks == scan_prefix(kv, <<"chunk", h>>)
        newest == IF others = {} THEN Gone ELSE Max(others)
    IN  apply_batch(kv, <<<<manifest_key(h), Gone>>>>
                        \o SetToSeq({<<k, Gone>> : k \in chunks})
                        \o <<<<latest_key, newest>>>>)

\* The heights prune_older_than deletes, in this order
prune_targets(kv) ==
    LET heights == list_heights(kv)
        old == {h \in heights :
                   Cardinality({g \in heights : g > h}) >= RetentionCount}
    IN  IF RetentionCount = 0 THEN <<>> ELSE SetToSortSeq(old, <)

\* The first n deletions of prune_older_than
prune_older_than(kv, n) ==
    LET left[k \in 0 .. n] ==
            IF k = 0 THEN kv ELSE delete_snapshot(left[k - 1], prune_targets(kv)[k])
    IN  left[n]

\* export_snapshot: the snapshot as the files of a directory, or nothing if a
\* part of it is missing
export_snapshot(kv, h) ==
    LET m == load_manifest(kv, h)
        chunks == [i \in Chunk |-> load_chunk(kv, h, i)]
    IN  IF m = Gone \/ \E i \in Chunk : chunks[i] = Gone THEN Gone
        ELSE [manifest |-> m, chunks |-> chunks]

import_snapshot(kv, dir) == save(kv, dir.manifest, dir.chunks)
=============================================================================
