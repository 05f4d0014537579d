--------------------------- MODULE SnapshotRestore ---------------------------
(***************************************************************************)
(* Snapshots from end to end.  The peers commit blocks, take snapshots at  *)
(* the interval, prune the old ones and answer requests; one node lags     *)
(* behind, fetches a snapshot (SnapshotSync) and restores it, while it may *)
(* also catch up by block sync; peers leave, and the node or a peer may    *)
(* crash between any two writes.                                           *)
(*                                                                         *)
(* All peers commit one chain, so a block is its height, and its view is   *)
(* its height.  The histories of the validator sets, of their keys and of  *)
(* the operators' keys are one set, of the heights whose blocks changed    *)
(* one of them.  An operator may copy a snapshot out of a stopped node and *)
(* into another (boule snapshot export, import).                           *)
(***************************************************************************)
EXTENDS SnapshotSync

CONSTANTS
    Chains,      \* which history each block changes: one of Kinds, or "none"
    StartHeight, \* the heights at which the lagging node may start
    CommitLag,   \* blocks between a proposal and the block it commits
    MaxHeight,   \* bound: the height of the chain
    MaxCrashes,  \* bound: crashes of the node
    MaxCopies    \* bound: snapshots that are imported

Height == 0 .. MaxHeight
Kinds == {"set", "keys", "operators"}

ASSUME RestoreConstants ==
    /\ MaxHeight \in Nat
    /\ Chains \subseteq [1 .. MaxHeight -> Kinds \cup {"none"}]
    /\ StartHeight \subseteq Height
    /\ CommitLag \in Nat \ {0}
    /\ {MaxCrashes, MaxCopies} \subseteq Nat
    \* Gone is not a value of the store
    /\ Gone \notin Height
    /\ \A h \in Height, i \in Chunk : Gone # <<h, i>>
    /\ \A h \in Height, hist, claim \in SUBSET Height :
          Gone # [height |-> h, hist |-> hist, claim |-> claim]

VARIABLES
    chain,     \* what the blocks do to the histories
    tip,       \* the last height each peer has committed
    store,     \* the key-value store of each peer
    wanted,    \* Fetching.manifest, and the manifest of a restore
    stage,     \* how far restore_from_snapshot has got
    mem, disk, \* the lagging node: its records in memory and in its store
    crashes, copies

nodeVars == <<mem, disk>>
vars == <<syncVars, chain, tip, store, wanted, stage, mem, disk, crashes, copies>>

NoManifest == Gone

Changes(h, kinds) == {c \in 1 .. h : chain[c] \in kinds}
Sets(hist) == {c \in hist : chain[c] = "set"}

\* What a node has recorded: the last committed height, the height of the
\* lock, the last view voted in, and the histories
Records == [height : Nat, locked : Nat, voted : Nat, hist : SUBSET (1 .. MaxHeight)]

\* The records once the block of height h is committed in the ordinary way
Committed(h) == [height |-> h, locked |-> h + CommitLag, voted |-> h + CommitLag + 1,
                 hist |-> Changes(h, Kinds)]

Init ==
    /\ SyncInit
    /\ chain \in Chains
    /\ tip = [p \in Peer |-> 0]
    /\ store = [p \in Peer |-> Empty]
    /\ wanted = NoManifest
    /\ stage = "none"
    /\ mem \in {Committed(h) : h \in StartHeight}
    /\ disk = mem
    /\ crashes = 0
    /\ copies = 0

-----------------------------------------------------------------------------
(* The peers. *)

\* The commitment in the header of a block: the proposer hashes the histories
\* it has committed, with the commands of the block itself applied to them.
HeaderClaim(h) ==
    Changes(IF h > CommitLag THEN h - CommitLag - 1 ELSE 0, Kinds)
        \cup {c \in {h} : chain[c] # "none"}

\* try_take_snapshot builds the manifest before the block's commands are applied.
ManifestOf(h) ==
    [height |-> h, hist |-> Changes(h - 1, Kinds), claim |-> HeaderClaim(h)]

\* apply_commit at a peer up to deletion n of the pruning: is the certificate
\* of the block still cached?
CommitAt(p, cached, n) ==
    LET h == tip[p] + 1
        kv == save(store[p], ManifestOf(h), chunk_snapshot(h))
    IN  /\ tip[p] < MaxHeight
        /\ tip' = [tip EXCEPT ![p] = h]
        /\ IF should_snapshot_at(h) /\ cached
           THEN /\ n \in 0 .. Len(prune_targets(kv))
                /\ store' = [store EXCEPT ![p] = prune_older_than(kv, n)]
           ELSE n = 0 /\ UNCHANGED store

\* The peer carries out the whole of apply_commit.
PeerCommits(p) ==
    /\ \E cached \in BOOLEAN, n \in 0 .. MaxHeight :
          /\ CommitAt(p, cached, n)
          /\ prune_targets(store'[p]) = <<>>
    /\ UNCHANGED <<syncVars, chain, wanted, stage, mem, disk, crashes, copies>>

\* The peer crashes between two deletions, and is gone for a while.
PeerCrashes(p) ==
    /\ stage = "none"
    /\ \E n \in 0 .. MaxHeight :
          /\ CommitAt(p, TRUE, n)
          /\ prune_targets(store'[p]) # <<>>
    /\ OnPeerDisconnected(p)
    /\ UNCHANGED <<chain, wanted, stage, mem, disk, crashes, copies>>

\* export_snapshot from one stopped node and import_snapshot into another
CopySnapshot(p, q) ==
    /\ {p, q} \cap connected = {}
    /\ copies < MaxCopies
    /\ \E h \in list_heights(store[p]) :
          LET dir == export_snapshot(store[p], h) IN
          /\ dir # Gone
          /\ store' = [store EXCEPT ![q] = import_snapshot(@, dir)]
    /\ copies' = copies + 1
    /\ UNCHANGED <<syncVars, chain, tip, wanted, stage, mem, disk, crashes>>

\* serve_snapshot_manifest for the latest height
ServedManifest(p) ==
    LET h == latest_height(store[p]) IN
    IF h = Gone THEN NoManifest ELSE load_manifest(store[p], h)

\* serve_snapshot_chunk, for the height of the manifest
ServedChunk(p, i) == load_chunk(store[p], wanted.height, i)

-----------------------------------------------------------------------------
(* The lagging node: the fetch. *)

\* (Mutant: the commitment is not compared.)
VerifySetOnly(m) == Sets(m.hist) = Sets(mem.hist)

\* SnapshotManifest::verify against the validator set of the node; what else
\* it compares is right in every manifest that a node builds.
verify(m) == Sets(m.hist) = Sets(mem.hist) /\ m.hist = m.claim

\* verify_chunk for what the peer serves, or for a damaged chunk
ChunkKinds(p, i) ==
    LET c == ServedChunk(p, i) IN
    IF c = Gone THEN {"none"}
    ELSE {IF c = <<wanted.height, i>> THEN "good" ELSE "damaged"}
            \cup {k \in {"damaged"} : p \in Damaged}

\* A proposal of p, which is CommitLag + 1 blocks ahead of what p has committed
Proposal(p) ==
    /\ stage = "none"
    /\ ObserveProposal(p, tip[p] + CommitLag + 1 >= mem.height + IntervalBlocks)
    /\ UNCHANGED <<chain, tip, store, wanted, stage, mem, disk, crashes, copies>>

PeerAdded(p) ==
    /\ stage = "none"
    /\ AddCandidate(p)
    /\ UNCHANGED <<chain, tip, store, wanted, stage, mem, disk, crashes, copies>>

PeerRemoved(p) ==
    /\ stage = "none"
    /\ OnPeerDisconnected(p)
    /\ UNCHANGED <<chain, tip, store, wanted, stage, mem, disk, crashes, copies>>

\* The answer to a request for the manifest
ManifestAnswered(p) ==
    LET m == ServedManifest(p) IN
    /\ stage = "none"
    /\ OnManifestResponse(p, IF m = NoManifest THEN "none"
                             ELSE IF verify(m) THEN "valid" ELSE "invalid")
    /\ wanted' = IF phase = "pending" /\ phase' = "fetching" THEN m ELSE wanted
    /\ UNCHANGED <<chain, tip, store, stage, mem, disk, crashes, copies>>

\* The answer to a request for a chunk; the last one starts the restore.
ChunkAnswered(p, i) ==
    /\ stage = "none"
    /\ <<p, i>> \in open
    /\ \E kind \in IF wanted = NoManifest THEN {"none"} ELSE ChunkKinds(p, i) :
          OnChunkResponse(p, i, kind)
    /\ stage' = IF phase = "fetching" /\ phase' = "done" THEN "adopt" ELSE stage
    /\ UNCHANGED <<chain, tip, store, wanted, mem, disk, crashes, copies>>

\* A rate limit of the node or of the peer drops the request or its answer,
\* and nobody notices.
AnswerDropped(p, i) ==
    /\ <<p, i>> \in open
    /\ open' = open \ {<<p, i>>}
    /\ UNCHANGED <<phase, primary, observed, candidates, inFlight, chunks, asked,
                   connected, chain, tip, store, wanted, stage, mem, disk, crashes, copies>>

-----------------------------------------------------------------------------
(* The lagging node: restore_from_snapshot, which nothing interrupts but a  *)
(* crash, and the ordinary way to catch up.                                 *)

\* (Mutant: the view of the snapshot replaces the last voted view.)
AdoptOver(r, m) ==
    [r EXCEPT !.height = Max({@, m.height}), !.locked = m.height, !.voted = m.height]

\* adopt_snapshot, and the committed height, in memory
Adopt(r, m) ==
    [r EXCEPT !.height = Max({@, m.height}), !.locked = m.height,
              !.voted = Max({@, m.height})]

\* (Mutant: the record of the commit without those of adopt_snapshot.)
BatchCommitOnly(r, m) == [r EXCEPT !.height = m.height]

\* The batch: the block and the record of its commit, with what adopt_snapshot
\* asks to persist
RestoreBatch(r, m) ==
    [r EXCEPT !.height = m.height, !.locked = m.height, !.voted = m.height]

\* app.restore, adopt_snapshot, the batch, and the committed height
RestoreAdopts ==
    /\ stage = "adopt"
    /\ mem' = Adopt(mem, wanted)
    /\ disk' = RestoreBatch(disk, wanted)
    /\ stage' = "install"
    /\ UNCHANGED <<syncVars, chain, tip, store, wanted, crashes, copies>>

\* insert_validator_boundary refuses a boundary that is not after the last.
BoundariesFit(m) ==
    \A b \in Sets(m.hist), c \in Sets(mem.hist) : b > c

OfOperators(hist) == {c \in hist : chain[c] = "operators"}

\* The histories of the manifest in memory, or an error, which is logged.  The
\* history of the operators' keys stays the node's own.
RestoreInstalls ==
    /\ stage = "install"
    /\ IF BoundariesFit(wanted)
       THEN /\ mem' = [mem EXCEPT !.hist = OfOperators(@) \cup (wanted.hist \ OfOperators(wanted.hist))]
            /\ stage' = "set"
       ELSE stage' = "none" /\ UNCHANGED mem
    /\ UNCHANGED <<syncVars, chain, tip, store, wanted, disk, crashes, copies>>

\* The histories in the store, one key after the other; a failed write is
\* ignored.
RestorePuts(kind, next) ==
    /\ stage = kind
    /\ \/ disk' = [disk EXCEPT !.hist =
              {c \in @ : chain[c] # kind} \cup {c \in mem.hist : chain[c] = kind}]
       \/ UNCHANGED disk
    /\ stage' = next
    /\ UNCHANGED <<syncVars, chain, tip, store, wanted, mem, crashes, copies>>

\* The next block arrives by block sync and is committed; by then the node has
\* voted CommitLag + 1 views later.
CatchUp ==
    LET h == mem.height + 1
        grown(r) == [height |-> h, locked |-> Max({r.locked, h + CommitLag}),
                     voted |-> Max({r.voted, h + CommitLag + 1}),
                     hist |-> r.hist \cup {c \in {h} : chain[c] # "none"}]
    IN  /\ stage = "none"
        /\ \E p \in Peer : h <= tip[p]
        /\ mem' = grown(mem)
        /\ disk' = grown(disk)
        /\ UNCHANGED <<syncVars, chain, tip, store, wanted, stage, crashes, copies>>

\* A crash and a restart: the memory is rebuilt from the store, SnapshotSync
\* starts over, and what was on the way to the node is lost.
Crash ==
    /\ crashes < MaxCrashes
    /\ crashes' = crashes + 1
    /\ mem' = disk
    /\ stage' = "none"
    /\ wanted' = NoManifest
    /\ phase' = "idle" /\ primary' = NoPeer /\ observed' = {} /\ candidates' = <<>>
    /\ inFlight' = NoCounts /\ chunks' = [i \in Chunk |-> FreshSlot]
    /\ asked' = {} /\ open' = {}
    /\ UNCHANGED <<connected, chain, tip, store, disk, copies>>

-----------------------------------------------------------------------------
Next ==
    \/ \E p \in Peer : \/ PeerCommits(p) \/ PeerCrashes(p)
                       \/ Proposal(p) \/ PeerAdded(p) \/ PeerRemoved(p)
                       \/ ManifestAnswered(p)
                       \/ \E i \in Chunk : ChunkAnswered(p, i)
                       \/ \E i \in {Manifest} \cup Chunk : AnswerDropped(p, i)
                       \/ \E q \in Peer : CopySnapshot(p, q)
    \/ RestoreAdopts \/ RestoreInstalls
    \/ RestorePuts("set", "keys") \/ RestorePuts("keys", "none")
    \/ CatchUp
    \/ Crash

Restores ==
    \/ RestoreAdopts \/ RestoreInstalls
    \/ RestorePuts("set", "keys") \/ RestorePuts("keys", "none")

\* serve_snapshot_manifest and serve_snapshot_chunk answer every request that
\* reaches them, so that none stays open for ever: it is answered, dropped, or
\* lost with the connection.  And the restore runs to its end.
Fairness ==
    /\ \A p \in Peer, i \in {Manifest} \cup Chunk : []<>(<<p, i>> \notin open)
    /\ WF_stage(Restores)

Spec == Init /\ [][Next]_vars
FairSpec == Spec /\ Fairness

-----------------------------------------------------------------------------
(* The values of every variable; no chunk is retried beyond its budget. *)
TypeOK ==
    /\ SyncTypeOK
    /\ tip \in [Peer -> Height]
    /\ wanted = NoManifest \/ wanted.height \in Height
    /\ phase = "fetching" => wanted # NoManifest
    /\ stage \in {"none", "adopt", "install", "set", "keys"}
    /\ {mem, disk} \subseteq Records

(* The store stays whole whatever is saved, pruned, imported or cut off by a
   crash: a node that has a snapshot has a latest one, each manifest has all
   its chunks, and there is no chunk without its manifest. *)
StoreWhole ==
    \A p \in Peer :
        LET kv == store[p]
            heights == list_heights(kv)
        IN  /\ heights # {} => latest_height(kv) \in heights
            /\ {<<k[2], k[3]>> : k \in scan_prefix(kv, <<"chunk">>)} = heights \X Chunk

(* In the store of the lagging node the lock is at least as high as the last
   commit and the last vote as the lock, even if it crashes while it restores:
   the records of adopt_snapshot are written with that of the commit. *)
RecordsAgree == disk.height <= disk.locked /\ disk.locked <= disk.voted

(* Until it crashes, a node never forgets a vote or a commit, even when it has
   overtaken the snapshot by the time it restores it. *)
MemoryKeepsVotes ==
    [][crashes' = crashes => /\ mem'.voted >= mem.voted
                             /\ mem'.height >= mem.height]_vars

(* A node that has restored a snapshot has the histories of the validator sets
   and of their keys of the block it restored, although manifests are built
   before a block's own commands are applied and carry histories that headers of
   recent blocks do not know. *)
RestoredHistories ==
    [][stage = "install" /\ stage' = "set" =>
          mem'.hist \ OfOperators(mem'.hist) = Changes(wanted.height, {"keys", "set"})]_vars

(* And the history of the operators' keys, which the manifest carries and the
   header commits to as well. *)
RestoredOperators ==
    [][stage = "install" /\ stage' = "set" =>
          OfOperators(mem'.hist) = Changes(wanted.height, {"operators"})]_vars

(* A peer whose disk is sound is never taken for one that serves damaged
   chunks, though peers replace their snapshots while the fetch goes on. *)
SoundPeersKept ==
    [][phase' = "fetching" =>
          ToSet(candidates) \ ToSet(candidates') \subseteq Damaged \cup (Peer \ connected')
      ]_vars

\* The answer that the sync waits for will not come: it was dropped, or the
\* request went to a peer that is not connected.
AnswerLost ==
    \/ phase = "pending" /\ <<primary, Manifest>> \notin open
    \/ phase = "fetching" /\ \E i \in Chunk :
           chunks[i].at \in Peer /\ <<chunks[i].at, i>> \notin open

(* A sync that has begun ends, or a message it needs has been lost: peers that
   leave, refuse, serve damaged chunks or prune what is asked for do not hold it
   up.  A lost message does, for there is no timeout. *)
Ends ==
    phase \in {"pending", "fetching"}
        ~> (phase \in {"done", "aborted", "idle"} \/ AnswerLost)
=============================================================================
