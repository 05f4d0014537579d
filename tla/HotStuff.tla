------------------------------ MODULE HotStuff ------------------------------
(***************************************************************************)
(* The consensus node: the safety core (HotStuffCore), the view logic of   *)
(* the pacemaker, the timeout buckets, the interpreter that carries out    *)
(* the actions they return (persist, broadcast, build, commit), and crash  *)
(* recovery, for a fixed validator set and an asynchronous network that    *)
(* loses, delays, duplicates and reorders messages.                        *)
(*                                                                         *)
(* A node is one event loop.  Handling an event is a tree of nested calls  *)
(* (apply_dispatch, apply_safety_actions, drain_loopback ...) with a write *)
(* to disk or the network in between; the model keeps that call tree as an *)
(* explicit stack of work, agenda[n], whose head is the next call.  One    *)
(* step of the model executes one head, so that a crash can fall between   *)
(* any two of them, and a new event is accepted only when it is empty.     *)
(*                                                                         *)
(* Blocks are hash-linked, so a block is the sequence of the headers from  *)
(* the first block after genesis to itself.  A certificate is identified   *)
(* with the block it certifies (a vote repeats its block's view), and the  *)
(* justification of a proposal is its parent's certificate.                *)
(***************************************************************************)
EXTENDS Quorums, Sequences, FiniteSets

CONSTANTS
    Payload,         \* block contents
    RoundRobin,      \* RoundRobin[v]: leader of v for the safety core
    Accumulator,     \* Accumulator[v]: leader of v for the pacemaker
    Refusable,       \* payloads the application may refuse to validate/include
    FailingBuilders, \* nodes whose application may fail to build a block
    FailingApps,     \* nodes whose application may fail to commit a block
    MinBlockInterval,\* BOOLEAN: is min_block_interval non-zero?
    MaxView,         \* bound: no view above this one is proposed or timed out
    MaxRestarts      \* bound: crashes in a behaviour

View == 1 .. MaxView
NextViews == 1 .. MaxView + 1   \* a view the pacemaker may enter

ASSUME ConstantsOK ==
    /\ MaxView \in Nat
    /\ MaxRestarts \in Nat
    /\ MinBlockInterval \in BOOLEAN
    /\ RoundRobin \in [NextViews -> Node]
    /\ Accumulator \in [NextViews -> Node]
    /\ Refusable \subseteq Payload
    /\ FailingBuilders \subseteq Node
    /\ FailingApps \subseteq Node

-----------------------------------------------------------------------------
(* Blocks. *)

Header == [view : View, proposer : Node, payload : Payload]
Block == Seq(Header)
Genesis == <<>>

Height(b) == Len(b)
ViewOf(b) == IF b = Genesis THEN 0 ELSE b[Len(b)].view
Ancestor(b, k) == SubSeq(b, 1, Len(b) - k)   \* Genesis if there is none
Parent(b) == Ancestor(b, 1)

\* extends: walk parent links through the blocks P until a is the parent.
extends(b, a, P) ==
    \/ b = a
    \/ /\ Len(a) < Len(b)
       /\ SubSeq(b, 1, Len(a)) = a
       /\ \A k \in Len(a) + 1 .. Len(b) : SubSeq(b, 1, k) \in P

-----------------------------------------------------------------------------
(* Messages on the wire. *)

Proposal(b)      == [kind |-> "proposal", block |-> b]
Vote(n, b)       == [kind |-> "vote", from |-> n, block |-> b]
NewView(S, q)    == [kind |-> "newview", to |-> S, block |-> q]
Timeout(n, v, q) == [kind |-> "timeout", from |-> n, view |-> v, block |-> q]

ProposalMsg == [kind : {"proposal"}, block : Block]
VoteMsg     == [kind : {"vote"}, from : Node, block : Block]
NewViewMsg  == [kind : {"newview"}, to : SUBSET Node, block : Block]
TimeoutMsg  == [kind : {"timeout"}, from : Node, view : View, block : Block]
Message == ProposalMsg \cup VoteMsg \cup NewViewMsg \cup TimeoutMsg

(* A batch of state updates, flushed to disk in one write.  View 0 and the
   genesis block stand for "no such update in the batch". *)
Batch == [voted : 0 .. MaxView, highQc : Block, locked : Block,
          proposed : 0 .. MaxView]
NoBatch == [voted |-> 0, highQc |-> Genesis, locked |-> Genesis, proposed |-> 0]

(* Work items.  The first group are the actions a core step returns; pre is
   the batch that the interpreter has buffered when it reaches the action. *)
Send(m)        == [op |-> "send", pre |-> NoBatch, msg |-> m]
Build(v, q)    == [op |-> "build", pre |-> NoBatch, view |-> v, block |-> q]
CommitBlock(b) == [op |-> "commit", pre |-> NoBatch, block |-> b]
Flush(pre)     == [op |-> "flush", pre |-> pre]
(* The second group are calls. *)
Recv(m)      == [op |-> "recv", msg |-> m]
Cert(v)      == [op |-> "cert", view |-> v]
RoundSync(v) == [op |-> "sync", view |-> v]
Formed(v, q) == [op |-> "formed", view |-> v, block |-> q]
Advance(v)   == [op |-> "advance", view |-> v]
Unpark(v)    == [op |-> "unpark", view |-> v]
Lead(v)      == [op |-> "lead", view |-> v]
Apply(b)     == [op |-> "apply", block |-> b]
Drain        == [op |-> "drain"]

ActionItem ==
    [op : {"send"}, pre : Batch, msg : Message]
        \cup [op : {"build"}, pre : Batch, view : NextViews, block : Block]
        \cup [op : {"commit"}, pre : Batch, block : Block]
        \cup [op : {"flush"}, pre : Batch]
CallItem ==
    [op : {"recv"}, msg : Message]
        \cup [op : {"cert"}, view : 0 .. MaxView]
        \cup [op : {"advance", "unpark", "lead"}, view : NextViews]
        \cup [op : {"sync"}, view : View]
        \cup [op : {"formed"}, view : View, block : Block]
        \cup [op : {"apply"}, block : Block]
        \cup [op : {"drain"}]
Item == ActionItem \cup CallItem

(* persist_buf: a batch is flushed just before the first action that follows
   it, or at the end.  (Batches of proposals unparked in one step that have
   no action in between are flushed one by one.) *)
Buffered(pre, s) ==
    IF pre = NoBatch THEN s
    ELSE IF s = <<>> THEN <<Flush(pre)>>
    ELSE <<[Head(s) EXCEPT !.pre = pre]>> \o Tail(s)

-----------------------------------------------------------------------------
VARIABLES
    \* the safety core (HotStuffCore and its HotStuffState)
    highQc,      \* high_qc
    locked,      \* locked; Genesis stands for None
    lastVoted,   \* last_voted_view
    proposedIn,  \* proposed_in_view
    pending,     \* pending_blocks
    parked,      \* parked_proposals: their parent is unknown
    inflight,    \* block_sync_inflight: blocks being requested
    votes,       \* vote_bucket (and vote_dedupe): votes counted
    \* the rest of the node
    pmView,      \* the pacemaker's current_view
    timeouts,    \* timeout_buckets: timeout votes counted
    stash,       \* stashed_proposal, as a set of at most one
    paced,       \* is last_proposal_at set?
    loopback,    \* loopback_stack, top first
    agenda,      \* the call stack of the event loop, next call first
    acts,        \* output of the on_pacemaker_advance being executed
    ready,       \* its parked proposals still to be retried
    \* what survives a crash
    disk,        \* durable storage
    executed,    \* the blocks app.commit has executed, in order
    failed,      \* the blocks for which app.commit returned an error
    \* the environment
    msgs,        \* every message ever sent: delivery is any number of times
    restarts     \* crashes so far

core == <<highQc, locked, lastVoted, proposedIn>>
tree == <<pending, parked, inflight>>
buckets == <<votes, timeouts>>
outbox == <<stash, paced, loopback>>
unparking == <<acts, ready>>
durable == <<disk, executed, failed>>
vars == <<core, tree, buckets, outbox, unparking, durable,
          pmView, agenda, msgs, restarts>>

EmptyDisk ==
    [voted |-> 0, highQc |-> Genesis, locked |-> Genesis, proposed |-> 0,
     blocks |-> {}, timeout |-> {},
     committed |-> [height |-> 0, block |-> Genesis]]

\* A fresh node has recovered from an empty disk and is about to enter view 1.
Init ==
    /\ highQc = [n \in Node |-> Genesis]
    /\ locked = [n \in Node |-> Genesis]
    /\ lastVoted = [n \in Node |-> 0]
    /\ proposedIn = [n \in Node |-> 0]
    /\ pending = [n \in Node |-> {Genesis}]
    /\ parked = [n \in Node |-> {}]
    /\ inflight = [n \in Node |-> {}]
    /\ votes = [n \in Node |-> {}]
    /\ timeouts = [n \in Node |-> {}]
    /\ stash = [n \in Node |-> {}]
    /\ paced = [n \in Node |-> FALSE]
    /\ loopback = [n \in Node |-> <<>>]
    /\ acts = [n \in Node |-> <<>>]
    /\ ready = [n \in Node |-> {}]
    /\ disk = [n \in Node |-> EmptyDisk]
    /\ executed = [n \in Node |-> <<>>]
    /\ failed = [n \in Node |-> {}]
    /\ pmView = [n \in Node |-> 0]
    /\ agenda = [n \in Node |-> <<Cert(0)>>]
    /\ msgs = {}
    /\ restarts = 0

-----------------------------------------------------------------------------
(* The call stack. *)

Busy(n) == agenda[n] # <<>>
Doing(n, op) == Busy(n) /\ Head(agenda[n]).op = op
Receiving(n, kind) == Doing(n, "recv") /\ Head(agenda[n]).msg.kind = kind
Rest(n) == Tail(agenda[n])

\* The head of the agenda returns after the calls s.
Continue(n, s) == agenda' = [agenda EXCEPT ![n] = s \o Rest(n)]
Return(n) == agenda' = [agenda EXCEPT ![n] = Rest(n)]

\* ingress_*: the calls a verified message causes, in order.
Dispatches(m) ==
    CASE m.kind = "proposal" -> <<Recv(m), Cert(ViewOf(Parent(m.block)))>>
      [] m.kind = "newview"  -> <<Recv(m), Cert(ViewOf(m.block))>>
      [] OTHER               -> <<Recv(m)>>

-----------------------------------------------------------------------------
(* The safety core: proposals. *)

\* (Mutant: a second vote in the last voted view is let through.)
SafeToVoteAgain(n, b) == ViewOf(b) >= lastVoted[n]

safe_to_vote(n, b) ==
    /\ ViewOf(b) > lastVoted[n]
    /\ \/ locked[n] = Genesis
       \/ extends(b, locked[n], pending[n] \cup {b})
       \/ ViewOf(Parent(b)) > ViewOf(locked[n])

should_update_high_qc(n, q) == ViewOf(q) > ViewOf(highQc[n])

\* The two-chain candidate for the lock: the grandparent, if it is higher.
UpdatesLock(n, b) ==
    /\ Ancestor(b, 2) \in pending[n]
    /\ Height(Ancestor(b, 2)) > Height(locked[n])

\* Does the justification of b complete a three-chain on Ancestor(b, 3)?
three_chain_commit(n, b) ==
    /\ {Ancestor(b, 2), Ancestor(b, 3)} \subseteq pending[n]
    /\ ViewOf(Ancestor(b, 2)) + 1 = ViewOf(Ancestor(b, 1))
    /\ ViewOf(Ancestor(b, 3)) + 1 = ViewOf(Ancestor(b, 2))

\* (Mutant: the block's own certificate is adopted, before there is one.)
ProposalBatchOwnQc(n, b) ==
    [NoBatch EXCEPT !.voted = IF safe_to_vote(n, b) THEN ViewOf(b) ELSE 0,
                    !.highQc = b]

\* The state updates of on_proposal_received when the parent is known.
ProposalBatch(n, b) ==
    [voted    |-> IF safe_to_vote(n, b) THEN ViewOf(b) ELSE 0,
     highQc   |-> IF safe_to_vote(n, b) /\ should_update_high_qc(n, Parent(b))
                  THEN Parent(b) ELSE Genesis,
     locked   |-> IF UpdatesLock(n, b) THEN Ancestor(b, 2) ELSE Genesis,
     proposed |-> 0]

\* The actions it returns.
ProposalActions(n, b) ==
    IF Parent(b) \notin pending[n] THEN <<>>
    ELSE Buffered(ProposalBatch(n, b),
            (IF safe_to_vote(n, b) THEN <<Send(Vote(n, b))>> ELSE <<>>) \o
            (IF three_chain_commit(n, b)
             THEN <<CommitBlock(Ancestor(b, 3))>> ELSE <<>>))

\* on_proposal_received, with the given parked proposals and open requests.
OnProposal(n, b, wasParked, wasInflight) ==
    IF Parent(b) \notin pending[n]
    THEN /\ parked' = [parked EXCEPT ![n] = wasParked \cup {b}]
         /\ inflight' = [inflight EXCEPT ![n] = wasInflight \cup {Parent(b)}]
         /\ UNCHANGED <<core, pending>>
    ELSE LET batch == ProposalBatch(n, b) IN
         /\ parked' = [parked EXCEPT ![n] = wasParked]
         /\ inflight' = [inflight EXCEPT ![n] = wasInflight \ {b}]
         /\ lastVoted' = [lastVoted EXCEPT
                ![n] = IF batch.voted # 0 THEN batch.voted ELSE @]
         /\ highQc' = [highQc EXCEPT
                ![n] = IF batch.highQc # Genesis THEN batch.highQc ELSE @]
         /\ locked' = [locked EXCEPT
                ![n] = IF batch.locked # Genesis THEN batch.locked ELSE @]
         /\ pending' = [pending EXCEPT
                ![n] = {p \in @ \cup {b} : three_chain_commit(n, b) =>
                                              Height(p) > Height(Ancestor(b, 3))}]
         /\ UNCHANGED proposedIn

HandleProposal(n) ==
    /\ Receiving(n, "proposal")
    /\ LET b == Head(agenda[n]).msg.block IN
       /\ OnProposal(n, b, parked[n], inflight[n])
       /\ Continue(n, ProposalActions(n, b))
    /\ UNCHANGED <<buckets, outbox, unparking, durable, pmView, msgs, restarts>>

\* app.validate_proposal fails: the core never sees the proposal.
RejectProposal(n) ==
    /\ Receiving(n, "proposal")
    /\ LET b == Head(agenda[n]).msg.block IN b[Len(b)].payload \in Refusable
    /\ Return(n)
    /\ UNCHANGED <<core, tree, buckets, outbox, unparking, durable, pmView,
                   msgs, restarts>>

-----------------------------------------------------------------------------
(* The safety core: votes, new views, leadership. *)

\* build_proposal_at_view, when the highest certificate is q.
build_proposal_at_view(n, v, q) ==
    IF v > proposedIn[n] /\ q \in pending[n] THEN <<Build(v, q)>> ELSE <<>>

try_propose_as_leader(n, v, q) ==
    IF RoundRobin[v] = n THEN build_proposal_at_view(n, v, q) ELSE <<>>

SignersOf(V, b) == {m.from : m \in {x \in V : x.block = b}}

\* A vote for another block of the same view was counted: evidence only.
Equivocates(n, m) ==
    \E x \in votes[n] : /\ x.from = m.from
                        /\ ViewOf(x.block) = ViewOf(m.block)
                        /\ x.block # m.block

HandleVote(n) ==
    /\ Receiving(n, "vote")
    /\ LET m == Head(agenda[n]).msg
           b == m.block
           counted == votes[n] \cup {m}
           forms == /\ ~HasQuorum(SignersOf(votes[n], b))
                    /\ HasQuorum(SignersOf(counted, b))
           raises == should_update_high_qc(n, b)
           q == IF raises THEN b ELSE highQc[n]
       IN
       IF Equivocates(n, m)
       THEN Return(n) /\ UNCHANGED <<votes, highQc>>
       ELSE /\ votes' = [votes EXCEPT ![n] = counted]
            /\ highQc' = [highQc EXCEPT ![n] = IF forms THEN q ELSE @]
            /\ Continue(n,
                 IF forms
                 THEN Buffered([NoBatch EXCEPT !.highQc = IF raises THEN b ELSE @],
                               try_propose_as_leader(n, ViewOf(b) + 1, q))
                 ELSE <<>>)
    /\ UNCHANGED <<locked, lastVoted, proposedIn, tree, timeouts, outbox,
                   unparking, durable, pmView, msgs, restarts>>

HandleNewView(n) ==
    /\ Receiving(n, "newview")
    /\ LET q == Head(agenda[n]).msg.block IN
       IF should_update_high_qc(n, q)
       THEN /\ highQc' = [highQc EXCEPT ![n] = q]
            /\ inflight' = [inflight EXCEPT
                   ![n] = IF q \in pending[n] THEN @ ELSE @ \cup {q}]
            /\ Continue(n, Buffered([NoBatch EXCEPT !.highQc = q], <<>>))
       ELSE Return(n) /\ UNCHANGED <<highQc, inflight>>
    /\ UNCHANGED <<locked, lastVoted, proposedIn, pending, parked, buckets,
                   outbox, unparking, durable, pmView, msgs, restarts>>

\* become_leader
BecomeLeader(n) ==
    /\ Doing(n, "lead")
    /\ Continue(n, build_proposal_at_view(n, Head(agenda[n]).view, highQc[n]))
    /\ UNCHANGED <<core, tree, buckets, outbox, unparking, durable, pmView,
                   msgs, restarts>>

-----------------------------------------------------------------------------
(* The pacemaker and on_pacemaker_advance. *)

\* (Mutant: the pacemaker skips a view that it announces to the core.)
EnterSkipping(n, v) ==
    /\ pmView' = [pmView EXCEPT ![n] = v + 1]
    /\ Continue(n, <<Advance(v)>>)

\* Pacemaker::advance_to
Enter(n, v) ==
    /\ pmView' = [pmView EXCEPT ![n] = v]
    /\ Continue(n, <<Advance(v)>> \o
                   (IF Accumulator[v] = n THEN <<Lead(v)>> ELSE <<>>))

\* OnQc and OnTimeoutCert
OnCert(n) ==
    /\ Doing(n, "cert")
    /\ LET v == Head(agenda[n]).view IN
       IF v < pmView[n] THEN Return(n) /\ UNCHANGED pmView ELSE Enter(n, v + 1)
    /\ UNCHANGED <<core, tree, buckets, outbox, unparking, durable, msgs,
                   restarts>>

OnRoundSync(n) ==
    /\ Doing(n, "sync")
    /\ LET v == Head(agenda[n]).view IN
       IF v <= pmView[n] THEN Return(n) /\ UNCHANGED pmView ELSE Enter(n, v)
    /\ UNCHANGED <<core, tree, buckets, outbox, unparking, durable, msgs,
                   restarts>>

\* on_pacemaker_advance, up to the loop over the proposals to retry.
OnPacemakerAdvance(n) ==
    /\ Doing(n, "advance")
    /\ LET v == Head(agenda[n]).view IN
       /\ votes' = [votes EXCEPT ![n] = {m \in @ : ViewOf(m.block) >= v}]
       /\ Continue(n, <<Unpark(v)>>)
    /\ acts' = [acts EXCEPT ![n] = <<>>]
    /\ ready' = [ready EXCEPT ![n] = {b \in parked[n] : Parent(b) \in pending[n]}]
    /\ UNCHANGED <<core, tree, timeouts, outbox, durable, pmView, msgs, restarts>>

\* One round of the loop; parked_proposals is a HashMap, so in any order.
UnparkOne(n, b) ==
    /\ Doing(n, "unpark")
    /\ b \in ready[n]
    /\ ready' = [ready EXCEPT ![n] = @ \ {b}]
    /\ OnProposal(n, b, parked[n] \ {b}, inflight[n] \ {Parent(b)})
    /\ acts' = [acts EXCEPT ![n] = @ \o ProposalActions(n, b)]
    /\ UNCHANGED <<buckets, outbox, durable, pmView, agenda, msgs, restarts>>

\* drop_parked_for_parent, for parents D whose requests are exhausted.
DropParked(n, D) ==
    /\ parked' = [parked EXCEPT ![n] = {b \in @ : Parent(b) \notin D}]
    /\ inflight' = [inflight EXCEPT ![n] = @ \ D]

\* The rest of on_pacemaker_advance: retry or give up the open requests,
\* announce the highest certificate, propose if round robin says so.
FinishAdvance(n, D) ==
    /\ Doing(n, "unpark")
    /\ ready[n] = {}
    /\ D \subseteq inflight[n] \cap
          ({Parent(b) : b \in parked[n]} \cup ({highQc[n]} \ pending[n]))
    /\ DropParked(n, D)
    /\ Continue(n, acts[n] \o <<Send(NewView(Node, highQc[n]))>> \o
                   try_propose_as_leader(n, Head(agenda[n]).view, highQc[n]))
    /\ acts' = [acts EXCEPT ![n] = <<>>]
    /\ UNCHANGED <<core, pending, buckets, outbox, ready, durable, pmView, msgs,
                   restarts>>

-----------------------------------------------------------------------------
(* Timeout votes. *)

WeightAt(T, v) == WeightOf[{m.from : m \in {x \in T : x.view = v}}]

\* best_high_qc of the bucket of view v
BestHighQc(T, v) ==
    (CHOOSE m \in T : /\ m.view = v
                      /\ \A x \in T : x.view = v => ViewOf(x.block) <= ViewOf(m.block)
    ).block

\* on_timeout_vote, up to the round synchronisation it may fire.
HandleTimeout(n) ==
    /\ Receiving(n, "timeout")
    /\ LET m == Head(agenda[n]).msg
           counted == timeouts[n] \cup {m}
           before == WeightAt(timeouts[n], m.view)
           after == WeightAt(counted, m.view)
           sync == IF /\ before < HonestyWeightThreshold
                      /\ after >= HonestyWeightThreshold
                   THEN <<RoundSync(m.view)>> ELSE <<>>
           formed == IF after >= QuorumWeightThreshold
                     THEN <<Formed(m.view, BestHighQc(counted, m.view))>>
                     ELSE <<>>
       IN
       CASE m.view < pmView[n] ->      \* help the straggler, and only it
              /\ msgs' = msgs \cup {NewView({m.from}, highQc[n])}
              /\ Return(n)
              /\ UNCHANGED timeouts
         [] m.view >= pmView[n] /\ (\E x \in timeouts[n] :
                                      x.view = m.view /\ x.from = m.from) ->
              Return(n) /\ UNCHANGED <<timeouts, msgs>>
         [] OTHER ->
              /\ timeouts' = [timeouts EXCEPT ![n] = counted]
              /\ Continue(n, sync \o formed)
              /\ UNCHANGED msgs
    /\ UNCHANGED <<core, tree, votes, outbox, unparking, durable, pmView,
                   restarts>>

\* The rest of it: adopt the best certificate and enter the next view.
TimeoutCertFormed(n) ==
    /\ Doing(n, "formed")
    /\ LET v == Head(agenda[n]).view
           q == Head(agenda[n]).block IN
       /\ timeouts' = [timeouts EXCEPT ![n] = {m \in @ : m.view > v}]
       /\ Continue(n, <<Recv(NewView({n}, q)), Cert(v)>>)
    /\ UNCHANGED <<core, tree, votes, outbox, unparking, durable, pmView, msgs,
                   restarts>>

-----------------------------------------------------------------------------
(* The interpreter of actions: apply_safety_actions. *)

InAction(n) == \E op \in {"send", "build", "commit", "flush"} : Doing(n, op)
Flushed(n, op) == Doing(n, op) /\ Head(agenda[n]).pre = NoBatch

\* persist_updates: one atomic write, with the blocks that are at hand.
Persisted(n, pre) ==
    [disk[n] EXCEPT
        !.voted    = IF pre.voted # 0 THEN pre.voted ELSE @,
        !.highQc   = IF pre.highQc # Genesis THEN pre.highQc ELSE @,
        !.locked   = IF pre.locked # Genesis THEN pre.locked ELSE @,
        !.proposed = IF pre.proposed # 0 THEN pre.proposed ELSE @,
        !.blocks   = @ \cup (({pre.highQc, pre.locked} \ {Genesis})
                                \cap pending[n])]

PersistUpdates(n) ==
    /\ InAction(n)
    /\ LET pre == Head(agenda[n]).pre IN
       /\ pre # NoBatch
       /\ disk' = [disk EXCEPT ![n] = Persisted(n, pre)]
    /\ agenda' = [agenda EXCEPT ![n] =
          IF Head(@).op = "flush" THEN Tail(@)
          ELSE <<[Head(@) EXCEPT !.pre = NoBatch]>> \o Tail(@)]
    /\ UNCHANGED <<core, tree, buckets, outbox, unparking, executed, failed,
                   pmView, msgs, restarts>>

Draining(n) == \E i \in DOMAIN agenda[n] : agenda[n][i].op = "drain"

\* broadcast_consensus_msg, then the work in rest: the message also comes
\* back to the sender, at once unless a drain of the loopback is running.
BroadcastMsg(n, m, rest) ==
    /\ msgs' = msgs \cup {m}
    /\ paced' = [paced EXCEPT ![n] = @ \/ m.kind = "proposal"]
    /\ loopback' = [loopback EXCEPT ![n] = Dispatches(m) \o @]
    /\ agenda' = [agenda EXCEPT
                     ![n] = (IF Draining(n) THEN <<>> ELSE <<Drain>>) \o rest]

\* (Mutant: the message leaves before the buffered batch is flushed.)
BroadcastFirst(n) ==
    /\ Doing(n, "send")
    /\ BroadcastMsg(n, Head(agenda[n]).msg,
                    Buffered(Head(agenda[n]).pre, <<>>) \o Rest(n))
    /\ UNCHANGED <<core, tree, buckets, stash, unparking, durable, pmView,
                   restarts>>

Broadcast(n) ==
    /\ Flushed(n, "send")
    /\ BroadcastMsg(n, Head(agenda[n]).msg, Rest(n))
    /\ UNCHANGED <<core, tree, buckets, stash, unparking, durable, pmView,
                   restarts>>

\* The state root differs or app.check refuses a command: the vote is
\* withheld, if the block is still at hand.
SuppressVote(n) ==
    /\ Flushed(n, "send")
    /\ LET m == Head(agenda[n]).msg IN
       /\ m.kind = "vote"
       /\ m.block \in pending[n]
       /\ m.block[Len(m.block)].payload \in Refusable
    /\ Return(n)
    /\ UNCHANGED <<core, tree, buckets, outbox, unparking, durable, pmView,
                   msgs, restarts>>

\* Too soon after the previous proposal: keep it, replacing an older one.
StashProposal(n) ==
    /\ Flushed(n, "send")
    /\ Head(agenda[n]).msg.kind = "proposal"
    /\ MinBlockInterval /\ paced[n]
    /\ stash' = [stash EXCEPT ![n] = {Head(agenda[n]).msg}]
    /\ Return(n)
    /\ UNCHANGED <<core, tree, buckets, paced, loopback, unparking, durable,
                   pmView, msgs, restarts>>

DrainLoopback(n) ==
    /\ Doing(n, "drain")
    /\ IF loopback[n] = <<>>
       THEN Return(n) /\ UNCHANGED loopback
       ELSE /\ agenda' = [agenda EXCEPT ![n] = <<Head(loopback[n])>> \o @]
            /\ loopback' = [loopback EXCEPT ![n] = Tail(@)]
    /\ UNCHANGED <<core, tree, buckets, stash, paced, unparking, durable,
                   pmView, msgs, restarts>>

\* app.build_proposal succeeds, and proposal_built records the view.
BuildProposal(n, p) ==
    /\ Flushed(n, "build")
    /\ LET v == Head(agenda[n]).view
           b == Append(Head(agenda[n]).block,
                       [view |-> v, proposer |-> n, payload |-> p])
       IN
       /\ v <= MaxView
       /\ proposedIn' = [proposedIn EXCEPT ![n] = v]
       /\ Continue(n, Buffered([NoBatch EXCEPT !.proposed = v],
                               <<Send(Proposal(b))>>))
    /\ UNCHANGED <<highQc, locked, lastVoted, tree, buckets, outbox, unparking,
                   durable, pmView, msgs, restarts>>

\* It fails, as it always does beyond the bound of the model.
BuildFails(n) ==
    /\ Flushed(n, "build")
    /\ n \in FailingBuilders \/ Head(agenda[n]).view > MaxView
    /\ Return(n)
    /\ UNCHANGED <<core, tree, buckets, outbox, unparking, durable, pmView,
                   msgs, restarts>>

\* (Mutant: the application does not see the block.)
CommitUnexecuted(n) ==
    /\ Flushed(n, "commit")
    /\ Continue(n, <<Apply(Head(agenda[n]).block)>>)
    /\ UNCHANGED <<core, tree, buckets, outbox, unparking, durable, pmView,
                   msgs, restarts>>

\* commit_block: the application first,
CommitToApp(n) ==
    /\ Flushed(n, "commit")
    /\ LET b == Head(agenda[n]).block IN
       /\ executed' = [executed EXCEPT ![n] = Append(@, b)]
       /\ Continue(n, <<Apply(b)>>)
    /\ UNCHANGED <<core, tree, buckets, outbox, unparking, disk, failed, pmView,
                   msgs, restarts>>

\* or its error, which is only logged, and the commit goes on;
CommitFails(n) ==
    /\ Flushed(n, "commit")
    /\ n \in FailingApps
    /\ LET b == Head(agenda[n]).block IN
       /\ failed' = [failed EXCEPT ![n] = @ \cup {b}]
       /\ Continue(n, <<Apply(b)>>)
    /\ UNCHANGED <<core, tree, buckets, outbox, unparking, disk, executed, pmView,
                   msgs, restarts>>

\* then apply_commit: the record of the last commit, and the block.
ApplyCommit(n) ==
    /\ Doing(n, "apply")
    /\ LET b == Head(agenda[n]).block IN
       disk' = [disk EXCEPT
          ![n].committed = [height |-> IF Height(b) > @.height
                                       THEN Height(b) ELSE @.height,
                            block |-> b],
          ![n].blocks = @ \cup {b}]
    /\ Return(n)
    /\ UNCHANGED <<core, tree, buckets, outbox, unparking, executed, failed,
                   pmView, msgs, restarts>>

-----------------------------------------------------------------------------
(* Events of the loop, for an idle node. *)

Receive(n, m) ==
    /\ ~Busy(n)
    /\ m \in msgs
    /\ CASE m.kind = "proposal" -> m.block[Len(m.block)].proposer # n
         [] m.kind = "newview" -> n \in m.to
         [] OTHER -> m.from # n
    /\ agenda' = [agenda EXCEPT ![n] = Dispatches(m)]
    /\ UNCHANGED <<core, tree, buckets, outbox, unparking, durable, pmView,
                   msgs, restarts>>

\* The view timer fires: OnTimeout and send_timeout.  The vote of a view is
\* written once; a retry, also after a crash, repeats the stored one.
OnTimeout(n) ==
    /\ ~Busy(n)
    /\ pmView[n] <= MaxView
    /\ LET stored == {m \in disk[n].timeout : m.view = pmView[n]}
           kept == IF stored = {} THEN {Timeout(n, pmView[n], highQc[n])}
                                  ELSE stored
       IN
       /\ disk' = [disk EXCEPT ![n].timeout = kept]
       /\ msgs' = msgs \cup kept
       /\ agenda' = [agenda EXCEPT ![n] = <<Recv(CHOOSE m \in kept : TRUE)>>]
    /\ UNCHANGED <<core, tree, buckets, outbox, unparking, executed, failed,
                   pmView, restarts>>

\* A requested block arrives from a peer that voted for it.
ReceiveBlock(n, b) ==
    /\ ~Busy(n)
    /\ b \in inflight[n]
    /\ \E p \in Node \ {n} : Vote(p, b) \in msgs \/ b = Genesis
    /\ pending' = [pending EXCEPT ![n] = @ \cup {b}]
    /\ inflight' = [inflight EXCEPT ![n] = @ \ {b}]
    /\ agenda' = [agenda EXCEPT ![n] = <<Advance(pmView[n])>>]
    /\ UNCHANGED <<core, parked, buckets, outbox, unparking, durable, pmView,
                   msgs, restarts>>

\* step_block_sync_retry_tick gives up on the requests D.
BlockSyncRetryTick(n, D) ==
    /\ ~Busy(n)
    /\ D \subseteq inflight[n] /\ D # {}
    /\ DropParked(n, D)
    /\ UNCHANGED <<core, pending, buckets, outbox, unparking, durable, pmView,
                   agenda, msgs, restarts>>

\* min_block_interval has passed since the last proposal.
ReleaseStash(n) ==
    /\ ~Busy(n)
    /\ \E m \in stash[n] : BroadcastMsg(n, m, <<>>)
    /\ stash' = [stash EXCEPT ![n] = {}]
    /\ UNCHANGED <<core, tree, buckets, unparking, durable, pmView, restarts>>

-----------------------------------------------------------------------------
(* A crash at any point, and recover_state with the boot step of run. *)

\* rehydrate_ancestors: the block and two parents, while they are stored.
Rehydrated(n, b) ==
    {Ancestor(b, k) : k \in {i \in 0 .. 2 :
        \A j \in 0 .. i : Ancestor(b, j) \in disk[n].blocks \cup {Genesis}}}

Restart(n) ==
    /\ restarts < MaxRestarts
    /\ restarts' = restarts + 1
    /\ highQc' = [highQc EXCEPT ![n] = disk[n].highQc]
    /\ locked' = [locked EXCEPT ![n] = disk[n].locked]
    /\ lastVoted' = [lastVoted EXCEPT ![n] = disk[n].voted]
    /\ proposedIn' = [proposedIn EXCEPT ![n] = disk[n].proposed]
    /\ pending' = [pending EXCEPT ![n] =
          {Genesis} \cup Rehydrated(n, disk[n].highQc)
                    \cup Rehydrated(n, disk[n].locked)]
    /\ parked' = [parked EXCEPT ![n] = {}]
    /\ inflight' = [inflight EXCEPT ![n] = {}]
    /\ votes' = [votes EXCEPT ![n] = {}]
    /\ timeouts' = [timeouts EXCEPT ![n] = {}]
    /\ stash' = [stash EXCEPT ![n] = {}]
    /\ paced' = [paced EXCEPT ![n] = FALSE]
    /\ loopback' = [loopback EXCEPT ![n] = <<>>]
    /\ acts' = [acts EXCEPT ![n] = <<>>]
    /\ ready' = [ready EXCEPT ![n] = {}]
    /\ pmView' = [pmView EXCEPT ![n] = 0]
    /\ agenda' = [agenda EXCEPT ![n] =
          <<Cert(IF ViewOf(disk[n].highQc) > disk[n].voted
                 THEN ViewOf(disk[n].highQc) ELSE disk[n].voted)>>]
    /\ UNCHANGED <<durable, msgs>>

-----------------------------------------------------------------------------
\* One call of a busy node.
Work(n) ==
    \/ HandleProposal(n) \/ RejectProposal(n)
    \/ HandleVote(n) \/ HandleNewView(n) \/ HandleTimeout(n)
    \/ TimeoutCertFormed(n) \/ OnCert(n) \/ OnRoundSync(n)
    \/ OnPacemakerAdvance(n)
    \/ \E b \in ready[n] : UnparkOne(n, b)
    \/ \E D \in SUBSET inflight[n] : FinishAdvance(n, D)
    \/ BecomeLeader(n)
    \/ PersistUpdates(n) \/ Broadcast(n) \/ SuppressVote(n) \/ StashProposal(n)
    \/ DrainLoopback(n)
    \/ \E p \in Payload : BuildProposal(n, p)
    \/ BuildFails(n)
    \/ CommitToApp(n) \/ CommitFails(n) \/ ApplyCommit(n)

\* An event taken by an idle node.
Event(n) ==
    \/ \E m \in msgs : Receive(n, m)
    \/ OnTimeout(n)
    \/ \E b \in inflight[n] : ReceiveBlock(n, b)
    \/ \E D \in SUBSET inflight[n] : BlockSyncRetryTick(n, D)
    \/ ReleaseStash(n)

Next == \E n \in Node : Work(n) \/ Event(n) \/ Restart(n)

Spec == Init /\ [][Next]_vars

-----------------------------------------------------------------------------
DiskRecord ==
    [voted : 0 .. MaxView, highQc : Block, locked : Block,
     proposed : 0 .. MaxView, blocks : SUBSET Block, timeout : SUBSET TimeoutMsg,
     committed : [height : Nat, block : Block]]

\* Before the pacemaker has entered its first view the boot step of run is
\* all there is to do.
Booting ==
    \A n \in Node : pmView[n] = 0 => \E v \in 0 .. MaxView : agenda[n] = <<Cert(v)>>

(* The values of every variable; in particular no view is 0 once the node
   takes events. *)
TypeOK ==
    /\ highQc \in [Node -> Block]
    /\ locked \in [Node -> Block]
    /\ lastVoted \in [Node -> 0 .. MaxView]
    /\ proposedIn \in [Node -> 0 .. MaxView]
    /\ pending \in [Node -> SUBSET Block]
    /\ parked \in [Node -> SUBSET Block]
    /\ inflight \in [Node -> SUBSET Block]
    /\ votes \in [Node -> SUBSET VoteMsg]
    /\ timeouts \in [Node -> SUBSET TimeoutMsg]
    /\ stash \in [Node -> SUBSET ProposalMsg]
    /\ paced \in [Node -> BOOLEAN]
    /\ loopback \in [Node -> Seq(CallItem)]
    /\ acts \in [Node -> Seq(ActionItem)]
    /\ ready \in [Node -> SUBSET Block]
    /\ disk \in [Node -> DiskRecord]
    /\ executed \in [Node -> Seq(Block)]
    /\ failed \in [Node -> SUBSET Block]
    /\ pmView \in [Node -> 0 .. MaxView + 1]
    /\ agenda \in [Node -> Seq(Item)]
    /\ msgs \subseteq Message
    /\ restarts \in 0 .. MaxRestarts
    /\ Booting

VotesSent == {m \in msgs : m.kind = "vote"}
Certified ==
    {Genesis} \cup {b \in {m.block : m \in VotesSent} :
                       HasQuorum(SignersOf(VotesSent, b))}

(* No node ever signs votes for two blocks of one view, crashes included:
   last_voted_view and its durable copy make equivocation impossible. *)
OneVotePerView ==
    \A x, y \in VotesSent :
        (x.from = y.from /\ ViewOf(x.block) = ViewOf(y.block)) => x.block = y.block

(* A leader signs one proposal in a view: the view is recorded as proposed in
   before the block leaves.  A build that was requested before a nested one of
   a later view sets the record back, and the later view is proposed in again. *)
OneProposalPerView ==
    \A x, y \in {m \in msgs : m.kind = "proposal"} :
        LET b == x.block[Len(x.block)]
            c == y.block[Len(y.block)]
        IN  (b.view = c.view /\ b.proposer = c.proposer) => x.block = y.block

(* At most one block is certified in a view. *)
CertifiedUnique ==
    \A b, c \in Certified : ViewOf(b) = ViewOf(c) => b = c

(* Every certificate a node holds, stores, locks on or announces was signed
   by a quorum whose votes really left, whatever crashed since. *)
QcBacked ==
    LET held == UNION {{highQc[n], locked[n], disk[n].highQc, disk[n].locked} :
                          n \in Node}
        announced == {m.block : m \in {x \in msgs : x.kind \in {"newview", "timeout"}}}
        justifying == {Parent(m.block) : m \in {x \in msgs : x.kind = "proposal"}}
    IN  held \cup announced \cup justifying \subseteq Certified

(* Committed blocks of any two nodes lie on one chain. *)
Agreement ==
    \A n, o \in Node :
        \A i \in DOMAIN executed[n], j \in DOMAIN executed[o] :
            LET b == executed[n][i]
                c == executed[o][j]
            IN  Height(b) <= Height(c) => SubSeq(c, 1, Height(b)) = b

(* A vote leaves only when the durable record of the last voted view is the
   view of that vote: persist before send. *)
PersistBeforeSend ==
    [][\A m \in msgs' \ msgs :
          m.kind = "vote" => disk[m.from].voted = ViewOf(m.block)]_vars

\* The blocks the application has been given.
Presented(n) == {executed[n][i] : i \in DOMAIN executed[n]} \cup failed[n]

(* commit_block presents a block to the application before apply_commit
   records it: whatever a crash interrupts, the recorded block was executed,
   or app.commit itself returned an error for it, which the node only logs. *)
RecordedIsPresented ==
    \A n \in Node :
        disk[n].committed.block \in {Genesis} \cup Presented(n)

(* What is on disk covers every vote that has left: a node that recovers
   from its disk cannot vote again in a view it has voted in. *)
SentVotesDurable ==
    \A m \in VotesSent : ViewOf(m.block) <= disk[m.from].voted

(* I4: in the output of one core step no lock is persisted after a vote has
   been broadcast. *)
LockDurableBeforeVote ==
    \A n \in Node : \A i, j \in DOMAIN acts[n] :
        (/\ i < j
         /\ acts[n][i].op = "send"
         /\ acts[n][i].msg.kind = "vote") => acts[n][j].pre.locked = Genesis

(* The application executes every block: nothing is skipped on the way to a
   committed one. *)
NoCommitGap ==
    \A n \in Node : \A i \in DOMAIN executed[n] :
        \A k \in 1 .. Height(executed[n][i]) :
            \E j \in 1 .. i : executed[n][j] = SubSeq(executed[n][i], 1, k)

(* The stored height of the last commit is the height of the stored block. *)
LastCommittedConsistent ==
    \A n \in Node : disk[n].committed.height = Height(disk[n].committed.block)
=============================================================================
