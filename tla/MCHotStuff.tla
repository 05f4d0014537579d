----------------------------- MODULE MCHotStuff -----------------------------
(***************************************************************************)
(* Instances of HotStuff for TLC.  The leader functions come from          *)
(* LeaderSelection.                                                        *)
(*                                                                         *)
(* While a node handles an event its steps read and write only its own     *)
(* state and add to the set of sent messages, so they commute with the     *)
(* steps of the other nodes; MCNext lets a node finish its agenda (or      *)
(* crash in the middle of it) before another one moves, and leaves out the *)
(* deliveries that change nothing.                                         *)
(***************************************************************************)
EXTENDS HotStuff, LeaderSelection

CONSTANTS
    Members,      \* the validator set, in order
    Weights,      \* Weights[i]: the weight of Members[i]
    LastView,     \* bound: the leaders are defined up to this view
    MaxCommits,   \* bound: blocks passed to one application
    MaxTimeouts   \* bound: different timeout votes sent

MCSet == [members |-> Members, weights |-> Weights]
MCNode == {Members[i] : i \in Index(MCSet)}
MCWeightOf ==
    [S \in SUBSET MCNode |->
        LET sum[i \in 0 .. Len(Members)] ==
                IF i = 0 THEN 0
                ELSE sum[i - 1] + (IF Members[i] \in S THEN Weights[i] ELSE 0)
        IN  sum[Len(Members)]]
MCRoundRobin == [v \in 1 .. LastView |-> RoundRobinLeader(MCSet, v)]
MCAccumulator == [v \in 1 .. LastView |-> AccumulatorLeader(MCSet, v)]

One == <<"a">>
Two == <<"a", "b">>
Four == <<"a", "b", "c", "d">>
Equal1 == <<1>>
Equal2 == <<1, 1>>
Equal4 == <<1, 1, 1, 1>>
Uneven2 == <<2, 3>>

MCBound ==
    /\ \A n \in Node : Len(executed[n]) <= MaxCommits
    /\ Cardinality({m \in msgs : m.kind = "timeout"}) <= MaxTimeouts

\* A delivery that would leave the node as it is, after some calls.
Idempotent(n, m) ==
    CASE m.kind = "vote" -> m \in votes[n]
      [] m.kind = "newview" ->
            ViewOf(m.block) <= ViewOf(highQc[n]) /\ ViewOf(m.block) < pmView[n]
      [] m.kind = "timeout" ->
            IF m.view < pmView[n] THEN NewView({m.from}, highQc[n]) \in msgs
            ELSE \E x \in timeouts[n] : x.view = m.view /\ x.from = m.from
      [] m.kind = "proposal" ->
            LET b == m.block IN
            /\ ViewOf(Parent(b)) < pmView[n]
            /\ IF Parent(b) \in pending[n]
               THEN /\ b \in pending[n] /\ b \notin inflight[n]
                    /\ ProposalActions(n, b) = <<>>
               ELSE b \in parked[n] /\ Parent(b) \in inflight[n]

\* The busy node that moves: there is more than one only at boot.
Go(n) == Busy(n) /\ n = CHOOSE o \in Node : Busy(o)
AllIdle == \A n \in Node : ~Busy(n)

\* The disjuncts of Next, each with the condition that n is to move.
MCWork(n) ==
    \/ Go(n) /\ HandleProposal(n)
    \/ Go(n) /\ RejectProposal(n)
    \/ Go(n) /\ HandleVote(n)
    \/ Go(n) /\ HandleNewView(n)
    \/ Go(n) /\ HandleTimeout(n)
    \/ Go(n) /\ TimeoutCertFormed(n)
    \/ Go(n) /\ OnCert(n)
    \/ Go(n) /\ OnRoundSync(n)
    \/ Go(n) /\ OnPacemakerAdvance(n)
    \/ Go(n) /\ \E b \in ready[n] : UnparkOne(n, b)
    \/ Go(n) /\ \E D \in SUBSET inflight[n] : FinishAdvance(n, D)
    \/ Go(n) /\ BecomeLeader(n)
    \/ Go(n) /\ PersistUpdates(n)
    \/ Go(n) /\ Broadcast(n)
    \/ Go(n) /\ SuppressVote(n)
    \/ Go(n) /\ StashProposal(n)
    \/ Go(n) /\ DrainLoopback(n)
    \/ Go(n) /\ \E p \in Payload : BuildProposal(n, p)
    \/ Go(n) /\ BuildFails(n)
    \/ Go(n) /\ CommitToApp(n)
    \/ Go(n) /\ CommitFails(n)
    \/ Go(n) /\ ApplyCommit(n)

MCEvent(n) ==
    \/ AllIdle /\ \E m \in msgs : ~Idempotent(n, m) /\ Receive(n, m)
    \/ AllIdle /\ OnTimeout(n)
    \/ AllIdle /\ \E b \in inflight[n] : ReceiveBlock(n, b)
    \/ AllIdle /\ \E D \in SUBSET inflight[n] : BlockSyncRetryTick(n, D)
    \/ AllIdle /\ ReleaseStash(n)

MCCrash(n) == (Go(n) \/ AllIdle) /\ Restart(n)

\* Nothing arrives; a busy node has no such step, so it must not get stuck.
Idle == AllIdle /\ UNCHANGED vars

MCNext == Idle \/ \E n \in Node : MCWork(n) \/ MCEvent(n) \/ MCCrash(n)

MCSpec == Init /\ [][MCNext]_vars
=============================================================================
