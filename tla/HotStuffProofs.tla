--------------------------- MODULE HotStuffProofs ---------------------------
(***************************************************************************)
(* Theorems about HotStuff for any number of validators, weights, views    *)
(* and crashes: quorums intersect, the type invariant, votes are persisted *)
(* before they are sent, certificates are genuine, the record of the last  *)
(* commit is of a block the application was given, and equivocation is     *)
(* impossible as long as the durable record of the last vote never falls.  *)
(***************************************************************************)
EXTENDS HotStuff, SequenceTheorems, WellFoundedInduction, TLAPS

-----------------------------------------------------------------------------
(***************************************************************************)
(* What the protocol needs of quorums, for every set of validators and     *)
(* every assignment of weights.                                            *)
(***************************************************************************)
(* A validator is added to a set of signers, or is not, without a sum ever
   shrinking: weights are not negative. *)
LEMMA WeightMonotone ==
    ASSUME NEW S \in SUBSET Node, NEW T \in SUBSET Node, S \subseteq T
    PROVE  WeightOf[S] <= WeightOf[T]
<1>1. T = S \cup (T \ S) /\ S \cap (T \ S) = {}
  OBVIOUS
<1>2. WeightOf[T] = WeightOf[S] + WeightOf[T \ S]
  BY <1>1, WeightsAdd
<1>3. WeightOf[S] \in Nat /\ WeightOf[T \ S] \in Nat
  BY WeightsAdd
<1> QED
  BY <1>2, <1>3

(* Two quorums share a validator: the fact every safety argument about
   certificates rests on (qc.rs, has_quorum). *)
THEOREM QuorumsIntersect ==
    ASSUME NEW S \in SUBSET Node, NEW T \in SUBSET Node,
           HasQuorum(S), HasQuorum(T)
    PROVE  S \cap T # {}
<1> SUFFICES ASSUME S \cap T = {}
             PROVE  FALSE
  OBVIOUS
<1>1. WeightOf[S \cup T] = WeightOf[S] + WeightOf[T]
  BY WeightsAdd
<1>2. WeightOf[S \cup T] <= WeightOf[Node]
  BY WeightMonotone
<1>3. /\ WeightOf[S] \in Nat
      /\ WeightOf[T] \in Nat
      /\ WeightOf[S \cup T] \in Nat
      /\ WeightOf[Node] \in Nat
  BY WeightsAdd
<1>4. 3 * WeightOf[S] > 2 * WeightOf[Node] /\ 3 * WeightOf[T] > 2 * WeightOf[Node]
  BY DEF HasQuorum, TotalWeight
<1> QED
  BY <1>1, <1>2, <1>3, <1>4

(* The two ways of the code to decide a quorum agree: a set of signers has a
   quorum (qc.rs, has_quorum, cross-multiplied) exactly if its weight reaches
   quorum_weight_threshold (qc.rs), rounding included. *)
THEOREM ThresholdIsQuorum ==
    ASSUME NEW S \in SUBSET Node, TotalWeight # 0
    PROVE  HasQuorum(S) <=> WeightOf[S] >= QuorumWeightThreshold
<1>1. WeightOf[S] \in Nat /\ TotalWeight \in Nat
  BY WeightsAdd DEF TotalWeight
<1>2. ASSUME NEW w \in Nat, NEW t \in Nat
      PROVE  3 * w > 2 * t <=> w >= (2 * t) \div 3 + 1
  OBVIOUS
<1> QED
  BY <1>1, <1>2 DEF HasQuorum, QuorumWeightThreshold

(* Whoever reaches the honesty threshold shares a validator with every
   quorum: a round synchronisation is never the work of those alone whom a
   quorum leaves out (qc.rs, honesty_weight_threshold). *)
THEOREM HonestyMeetsQuorum ==
    ASSUME NEW S \in SUBSET Node, NEW T \in SUBSET Node,
           WeightOf[S] >= HonestyWeightThreshold, HasQuorum(T),
           TotalWeight # 0
    PROVE  S \cap T # {}
<1> SUFFICES ASSUME S \cap T = {}
             PROVE  FALSE
  OBVIOUS
<1>1. WeightOf[S \cup T] = WeightOf[S] + WeightOf[T]
  BY WeightsAdd
<1>2. WeightOf[S \cup T] <= WeightOf[Node]
  BY WeightMonotone
<1>3. /\ WeightOf[S] \in Nat
      /\ WeightOf[T] \in Nat
      /\ WeightOf[S \cup T] \in Nat
      /\ TotalWeight \in Nat
  BY WeightsAdd DEF TotalWeight
<1>4. WeightOf[S] >= TotalWeight \div 3 + 1 /\ 3 * WeightOf[T] > 2 * TotalWeight
  BY DEF HasQuorum, HonestyWeightThreshold
<1>5. WeightOf[S] + WeightOf[T] <= TotalWeight
  BY <1>1, <1>2 DEF TotalWeight
<1>6. ASSUME NEW s \in Nat, NEW w \in Nat, NEW t \in Nat,
             s >= t \div 3 + 1, 3 * w > 2 * t, s + w <= t
      PROVE  FALSE
  BY <1>6
<1> QED
  BY <1>3, <1>4, <1>5, <1>6

-----------------------------------------------------------------------------
(***************************************************************************)
(* TypeOK is an inductive invariant.                                       *)
(***************************************************************************)
(* Blocks. *)
LEMMA ViewOfType ==
    ASSUME NEW b \in Block
    PROVE  ViewOf(b) \in 0 .. MaxView
<1>1. CASE b = Genesis
  BY <1>1, ConstantsOK DEF ViewOf
<1>2. CASE b # Genesis
  <2>1. Len(b) \in 1 .. Len(b) /\ b[Len(b)] \in Header
    BY <1>2 DEF Block, Genesis
  <2> QED
    BY <1>2, <2>1, ConstantsOK DEF ViewOf, Header, View
<1> QED
  BY <1>1, <1>2

LEMMA GenesisType == Genesis \in Block
  BY DEF Genesis, Block

LEMMA AncestorType ==
    ASSUME NEW b \in Block, NEW k \in Nat
    PROVE  Ancestor(b, k) \in Block
<1>1. Len(b) - k \in Int /\ 1 \in Int /\ Len(b) \in Nat
  BY DEF Block
<1>2. \A i \in 1 .. Len(b) - k : b[i] \in Header
  BY <1>1 DEF Block
<1> QED
  BY <1>1, <1>2, SubSeqProperties DEF Ancestor, Block

LEMMA ParentType ==
    ASSUME NEW b \in Block
    PROVE  Parent(b) \in Block
  BY AncestorType DEF Parent

(* Messages and work items, by construction ... *)
LEMMA MessageTypes ==
    ASSUME NEW b \in Block, NEW n \in Node
    PROVE  /\ Proposal(b) \in ProposalMsg
           /\ Vote(n, b) \in VoteMsg
           /\ \A S \in SUBSET Node : NewView(S, b) \in NewViewMsg
           /\ \A v \in View : Timeout(n, v, b) \in TimeoutMsg
  BY DEF Proposal, Vote, NewView, Timeout, ProposalMsg, VoteMsg, NewViewMsg,
         TimeoutMsg

LEMMA NoBatchType == NoBatch \in Batch
  BY ConstantsOK, GenesisType DEF NoBatch, Batch

LEMMA ActionItemTypes ==
    /\ \A m \in Message : Send(m) \in ActionItem
    /\ \A v \in NextViews, b \in Block : Build(v, b) \in ActionItem
    /\ \A b \in Block : CommitBlock(b) \in ActionItem
    /\ \A pre \in Batch : Flush(pre) \in ActionItem
  BY NoBatchType DEF Send, Build, CommitBlock, Flush, ActionItem

LEMMA CallItemTypes ==
    /\ \A m \in Message : Recv(m) \in CallItem
    /\ \A v \in 0 .. MaxView : Cert(v) \in CallItem
    /\ \A v \in View : RoundSync(v) \in CallItem
    /\ \A v \in View, b \in Block : Formed(v, b) \in CallItem
    /\ \A v \in NextViews : /\ Advance(v) \in CallItem
                            /\ Unpark(v) \in CallItem
                            /\ Lead(v) \in CallItem
    /\ \A b \in Block : Apply(b) \in CallItem
    /\ Drain \in CallItem
  BY DEF Recv, Cert, RoundSync, Formed, Advance, Unpark, Lead, Apply, Drain,
         CallItem

(* ... and by use. *)
LEMMA ItemFields ==
    ASSUME NEW it \in Item
    PROVE  /\ it.op = "recv" => it.msg \in Message
           /\ it.op = "cert" => it.view \in 0 .. MaxView
           /\ it.op \in {"advance", "unpark", "lead"} => it.view \in NextViews
           /\ it.op = "sync" => it.view \in View
           /\ it.op = "formed" => it.view \in View /\ it.block \in Block
           /\ it.op = "apply" => it.block \in Block
           /\ it.op = "send" => it.msg \in Message
           /\ it.op = "build" => it.view \in NextViews /\ it.block \in Block
           /\ it.op = "commit" => it.block \in Block
           /\ it.op \in {"send", "build", "commit", "flush"} =>
                 it \in ActionItem /\ it.pre \in Batch
<1>1. CASE it \in ActionItem
  BY <1>1 DEF ActionItem
<1>2. CASE it \in CallItem
  BY <1>2 DEF CallItem
<1> QED
  BY <1>1, <1>2 DEF Item

LEMMA MessageFields ==
    ASSUME NEW m \in Message
    PROVE  /\ m.block \in Block
           /\ m.kind = "proposal" => m \in ProposalMsg
           /\ m.kind = "vote" => m \in VoteMsg /\ m.from \in Node
           /\ m.kind = "newview" => m \in NewViewMsg
           /\ m.kind = "timeout" => /\ m \in TimeoutMsg
                                    /\ m.from \in Node
                                    /\ m.view \in View
           /\ m.kind \in {"proposal", "vote", "newview", "timeout"}
  BY DEF Message, ProposalMsg, VoteMsg, NewViewMsg, TimeoutMsg

-----------------------------------------------------------------------------
(* The call stack. *)
LEMMA ItemSequences ==
    /\ ActionItem \subseteq Item /\ CallItem \subseteq Item
    /\ Seq(ActionItem) \subseteq Seq(Item) /\ Seq(CallItem) \subseteq Seq(Item)
<1>1. ActionItem \subseteq Item /\ CallItem \subseteq Item
  BY DEF Item
<1> QED
  BY <1>1, SeqMonotonic

LEMMA AgendaParts ==
    ASSUME TypeOK, NEW n \in Node, Busy(n)
    PROVE  Head(agenda[n]) \in Item /\ Rest(n) \in Seq(Item)
<1>1. agenda[n] \in Seq(Item) /\ agenda[n] # <<>>
  BY DEF TypeOK, Busy
<1> QED
  BY <1>1, HeadTailProperties DEF Rest

LEMMA ContinueType ==
    ASSUME TypeOK, NEW n \in Node, Busy(n), NEW s \in Seq(Item), Continue(n, s)
    PROVE  agenda' \in [Node -> Seq(Item)]
<1>1. s \o Rest(n) \in Seq(Item)
  BY AgendaParts, ConcatProperties
<1> QED
  BY <1>1 DEF Continue, TypeOK

LEMMA ReturnType ==
    ASSUME TypeOK, NEW n \in Node, Busy(n), Return(n)
    PROVE  agenda' \in [Node -> Seq(Item)]
  BY AgendaParts DEF Return, TypeOK

(* Only the boot step runs before the first view is entered. *)
LEMMA Booted ==
    ASSUME TypeOK, NEW n \in Node,
           ~Busy(n) \/ Head(agenda[n]).op # "cert"
    PROVE  pmView[n] # 0
<1> SUFFICES ASSUME pmView[n] = 0
             PROVE  FALSE
  OBVIOUS
<1>1. PICK v \in 0 .. MaxView : agenda[n] = <<Cert(v)>>
  BY DEF TypeOK, Booting
<1>2. Busy(n) /\ Head(agenda[n]) = Cert(v)
  BY <1>1 DEF Busy
<1> QED
  BY <1>2 DEF Cert

LEMMA StaysBooted ==
    ASSUME TypeOK, NEW n \in Node, pmView[n] # 0, pmView' = pmView,
           \A o \in Node \ {n} : agenda'[o] = agenda[o]
    PROVE  Booting'
  BY DEF TypeOK, Booting

(* What is returned is typed, too. *)
LEMMA BufferedType ==
    ASSUME NEW pre \in Batch, NEW s \in Seq(ActionItem)
    PROVE  Buffered(pre, s) \in Seq(ActionItem)
<1>1. CASE pre = NoBatch
  BY <1>1 DEF Buffered
<1>2. CASE pre # NoBatch /\ s = <<>>
  <2>1. Flush(pre) \in ActionItem
    BY ActionItemTypes
  <2> QED
    BY <1>2, <2>1 DEF Buffered
<1>3. CASE pre # NoBatch /\ s # <<>>
  <2>1. Head(s) \in ActionItem /\ Tail(s) \in Seq(ActionItem)
    BY <1>3, HeadTailProperties
  <2>2. [Head(s) EXCEPT !.pre = pre] \in ActionItem
    BY <2>1 DEF ActionItem
  <2>3. <<[Head(s) EXCEPT !.pre = pre]>> \in Seq(ActionItem)
    BY <2>2
  <2> QED
    BY <1>3, <2>1, <2>3, ConcatProperties DEF Buffered
<1> QED
  BY <1>1, <1>2, <1>3

LEMMA DispatchesType ==
    ASSUME NEW m \in Message
    PROVE  Dispatches(m) \in Seq(CallItem)
<1>1. Recv(m) \in CallItem
  BY CallItemTypes
<1>2. m.block \in Block /\ Parent(m.block) \in Block
  BY MessageFields, ParentType
<1>3. /\ Cert(ViewOf(Parent(m.block))) \in CallItem
      /\ Cert(ViewOf(m.block)) \in CallItem
  BY <1>2, ViewOfType, CallItemTypes
<1> QED
  BY <1>1, <1>3 DEF Dispatches

LEMMA ProposalBatchType ==
    ASSUME TypeOK, NEW n \in Node, NEW b \in Block
    PROVE  ProposalBatch(n, b) \in Batch
<1>1. ViewOf(b) \in 0 .. MaxView /\ Parent(b) \in Block /\ Ancestor(b, 2) \in Block
  BY ViewOfType, ParentType, AncestorType
<1>2. 0 \in 0 .. MaxView
  BY ConstantsOK
<1> QED
  BY <1>1, <1>2, GenesisType DEF ProposalBatch, Batch

LEMMA ProposalActionsType ==
    ASSUME TypeOK, NEW n \in Node, NEW b \in Block
    PROVE  ProposalActions(n, b) \in Seq(ActionItem)
<1>1. Vote(n, b) \in Message
  BY MessageTypes DEF Message
<1>2. Send(Vote(n, b)) \in ActionItem
  BY <1>1, ActionItemTypes
<1>3. CommitBlock(Ancestor(b, 3)) \in ActionItem
  BY AncestorType, ActionItemTypes
<1> DEFINE first == IF safe_to_vote(n, b) THEN <<Send(Vote(n, b))>> ELSE <<>>
           second == IF three_chain_commit(n, b)
                     THEN <<CommitBlock(Ancestor(b, 3))>> ELSE <<>>
<1>4. first \in Seq(ActionItem) /\ second \in Seq(ActionItem)
  BY <1>2, <1>3
<1>5. first \o second \in Seq(ActionItem)
  BY <1>4, ConcatProperties
<1>6. Buffered(ProposalBatch(n, b), first \o second) \in Seq(ActionItem)
  BY <1>5, BufferedType, ProposalBatchType
<1>7. <<>> \in Seq(ActionItem)
  OBVIOUS
<1> QED
  BY <1>6, <1>7 DEF ProposalActions

LEMMA BuildType ==
    ASSUME NEW n \in Node, NEW v \in NextViews, NEW q \in Block
    PROVE  /\ build_proposal_at_view(n, v, q) \in Seq(ActionItem)
           /\ try_propose_as_leader(n, v, q) \in Seq(ActionItem)
<1>1. Build(v, q) \in ActionItem
  BY ActionItemTypes
<1> QED
  BY <1>1 DEF build_proposal_at_view, try_propose_as_leader

-----------------------------------------------------------------------------
(* Each action preserves TypeOK. *)
LEMMA OnProposalType ==
    ASSUME TypeOK, NEW n \in Node, NEW b \in Block,
           NEW P \in SUBSET Block, NEW I \in SUBSET Block,
           OnProposal(n, b, P, I)
    PROVE  /\ parked' \in [Node -> SUBSET Block]
           /\ inflight' \in [Node -> SUBSET Block]
           /\ pending' \in [Node -> SUBSET Block]
           /\ highQc' \in [Node -> Block]
           /\ locked' \in [Node -> Block]
           /\ lastVoted' \in [Node -> 0 .. MaxView]
           /\ proposedIn' \in [Node -> 0 .. MaxView]
<1>0. /\ parked \in [Node -> SUBSET Block]
      /\ inflight \in [Node -> SUBSET Block]
      /\ pending \in [Node -> SUBSET Block]
      /\ highQc \in [Node -> Block]
      /\ locked \in [Node -> Block]
      /\ lastVoted \in [Node -> 0 .. MaxView]
      /\ proposedIn \in [Node -> 0 .. MaxView]
  BY DEF TypeOK
<1>1. CASE Parent(b) \notin pending[n]
  <2>1. /\ parked' = [parked EXCEPT ![n] = P \cup {b}]
        /\ inflight' = [inflight EXCEPT ![n] = I \cup {Parent(b)}]
        /\ UNCHANGED <<core, pending>>
    BY <1>1 DEF OnProposal
  <2> QED
    BY <1>0, <2>1, ParentType DEF core
<1>2. CASE Parent(b) \in pending[n]
  <2> DEFINE batch == ProposalBatch(n, b)
  <2>1. batch \in Batch
    BY ProposalBatchType
  <2>2. /\ batch.voted \in 0 .. MaxView
        /\ batch.highQc \in Block
        /\ batch.locked \in Block
    BY <2>1 DEF Batch
  <2> HIDE DEF batch
  <2>3. /\ parked' = [parked EXCEPT ![n] = P]
        /\ inflight' = [inflight EXCEPT ![n] = I \ {b}]
        /\ lastVoted' = [lastVoted EXCEPT
               ![n] = IF batch.voted # 0 THEN batch.voted ELSE @]
        /\ highQc' = [highQc EXCEPT
               ![n] = IF batch.highQc # Genesis THEN batch.highQc ELSE @]
        /\ locked' = [locked EXCEPT
               ![n] = IF batch.locked # Genesis THEN batch.locked ELSE @]
        /\ pending' = [pending EXCEPT
               ![n] = {p \in @ \cup {b} : three_chain_commit(n, b) =>
                                             Height(p) > Height(Ancestor(b, 3))}]
        /\ UNCHANGED proposedIn
    BY <1>2 DEF OnProposal, batch
  <2>4. pending' \in [Node -> SUBSET Block]
    <3>1. {p \in pending[n] \cup {b} : three_chain_commit(n, b) =>
              Height(p) > Height(Ancestor(b, 3))} \in SUBSET Block
      BY <1>0
    <3> QED
      BY <1>0, <2>3, <3>1
  <2> QED
    BY <1>0, <2>2, <2>3, <2>4
<1> QED
  BY <1>1, <1>2

LEMMA HandleProposalType ==
    ASSUME TypeOK, NEW n \in Node, HandleProposal(n)
    PROVE  TypeOK'
<1> DEFINE b == Head(agenda[n]).msg.block
<1>1. Busy(n) /\ Head(agenda[n]).op = "recv"
  BY DEF HandleProposal, Receiving, Doing
<1>2. b \in Block
  BY <1>1, AgendaParts, ItemFields, MessageFields
<1>3. ProposalActions(n, b) \in Seq(Item)
  BY <1>2, ProposalActionsType, ItemSequences
<1>4. agenda' \in [Node -> Seq(Item)]
  BY <1>1, <1>3, ContinueType DEF HandleProposal
<1>5. parked[n] \in SUBSET Block /\ inflight[n] \in SUBSET Block
  BY DEF TypeOK
<1>6. OnProposal(n, b, parked[n], inflight[n])
  BY DEF HandleProposal
<1>7. Booting'
  <2>1. pmView[n] # 0
    BY <1>1, Booted
  <2> QED
    BY <2>1, StaysBooted DEF HandleProposal, Continue, TypeOK
<1> HIDE DEF b
<1>8. /\ parked' \in [Node -> SUBSET Block]
      /\ inflight' \in [Node -> SUBSET Block]
      /\ pending' \in [Node -> SUBSET Block]
      /\ highQc' \in [Node -> Block]
      /\ locked' \in [Node -> Block]
      /\ lastVoted' \in [Node -> 0 .. MaxView]
      /\ proposedIn' \in [Node -> 0 .. MaxView]
  BY <1>2, <1>5, <1>6, OnProposalType
<1> QED
  BY <1>4, <1>7, <1>8
  DEF HandleProposal, TypeOK, buckets, outbox, unparking, durable

LEMMA RejectProposalType ==
    ASSUME TypeOK, NEW n \in Node, RejectProposal(n)
    PROVE  TypeOK'
<1>1. Busy(n) /\ Head(agenda[n]).op = "recv"
  BY DEF RejectProposal, Receiving, Doing
<1>2. agenda' \in [Node -> Seq(Item)]
  BY <1>1, ReturnType DEF RejectProposal
<1>3. Booting'
  BY <1>1, Booted, StaysBooted DEF RejectProposal, Return, TypeOK
<1> QED
  BY <1>2, <1>3
  DEF RejectProposal, TypeOK, core, tree, buckets, outbox, unparking, durable

LEMMA HandleVoteType ==
    ASSUME TypeOK, NEW n \in Node, HandleVote(n)
    PROVE  TypeOK'
<1> DEFINE m == Head(agenda[n]).msg
           b == m.block
           q == IF should_update_high_qc(n, b) THEN b ELSE highQc[n]
           batch == [NoBatch EXCEPT !.highQc =
                        IF should_update_high_qc(n, b) THEN b ELSE @]
           work == Buffered(batch, try_propose_as_leader(n, ViewOf(b) + 1, q))
<1>1. Busy(n) /\ Head(agenda[n]).op = "recv" /\ m.kind = "vote"
  BY DEF HandleVote, Receiving, Doing
<1>2. m \in VoteMsg /\ b \in Block
  BY <1>1, AgendaParts, ItemFields, MessageFields
<1>3. q \in Block
  BY <1>2 DEF TypeOK
<1>4. ViewOf(b) + 1 \in NextViews
  BY <1>2, ViewOfType, ConstantsOK DEF NextViews
<1>5. batch \in Batch
  BY <1>2, NoBatchType DEF Batch, NoBatch
<1>6. work \in Seq(Item)
  BY <1>3, <1>4, <1>5, BuildType, BufferedType, ItemSequences
<1>7. <<>> \in Seq(Item)
  OBVIOUS
<1>8. /\ \/ Return(n)
         \/ Continue(n, work)
         \/ Continue(n, <<>>)
      /\ \/ UNCHANGED <<votes, highQc>>
         \/ /\ votes' = [votes EXCEPT ![n] = @ \cup {m}]
            /\ highQc' = [highQc EXCEPT ![n] = q] \/ highQc' = highQc
  BY DEF HandleVote, TypeOK
<1>9. agenda' \in [Node -> Seq(Item)]
  BY <1>1, <1>6, <1>7, <1>8, ReturnType, ContinueType
<1>10. Booting'
  <2>1. pmView[n] # 0
    BY <1>1, Booted
  <2>2. \A o \in Node \ {n} : agenda'[o] = agenda[o]
    BY <1>8 DEF Return, Continue, TypeOK
  <2> QED
    BY <2>1, <2>2, StaysBooted DEF HandleVote
<1>11. votes' \in [Node -> SUBSET VoteMsg] /\ highQc' \in [Node -> Block]
  <2>1. votes \in [Node -> SUBSET VoteMsg] /\ highQc \in [Node -> Block]
    BY DEF TypeOK
  <2> HIDE DEF m, q
  <2> QED
    BY <1>2, <1>3, <1>8, <2>1
<1> QED
  BY <1>9, <1>10, <1>11
  DEF HandleVote, TypeOK, tree, outbox, unparking, durable

LEMMA HandleNewViewType ==
    ASSUME TypeOK, NEW n \in Node, HandleNewView(n)
    PROVE  TypeOK'
<1> DEFINE q == Head(agenda[n]).msg.block
           work == Buffered([NoBatch EXCEPT !.highQc = q], <<>>)
<1>1. Busy(n) /\ Head(agenda[n]).op = "recv"
  BY DEF HandleNewView, Receiving, Doing
<1>2. q \in Block
  BY <1>1, AgendaParts, ItemFields, MessageFields
<1>3. [NoBatch EXCEPT !.highQc = q] \in Batch
  BY <1>2, NoBatchType DEF Batch, NoBatch
<1>4. work \in Seq(Item)
  <2>1. <<>> \in Seq(ActionItem)
    OBVIOUS
  <2> QED
    BY <1>3, <2>1, BufferedType, ItemSequences
<1>5. /\ Return(n) \/ Continue(n, work)
      /\ highQc' \in [Node -> Block]
      /\ inflight' \in [Node -> SUBSET Block]
  <2>1. highQc \in [Node -> Block] /\ inflight \in [Node -> SUBSET Block]
    BY DEF TypeOK
  <2>2. \/ /\ highQc' = [highQc EXCEPT ![n] = q]
           /\ inflight' = [inflight EXCEPT
                  ![n] = IF q \in pending[n] THEN @ ELSE @ \cup {q}]
           /\ Continue(n, work)
        \/ Return(n) /\ UNCHANGED <<highQc, inflight>>
    BY DEF HandleNewView
  <2> HIDE DEF q
  <2> QED
    BY <1>2, <2>1, <2>2
<1>6. agenda' \in [Node -> Seq(Item)]
  BY <1>1, <1>4, <1>5, ReturnType, ContinueType
<1>7. Booting'
  <2>1. pmView[n] # 0
    BY <1>1, Booted
  <2>2. \A o \in Node \ {n} : agenda'[o] = agenda[o]
    BY <1>5 DEF Return, Continue, TypeOK
  <2> QED
    BY <2>1, <2>2, StaysBooted DEF HandleNewView
<1> QED
  BY <1>5, <1>6, <1>7
  DEF HandleNewView, TypeOK, buckets, outbox, unparking, durable

LEMMA BecomeLeaderType ==
    ASSUME TypeOK, NEW n \in Node, BecomeLeader(n)
    PROVE  TypeOK'
<1> DEFINE work == build_proposal_at_view(n, Head(agenda[n]).view, highQc[n])
<1>1. Busy(n) /\ Head(agenda[n]).op = "lead" /\ Continue(n, work)
  BY DEF BecomeLeader, Doing
<1>2. Head(agenda[n]).view \in NextViews /\ highQc[n] \in Block
  BY <1>1, AgendaParts, ItemFields DEF TypeOK
<1>3. work \in Seq(Item)
  BY <1>2, BuildType, ItemSequences
<1>4. agenda' \in [Node -> Seq(Item)]
  BY <1>1, <1>3, ContinueType
<1>5. Booting'
  BY <1>1, Booted, StaysBooted DEF BecomeLeader, Continue, TypeOK
<1> QED
  BY <1>4, <1>5
  DEF BecomeLeader, TypeOK, core, tree, buckets, outbox, unparking, durable

LEMMA EnterType ==
    ASSUME TypeOK, NEW n \in Node, Busy(n), NEW v \in NextViews, Enter(n, v)
    PROVE  /\ pmView' \in [Node -> 0 .. MaxView + 1]
           /\ agenda' \in [Node -> Seq(Item)]
           /\ Booting'
<1> DEFINE work == <<Advance(v)>> \o
                      (IF Accumulator[v] = n THEN <<Lead(v)>> ELSE <<>>)
<1>1. v \in 0 .. MaxView + 1 /\ v # 0
  BY ConstantsOK DEF NextViews
<1>2. pmView' = [pmView EXCEPT ![n] = v] /\ Continue(n, work)
  BY DEF Enter
<1>3. Advance(v) \in CallItem /\ Lead(v) \in CallItem
  BY CallItemTypes
<1>4. work \in Seq(CallItem)
  BY <1>3
<1>5. agenda' \in [Node -> Seq(Item)]
  BY <1>2, <1>4, ItemSequences, ContinueType
<1>6. pmView \in [Node -> 0 .. MaxView + 1] /\ agenda \in [Node -> Seq(Item)]
  BY DEF TypeOK
<1>7. Booting'
  <2> SUFFICES ASSUME NEW o \in Node, pmView'[o] = 0
               PROVE  \E u \in 0 .. MaxView : agenda'[o] = <<Cert(u)>>
    BY DEF Booting
  <2>1. o # n /\ pmView[o] = 0
    BY <1>1, <1>2, <1>6
  <2>2. agenda'[o] = agenda[o]
    BY <1>2, <1>6, <2>1 DEF Continue
  <2> QED
    BY <2>1, <2>2 DEF TypeOK, Booting
<1> QED
  BY <1>1, <1>2, <1>5, <1>6, <1>7

LEMMA OnCertType ==
    ASSUME TypeOK, NEW n \in Node, OnCert(n)
    PROVE  TypeOK'
<1> DEFINE v == Head(agenda[n]).view
<1>1. Busy(n) /\ Head(agenda[n]).op = "cert"
  BY DEF OnCert, Doing
<1>2. v \in 0 .. MaxView /\ v + 1 \in NextViews
  BY <1>1, AgendaParts, ItemFields, ConstantsOK DEF NextViews
<1>3. \/ v < pmView[n] /\ Return(n) /\ pmView' = pmView
      \/ Enter(n, v + 1)
  BY DEF OnCert
<1>4. /\ pmView' \in [Node -> 0 .. MaxView + 1]
      /\ agenda' \in [Node -> Seq(Item)]
      /\ Booting'
  <2>1. CASE v < pmView[n] /\ Return(n) /\ pmView' = pmView
    <3>1. pmView[n] # 0 /\ pmView \in [Node -> 0 .. MaxView + 1]
      BY <1>2, <2>1 DEF TypeOK
    <3>2. Booting'
      BY <2>1, <3>1, StaysBooted DEF Return, TypeOK
    <3> QED
      BY <1>1, <2>1, <3>1, <3>2, ReturnType
  <2>2. CASE Enter(n, v + 1)
    BY <1>1, <1>2, <2>2, EnterType
  <2> QED
    BY <1>3, <2>1, <2>2
<1> QED
  BY <1>4 DEF OnCert, TypeOK, core, tree, buckets, outbox, unparking, durable

LEMMA OnRoundSyncType ==
    ASSUME TypeOK, NEW n \in Node, OnRoundSync(n)
    PROVE  TypeOK'
<1> DEFINE v == Head(agenda[n]).view
<1>1. Busy(n) /\ Head(agenda[n]).op = "sync"
  BY DEF OnRoundSync, Doing
<1>2. v \in NextViews
  BY <1>1, AgendaParts, ItemFields, ConstantsOK DEF NextViews, View
<1>3. \/ Return(n) /\ pmView' = pmView
      \/ Enter(n, v)
  BY DEF OnRoundSync
<1>4. /\ pmView' \in [Node -> 0 .. MaxView + 1]
      /\ agenda' \in [Node -> Seq(Item)]
      /\ Booting'
  <2>1. CASE Return(n) /\ pmView' = pmView
    <3>1. Booting'
      BY <1>1, <2>1, Booted, StaysBooted DEF Return, TypeOK
    <3> QED
      BY <1>1, <2>1, <3>1, ReturnType DEF TypeOK
  <2>2. CASE Enter(n, v)
    BY <1>1, <1>2, <2>2, EnterType
  <2> QED
    BY <1>3, <2>1, <2>2
<1> QED
  BY <1>4 DEF OnRoundSync, TypeOK, core, tree, buckets, outbox, unparking, durable

LEMMA OnPacemakerAdvanceType ==
    ASSUME TypeOK, NEW n \in Node, OnPacemakerAdvance(n)
    PROVE  TypeOK'
<1> DEFINE v == Head(agenda[n]).view
<1>1. Busy(n) /\ Head(agenda[n]).op = "advance" /\ Continue(n, <<Unpark(v)>>)
  BY DEF OnPacemakerAdvance, Doing
<1>2. <<Unpark(v)>> \in Seq(Item)
  <2>1. v \in NextViews
    BY <1>1, AgendaParts, ItemFields
  <2>2. Unpark(v) \in CallItem
    BY <2>1, CallItemTypes
  <2> QED
    BY <2>2, ItemSequences
<1>3. agenda' \in [Node -> Seq(Item)]
  BY <1>1, <1>2, ContinueType
<1>4. Booting'
  BY <1>1, Booted, StaysBooted DEF OnPacemakerAdvance, Continue, TypeOK
<1>5. /\ votes' \in [Node -> SUBSET VoteMsg]
      /\ acts' \in [Node -> Seq(ActionItem)]
      /\ ready' \in [Node -> SUBSET Block]
  <2>1. /\ votes \in [Node -> SUBSET VoteMsg]
        /\ acts \in [Node -> Seq(ActionItem)]
        /\ ready \in [Node -> SUBSET Block]
        /\ parked \in [Node -> SUBSET Block]
    BY DEF TypeOK
  <2>2. /\ votes' = [votes EXCEPT ![n] = {m \in @ : ViewOf(m.block) >= v}]
        /\ acts' = [acts EXCEPT ![n] = <<>>]
        /\ ready' = [ready EXCEPT ![n] = {b \in parked[n] : Parent(b) \in pending[n]}]
    BY DEF OnPacemakerAdvance
  <2>3. {m \in votes[n] : ViewOf(m.block) >= v} \in SUBSET VoteMsg
    BY <2>1
  <2>4. {b \in parked[n] : Parent(b) \in pending[n]} \in SUBSET Block
    BY <2>1
  <2>5. <<>> \in Seq(ActionItem)
    OBVIOUS
  <2> HIDE DEF v
  <2> QED
    BY <2>1, <2>2, <2>3, <2>4, <2>5
<1> QED
  BY <1>3, <1>4, <1>5
  DEF OnPacemakerAdvance, TypeOK, core, tree, outbox, durable

LEMMA UnparkOneType ==
    ASSUME TypeOK, NEW n \in Node, NEW b \in ready[n], UnparkOne(n, b)
    PROVE  TypeOK'
<1>1. b \in Block /\ ready \in [Node -> SUBSET Block] /\ acts \in [Node -> Seq(ActionItem)]
  BY DEF TypeOK
<1>2. parked[n] \ {b} \in SUBSET Block /\ inflight[n] \ {Parent(b)} \in SUBSET Block
  BY DEF TypeOK
<1>3. /\ parked' \in [Node -> SUBSET Block]
      /\ inflight' \in [Node -> SUBSET Block]
      /\ pending' \in [Node -> SUBSET Block]
      /\ highQc' \in [Node -> Block]
      /\ locked' \in [Node -> Block]
      /\ lastVoted' \in [Node -> 0 .. MaxView]
      /\ proposedIn' \in [Node -> 0 .. MaxView]
  BY <1>1, <1>2, OnProposalType DEF UnparkOne
<1>4. ready' \in [Node -> SUBSET Block]
  BY <1>1 DEF UnparkOne
<1>5. acts' \in [Node -> Seq(ActionItem)]
  <2>1. acts[n] \o ProposalActions(n, b) \in Seq(ActionItem)
    BY <1>1, ProposalActionsType, ConcatProperties
  <2> QED
    BY <1>1, <2>1 DEF UnparkOne
<1>6. Booting'
  BY DEF UnparkOne, TypeOK, Booting
<1> QED
  BY <1>3, <1>4, <1>5, <1>6
  DEF UnparkOne, TypeOK, buckets, outbox, durable

LEMMA DropParkedType ==
    ASSUME TypeOK, NEW n \in Node, NEW D, DropParked(n, D)
    PROVE  /\ parked' \in [Node -> SUBSET Block]
           /\ inflight' \in [Node -> SUBSET Block]
<1>1. parked \in [Node -> SUBSET Block] /\ inflight \in [Node -> SUBSET Block]
  BY DEF TypeOK
<1>2. {b \in parked[n] : Parent(b) \notin D} \in SUBSET Block
  BY <1>1
<1> QED
  BY <1>1, <1>2 DEF DropParked

LEMMA FinishAdvanceType ==
    ASSUME TypeOK, NEW n \in Node, NEW D, FinishAdvance(n, D)
    PROVE  TypeOK'
<1> DEFINE v == Head(agenda[n]).view
           news == <<Send(NewView(Node, highQc[n]))>>
           build == try_propose_as_leader(n, v, highQc[n])
<1>1. /\ Busy(n) /\ Head(agenda[n]).op = "unpark"
      /\ Continue(n, acts[n] \o news \o build)
      /\ DropParked(n, D)
      /\ acts' = [acts EXCEPT ![n] = <<>>]
  BY DEF FinishAdvance, Doing
<1>2. /\ v \in NextViews /\ highQc[n] \in Block
      /\ acts \in [Node -> Seq(ActionItem)]
  BY <1>1, AgendaParts, ItemFields DEF TypeOK
<1>3. news \in Seq(ActionItem)
  <2>1. NewView(Node, highQc[n]) \in Message
    BY <1>2, MessageTypes DEF Message
  <2>2. Send(NewView(Node, highQc[n])) \in ActionItem
    BY <2>1, ActionItemTypes
  <2> QED
    BY <2>2
<1>4. build \in Seq(ActionItem)
  BY <1>2, BuildType
<1> HIDE DEF news, build
<1>5. acts[n] \o news \o build \in Seq(Item)
  BY <1>2, <1>3, <1>4, ConcatProperties, ItemSequences
<1>6. agenda' \in [Node -> Seq(Item)]
  BY <1>1, <1>5, ContinueType
<1>7. Booting'
  BY <1>1, Booted, StaysBooted DEF FinishAdvance, Continue, TypeOK
<1>8. /\ parked' \in [Node -> SUBSET Block]
      /\ inflight' \in [Node -> SUBSET Block]
  BY <1>1, DropParkedType
<1>9. acts' \in [Node -> Seq(ActionItem)]
  BY <1>1, <1>2
<1> QED
  BY <1>6, <1>7, <1>8, <1>9
  DEF FinishAdvance, TypeOK, core, buckets, outbox, durable

(* A bucket that has a vote has a best certificate. *)
LEMMA BestHighQcType ==
    ASSUME NEW T \in SUBSET TimeoutMsg, NEW v \in View, NEW m \in T, m.view = v
    PROVE  /\ BestHighQc(T, v) \in Block
           /\ \E x \in T : BestHighQc(T, v) = x.block
<1> DEFINE Room(x) == MaxView - ViewOf(x.block)
           R == {Room(x) : x \in {y \in T : y.view = v}}
<1>1. \A x \in T : x.block \in Block /\ ViewOf(x.block) \in 0 .. MaxView
  BY ViewOfType DEF TimeoutMsg
<1>2. R \subseteq Nat /\ R # {}
  BY <1>1, ConstantsOK
<1>3. PICK r \in R : \A s \in R : ~(<<s, r>> \in OpToRel(<, Nat))
  BY <1>2, NatLessThanWellFounded, WFMin
<1>4. \A s \in R : r <= s
  <2> HIDE DEF R
  <2> SUFFICES ASSUME NEW s \in R, ~(r <= s)
               PROVE  FALSE
    OBVIOUS
  <2>1. s \in Nat /\ r \in Nat /\ s < r
    BY <1>2
  <2>2. <<s, r>> \in Nat \X Nat
    BY <2>1
  <2>3. <<s, r>> \in OpToRel(<, Nat)
    BY <2>1, <2>2 DEF OpToRel
  <2> QED
    BY <1>3, <2>3
<1>5. PICK x \in T : x.view = v /\ r = Room(x)
  OBVIOUS
<1>6. \A y \in T : y.view = v => ViewOf(y.block) <= ViewOf(x.block)
  <2> SUFFICES ASSUME NEW y \in T, y.view = v
               PROVE  ViewOf(y.block) <= ViewOf(x.block)
    OBVIOUS
  <2>1. Room(x) <= Room(y)
    BY <1>4, <1>5
  <2> QED
    BY <1>1, <2>1, ConstantsOK
<1>7. \E z \in T : /\ z.view = v
                   /\ \A y \in T : y.view = v => ViewOf(y.block) <= ViewOf(z.block)
  BY <1>5, <1>6
<1> QED
  BY <1>1, <1>7 DEF BestHighQc

LEMMA HandleTimeoutType ==
    ASSUME TypeOK, NEW n \in Node, HandleTimeout(n)
    PROVE  TypeOK'
<1> DEFINE m == Head(agenda[n]).msg
           counted == timeouts[n] \cup {m}
           sync == IF /\ WeightAt(timeouts[n], m.view) < HonestyWeightThreshold
                      /\ WeightAt(counted, m.view) >= HonestyWeightThreshold
                   THEN <<RoundSync(m.view)>> ELSE <<>>
           formed == IF WeightAt(counted, m.view) >= QuorumWeightThreshold
                     THEN <<Formed(m.view, BestHighQc(counted, m.view))>>
                     ELSE <<>>
<1>1. Busy(n) /\ Head(agenda[n]).op = "recv" /\ m.kind = "timeout"
  BY DEF HandleTimeout, Receiving, Doing
<1>2. m \in TimeoutMsg /\ m.from \in Node /\ m.view \in View
  BY <1>1, AgendaParts, ItemFields, MessageFields
<1>3. counted \in SUBSET TimeoutMsg /\ timeouts \in [Node -> SUBSET TimeoutMsg]
  BY <1>2 DEF TypeOK
<1>4. BestHighQc(counted, m.view) \in Block
  BY <1>2, <1>3, BestHighQcType
<1>5. sync \in Seq(CallItem) /\ formed \in Seq(CallItem)
  <2>1. RoundSync(m.view) \in CallItem
    BY <1>2, CallItemTypes
  <2>2. Formed(m.view, BestHighQc(counted, m.view)) \in CallItem
    BY <1>2, <1>4, CallItemTypes
  <2> QED
    BY <2>1, <2>2
<1>6. NewView({m.from}, highQc[n]) \in Message
  BY <1>2, MessageTypes DEF TypeOK, Message
<1>7. \/ /\ msgs' = msgs \cup {NewView({m.from}, highQc[n])}
         /\ Return(n)
         /\ UNCHANGED timeouts
      \/ Return(n) /\ UNCHANGED <<timeouts, msgs>>
      \/ /\ timeouts' = [timeouts EXCEPT ![n] = counted]
         /\ Continue(n, sync \o formed)
         /\ UNCHANGED msgs
  <2>1. CASE m.view < pmView[n]
    BY <2>1 DEF HandleTimeout
  <2>2. CASE m.view >= pmView[n] /\ (\E x \in timeouts[n] :
                                        x.view = m.view /\ x.from = m.from)
    BY <2>2 DEF HandleTimeout
  <2>3. CASE /\ ~(m.view < pmView[n])
             /\ ~(m.view >= pmView[n] /\ (\E x \in timeouts[n] :
                                        x.view = m.view /\ x.from = m.from))
    BY <2>3 DEF HandleTimeout
  <2> QED
    BY <2>1, <2>2, <2>3
<1> HIDE DEF m, counted, sync, formed
<1>8. sync \o formed \in Seq(Item)
  BY <1>5, ConcatProperties, ItemSequences
<1>9. agenda' \in [Node -> Seq(Item)]
  BY <1>1, <1>7, <1>8, ReturnType, ContinueType
<1>10. Booting'
  <2>1. \A o \in Node \ {n} : agenda'[o] = agenda[o]
    BY <1>7 DEF Return, Continue, TypeOK
  <2> QED
    BY <1>1, <2>1, Booted, StaysBooted DEF HandleTimeout
<1>11. timeouts' \in [Node -> SUBSET TimeoutMsg]
  BY <1>3, <1>7
<1>12. msgs' \subseteq Message
  BY <1>6, <1>7 DEF TypeOK
<1> QED
  BY <1>9, <1>10, <1>11, <1>12
  DEF HandleTimeout, TypeOK, core, tree, outbox, unparking, durable

LEMMA TimeoutCertFormedType ==
    ASSUME TypeOK, NEW n \in Node, TimeoutCertFormed(n)
    PROVE  TypeOK'
<1> DEFINE v == Head(agenda[n]).view
           q == Head(agenda[n]).block
<1>1. /\ Busy(n) /\ Head(agenda[n]).op = "formed"
      /\ Continue(n, <<Recv(NewView({n}, q)), Cert(v)>>)
      /\ timeouts' = [timeouts EXCEPT ![n] = {m \in @ : m.view > v}]
  BY DEF TimeoutCertFormed, Doing
<1>2. v \in View /\ q \in Block
  BY <1>1, AgendaParts, ItemFields
<1>3. Recv(NewView({n}, q)) \in CallItem /\ Cert(v) \in CallItem
  <2>1. NewView({n}, q) \in Message
    BY <1>2, MessageTypes DEF Message
  <2>2. v \in 0 .. MaxView
    BY <1>2, ConstantsOK DEF View
  <2> QED
    BY <2>1, <2>2, CallItemTypes
<1> HIDE DEF v, q
<1>4. <<Recv(NewView({n}, q)), Cert(v)>> \in Seq(Item)
  BY <1>3, ItemSequences
<1>5. agenda' \in [Node -> Seq(Item)]
  BY <1>1, <1>4, ContinueType
<1>6. Booting'
  BY <1>1, Booted, StaysBooted DEF TimeoutCertFormed, Continue, TypeOK
<1>7. timeouts' \in [Node -> SUBSET TimeoutMsg]
  <2>1. timeouts \in [Node -> SUBSET TimeoutMsg]
    BY DEF TypeOK
  <2>2. {m \in timeouts[n] : m.view > v} \in SUBSET TimeoutMsg
    BY <2>1
  <2> QED
    BY <1>1, <2>1, <2>2
<1> QED
  BY <1>5, <1>6, <1>7
  DEF TimeoutCertFormed, TypeOK, core, tree, outbox, unparking, durable

(* The head of the agenda with its batch written. *)
LEMMA WrittenType ==
    ASSUME NEW it \in ActionItem
    PROVE  [it EXCEPT !.pre = NoBatch] \in ActionItem
  BY NoBatchType DEF ActionItem

LEMMA DiskType ==
    ASSUME TypeOK, NEW n \in Node
    PROVE  /\ disk \in [Node -> DiskRecord]
           /\ disk[n] \in DiskRecord
           /\ disk[n].voted \in 0 .. MaxView
           /\ disk[n].highQc \in Block
           /\ disk[n].locked \in Block
           /\ disk[n].proposed \in 0 .. MaxView
           /\ disk[n].blocks \in SUBSET Block
           /\ disk[n].timeout \in SUBSET TimeoutMsg
  BY DEF TypeOK, DiskRecord

LEMMA PersistedType ==
    ASSUME TypeOK, NEW n \in Node, NEW pre \in Batch
    PROVE  Persisted(n, pre) \in DiskRecord
<1>1. /\ pre.voted \in 0 .. MaxView /\ pre.proposed \in 0 .. MaxView
      /\ pre.highQc \in Block /\ pre.locked \in Block
  BY DEF Batch
<1> DEFINE voted == IF pre.voted # 0 THEN pre.voted ELSE disk[n].voted
           high == IF pre.highQc # Genesis THEN pre.highQc ELSE disk[n].highQc
           lock == IF pre.locked # Genesis THEN pre.locked ELSE disk[n].locked
           proposed == IF pre.proposed # 0 THEN pre.proposed ELSE disk[n].proposed
           blocks == disk[n].blocks \cup
                        (({pre.highQc, pre.locked} \ {Genesis}) \cap pending[n])
<1>2. /\ voted \in 0 .. MaxView /\ proposed \in 0 .. MaxView
      /\ high \in Block /\ lock \in Block
      /\ blocks \in SUBSET Block
  BY <1>1, DiskType
<1>3. Persisted(n, pre) =
         [disk[n] EXCEPT !.voted = voted, !.highQc = high, !.locked = lock,
                         !.proposed = proposed, !.blocks = blocks]
  BY DiskType DEF Persisted, DiskRecord
<1> HIDE DEF voted, high, lock, proposed, blocks
<1> QED
  BY <1>2, <1>3, DiskType DEF DiskRecord

LEMMA PersistUpdatesType ==
    ASSUME TypeOK, NEW n \in Node, PersistUpdates(n)
    PROVE  TypeOK'
<1> DEFINE it == Head(agenda[n])
<1>1. Busy(n) /\ it.op \in {"send", "build", "commit", "flush"}
  BY DEF PersistUpdates, InAction, Doing
<1>2. it \in ActionItem /\ it.pre \in Batch /\ Tail(agenda[n]) \in Seq(Item)
  BY <1>1, AgendaParts, ItemFields DEF Rest
<1>3. agenda' \in [Node -> Seq(Item)]
  <2>1. <<[it EXCEPT !.pre = NoBatch]>> \in Seq(Item)
    BY <1>2, WrittenType, ItemSequences
  <2>2. <<[it EXCEPT !.pre = NoBatch]>> \o Tail(agenda[n]) \in Seq(Item)
    BY <1>2, <2>1, ConcatProperties
  <2>3. agenda \in [Node -> Seq(Item)]
    BY DEF TypeOK
  <2>4. agenda' = [agenda EXCEPT ![n] =
            IF it.op = "flush" THEN Tail(agenda[n])
            ELSE <<[it EXCEPT !.pre = NoBatch]>> \o Tail(agenda[n])]
    BY <2>3 DEF PersistUpdates
  <2> QED
    BY <1>2, <2>2, <2>3, <2>4
<1>4. disk' \in [Node -> DiskRecord]
  <2>1. disk' = [disk EXCEPT ![n] = Persisted(n, it.pre)]
    BY DEF PersistUpdates
  <2> HIDE DEF it
  <2> QED
    BY <1>2, <2>1, PersistedType, DiskType
<1>5. Booting'
  BY <1>1, Booted, StaysBooted DEF PersistUpdates, TypeOK
<1> QED
  BY <1>3, <1>4, <1>5
  DEF PersistUpdates, TypeOK, core, tree, buckets, outbox, unparking

LEMMA BroadcastMsgType ==
    ASSUME TypeOK, NEW n \in Node, NEW m \in Message, NEW rest \in Seq(Item),
           BroadcastMsg(n, m, rest)
    PROVE  /\ msgs' \subseteq Message
           /\ paced' \in [Node -> BOOLEAN]
           /\ loopback' \in [Node -> Seq(CallItem)]
           /\ agenda' \in [Node -> Seq(Item)]
<1>1. msgs' \subseteq Message
  BY DEF BroadcastMsg, TypeOK
<1>2. paced' \in [Node -> BOOLEAN]
  BY DEF BroadcastMsg, TypeOK
<1>3. loopback' \in [Node -> Seq(CallItem)]
  <2>1. Dispatches(m) \o loopback[n] \in Seq(CallItem)
    BY DispatchesType, ConcatProperties DEF TypeOK
  <2> QED
    BY <2>1 DEF BroadcastMsg, TypeOK
<1>4. agenda' \in [Node -> Seq(Item)]
  <2>1. <<Drain>> \in Seq(Item) /\ <<>> \in Seq(Item)
    BY CallItemTypes, ItemSequences
  <2>2. (IF Draining(n) THEN <<>> ELSE <<Drain>>) \o rest \in Seq(Item)
    BY <2>1, ConcatProperties
  <2> QED
    BY <2>2 DEF BroadcastMsg, TypeOK
<1> QED
  BY <1>1, <1>2, <1>3, <1>4

LEMMA BroadcastType ==
    ASSUME TypeOK, NEW n \in Node, Broadcast(n)
    PROVE  TypeOK'
<1>1. /\ Busy(n) /\ Head(agenda[n]).op = "send"
      /\ BroadcastMsg(n, Head(agenda[n]).msg, Rest(n))
  BY DEF Broadcast, Flushed, Doing
<1>2. Head(agenda[n]).msg \in Message /\ Rest(n) \in Seq(Item)
  BY <1>1, AgendaParts, ItemFields
<1>3. /\ msgs' \subseteq Message
      /\ paced' \in [Node -> BOOLEAN]
      /\ loopback' \in [Node -> Seq(CallItem)]
      /\ agenda' \in [Node -> Seq(Item)]
  BY <1>1, <1>2, BroadcastMsgType
<1>4. Booting'
  <2>1. \A o \in Node \ {n} : agenda'[o] = agenda[o]
    BY <1>1 DEF BroadcastMsg, TypeOK
  <2> QED
    BY <1>1, <2>1, Booted, StaysBooted DEF Broadcast
<1> QED
  BY <1>3, <1>4
  DEF Broadcast, TypeOK, core, tree, buckets, unparking, durable

LEMMA SuppressVoteType ==
    ASSUME TypeOK, NEW n \in Node, SuppressVote(n)
    PROVE  TypeOK'
<1>1. Busy(n) /\ Head(agenda[n]).op = "send"
  BY DEF SuppressVote, Flushed, Doing
<1>2. agenda' \in [Node -> Seq(Item)]
  BY <1>1, ReturnType DEF SuppressVote
<1>3. Booting'
  BY <1>1, Booted, StaysBooted DEF SuppressVote, Return, TypeOK
<1> QED
  BY <1>2, <1>3
  DEF SuppressVote, TypeOK, core, tree, buckets, outbox, unparking, durable

LEMMA StashProposalType ==
    ASSUME TypeOK, NEW n \in Node, StashProposal(n)
    PROVE  TypeOK'
<1>1. /\ Busy(n) /\ Head(agenda[n]).op = "send"
      /\ Head(agenda[n]).msg.kind = "proposal"
  BY DEF StashProposal, Flushed, Doing
<1>2. agenda' \in [Node -> Seq(Item)]
  BY <1>1, ReturnType DEF StashProposal
<1>3. Booting'
  BY <1>1, Booted, StaysBooted DEF StashProposal, Return, TypeOK
<1>4. Head(agenda[n]).msg \in ProposalMsg
  BY <1>1, AgendaParts, ItemFields, MessageFields
<1>5. stash' \in [Node -> SUBSET ProposalMsg]
  BY <1>4 DEF StashProposal, TypeOK
<1> QED
  BY <1>2, <1>3, <1>5
  DEF StashProposal, TypeOK, core, tree, buckets, unparking, durable

LEMMA DrainLoopbackType ==
    ASSUME TypeOK, NEW n \in Node, DrainLoopback(n)
    PROVE  TypeOK'
<1>1. Busy(n) /\ Head(agenda[n]).op = "drain"
  BY DEF DrainLoopback, Doing
<1>2. loopback \in [Node -> Seq(CallItem)] /\ agenda \in [Node -> Seq(Item)]
  BY DEF TypeOK
<1>3. /\ agenda' \in [Node -> Seq(Item)]
      /\ loopback' \in [Node -> Seq(CallItem)]
      /\ \A o \in Node \ {n} : agenda'[o] = agenda[o]
  <2>1. CASE loopback[n] = <<>>
    <3>1. Return(n) /\ UNCHANGED loopback
      BY <2>1 DEF DrainLoopback
    <3> QED
      BY <1>1, <1>2, <3>1, ReturnType DEF Return
  <2>2. CASE loopback[n] # <<>>
    <3>1. /\ agenda' = [agenda EXCEPT ![n] = <<Head(loopback[n])>> \o @]
          /\ loopback' = [loopback EXCEPT ![n] = Tail(@)]
      BY <2>2 DEF DrainLoopback
    <3>2. Head(loopback[n]) \in CallItem /\ Tail(loopback[n]) \in Seq(CallItem)
      BY <1>2, <2>2, HeadTailProperties
    <3>3. <<Head(loopback[n])>> \in Seq(Item)
      BY <3>2, ItemSequences
    <3>4. <<Head(loopback[n])>> \o agenda[n] \in Seq(Item)
      BY <1>2, <3>3, ConcatProperties
    <3> QED
      BY <1>2, <3>1, <3>2, <3>4
  <2> QED
    BY <2>1, <2>2
<1>4. Booting'
  BY <1>1, <1>3, Booted, StaysBooted DEF DrainLoopback
<1> QED
  BY <1>3, <1>4
  DEF DrainLoopback, TypeOK, core, tree, buckets, unparking, durable

LEMMA BuildProposalType ==
    ASSUME TypeOK, NEW n \in Node, NEW p \in Payload, BuildProposal(n, p)
    PROVE  TypeOK'
<1> DEFINE v == Head(agenda[n]).view
           b == Append(Head(agenda[n]).block,
                       [view |-> v, proposer |-> n, payload |-> p])
           work == Buffered([NoBatch EXCEPT !.proposed = v], <<Send(Proposal(b))>>)
<1>1. /\ Busy(n) /\ Head(agenda[n]).op = "build"
      /\ v <= MaxView
      /\ Continue(n, work)
      /\ proposedIn' = [proposedIn EXCEPT ![n] = v]
  BY DEF BuildProposal, Flushed, Doing
<1>2. v \in NextViews /\ Head(agenda[n]).block \in Block
  BY <1>1, AgendaParts, ItemFields
<1>3. v \in View /\ v \in 0 .. MaxView
  BY <1>1, <1>2, ConstantsOK DEF NextViews, View
<1>4. [view |-> v, proposer |-> n, payload |-> p] \in Header
  BY <1>3 DEF Header
<1>5. b \in Block
  BY <1>2, <1>4, AppendProperties DEF Block
<1>6. Send(Proposal(b)) \in ActionItem
  <2>1. Proposal(b) \in Message
    BY <1>5, MessageTypes DEF Message
  <2> QED
    BY <2>1, ActionItemTypes
<1>7. [NoBatch EXCEPT !.proposed = v] \in Batch
  BY <1>3, NoBatchType DEF Batch, NoBatch
<1>8. work \in Seq(Item)
  <2>1. <<Send(Proposal(b))>> \in Seq(ActionItem)
    BY <1>6
  <2> QED
    BY <1>7, <2>1, BufferedType, ItemSequences
<1> HIDE DEF v, work
<1>9. agenda' \in [Node -> Seq(Item)]
  BY <1>1, <1>8, ContinueType
<1>10. Booting'
  BY <1>1, Booted, StaysBooted DEF BuildProposal, Continue, TypeOK
<1>11. proposedIn' \in [Node -> 0 .. MaxView]
  BY <1>1, <1>3 DEF TypeOK
<1> QED
  BY <1>9, <1>10, <1>11
  DEF BuildProposal, TypeOK, tree, buckets, outbox, unparking, durable

LEMMA BuildFailsType ==
    ASSUME TypeOK, NEW n \in Node, BuildFails(n)
    PROVE  TypeOK'
<1>1. Busy(n) /\ Head(agenda[n]).op = "build"
  BY DEF BuildFails, Flushed, Doing
<1>2. agenda' \in [Node -> Seq(Item)]
  BY <1>1, ReturnType DEF BuildFails
<1>3. Booting'
  BY <1>1, Booted, StaysBooted DEF BuildFails, Return, TypeOK
<1> QED
  BY <1>2, <1>3
  DEF BuildFails, TypeOK, core, tree, buckets, outbox, unparking, durable

LEMMA CommitToAppType ==
    ASSUME TypeOK, NEW n \in Node, CommitToApp(n)
    PROVE  TypeOK'
<1> DEFINE b == Head(agenda[n]).block
<1>1. /\ Busy(n) /\ Head(agenda[n]).op = "commit"
      /\ Continue(n, <<Apply(b)>>)
      /\ executed' = [executed EXCEPT ![n] = Append(@, b)]
  BY DEF CommitToApp, Flushed, Doing
<1>2. b \in Block
  BY <1>1, AgendaParts, ItemFields
<1>3. <<Apply(b)>> \in Seq(Item)
  BY <1>2, CallItemTypes, ItemSequences
<1> HIDE DEF b
<1>4. agenda' \in [Node -> Seq(Item)]
  BY <1>1, <1>3, ContinueType
<1>5. Booting'
  BY <1>1, Booted, StaysBooted DEF CommitToApp, Continue, TypeOK
<1>6. executed' \in [Node -> Seq(Block)]
  <2>1. executed \in [Node -> Seq(Block)]
    BY DEF TypeOK
  <2>2. Append(executed[n], b) \in Seq(Block)
    BY <1>2, <2>1, AppendProperties
  <2> QED
    BY <1>1, <2>1, <2>2
<1> QED
  BY <1>4, <1>5, <1>6
  DEF CommitToApp, TypeOK, core, tree, buckets, outbox, unparking

LEMMA CommitFailsType ==
    ASSUME TypeOK, NEW n \in Node, CommitFails(n)
    PROVE  TypeOK'
<1> DEFINE b == Head(agenda[n]).block
<1>1. /\ Busy(n) /\ Head(agenda[n]).op = "commit"
      /\ Continue(n, <<Apply(b)>>)
      /\ failed' = [failed EXCEPT ![n] = @ \cup {b}]
  BY DEF CommitFails, Flushed, Doing
<1>2. b \in Block
  BY <1>1, AgendaParts, ItemFields
<1>3. <<Apply(b)>> \in Seq(Item)
  BY <1>2, CallItemTypes, ItemSequences
<1> HIDE DEF b
<1>4. agenda' \in [Node -> Seq(Item)]
  BY <1>1, <1>3, ContinueType
<1>5. Booting'
  BY <1>1, Booted, StaysBooted DEF CommitFails, Continue, TypeOK
<1>6. failed' \in [Node -> SUBSET Block]
  BY <1>1, <1>2 DEF TypeOK
<1> QED
  BY <1>4, <1>5, <1>6
  DEF CommitFails, TypeOK, core, tree, buckets, outbox, unparking

LEMMA ApplyCommitType ==
    ASSUME TypeOK, NEW n \in Node, ApplyCommit(n)
    PROVE  TypeOK'
<1> DEFINE b == Head(agenda[n]).block
<1>1. Busy(n) /\ Head(agenda[n]).op = "apply"
  BY DEF ApplyCommit, Doing
<1>2. b \in Block /\ Height(b) \in Nat
  BY <1>1, AgendaParts, ItemFields DEF Height, Block
<1>3. agenda' \in [Node -> Seq(Item)]
  BY <1>1, ReturnType DEF ApplyCommit
<1>4. Booting'
  BY <1>1, Booted, StaysBooted DEF ApplyCommit, Return, TypeOK
<1>5. disk' \in [Node -> DiskRecord]
  <2>1. disk' = [disk EXCEPT
           ![n].committed = [height |-> IF Height(b) > @.height
                                        THEN Height(b) ELSE @.height,
                             block |-> b],
           ![n].blocks = @ \cup {b}]
    BY DEF ApplyCommit
  <2>2. disk[n].committed \in [height : Nat, block : Block]
    BY DiskType DEF DiskRecord
  <2> HIDE DEF b
  <2> QED
    BY <1>2, <2>1, <2>2, DiskType DEF DiskRecord
<1> QED
  BY <1>3, <1>4, <1>5
  DEF ApplyCommit, TypeOK, core, tree, buckets, outbox, unparking

LEMMA ReceiveType ==
    ASSUME TypeOK, NEW n \in Node, NEW m \in msgs, Receive(n, m)
    PROVE  TypeOK'
<1>1. ~Busy(n) /\ agenda' = [agenda EXCEPT ![n] = Dispatches(m)] /\ pmView' = pmView
  BY DEF Receive
<1>2. Dispatches(m) \in Seq(Item)
  <2>1. m \in Message
    BY DEF TypeOK
  <2> QED
    BY <2>1, DispatchesType, ItemSequences
<1>3. agenda' \in [Node -> Seq(Item)]
  BY <1>1, <1>2 DEF TypeOK
<1>4. Booting'
  BY <1>1, Booted, StaysBooted DEF TypeOK
<1> QED
  BY <1>3, <1>4
  DEF Receive, TypeOK, core, tree, buckets, outbox, unparking, durable

(* The timeout votes a node sends when its timer fires: one. *)
LEMMA OnTimeoutMessages ==
    ASSUME TypeOK, NEW n \in Node, OnTimeout(n)
    PROVE  \E kept \in SUBSET TimeoutMsg :
              /\ kept # {}
              /\ \A m \in kept : m \in disk[n].timeout \/ m.block = highQc[n]
              /\ disk' = [disk EXCEPT ![n].timeout = kept]
              /\ msgs' = msgs \cup kept
              /\ agenda' = [agenda EXCEPT
                               ![n] = <<Recv(CHOOSE m \in kept : TRUE)>>]
<1> DEFINE stored == {m \in disk[n].timeout : m.view = pmView[n]}
           kept == IF stored = {} THEN {Timeout(n, pmView[n], highQc[n])}
                                  ELSE stored
<1>1. ~Busy(n) /\ pmView[n] <= MaxView
  BY DEF OnTimeout
<1>2. pmView[n] \in View
  <2>1. pmView[n] # 0 /\ pmView[n] \in 0 .. MaxView + 1
    BY <1>1, Booted DEF TypeOK
  <2> QED
    BY <1>1, <2>1, ConstantsOK DEF View
<1>3. Timeout(n, pmView[n], highQc[n]) \in TimeoutMsg
  BY <1>2, MessageTypes DEF TypeOK
<1>4. stored \in SUBSET TimeoutMsg /\ stored \subseteq disk[n].timeout
  BY DiskType
<1>5. /\ kept \in SUBSET TimeoutMsg /\ kept # {}
      /\ \A m \in kept : m \in disk[n].timeout \/ m.block = highQc[n]
  BY <1>3, <1>4 DEF Timeout
<1>6. /\ disk' = [disk EXCEPT ![n].timeout = kept]
      /\ msgs' = msgs \cup kept
      /\ agenda' = [agenda EXCEPT ![n] = <<Recv(CHOOSE m \in kept : TRUE)>>]
  BY DEF OnTimeout
<1> HIDE DEF kept
<1> QED
  BY <1>5, <1>6

LEMMA OnTimeoutType ==
    ASSUME TypeOK, NEW n \in Node, OnTimeout(n)
    PROVE  TypeOK'
<1>1. PICK kept \in SUBSET TimeoutMsg :
              /\ kept # {}
              /\ disk' = [disk EXCEPT ![n].timeout = kept]
              /\ msgs' = msgs \cup kept
              /\ agenda' = [agenda EXCEPT
                               ![n] = <<Recv(CHOOSE m \in kept : TRUE)>>]
  BY OnTimeoutMessages
<1>2. (CHOOSE m \in kept : TRUE) \in Message /\ kept \subseteq Message
  BY <1>1 DEF Message
<1>3. <<Recv(CHOOSE m \in kept : TRUE)>> \in Seq(Item)
  BY <1>2, CallItemTypes, ItemSequences
<1>4. agenda' \in [Node -> Seq(Item)]
  BY <1>1, <1>3 DEF TypeOK
<1>5. disk' \in [Node -> DiskRecord]
  BY <1>1, DiskType DEF DiskRecord
<1>6. msgs' \subseteq Message
  BY <1>1, <1>2 DEF TypeOK
<1>7. Booting'
  <2>1. pmView[n] # 0 /\ pmView' = pmView
    BY Booted DEF OnTimeout
  <2>2. \A o \in Node \ {n} : agenda'[o] = agenda[o]
    BY <1>1 DEF TypeOK
  <2> QED
    BY <2>1, <2>2, StaysBooted
<1> QED
  BY <1>4, <1>5, <1>6, <1>7
  DEF OnTimeout, TypeOK, core, tree, buckets, outbox, unparking

LEMMA ReceiveBlockType ==
    ASSUME TypeOK, NEW n \in Node, NEW b \in inflight[n], ReceiveBlock(n, b)
    PROVE  TypeOK'
<1>1. /\ ~Busy(n)
      /\ agenda' = [agenda EXCEPT ![n] = <<Advance(pmView[n])>>]
      /\ pmView' = pmView
  BY DEF ReceiveBlock
<1>2. pmView[n] \in NextViews
  <2>1. pmView[n] # 0 /\ pmView[n] \in 0 .. MaxView + 1
    BY <1>1, Booted DEF TypeOK
  <2> QED
    BY <2>1, ConstantsOK DEF NextViews
<1>3. <<Advance(pmView[n])>> \in Seq(Item)
  BY <1>2, CallItemTypes, ItemSequences
<1>4. agenda' \in [Node -> Seq(Item)]
  BY <1>1, <1>3 DEF TypeOK
<1>5. Booting'
  BY <1>1, Booted, StaysBooted DEF TypeOK
<1>6. /\ pending' \in [Node -> SUBSET Block]
      /\ inflight' \in [Node -> SUBSET Block]
  <2>1. /\ pending \in [Node -> SUBSET Block]
        /\ inflight \in [Node -> SUBSET Block]
        /\ b \in Block
    BY DEF TypeOK
  <2> QED
    BY <2>1 DEF ReceiveBlock
<1> QED
  BY <1>4, <1>5, <1>6
  DEF ReceiveBlock, TypeOK, core, buckets, outbox, unparking, durable

LEMMA BlockSyncRetryTickType ==
    ASSUME TypeOK, NEW n \in Node, NEW D, BlockSyncRetryTick(n, D)
    PROVE  TypeOK'
<1>1. /\ parked' \in [Node -> SUBSET Block]
      /\ inflight' \in [Node -> SUBSET Block]
  BY DropParkedType DEF BlockSyncRetryTick
<1>2. Booting'
  BY DEF BlockSyncRetryTick, TypeOK, Booting
<1> QED
  BY <1>1, <1>2
  DEF BlockSyncRetryTick, TypeOK, core, buckets, outbox, unparking, durable

LEMMA ReleaseStashType ==
    ASSUME TypeOK, NEW n \in Node, ReleaseStash(n)
    PROVE  TypeOK'
<1>1. PICK m \in stash[n] : BroadcastMsg(n, m, <<>>)
  BY DEF ReleaseStash
<1>2. m \in Message /\ <<>> \in Seq(Item)
  BY DEF TypeOK, Message
<1>3. /\ msgs' \subseteq Message
      /\ paced' \in [Node -> BOOLEAN]
      /\ loopback' \in [Node -> Seq(CallItem)]
      /\ agenda' \in [Node -> Seq(Item)]
  BY <1>1, <1>2, BroadcastMsgType
<1>4. Booting'
  <2>1. pmView[n] # 0 /\ pmView' = pmView
    BY Booted DEF ReleaseStash
  <2>2. \A o \in Node \ {n} : agenda'[o] = agenda[o]
    BY <1>1 DEF BroadcastMsg, TypeOK
  <2> QED
    BY <2>1, <2>2, StaysBooted
<1>5. stash' \in [Node -> SUBSET ProposalMsg]
  BY DEF ReleaseStash, TypeOK
<1> QED
  BY <1>3, <1>4, <1>5
  DEF ReleaseStash, TypeOK, core, tree, buckets, unparking, durable

LEMMA RehydratedType ==
    ASSUME NEW n \in Node, NEW b \in Block
    PROVE  Rehydrated(n, b) \in SUBSET Block
<1>1. \A k \in 0 .. 2 : Ancestor(b, k) \in Block
  BY AncestorType
<1> QED
  BY <1>1 DEF Rehydrated

LEMMA RestartType ==
    ASSUME TypeOK, NEW n \in Node, Restart(n)
    PROVE  TypeOK'
<1> DEFINE v == IF ViewOf(disk[n].highQc) > disk[n].voted
                THEN ViewOf(disk[n].highQc) ELSE disk[n].voted
<1>1. v \in 0 .. MaxView
  BY DiskType, ViewOfType
<1>2. agenda' = [agenda EXCEPT ![n] = <<Cert(v)>>]
  BY DEF Restart
<1> HIDE DEF v
<1>3. agenda' \in [Node -> Seq(Item)]
  <2>1. <<Cert(v)>> \in Seq(Item)
    BY <1>1, CallItemTypes, ItemSequences
  <2> QED
    BY <1>2, <2>1 DEF TypeOK
<1>4. Booting'
  <2> SUFFICES ASSUME NEW o \in Node, pmView'[o] = 0
               PROVE  \E u \in 0 .. MaxView : agenda'[o] = <<Cert(u)>>
    BY DEF Booting
  <2>1. CASE o = n
    BY <1>1, <1>2, <2>1 DEF TypeOK
  <2>2. CASE o # n
    <3>1. pmView[o] = 0 /\ agenda'[o] = agenda[o]
      BY <1>2, <2>2 DEF Restart, TypeOK
    <3> QED
      BY <3>1 DEF TypeOK, Booting
  <2> QED
    BY <2>1, <2>2
<1>5. /\ highQc' \in [Node -> Block]
      /\ locked' \in [Node -> Block]
      /\ lastVoted' \in [Node -> 0 .. MaxView]
      /\ proposedIn' \in [Node -> 0 .. MaxView]
  BY DiskType DEF Restart, TypeOK
<1>6. pending' \in [Node -> SUBSET Block]
  <2>1. {Genesis} \cup Rehydrated(n, disk[n].highQc)
                  \cup Rehydrated(n, disk[n].locked) \in SUBSET Block
    BY DiskType, GenesisType, RehydratedType
  <2> QED
    BY <2>1 DEF Restart, TypeOK
<1>7. /\ parked' \in [Node -> SUBSET Block]
      /\ inflight' \in [Node -> SUBSET Block]
      /\ votes' \in [Node -> SUBSET VoteMsg]
      /\ timeouts' \in [Node -> SUBSET TimeoutMsg]
      /\ ready' \in [Node -> SUBSET Block]
  BY DEF Restart, TypeOK
<1>8. /\ stash' \in [Node -> SUBSET ProposalMsg]
      /\ paced' \in [Node -> BOOLEAN]
      /\ loopback' \in [Node -> Seq(CallItem)]
      /\ acts' \in [Node -> Seq(ActionItem)]
  <2>1. <<>> \in Seq(CallItem) /\ <<>> \in Seq(ActionItem)
    OBVIOUS
  <2> QED
    BY <2>1 DEF Restart, TypeOK
<1>9. pmView' \in [Node -> 0 .. MaxView + 1] /\ restarts' \in 0 .. MaxRestarts
  BY ConstantsOK DEF Restart, TypeOK
<1>10. disk' = disk /\ executed' = executed /\ failed' = failed /\ msgs' = msgs
  BY DEF Restart, durable
<1> QED
  BY <1>3, <1>4, <1>5, <1>6, <1>7, <1>8, <1>9, <1>10 DEF TypeOK

-----------------------------------------------------------------------------
LEMMA InitType == Init => TypeOK
<1> SUFFICES ASSUME Init
             PROVE  TypeOK
  OBVIOUS
<1>1. 0 \in 0 .. MaxView /\ 0 \in 0 .. MaxView + 1 /\ 0 \in 0 .. MaxRestarts
  BY ConstantsOK
<1>2. EmptyDisk \in DiskRecord
  BY <1>1, GenesisType DEF EmptyDisk, DiskRecord
<1>3. <<Cert(0)>> \in Seq(Item)
  BY <1>1, CallItemTypes, ItemSequences
<1>4. Booting
  BY <1>1 DEF Init, Booting
<1>5. disk \in [Node -> DiskRecord] /\ agenda \in [Node -> Seq(Item)]
  BY <1>2, <1>3 DEF Init
<1> QED
  BY <1>1, <1>4, <1>5, GenesisType DEF Init, TypeOK

LEMMA NextType == TypeOK /\ [Next]_vars => TypeOK'
<1> SUFFICES ASSUME TypeOK, [Next]_vars
             PROVE  TypeOK'
  OBVIOUS
<1>1. CASE UNCHANGED vars
  BY <1>1 DEF vars, core, tree, buckets, outbox, unparking, durable, TypeOK,
              Booting
<1>2. ASSUME NEW n \in Node, Work(n)
      PROVE  TypeOK'
  BY <1>2, HandleProposalType, RejectProposalType, HandleVoteType,
     HandleNewViewType, HandleTimeoutType, TimeoutCertFormedType, OnCertType,
     OnRoundSyncType, OnPacemakerAdvanceType, UnparkOneType, FinishAdvanceType,
     BecomeLeaderType, PersistUpdatesType, BroadcastType, SuppressVoteType,
     StashProposalType, DrainLoopbackType, BuildProposalType, BuildFailsType,
     CommitToAppType, CommitFailsType, ApplyCommitType
  DEF Work
<1>3. ASSUME NEW n \in Node, Event(n)
      PROVE  TypeOK'
  BY <1>3, ReceiveType, OnTimeoutType, ReceiveBlockType, BlockSyncRetryTickType,
     ReleaseStashType
  DEF Event
<1>4. ASSUME NEW n \in Node, Restart(n)
      PROVE  TypeOK'
  BY <1>4, RestartType
<1> QED
  BY <1>1, <1>2, <1>3, <1>4 DEF Next

(* Type correctness, for any number of validators, views and crashes: every
   queue, bucket, stored record and message holds what the code's types say,
   no view is left out of range, and a node takes no event before its boot
   step has entered a view. *)
THEOREM TypeCorrect == Spec => []TypeOK
  BY InitType, NextType, PTL DEF Spec

-----------------------------------------------------------------------------
(* Persist before send.  Every vote waiting to be sent still carries the
   record of its view, except one that is next to be sent, and then the record
   has just been written. *)
VoteSend(it) == it.op = "send" /\ it.msg.kind = "vote"

Unwritten(n, it) ==
    /\ it.msg.from = n
    /\ it.pre.voted = ViewOf(it.msg.block)
    /\ it.pre.voted # 0

AllUnwritten(n, s) == \A i \in 1 .. Len(s) : VoteSend(s[i]) => Unwritten(n, s[i])

Written(n, it) ==
    /\ VoteSend(it)
    /\ it.pre = NoBatch
    /\ it.msg.from = n
    /\ disk[n].voted = ViewOf(it.msg.block)

VoteRecords ==
    \A n \in Node :
        /\ AllUnwritten(n, acts[n])
        /\ \/ AllUnwritten(n, agenda[n])
           \/ /\ Busy(n)
              /\ Written(n, Head(agenda[n]))
              /\ AllUnwritten(n, Rest(n))

LEMMA UnwrittenConcat ==
    ASSUME NEW n, NEW s \in Seq(Item), NEW t \in Seq(Item),
           AllUnwritten(n, s), AllUnwritten(n, t)
    PROVE  AllUnwritten(n, s \o t)
<1> SUFFICES ASSUME NEW i \in 1 .. Len(s \o t), VoteSend((s \o t)[i])
             PROVE  Unwritten(n, (s \o t)[i])
  BY DEF AllUnwritten
<1>1. Len(s \o t) = Len(s) + Len(t) /\ Len(s) \in Nat /\ Len(t) \in Nat
  BY ConcatProperties
<1>2. CASE i <= Len(s)
  BY <1>1, <1>2, ConcatProperties DEF AllUnwritten
<1>3. CASE i > Len(s)
  <2>1. i - Len(s) \in 1 .. Len(t) /\ (s \o t)[i] = t[i - Len(s)]
    BY <1>1, <1>3, ConcatProperties
  <2> QED
    BY <2>1 DEF AllUnwritten
<1> QED
  BY <1>1, <1>2, <1>3

LEMMA UnwrittenTail ==
    ASSUME NEW n, NEW s \in Seq(Item), s # <<>>, AllUnwritten(n, s)
    PROVE  AllUnwritten(n, Tail(s))
<1> SUFFICES ASSUME NEW i \in 1 .. Len(Tail(s)), VoteSend(Tail(s)[i])
             PROVE  Unwritten(n, Tail(s)[i])
  BY DEF AllUnwritten
<1>1. i + 1 \in 1 .. Len(s) /\ Tail(s)[i] = s[i + 1]
  BY HeadTailProperties
<1> QED
  BY <1>1 DEF AllUnwritten

(* Calls send nothing. *)
LEMMA CallsUnwritten ==
    ASSUME NEW n, NEW s \in Seq(CallItem)
    PROVE  AllUnwritten(n, s)
<1>1. \A it \in CallItem : it.op # "send"
  BY DEF CallItem
<1> QED
  BY <1>1 DEF AllUnwritten, VoteSend

LEMMA ShortConcat ==
    ASSUME NEW x, NEW y
    PROVE  <<x>> \o <<>> = <<x>> /\ <<x>> \o <<y>> = <<x, y>>
<1>1. <<x>> \in Seq({x, y}) /\ y \in {x, y}
  OBVIOUS
<1>2. <<x>> \o <<>> = <<x>>
  BY <1>1, ConcatEmptySeq
<1>3. <<x>> \o <<y>> = Append(<<x>>, y)
  BY <1>1, AppendIsConcat
<1>4. Append(<<x>>, y) = <<x, y>>
  <2>1. <<x, y>> \in Seq({x, y}) /\ Append(<<x>>, y) \in Seq({x, y})
    BY <1>1, AppendProperties
  <2>2. /\ Len(<<x, y>>) = 2 /\ Len(Append(<<x>>, y)) = 2
        /\ <<x, y>>[1] = x /\ <<x, y>>[2] = y
        /\ Append(<<x>>, y)[1] = x /\ Append(<<x>>, y)[2] = y
    BY <1>1, AppendProperties
  <2> QED
    <3>1. \A i \in 1 .. 2 : i = 1 \/ i = 2
      OBVIOUS
    <3> QED
      BY <2>1, <2>2, <3>1, SeqEqual
<1> QED
  BY <1>2, <1>3, <1>4

LEMMA ConsParts ==
    ASSUME NEW x \in Item, NEW t \in Seq(Item)
    PROVE  /\ <<x>> \o t # <<>>
           /\ Head(<<x>> \o t) = x
           /\ Tail(<<x>> \o t) = t
<1> DEFINE s == <<x>> \o t
<1>1. <<x>> \in Seq(Item) /\ Len(<<x>>) = 1 /\ <<x>>[1] = x
  OBVIOUS
<1>2. /\ s \in Seq(Item) /\ Len(s) = 1 + Len(t) /\ s[1] = x
      /\ \A i \in 1 .. Len(t) : s[i + 1] = t[i]
      /\ Len(t) \in Nat
  BY <1>1, ConcatProperties
<1> HIDE DEF s
<1>3. s # <<>>
  BY <1>2
<1>4. /\ Tail(s) \in Seq(Item) /\ Len(Tail(s)) = Len(t)
      /\ \A i \in 1 .. Len(t) : Tail(s)[i] = t[i]
  BY <1>2, <1>3, HeadTailProperties
<1>5. Tail(s) = t
  BY <1>4, SeqEqual
<1>6. Head(s) = x
  BY <1>2, <1>3
<1> QED
  BY <1>3, <1>5, <1>6 DEF s

LEMMA BufferedItems ==
    ASSUME NEW pre, NEW x, NEW y
    PROVE  /\ Buffered(pre, <<>>) \in {<<>>, <<Flush(pre)>>}
           /\ Buffered(pre, <<x>>) \in {<<x>>, <<[x EXCEPT !.pre = pre]>>}
           /\ pre # NoBatch =>
                /\ Buffered(pre, <<x>>) = <<[x EXCEPT !.pre = pre]>>
                /\ Buffered(pre, <<x, y>>) = <<[x EXCEPT !.pre = pre], y>>
<1>1. /\ <<x>> # <<>> /\ Head(<<x>>) = x /\ Tail(<<x>>) = <<>>
      /\ <<x, y>> # <<>> /\ Head(<<x, y>>) = x /\ Tail(<<x, y>>) = <<y>>
  OBVIOUS
<1>2. Buffered(pre, <<>>) \in {<<>>, <<Flush(pre)>>}
  BY DEF Buffered
<1> DEFINE z == [x EXCEPT !.pre = pre]
<1> HIDE DEF z
<1>3. <<z>> \o <<>> = <<z>> /\ <<z>> \o <<y>> = <<z, y>>
  BY ShortConcat
<1>4. pre # NoBatch => Buffered(pre, <<x>>) = <<z>> /\ Buffered(pre, <<x, y>>) = <<z, y>>
  BY <1>1, <1>3 DEF Buffered, z
<1>5. pre = NoBatch => Buffered(pre, <<x>>) = <<x>>
  BY DEF Buffered
<1> QED
  BY <1>2, <1>4, <1>5 DEF z

(* Sequences of no more than two items. *)
LEMMA ShortUnwritten ==
    ASSUME NEW n, NEW x, NEW y,
           VoteSend(x) => Unwritten(n, x), VoteSend(y) => Unwritten(n, y)
    PROVE  AllUnwritten(n, <<>>) /\ AllUnwritten(n, <<x>>) /\ AllUnwritten(n, <<x, y>>)
<1>1. AllUnwritten(n, <<>>) /\ AllUnwritten(n, <<x>>)
  BY DEF AllUnwritten
<1>2. /\ Len(<<x, y>>) = 2 /\ <<x, y>>[1] = x /\ <<x, y>>[2] = y
      /\ \A i \in 1 .. 2 : i = 1 \/ i = 2
  OBVIOUS
<1>3. AllUnwritten(n, <<x, y>>)
  BY <1>2 DEF AllUnwritten
<1> QED
  BY <1>1, <1>3

LEMMA ProposalUnwritten ==
    ASSUME TypeOK, NEW n \in Node, NEW b \in Block
    PROVE  AllUnwritten(n, ProposalActions(n, b))
<1> DEFINE batch == ProposalBatch(n, b)
           vote == Send(Vote(n, b))
           commit == CommitBlock(Ancestor(b, 3))
<1>1. /\ ~VoteSend(commit) /\ ~VoteSend(Flush(batch))
      /\ ~VoteSend([commit EXCEPT !.pre = batch])
  BY DEF VoteSend, CommitBlock, Flush
<1>2. CASE Parent(b) \notin pending[n]
  BY <1>2, ShortUnwritten DEF ProposalActions, AllUnwritten
<1>3. CASE Parent(b) \in pending[n] /\ safe_to_vote(n, b)
  <2>1. batch.voted = ViewOf(b) /\ ViewOf(b) # 0 /\ batch # NoBatch
    <3>1. lastVoted[n] \in 0 .. MaxView /\ ViewOf(b) \in 0 .. MaxView
      BY ViewOfType DEF TypeOK
    <3> QED
      BY <1>3, <3>1 DEF safe_to_vote, ProposalBatch, NoBatch
  <2>2. Unwritten(n, [vote EXCEPT !.pre = batch])
    BY <2>1 DEF Unwritten, Send, Vote
  <2> HIDE DEF batch, vote, commit
  <2>3. <<vote>> \o <<>> = <<vote>> /\ <<vote>> \o <<commit>> = <<vote, commit>>
    BY ShortConcat
  <2>4. ProposalActions(n, b) \in {Buffered(batch, <<vote>>), Buffered(batch, <<vote, commit>>)}
    BY <1>3, <2>3 DEF ProposalActions, batch, vote, commit
  <2>5. ProposalActions(n, b) \in {<<[vote EXCEPT !.pre = batch]>>,
                                  <<[vote EXCEPT !.pre = batch], commit>>}
    BY <2>1, <2>4, BufferedItems
  <2> QED
    BY <1>1, <2>2, <2>5, ShortUnwritten
<1>4. CASE Parent(b) \in pending[n] /\ ~safe_to_vote(n, b)
  <2> HIDE DEF batch, vote, commit
  <2>1. <<>> \o <<>> = <<>> /\ <<>> \o <<commit>> = <<commit>>
    OBVIOUS
  <2>2. ProposalActions(n, b) \in {Buffered(batch, <<>>), Buffered(batch, <<commit>>)}
    BY <1>4, <2>1 DEF ProposalActions, batch, commit
  <2>3. ProposalActions(n, b) \in {<<>>, <<Flush(batch)>>, <<commit>>,
                                  <<[commit EXCEPT !.pre = batch]>>}
    BY <2>2, BufferedItems
  <2> QED
    BY <1>1, <2>3, ShortUnwritten
<1> QED
  BY <1>2, <1>3, <1>4

(* What the other steps of the core return holds no vote. *)
LEMMA BuildUnwritten ==
    ASSUME NEW n \in Node, NEW v, NEW q, NEW pre
    PROVE  /\ AllUnwritten(n, build_proposal_at_view(n, v, q))
           /\ AllUnwritten(n, try_propose_as_leader(n, v, q))
           /\ AllUnwritten(n, Buffered(pre, try_propose_as_leader(n, v, q)))
           /\ AllUnwritten(n, Buffered(pre, <<>>))
<1> DEFINE build == Build(v, q)
           s == build_proposal_at_view(n, v, q)
           t == try_propose_as_leader(n, v, q)
<1>1. /\ ~VoteSend(build) /\ ~VoteSend([build EXCEPT !.pre = pre])
      /\ ~VoteSend(Flush(pre))
  BY DEF VoteSend, Build, Flush
<1>2. s \in {<<>>, <<build>>} /\ t \in {<<>>, <<build>>}
  BY DEF build_proposal_at_view, try_propose_as_leader
<1> HIDE DEF s, t, build
<1>3. /\ Buffered(pre, <<>>) \in {<<>>, <<Flush(pre)>>}
      /\ Buffered(pre, <<build>>) \in {<<build>>, <<[build EXCEPT !.pre = pre]>>}
  BY BufferedItems
<1>4. /\ AllUnwritten(n, <<>>) /\ AllUnwritten(n, <<build>>)
      /\ AllUnwritten(n, <<Flush(pre)>>)
      /\ AllUnwritten(n, <<[build EXCEPT !.pre = pre]>>)
  BY <1>1, ShortUnwritten
<1> QED
  BY <1>2, <1>3, <1>4 DEF s, t

-----------------------------------------------------------------------------
(* The call stack. *)

LEMMA RestUnwritten ==
    ASSUME TypeOK, VoteRecords, NEW n \in Node, Busy(n)
    PROVE  AllUnwritten(n, Rest(n))
<1>1. agenda[n] \in Seq(Item) /\ agenda[n] # <<>>
  BY DEF TypeOK, Busy
<1> QED
  BY <1>1, UnwrittenTail DEF VoteRecords, Rest

LEMMA NothingWritten ==
    ASSUME TypeOK, VoteRecords, NEW n \in Node,
           ~Busy(n) \/ Head(agenda[n]).op # "send"
    PROVE  AllUnwritten(n, agenda[n])
  BY DEF VoteRecords, Written, VoteSend

(* A step that leaves node n with the work w and the output a. *)
LEMMA KeepsRecords ==
    ASSUME TypeOK, VoteRecords, NEW n \in Node, NEW w, NEW a,
           AllUnwritten(n, w), AllUnwritten(n, a),
           agenda' = [agenda EXCEPT ![n] = w],
           acts' = [acts EXCEPT ![n] = a],
           \A o \in Node \ {n} : disk'[o] = disk[o]
    PROVE  VoteRecords'
<1>1. /\ agenda'[n] = w /\ acts'[n] = a
      /\ \A o \in Node \ {n} : agenda'[o] = agenda[o] /\ acts'[o] = acts[o]
  BY DEF TypeOK
<1> SUFFICES ASSUME NEW o \in Node
             PROVE  /\ AllUnwritten(o, acts'[o])
                    /\ \/ AllUnwritten(o, agenda'[o])
                       \/ /\ agenda'[o] # <<>>
                          /\ Written(o, Head(agenda[o]))'
                          /\ AllUnwritten(o, Tail(agenda'[o]))
  BY DEF VoteRecords, Busy, Rest, AllUnwritten, Unwritten, VoteSend
<1>2. CASE o = n
  BY <1>1, <1>2
<1>3. CASE o # n
  <2>1. agenda'[o] = agenda[o] /\ acts'[o] = acts[o] /\ disk'[o] = disk[o]
    BY <1>1, <1>3
  <2>2. Written(o, Head(agenda[o])) => Written(o, Head(agenda[o]))'
    BY <2>1 DEF Written, VoteSend
  <2> QED
    BY <2>1, <2>2 DEF VoteRecords, Busy, Rest
<1> QED
  BY <1>2, <1>3

LEMMA ContinueRecords ==
    ASSUME TypeOK, VoteRecords, NEW n \in Node, Busy(n),
           NEW s \in Seq(Item), AllUnwritten(n, s), Continue(n, s),
           acts' = acts, \A o \in Node \ {n} : disk'[o] = disk[o]
    PROVE  VoteRecords'
<1>1. AllUnwritten(n, s \o Rest(n))
  BY RestUnwritten, AgendaParts, UnwrittenConcat
<1>2. acts' = [acts EXCEPT ![n] = acts[n]] /\ AllUnwritten(n, acts[n])
  BY DEF TypeOK, VoteRecords
<1> QED
  BY <1>1, <1>2, KeepsRecords DEF Continue

LEMMA ReturnRecords ==
    ASSUME TypeOK, VoteRecords, NEW n \in Node, Busy(n), Return(n),
           acts' = acts, \A o \in Node \ {n} : disk'[o] = disk[o]
    PROVE  VoteRecords'
<1>1. acts' = [acts EXCEPT ![n] = acts[n]] /\ AllUnwritten(n, acts[n])
  BY DEF TypeOK, VoteRecords
<1> QED
  BY <1>1, RestUnwritten, KeepsRecords DEF Return

LEMMA CallRecords ==
    ASSUME TypeOK, VoteRecords, NEW n \in Node, Busy(n),
           NEW s \in Seq(CallItem), Continue(n, s),
           acts' = acts, disk' = disk
    PROVE  VoteRecords'
  BY ItemSequences, CallsUnwritten, ContinueRecords

LEMMA InitRecords == Init => VoteRecords
<1> SUFFICES ASSUME Init, NEW n \in Node
             PROVE  AllUnwritten(n, acts[n]) /\ AllUnwritten(n, agenda[n])
  BY DEF VoteRecords
<1>1. acts[n] = <<>> /\ agenda[n] = <<Cert(0)>> /\ ~VoteSend(Cert(0))
  BY DEF Init, VoteSend, Cert
<1> QED
  BY <1>1, ShortUnwritten

-----------------------------------------------------------------------------
(* One lemma per step of a busy node. *)

LEMMA HandleProposalRecords ==
    ASSUME TypeOK, VoteRecords, NEW n \in Node, HandleProposal(n)
    PROVE  VoteRecords'
<1> DEFINE b == Head(agenda[n]).msg.block
<1>1. /\ Busy(n) /\ Head(agenda[n]).op = "recv"
      /\ Continue(n, ProposalActions(n, b)) /\ acts' = acts /\ disk' = disk
  BY DEF HandleProposal, Receiving, Doing, unparking, durable
<1>2. b \in Block
  BY <1>1, AgendaParts, ItemFields, MessageFields
<1> HIDE DEF b
<1>3. ProposalActions(n, b) \in Seq(Item)
  BY <1>2, ProposalActionsType, ItemSequences
<1> QED
  BY <1>1, <1>2, <1>3, ProposalUnwritten, ContinueRecords

LEMMA HandleVoteRecords ==
    ASSUME TypeOK, VoteRecords, NEW n \in Node, HandleVote(n)
    PROVE  VoteRecords'
<1> DEFINE b == Head(agenda[n]).msg.block
           raises == should_update_high_qc(n, b)
           q == IF raises THEN b ELSE highQc[n]
           pre == [NoBatch EXCEPT !.highQc = IF raises THEN b ELSE @]
           work == Buffered(pre, try_propose_as_leader(n, ViewOf(b) + 1, q))
<1>1. Busy(n) /\ Head(agenda[n]).op = "recv" /\ acts' = acts /\ disk' = disk
  BY DEF HandleVote, Receiving, Doing, unparking, durable
<1>2. Return(n) \/ Continue(n, <<>>) \/ Continue(n, work)
  BY DEF HandleVote
<1>3. b \in Block /\ highQc[n] \in Block
  BY <1>1, AgendaParts, ItemFields, MessageFields DEF TypeOK
<1>4. q \in Block /\ pre \in Batch /\ ViewOf(b) + 1 \in NextViews
  <2>1. pre \in Batch
    BY <1>3, NoBatchType DEF Batch, NoBatch
  <2>2. ViewOf(b) + 1 \in NextViews
    BY <1>3, ViewOfType, ConstantsOK DEF NextViews
  <2> QED
    BY <1>3, <2>1, <2>2
<1> HIDE DEF b, raises, q, pre
<1>5. work \in Seq(Item) /\ AllUnwritten(n, work)
  BY <1>4, BuildType, BufferedType, BuildUnwritten, ItemSequences
<1>6. <<>> \in Seq(CallItem)
  OBVIOUS
<1> QED
  BY <1>1, <1>2, <1>5, <1>6, ContinueRecords, CallRecords, ReturnRecords

LEMMA HandleNewViewRecords ==
    ASSUME TypeOK, VoteRecords, NEW n \in Node, HandleNewView(n)
    PROVE  VoteRecords'
<1> DEFINE q == Head(agenda[n]).msg.block
           pre == [NoBatch EXCEPT !.highQc = q]
           work == Buffered(pre, <<>>)
<1>1. Busy(n) /\ Head(agenda[n]).op = "recv" /\ acts' = acts /\ disk' = disk
  BY DEF HandleNewView, Receiving, Doing, unparking, durable
<1>2. Return(n) \/ Continue(n, work)
  BY DEF HandleNewView
<1>3. q \in Block
  BY <1>1, AgendaParts, ItemFields, MessageFields
<1>4. pre \in Batch /\ <<>> \in Seq(ActionItem)
  BY <1>3, NoBatchType DEF Batch
<1> HIDE DEF q, pre
<1>5. work \in Seq(Item) /\ AllUnwritten(n, work)
  BY <1>4, BufferedType, BuildUnwritten, ItemSequences
<1> QED
  BY <1>1, <1>2, <1>5, ContinueRecords, ReturnRecords

LEMMA BecomeLeaderRecords ==
    ASSUME TypeOK, VoteRecords, NEW n \in Node, BecomeLeader(n)
    PROVE  VoteRecords'
<1> DEFINE work == build_proposal_at_view(n, Head(agenda[n]).view, highQc[n])
<1>1. /\ Busy(n) /\ Head(agenda[n]).op = "lead" /\ Continue(n, work)
      /\ acts' = acts /\ disk' = disk
  BY DEF BecomeLeader, Doing, unparking, durable
<1>2. Head(agenda[n]).view \in NextViews /\ highQc[n] \in Block
  BY <1>1, AgendaParts, ItemFields DEF TypeOK
<1>3. work \in Seq(Item) /\ AllUnwritten(n, work)
  BY <1>2, BuildType, BuildUnwritten, ItemSequences
<1> QED
  BY <1>1, <1>3, ContinueRecords

LEMMA HandleTimeoutRecords ==
    ASSUME TypeOK, VoteRecords, NEW n \in Node, HandleTimeout(n)
    PROVE  VoteRecords'
<1> DEFINE m == Head(agenda[n]).msg
           counted == timeouts[n] \cup {m}
           sync == IF /\ WeightAt(timeouts[n], m.view) < HonestyWeightThreshold
                      /\ WeightAt(counted, m.view) >= HonestyWeightThreshold
                   THEN <<RoundSync(m.view)>> ELSE <<>>
           formed == IF WeightAt(counted, m.view) >= QuorumWeightThreshold
                     THEN <<Formed(m.view, BestHighQc(counted, m.view))>>
                     ELSE <<>>
<1>1. /\ Busy(n) /\ Head(agenda[n]).op = "recv" /\ m.kind = "timeout"
      /\ acts' = acts /\ disk' = disk
  BY DEF HandleTimeout, Receiving, Doing, unparking, durable
<1>2. m \in TimeoutMsg /\ m.view \in View
  BY <1>1, AgendaParts, ItemFields, MessageFields
<1>3. BestHighQc(counted, m.view) \in Block
  BY <1>2, BestHighQcType DEF TypeOK
<1>4. /\ RoundSync(m.view) \in CallItem
      /\ Formed(m.view, BestHighQc(counted, m.view)) \in CallItem
  BY <1>2, <1>3, CallItemTypes
<1>5. sync \in Seq(CallItem) /\ formed \in Seq(CallItem)
  BY <1>4
<1>6. Return(n) \/ Continue(n, sync \o formed)
  BY DEF HandleTimeout
<1> HIDE DEF sync, formed
<1>7. sync \o formed \in Seq(CallItem)
  BY <1>5, ConcatProperties
<1> QED
  BY <1>1, <1>6, <1>7, CallRecords, ReturnRecords

LEMMA TimeoutCertFormedRecords ==
    ASSUME TypeOK, VoteRecords, NEW n \in Node, TimeoutCertFormed(n)
    PROVE  VoteRecords'
<1> DEFINE v == Head(agenda[n]).view
           q == Head(agenda[n]).block
<1>1. /\ Busy(n) /\ Head(agenda[n]).op = "formed"
      /\ Continue(n, <<Recv(NewView({n}, q)), Cert(v)>>)
      /\ acts' = acts /\ disk' = disk
  BY DEF TimeoutCertFormed, Doing, unparking, durable
<1>2. v \in 0 .. MaxView /\ q \in Block
  BY <1>1, AgendaParts, ItemFields, ConstantsOK DEF View
<1>3. NewView({n}, q) \in Message
  BY <1>2, MessageTypes DEF Message
<1>4. Recv(NewView({n}, q)) \in CallItem /\ Cert(v) \in CallItem
  BY <1>2, <1>3, CallItemTypes
<1> QED
  BY <1>1, <1>4, CallRecords

LEMMA EnterRecords ==
    ASSUME TypeOK, VoteRecords, NEW n \in Node, Busy(n), NEW v \in NextViews,
           Enter(n, v), acts' = acts, disk' = disk
    PROVE  VoteRecords'
<1> DEFINE work == <<Advance(v)>> \o
                      (IF Accumulator[v] = n THEN <<Lead(v)>> ELSE <<>>)
<1>1. Advance(v) \in CallItem /\ Lead(v) \in CallItem
  BY CallItemTypes
<1>2. work \in Seq(CallItem)
  BY <1>1
<1>3. Continue(n, work)
  BY DEF Enter
<1> QED
  BY <1>2, <1>3, CallRecords

LEMMA OnCertRecords ==
    ASSUME TypeOK, VoteRecords, NEW n \in Node, OnCert(n)
    PROVE  VoteRecords'
<1> DEFINE v == Head(agenda[n]).view
<1>1. Busy(n) /\ Head(agenda[n]).op = "cert" /\ acts' = acts /\ disk' = disk
  BY DEF OnCert, Doing, unparking, durable
<1>2. Return(n) \/ Enter(n, v + 1)
  BY DEF OnCert
<1>3. v \in 0 .. MaxView
  BY <1>1, AgendaParts, ItemFields
<1>4. v + 1 \in NextViews
  BY <1>3, ConstantsOK DEF NextViews
<1> QED
  BY <1>1, <1>2, <1>4, EnterRecords, ReturnRecords

LEMMA OnRoundSyncRecords ==
    ASSUME TypeOK, VoteRecords, NEW n \in Node, OnRoundSync(n)
    PROVE  VoteRecords'
<1> DEFINE v == Head(agenda[n]).view
<1>1. Busy(n) /\ Head(agenda[n]).op = "sync" /\ acts' = acts /\ disk' = disk
  BY DEF OnRoundSync, Doing, unparking, durable
<1>2. Return(n) \/ Enter(n, v)
  BY DEF OnRoundSync
<1>3. v \in NextViews
  BY <1>1, AgendaParts, ItemFields, ConstantsOK DEF View, NextViews
<1> QED
  BY <1>1, <1>2, <1>3, EnterRecords, ReturnRecords

LEMMA OnPacemakerAdvanceRecords ==
    ASSUME TypeOK, VoteRecords, NEW n \in Node, OnPacemakerAdvance(n)
    PROVE  VoteRecords'
<1> DEFINE v == Head(agenda[n]).view
<1>1. /\ Busy(n) /\ Head(agenda[n]).op = "advance"
      /\ agenda' = [agenda EXCEPT ![n] = <<Unpark(v)>> \o Rest(n)]
      /\ acts' = [acts EXCEPT ![n] = <<>>] /\ disk' = disk
  BY DEF OnPacemakerAdvance, Doing, durable, Continue
<1>2. v \in NextViews
  BY <1>1, AgendaParts, ItemFields
<1>3. <<Unpark(v)>> \in Seq(CallItem)
  BY <1>2, CallItemTypes
<1>4. AllUnwritten(n, <<Unpark(v)>> \o Rest(n))
  BY <1>1, <1>3, ItemSequences, AgendaParts, RestUnwritten, CallsUnwritten,
     UnwrittenConcat
<1>5. AllUnwritten(n, <<>>)
  BY ShortUnwritten, CallsUnwritten DEF AllUnwritten
<1> QED
  BY <1>1, <1>4, <1>5, KeepsRecords

LEMMA UnparkOneRecords ==
    ASSUME TypeOK, VoteRecords, NEW n \in Node, NEW b \in ready[n], UnparkOne(n, b)
    PROVE  VoteRecords'
<1> DEFINE s == ProposalActions(n, b)
<1>1. /\ Busy(n) /\ Head(agenda[n]).op = "unpark"
      /\ agenda' = agenda /\ acts' = [acts EXCEPT ![n] = acts[n] \o s]
      /\ disk' = disk
  BY DEF UnparkOne, Doing, durable
<1>2. b \in Block /\ acts[n] \in Seq(Item) /\ AllUnwritten(n, acts[n])
      /\ agenda' = [agenda EXCEPT ![n] = agenda[n]]
  BY <1>1, ItemSequences DEF TypeOK, VoteRecords
<1>3. s \in Seq(Item) /\ AllUnwritten(n, s)
  BY <1>2, ProposalActionsType, ProposalUnwritten, ItemSequences
<1> HIDE DEF s
<1>4. AllUnwritten(n, acts[n] \o s)
  BY <1>2, <1>3, UnwrittenConcat
<1>5. AllUnwritten(n, agenda[n])
  BY <1>1, NothingWritten
<1> QED
  BY <1>1, <1>2, <1>4, <1>5, KeepsRecords

LEMMA FinishAdvanceRecords ==
    ASSUME TypeOK, VoteRecords, NEW n \in Node, NEW D, FinishAdvance(n, D)
    PROVE  VoteRecords'
<1> DEFINE v == Head(agenda[n]).view
           news == <<Send(NewView(Node, highQc[n]))>>
           build == try_propose_as_leader(n, v, highQc[n])
           work == acts[n] \o news \o build
<1>1. /\ Busy(n) /\ Head(agenda[n]).op = "unpark"
      /\ agenda' = [agenda EXCEPT ![n] = work \o Rest(n)]
      /\ acts' = [acts EXCEPT ![n] = <<>>] /\ disk' = disk
  BY DEF FinishAdvance, Doing, durable, Continue
<1>2. /\ v \in NextViews /\ highQc[n] \in Block
      /\ acts[n] \in Seq(Item) /\ AllUnwritten(n, acts[n])
  BY <1>1, AgendaParts, ItemFields, ItemSequences DEF TypeOK, VoteRecords
<1>3. Send(NewView(Node, highQc[n])) \in Item /\ ~VoteSend(Send(NewView(Node, highQc[n])))
  BY <1>2, MessageTypes, ActionItemTypes, ItemSequences
  DEF Message, VoteSend, Send, NewView
<1>4. news \in Seq(Item) /\ AllUnwritten(n, news)
  <2>1. news \in Seq(Item)
    BY <1>3
  <2>2. AllUnwritten(n, news)
    BY <1>3, ShortUnwritten
  <2> QED
    BY <2>1, <2>2
<1>5. build \in Seq(Item) /\ AllUnwritten(n, build)
  BY <1>2, BuildType, BuildUnwritten, ItemSequences
<1> HIDE DEF news, build
<1>6. acts[n] \o news \in Seq(Item) /\ AllUnwritten(n, acts[n] \o news)
  BY <1>2, <1>4, UnwrittenConcat, ConcatProperties
<1>7. work \in Seq(Item) /\ AllUnwritten(n, work)
  BY <1>5, <1>6, UnwrittenConcat, ConcatProperties
<1> HIDE DEF work
<1>8. AllUnwritten(n, work \o Rest(n))
  BY <1>1, <1>7, AgendaParts, RestUnwritten, UnwrittenConcat
<1>9. AllUnwritten(n, <<>>)
  BY DEF AllUnwritten
<1> QED
  BY <1>1, <1>8, <1>9, KeepsRecords

LEMMA ReturningRecords ==
    ASSUME TypeOK, VoteRecords, NEW n \in Node,
           \/ RejectProposal(n) \/ SuppressVote(n) \/ StashProposal(n)
           \/ BuildFails(n)
    PROVE  VoteRecords'
<1>1. Busy(n) /\ Return(n) /\ acts' = acts /\ disk' = disk
  BY DEF RejectProposal, SuppressVote, StashProposal, BuildFails, Receiving,
         Flushed, Doing, unparking, durable
<1> QED
  BY <1>1, ReturnRecords

(* The write that turns the record a vote carries into a written one. *)
LEMMA PersistUpdatesRecords ==
    ASSUME TypeOK, VoteRecords, NEW n \in Node, PersistUpdates(n)
    PROVE  VoteRecords'
<1> DEFINE it == Head(agenda[n])
           done == [it EXCEPT !.pre = NoBatch]
<1>1. /\ Busy(n) /\ it.op \in {"send", "build", "commit", "flush"}
      /\ it.pre # NoBatch /\ acts' = acts
      /\ disk' = [disk EXCEPT ![n] = Persisted(n, it.pre)]
  BY DEF PersistUpdates, InAction, Doing, unparking
<1>2. it \in ActionItem /\ it.pre \in Batch /\ Rest(n) \in Seq(Item)
  BY <1>1, AgendaParts, ItemFields
<1>3. AllUnwritten(n, Rest(n)) /\ \A o \in Node : AllUnwritten(o, acts[o])
  BY <1>1, RestUnwritten DEF VoteRecords
<1>4. agenda' = [agenda EXCEPT ![n] =
          IF it.op = "flush" THEN Rest(n) ELSE <<done>> \o Rest(n)]
  BY DEF PersistUpdates, TypeOK, Rest
<1>5. \A o \in Node \ {n} : disk'[o] = disk[o]
  BY <1>1, DiskType
<1>6. acts' = [acts EXCEPT ![n] = acts[n]]
  BY <1>1 DEF TypeOK
<1>7. CASE it.op = "flush"
  <2>1. agenda' = [agenda EXCEPT ![n] = Rest(n)]
    BY <1>4, <1>7
  <2> QED
    BY <1>3, <1>5, <1>6, <2>1, KeepsRecords
<1>8. CASE it.op # "flush" /\ ~VoteSend(it)
  <2>1. agenda' = [agenda EXCEPT ![n] = <<done>> \o Rest(n)]
    BY <1>4, <1>8
  <2>2. done \in Item /\ done.op = it.op /\ (it.op = "send" => done.msg = it.msg)
    BY <1>2, WrittenType, ItemSequences DEF ActionItem
  <2>3. ~VoteSend(done)
    BY <1>8, <2>2 DEF VoteSend
  <2> HIDE DEF done
  <2>4. <<done>> \in Seq(Item)
    BY <2>2
  <2>5. AllUnwritten(n, <<done>>)
    BY <2>3, ShortUnwritten
  <2>6. AllUnwritten(n, <<done>> \o Rest(n))
    BY <1>2, <1>3, <2>4, <2>5, UnwrittenConcat
  <2> QED
    BY <1>3, <1>5, <1>6, <2>1, <2>6, KeepsRecords
<1>9. CASE VoteSend(it)
  <2>1. Unwritten(n, it)
    <3>1. ~Written(n, it)
      BY <1>1 DEF Written
    <3>2. AllUnwritten(n, agenda[n]) /\ agenda[n] \in Seq(Item) /\ agenda[n] # <<>>
      BY <1>1, <3>1 DEF VoteRecords, TypeOK, Busy
    <3>3. 1 \in 1 .. Len(agenda[n]) /\ it = agenda[n][1]
      BY <3>2, HeadTailProperties
    <3> HIDE DEF it
    <3> QED
      BY <1>9, <3>2, <3>3 DEF AllUnwritten
  <2>2. agenda' = [agenda EXCEPT ![n] = <<done>> \o Rest(n)]
    BY <1>4, <1>9 DEF VoteSend
  <2>3. /\ VoteSend(done) /\ done.pre = NoBatch /\ done.msg = it.msg
        /\ done \in Item
    BY <1>2, <1>9, WrittenType, ItemSequences DEF ActionItem, VoteSend
  <2>4. disk'[n].voted = ViewOf(it.msg.block)
    <3>1. disk'[n] = Persisted(n, it.pre) /\ disk[n] \in DiskRecord
      BY <1>1, DiskType
    <3> HIDE DEF it
    <3> QED
      BY <2>1, <3>1 DEF Unwritten, Persisted, DiskRecord
  <2>5. it.msg.from = n
    BY <2>1 DEF Unwritten
  <2> HIDE DEF done
  <2>6. <<done>> \in Seq(Item)
    BY <2>3
  <2>7. /\ <<done>> \o Rest(n) # <<>>
        /\ Head(<<done>> \o Rest(n)) = done
        /\ Tail(<<done>> \o Rest(n)) = Rest(n)
    BY <1>2, <2>3, ConsParts
  <2> HIDE DEF it
  <2> SUFFICES ASSUME NEW o \in Node
               PROVE  /\ AllUnwritten(o, acts'[o])
                      /\ \/ AllUnwritten(o, agenda'[o])
                         \/ /\ agenda'[o] # <<>>
                            /\ Written(o, Head(agenda[o]))'
                            /\ AllUnwritten(o, Tail(agenda'[o]))
    BY DEF VoteRecords, Busy, Rest, AllUnwritten, Unwritten, VoteSend
  <2>8. CASE o = n
    <3>1. agenda'[n] = <<done>> \o Rest(n)
      BY <2>2 DEF TypeOK
    <3>2. Head(agenda[n])' = done /\ Tail(agenda'[n]) = Rest(n) /\ agenda'[n] # <<>>
      BY <2>7, <3>1
    <3>3. Written(n, Head(agenda[n]))'
      BY <2>3, <2>4, <2>5, <3>2 DEF Written, VoteSend
    <3> QED
      BY <1>1, <1>3, <2>8, <3>2, <3>3
  <2>9. CASE o # n
    <3>1. agenda'[o] = agenda[o] /\ acts'[o] = acts[o] /\ disk'[o] = disk[o]
      BY <1>1, <1>5, <2>2, <2>9 DEF TypeOK
    <3>2. Written(o, Head(agenda[o])) => Written(o, Head(agenda[o]))'
      BY <3>1 DEF Written, VoteSend
    <3> QED
      BY <3>1, <3>2 DEF VoteRecords, Busy, Rest
  <2> QED
    BY <2>8, <2>9
<1> QED
  BY <1>7, <1>8, <1>9

LEMMA BroadcastMsgRecords ==
    ASSUME TypeOK, VoteRecords, NEW n \in Node, NEW m, NEW rest \in Seq(Item),
           AllUnwritten(n, rest), BroadcastMsg(n, m, rest),
           acts' = acts, disk' = disk
    PROVE  VoteRecords'
<1> DEFINE work == IF Draining(n) THEN <<>> ELSE <<Drain>>
<1>1. work \in Seq(CallItem)
  BY CallItemTypes
<1>2. agenda' = [agenda EXCEPT ![n] = work \o rest]
  BY DEF BroadcastMsg
<1> HIDE DEF work
<1>3. AllUnwritten(n, work \o rest)
  BY <1>1, ItemSequences, CallsUnwritten, UnwrittenConcat
<1>4. acts' = [acts EXCEPT ![n] = acts[n]] /\ AllUnwritten(n, acts[n])
  BY DEF TypeOK, VoteRecords
<1> QED
  BY <1>2, <1>3, <1>4, KeepsRecords

LEMMA BroadcastRecords ==
    ASSUME TypeOK, VoteRecords, NEW n \in Node, Broadcast(n)
    PROVE  VoteRecords'
<1>1. /\ Busy(n) /\ BroadcastMsg(n, Head(agenda[n]).msg, Rest(n))
      /\ acts' = acts /\ disk' = disk
  BY DEF Broadcast, Flushed, Doing, unparking, durable
<1> QED
  BY <1>1, AgendaParts, RestUnwritten, BroadcastMsgRecords

LEMMA DrainLoopbackRecords ==
    ASSUME TypeOK, VoteRecords, NEW n \in Node, DrainLoopback(n)
    PROVE  VoteRecords'
<1> DEFINE top == <<Head(loopback[n])>>
<1>1. Busy(n) /\ Head(agenda[n]).op = "drain" /\ acts' = acts /\ disk' = disk
  BY DEF DrainLoopback, Doing, unparking, durable
<1>2. CASE loopback[n] = <<>>
  BY <1>1, <1>2, ReturnRecords DEF DrainLoopback
<1>3. CASE loopback[n] # <<>>
  <2>1. agenda' = [agenda EXCEPT ![n] = top \o agenda[n]]
    BY <1>3 DEF DrainLoopback
  <2>2. Head(loopback[n]) \in CallItem /\ agenda[n] \in Seq(Item)
    BY <1>3, HeadTailProperties DEF TypeOK
  <2>3. top \in Seq(CallItem)
    BY <2>2
  <2> HIDE DEF top
  <2>4. AllUnwritten(n, top \o agenda[n])
    BY <1>1, <2>2, <2>3, ItemSequences, CallsUnwritten, NothingWritten,
       UnwrittenConcat
  <2>5. acts' = [acts EXCEPT ![n] = acts[n]] /\ AllUnwritten(n, acts[n])
    BY <1>1 DEF TypeOK, VoteRecords
  <2> QED
    BY <1>1, <2>1, <2>4, <2>5, KeepsRecords
<1> QED
  BY <1>2, <1>3

LEMMA BuildProposalRecords ==
    ASSUME TypeOK, VoteRecords, NEW n \in Node, NEW p \in Payload,
           BuildProposal(n, p)
    PROVE  VoteRecords'
<1> DEFINE v == Head(agenda[n]).view
           b == Append(Head(agenda[n]).block,
                       [view |-> v, proposer |-> n, payload |-> p])
           pre == [NoBatch EXCEPT !.proposed = v]
           send == Send(Proposal(b))
<1>1. /\ Busy(n) /\ Head(agenda[n]).op = "build" /\ v <= MaxView
      /\ Continue(n, Buffered(pre, <<send>>)) /\ acts' = acts /\ disk' = disk
  BY DEF BuildProposal, Flushed, Doing, unparking, durable
<1>2. v \in NextViews /\ Head(agenda[n]).block \in Block
  BY <1>1, AgendaParts, ItemFields
<1>3. v \in View /\ v \in 0 .. MaxView
  BY <1>1, <1>2, ConstantsOK DEF NextViews, View
<1>4. b \in Block
  BY <1>2, <1>3, AppendProperties DEF Block, Header
<1>5. pre \in Batch
  BY <1>3, NoBatchType DEF Batch, NoBatch
<1>6. /\ send \in ActionItem
      /\ ~VoteSend(send) /\ ~VoteSend([send EXCEPT !.pre = pre])
  <2>1. send \in ActionItem
    BY <1>4, MessageTypes, ActionItemTypes DEF Message
  <2> HIDE DEF b, pre
  <2> QED
    BY <2>1 DEF VoteSend, Send, Proposal
<1> HIDE DEF v, pre, send
<1>7. Buffered(pre, <<send>>) \in Seq(Item)
  <2>1. <<send>> \in Seq(ActionItem)
    BY <1>6
  <2> QED
    BY <1>5, <2>1, BufferedType, ItemSequences
<1>8. AllUnwritten(n, Buffered(pre, <<send>>))
  <2>1. Buffered(pre, <<send>>) \in {<<send>>, <<[send EXCEPT !.pre = pre]>>}
    BY BufferedItems
  <2>2. AllUnwritten(n, <<send>>) /\ AllUnwritten(n, <<[send EXCEPT !.pre = pre]>>)
    BY <1>6, ShortUnwritten
  <2> QED
    BY <2>1, <2>2
<1> QED
  BY <1>1, <1>7, <1>8, ContinueRecords

LEMMA CommitToAppRecords ==
    ASSUME TypeOK, VoteRecords, NEW n \in Node, CommitToApp(n) \/ CommitFails(n)
    PROVE  VoteRecords'
<1> DEFINE b == Head(agenda[n]).block
<1>1. /\ Busy(n) /\ Head(agenda[n]).op = "commit" /\ Continue(n, <<Apply(b)>>)
      /\ acts' = acts /\ disk' = disk
  BY DEF CommitToApp, CommitFails, Flushed, Doing, unparking
<1>2. b \in Block
  BY <1>1, AgendaParts, ItemFields
<1>3. <<Apply(b)>> \in Seq(CallItem)
  BY <1>2, CallItemTypes
<1> QED
  BY <1>1, <1>3, CallRecords

LEMMA ApplyCommitRecords ==
    ASSUME TypeOK, VoteRecords, NEW n \in Node, ApplyCommit(n)
    PROVE  VoteRecords'
<1>1. Busy(n) /\ Return(n) /\ acts' = acts
  BY DEF ApplyCommit, Doing, unparking
<1>2. \A o \in Node \ {n} : disk'[o] = disk[o]
  BY DiskType DEF ApplyCommit
<1> QED
  BY <1>1, <1>2, ReturnRecords

-----------------------------------------------------------------------------
(* The events of an idle node, and a crash. *)

LEMMA FreshAgenda ==
    ASSUME TypeOK, VoteRecords, NEW n \in Node, NEW w \in Seq(CallItem),
           agenda' = [agenda EXCEPT ![n] = w],
           acts' = acts \/ acts' = [acts EXCEPT ![n] = <<>>],
           \A o \in Node \ {n} : disk'[o] = disk[o]
    PROVE  VoteRecords'
<1>1. AllUnwritten(n, w)
  BY CallsUnwritten
<1>2. /\ AllUnwritten(n, acts[n]) /\ AllUnwritten(n, <<>>)
      /\ acts = [acts EXCEPT ![n] = acts[n]]
  BY DEF TypeOK, VoteRecords, AllUnwritten
<1>3. CASE acts' = acts
  <2>1. acts' = [acts EXCEPT ![n] = acts[n]]
    BY <1>2, <1>3
  <2> QED
    BY <1>1, <1>2, <2>1, KeepsRecords
<1>4. CASE acts' = [acts EXCEPT ![n] = <<>>]
  BY <1>1, <1>2, <1>4, KeepsRecords
<1> QED
  BY <1>3, <1>4

LEMMA ReceiveRecords ==
    ASSUME TypeOK, VoteRecords, NEW n \in Node, NEW m \in msgs, Receive(n, m)
    PROVE  VoteRecords'
<1>1. /\ agenda' = [agenda EXCEPT ![n] = Dispatches(m)]
      /\ acts' = acts /\ disk' = disk
  BY DEF Receive, unparking, durable
<1>2. Dispatches(m) \in Seq(CallItem)
  BY DispatchesType DEF TypeOK
<1> QED
  BY <1>1, <1>2, FreshAgenda

LEMMA OnTimeoutRecords ==
    ASSUME TypeOK, VoteRecords, NEW n \in Node, OnTimeout(n)
    PROVE  VoteRecords'
<1>1. PICK kept \in SUBSET TimeoutMsg :
              /\ kept # {}
              /\ disk' = [disk EXCEPT ![n].timeout = kept]
              /\ agenda' = [agenda EXCEPT
                               ![n] = <<Recv(CHOOSE m \in kept : TRUE)>>]
  BY OnTimeoutMessages
<1>2. (CHOOSE m \in kept : TRUE) \in Message
  BY <1>1 DEF Message
<1>3. <<Recv(CHOOSE m \in kept : TRUE)>> \in Seq(CallItem)
  BY <1>2, CallItemTypes
<1>4. acts' = acts /\ \A o \in Node \ {n} : disk'[o] = disk[o]
  BY <1>1, DiskType DEF OnTimeout, unparking
<1> QED
  BY <1>1, <1>3, <1>4, FreshAgenda

LEMMA ReceiveBlockRecords ==
    ASSUME TypeOK, VoteRecords, NEW n \in Node, NEW b, ReceiveBlock(n, b)
    PROVE  VoteRecords'
<1>1. /\ ~Busy(n) /\ agenda' = [agenda EXCEPT ![n] = <<Advance(pmView[n])>>]
      /\ acts' = acts /\ disk' = disk
  BY DEF ReceiveBlock, unparking, durable
<1>2. pmView[n] \in NextViews
  <2>1. pmView[n] # 0 /\ pmView[n] \in 0 .. MaxView + 1
    BY <1>1, Booted DEF TypeOK
  <2> QED
    BY <2>1, ConstantsOK DEF NextViews
<1>3. <<Advance(pmView[n])>> \in Seq(CallItem)
  BY <1>2, CallItemTypes
<1> QED
  BY <1>1, <1>3, FreshAgenda

LEMMA BlockSyncRetryTickRecords ==
    ASSUME TypeOK, VoteRecords, NEW n \in Node, NEW D, BlockSyncRetryTick(n, D)
    PROVE  VoteRecords'
  BY DEF BlockSyncRetryTick, unparking, durable, VoteRecords, AllUnwritten,
         Unwritten, Written, VoteSend, Busy, Rest

LEMMA ReleaseStashRecords ==
    ASSUME TypeOK, VoteRecords, NEW n \in Node, ReleaseStash(n)
    PROVE  VoteRecords'
<1>1. PICK m \in stash[n] : BroadcastMsg(n, m, <<>>)
  BY DEF ReleaseStash
<1>2. acts' = acts /\ disk' = disk
  BY DEF ReleaseStash, unparking, durable
<1>3. <<>> \in Seq(Item) /\ AllUnwritten(n, <<>>)
  BY DEF AllUnwritten
<1> QED
  BY <1>1, <1>2, <1>3, BroadcastMsgRecords

LEMMA RestartRecords ==
    ASSUME TypeOK, VoteRecords, NEW n \in Node, Restart(n)
    PROVE  VoteRecords'
<1> DEFINE v == IF ViewOf(disk[n].highQc) > disk[n].voted
                THEN ViewOf(disk[n].highQc) ELSE disk[n].voted
<1>1. v \in 0 .. MaxView
  BY DiskType, ViewOfType
<1>2. /\ agenda' = [agenda EXCEPT ![n] = <<Cert(v)>>]
      /\ acts' = [acts EXCEPT ![n] = <<>>] /\ disk' = disk
  BY DEF Restart, durable
<1> HIDE DEF v
<1>3. <<Cert(v)>> \in Seq(CallItem)
  BY <1>1, CallItemTypes
<1> QED
  BY <1>2, <1>3, FreshAgenda

LEMMA NextRecords == TypeOK /\ VoteRecords /\ [Next]_vars => VoteRecords'
<1> SUFFICES ASSUME TypeOK, VoteRecords, [Next]_vars
             PROVE  VoteRecords'
  OBVIOUS
<1>1. CASE UNCHANGED vars
  BY <1>1 DEF vars, unparking, durable, VoteRecords, AllUnwritten, Unwritten,
              Written, VoteSend, Busy, Rest
<1>2. ASSUME NEW n \in Node, Work(n)
      PROVE  VoteRecords'
  BY <1>2, HandleProposalRecords, ReturningRecords, HandleVoteRecords,
     HandleNewViewRecords, HandleTimeoutRecords, TimeoutCertFormedRecords,
     OnCertRecords, OnRoundSyncRecords, OnPacemakerAdvanceRecords,
     UnparkOneRecords, FinishAdvanceRecords, BecomeLeaderRecords,
     PersistUpdatesRecords, BroadcastRecords, DrainLoopbackRecords,
     BuildProposalRecords, CommitToAppRecords, ApplyCommitRecords
  DEF Work
<1>3. ASSUME NEW n \in Node, Event(n)
      PROVE  VoteRecords'
  BY <1>3, ReceiveRecords, OnTimeoutRecords, ReceiveBlockRecords,
     BlockSyncRetryTickRecords, ReleaseStashRecords
  DEF Event
<1>4. ASSUME NEW n \in Node, Restart(n)
      PROVE  VoteRecords'
  BY <1>4, RestartRecords
<1> QED
  BY <1>1, <1>2, <1>3, <1>4 DEF Next

(* Only Broadcast sends a vote: the head of the agenda, its record written. *)
LEMMA NewVoteIsWritten ==
    ASSUME TypeOK, VoteRecords, NEW n \in Node, Work(n) \/ Event(n) \/ Restart(n),
           NEW m \in msgs' \ msgs, m.kind = "vote"
    PROVE  disk[m.from].voted = ViewOf(m.block)
<1>1. Broadcast(n)
  <2>1. ASSUME ReleaseStash(n) PROVE FALSE
    <3>1. PICK s \in stash[n] : BroadcastMsg(n, s, <<>>)
      BY <2>1 DEF ReleaseStash
    <3>2. s.kind = "proposal" /\ msgs' = msgs \cup {s}
      BY <3>1 DEF BroadcastMsg, TypeOK, ProposalMsg
    <3> QED
      BY <3>2
  <2>2. ASSUME OnTimeout(n) PROVE FALSE
    <3>1. PICK kept \in SUBSET TimeoutMsg : msgs' = msgs \cup kept
      BY <2>2, OnTimeoutMessages
    <3> QED
      BY <3>1 DEF TimeoutMsg
  <2>3. ASSUME HandleTimeout(n) PROVE FALSE
    <3>1. \/ msgs' = msgs
          \/ msgs' = msgs \cup {NewView({Head(agenda[n]).msg.from}, highQc[n])}
      BY <2>3 DEF HandleTimeout
    <3> QED
      BY <3>1 DEF NewView
  <2>4. msgs' # msgs
    OBVIOUS
  <2>5. CASE Work(n)
    BY <2>3, <2>4, <2>5
    DEF Work, HandleProposal, RejectProposal, HandleVote, HandleNewView,
        TimeoutCertFormed, OnCert, OnRoundSync, OnPacemakerAdvance, UnparkOne,
        FinishAdvance, BecomeLeader, PersistUpdates, SuppressVote,
        StashProposal, DrainLoopback, BuildProposal, BuildFails, CommitToApp,
        CommitFails, ApplyCommit
  <2>6. CASE Event(n) \/ Restart(n)
    BY <2>1, <2>2, <2>4, <2>6
    DEF Event, Receive, ReceiveBlock, BlockSyncRetryTick, Restart
  <2> QED
    BY <2>5, <2>6
<1>2. /\ Busy(n) /\ Head(agenda[n]).op = "send" /\ Head(agenda[n]).pre = NoBatch
      /\ msgs' = msgs \cup {Head(agenda[n]).msg}
  BY <1>1 DEF Broadcast, Flushed, Doing, BroadcastMsg
<1>3. m = Head(agenda[n]).msg
  BY <1>2
<1>4. VoteSend(Head(agenda[n])) /\ ~Unwritten(n, Head(agenda[n]))
  BY <1>2, <1>3 DEF VoteSend, Unwritten, NoBatch
<1>5. ~AllUnwritten(n, agenda[n])
  <2>1. agenda[n] \in Seq(Item) /\ agenda[n] # <<>>
    BY <1>2 DEF TypeOK, Busy
  <2>2. 1 \in 1 .. Len(agenda[n]) /\ Head(agenda[n]) = agenda[n][1]
    BY <2>1, HeadTailProperties
  <2> QED
    BY <1>4, <2>2 DEF AllUnwritten
<1>6. Written(n, Head(agenda[n]))
  BY <1>5 DEF VoteRecords
<1> QED
  BY <1>3, <1>6 DEF Written

(* Persist before send, for any number of validators, weights, views, crashes
   and messages lost, repeated or reordered: whenever a vote leaves a node,
   the durable last_voted_view of that node is the view of the vote.  The
   interpreter's buffering of state updates (persist_buf) never lets a vote
   overtake its own record, whatever calls are nested in between. *)
THEOREM VotesPersistedFirst == Spec => PersistBeforeSend
<1> DEFINE Inv == TypeOK /\ VoteRecords
<1>1. Init => Inv
  BY InitType, InitRecords
<1>2. Inv /\ [Next]_vars => Inv'
  BY NextType, NextRecords
<1>3. Inv /\ [Next]_vars =>
        [\A m \in msgs' \ msgs :
            m.kind = "vote" => disk[m.from].voted = ViewOf(m.block)]_vars
  BY NewVoteIsWritten DEF Next
<1> HIDE DEF Inv
<1> QED
  BY <1>1, <1>2, <1>3, PTL DEF Spec, PersistBeforeSend

-----------------------------------------------------------------------------
(* Certificates.  A block certified in a view excludes every other one, as
   two quorums share a voter who would have voted twice. *)

LEMMA ViewZero ==
    ASSUME NEW b \in Block, ViewOf(b) = 0
    PROVE  b = Genesis
<1> SUFFICES ASSUME b # Genesis
             PROVE  FALSE
  OBVIOUS
<1>1. Len(b) \in 1 .. Len(b)
  BY DEF Block, Genesis
<1>2. b[Len(b)] \in Header
  BY <1>1 DEF Block
<1>3. b[Len(b)].view \in View
  BY <1>2 DEF Header
<1> QED
  BY <1>3, ConstantsOK DEF ViewOf, View

(* Unique certificates, for any weights: as long as no node has voted twice
   in a view, at most one block is certified in a view (has_quorum with the
   thresholds of the validator set). *)
THEOREM CertificatesUnique == TypeOK /\ OneVotePerView => CertifiedUnique
<1> SUFFICES ASSUME TypeOK, OneVotePerView,
                    NEW b \in Certified, NEW c \in Certified, ViewOf(b) = ViewOf(c)
             PROVE  b = c
  BY DEF CertifiedUnique
<1>1. \A m \in VotesSent : m \in VoteMsg /\ m.from \in Node /\ m.block \in Block
  BY MessageFields DEF VotesSent, TypeOK
<1>2. b \in Block /\ c \in Block
  BY <1>1, GenesisType DEF Certified
<1>3. CASE b = Genesis \/ c = Genesis
  BY <1>2, <1>3, ViewZero DEF ViewOf
<1>4. CASE b # Genesis /\ c # Genesis
  <2> DEFINE S == SignersOf(VotesSent, b)
             T == SignersOf(VotesSent, c)
  <2>1. HasQuorum(S) /\ HasQuorum(T)
    BY <1>4 DEF Certified
  <2>2. S \in SUBSET Node /\ T \in SUBSET Node
    BY <1>1 DEF SignersOf
  <2> HIDE DEF S, T
  <2>3. S \cap T # {}
    BY <2>1, <2>2, QuorumsIntersect
  <2>4. PICK n : n \in S /\ n \in T
    BY <2>3
  <2>5. PICK x \in VotesSent : x.from = n /\ x.block = b
    BY <2>4 DEF S, SignersOf
  <2>6. PICK y \in VotesSent : y.from = n /\ y.block = c
    BY <2>4 DEF T, SignersOf
  <2> QED
    BY <2>5, <2>6 DEF OneVotePerView
<1> QED
  BY <1>3, <1>4

-----------------------------------------------------------------------------
(***************************************************************************)
(* Certificates, the record of the last commit and equivocation.           *)
(***************************************************************************)
(* What messages, batches and work items may carry, given the messages M that
   were sent, the certified blocks C and the blocks E a node's application was given.  A
   block is justified if the certificate it carries, its parent's, is
   genuine. *)
Justified(C) == {b \in Block : Parent(b) \in C}

MsgBacked(C, m) ==
    IF m.kind \in {"newview", "timeout"} THEN m.block \in C
    ELSE m.block \in Justified(C)

BatchBacked(C, pre) == pre.highQc \in C /\ pre.locked \in C

SoundItem(M, C, E) ==
    {it \in Item :
        /\ it.op \in {"recv", "send"} => MsgBacked(C, it.msg)
        /\ it.op = "recv" /\ it.msg.kind = "vote" => it.msg \in M
        /\ it.op \in {"send", "build", "commit", "flush"} => BatchBacked(C, it.pre)
        /\ it.op \in {"build", "formed"} => it.block \in C
        /\ it.op \in {"commit", "apply"} => it.block \in Justified(C)
        /\ it.op = "apply" => it.block \in E}

Sound(n) == SoundItem(msgs, Certified, Presented(n))

(* The inductive invariant: all that a node keeps, in memory and on disk, and
   all that is on the wire, is sound. *)
WorkSound(n) ==
    /\ agenda[n] \in Seq(Sound(n))
    /\ acts[n] \in Seq(Sound(n))
    /\ loopback[n] \in Seq(Sound(n))

HeldSound(n) ==
    /\ highQc[n] \in Certified /\ locked[n] \in Certified
    /\ disk[n].highQc \in Certified /\ disk[n].locked \in Certified

TreeSound(n) ==
    /\ pending[n] \subseteq Justified(Certified)
    /\ parked[n] \subseteq Justified(Certified)
    /\ ready[n] \subseteq Justified(Certified)
    /\ disk[n].blocks \subseteq Justified(Certified)

BucketSound(n) ==
    /\ votes[n] \subseteq msgs
    /\ \A m \in timeouts[n] : MsgBacked(Certified, m)
    /\ \A m \in disk[n].timeout : MsgBacked(Certified, m)
    /\ \A m \in stash[n] : MsgBacked(Certified, m)

RecordSound(n) ==
    disk[n].committed.block # Genesis => disk[n].committed.block \in Presented(n)

NodeSound(n) ==
    WorkSound(n) /\ HeldSound(n) /\ TreeSound(n) /\ BucketSound(n) /\ RecordSound(n)

WireSound == \A m \in msgs : MsgBacked(Certified, m)

SafetyInv == WireSound /\ \A n \in Node : NodeSound(n)

-----------------------------------------------------------------------------
(* Blocks and certificates. *)

LEMMA ParentOfAppend ==
    ASSUME NEW b \in Block, NEW h \in Header
    PROVE  Append(b, h) \in Block /\ Parent(Append(b, h)) = b
<1> DEFINE c == Append(b, h)
<1>1. /\ c \in Seq(Header) /\ Len(c) = Len(b) + 1 /\ Len(b) \in Nat
      /\ \A i \in 1 .. Len(b) : c[i] = b[i]
  BY AppendProperties DEF Block
<1> HIDE DEF c
<1>2. Len(c) - 1 = Len(b)
  BY <1>1
<1>3. /\ SubSeq(c, 1, Len(b)) \in Seq(Header)
      /\ Len(SubSeq(c, 1, Len(b))) = Len(b)
      /\ \A i \in 1 .. Len(b) : SubSeq(c, 1, Len(b))[i] = c[i]
  BY <1>1
<1>4. SubSeq(c, 1, Len(b)) = b
  BY <1>1, <1>3, SeqEqual DEF Block
<1> QED
  BY <1>1, <1>2, <1>4 DEF c, Parent, Ancestor, Block

LEMMA Grandparent ==
    ASSUME NEW b \in Block
    PROVE  Ancestor(b, 2) = Parent(Parent(b))
<1> DEFINE p == SubSeq(b, 1, Len(b) - 1)
           g == SubSeq(b, 1, Len(b) - 2)
<1>1. b \in Seq(Header) /\ Len(b) \in Nat
  BY DEF Block
<1>2. CASE Len(b) <= 1
  <2>1. p = <<>> /\ g = <<>>
    BY <1>1, <1>2
  <2>2. SubSeq(<<>>, 1, Len(<<>>) - 1) = <<>>
    OBVIOUS
  <2> QED
    BY <2>1, <2>2 DEF Parent, Ancestor
<1>3. CASE Len(b) > 1
  <2> DEFINE q == SubSeq(p, 1, Len(p) - 1)
  <2>1. p \in Seq(Header) /\ Len(p) = Len(b) - 1 /\ \A i \in 1 .. Len(p) : p[i] = b[i]
    BY <1>1, <1>3
  <2>2. g \in Seq(Header) /\ Len(g) = Len(b) - 2 /\ \A i \in 1 .. Len(g) : g[i] = b[i]
    <3>1. Len(b) - 2 \in Nat /\ 1 \in Int /\ Len(b) - 2 \in Int
      BY <1>1, <1>3
    <3>2. \A i \in 1 .. Len(b) - 2 : b[i] \in Header
      BY <1>1, <1>3
    <3> DEFINE k == Len(b) - 2
    <3> HIDE DEF k
    <3>3. /\ SubSeq(b, 1, k) \in Seq(Header)
          /\ Len(SubSeq(b, 1, k)) = IF 1 <= k THEN k - 1 + 1 ELSE 0
          /\ \A i \in 1 .. k - 1 + 1 : SubSeq(b, 1, k)[i] = b[1 + i - 1]
      BY <3>1, <3>2, SubSeqProperties DEF k
    <3>4. k \in Nat
      BY <3>1 DEF k
    <3>5. Len(SubSeq(b, 1, k)) = k /\ \A i \in 1 .. k : SubSeq(b, 1, k)[i] = b[i]
      BY <3>3, <3>4
    <3> QED
      BY <3>3, <3>5 DEF k
  <2> HIDE DEF p, g
  <2>3. q \in Seq(Header) /\ Len(q) = Len(b) - 2 /\ \A i \in 1 .. Len(q) : q[i] = p[i]
    <3>1. Len(p) - 1 = Len(b) - 2 /\ Len(b) - 2 \in Nat /\ 1 \in Int /\ Len(p) - 1 \in Int
      BY <1>1, <1>3, <2>1
    <3>2. \A i \in 1 .. Len(p) - 1 : p[i] \in Header
      BY <1>1, <2>1, <3>1
    <3> QED
      BY <1>1, <2>1, <3>1, <3>2, SubSeqProperties
  <2> HIDE DEF q
  <2>4. \A i \in 1 .. Len(q) : q[i] = g[i]
    BY <1>1, <1>3, <2>1, <2>2, <2>3
  <2>5. q = g
    BY <2>2, <2>3, <2>4, SeqEqual
  <2> QED
    BY <2>5 DEF p, g, q, Parent, Ancestor
<1> QED
  BY <1>1, <1>2, <1>3

LEMMA GenesisBacked == Genesis \in Certified /\ Genesis \in Justified(Certified)
<1>1. Parent(Genesis) = Genesis
  <2>1. SubSeq(<<>>, 1, Len(<<>>) - 1) = <<>>
    OBVIOUS
  <2> QED
    BY <2>1 DEF Parent, Ancestor, Genesis
<1>2. Genesis \in Certified
  BY DEF Certified
<1> QED
  BY <1>1, <1>2, GenesisType DEF Justified

(* More signers are a quorum if fewer are. *)
LEMMA QuorumGrows ==
    ASSUME NEW S \in SUBSET Node, NEW T \in SUBSET Node, S \subseteq T, HasQuorum(S)
    PROVE  HasQuorum(T)
<1>1. WeightOf[S] \in Nat /\ WeightOf[T] \in Nat /\ TotalWeight \in Nat
  BY WeightsAdd DEF TotalWeight
<1>2. WeightOf[S] <= WeightOf[T]
  BY WeightMonotone
<1> QED
  BY <1>1, <1>2 DEF HasQuorum

LEMMA VotesTyped ==
    ASSUME TypeOK
    PROVE  \A m \in VotesSent : m \in VoteMsg /\ m.from \in Node /\ m.block \in Block
  BY MessageFields DEF VotesSent, TypeOK

LEMMA CertifiedType == TypeOK => Certified \subseteq Block
  BY VotesTyped, GenesisType DEF Certified

(* Messages are never taken back, so a certified block stays certified. *)
LEMMA CertifiedGrows ==
    ASSUME TypeOK, TypeOK', msgs \subseteq msgs'
    PROVE  Certified \subseteq Certified'
<1> SUFFICES ASSUME NEW b \in Certified, b # Genesis
             PROVE  b \in Certified'
  BY DEF Certified
<1> DEFINE S == SignersOf(VotesSent, b)
           T == SignersOf(VotesSent', b)
<1>1. VotesSent \subseteq VotesSent'
  BY DEF VotesSent
<1>2. HasQuorum(S) /\ \E m \in VotesSent : m.block = b
  BY DEF Certified
<1>3. S \subseteq T /\ S \in SUBSET Node
  BY <1>1, VotesTyped DEF SignersOf
<1>4. T \in SUBSET Node
  <2>1. \A m \in VotesSent' : m.from \in Node
    BY MessageFields DEF VotesSent, TypeOK
  <2> QED
    BY <2>1 DEF SignersOf
<1>5. HasQuorum(T)
  BY <1>2, <1>3, <1>4, QuorumGrows
<1>6. \E m \in VotesSent' : m.block = b
  BY <1>1, <1>2
<1>7. Certified' = {Genesis} \cup {c \in {m.block : m \in VotesSent'} :
                                      HasQuorum(SignersOf(VotesSent', c))}
  BY DEF Certified, HasQuorum, SignersOf, TotalWeight
<1> QED
  BY <1>5, <1>6, <1>7

LEMMA SoundGrows ==
    ASSUME NEW M, NEW C, NEW E, NEW M2, NEW C2, NEW E2,
           M \subseteq M2, C \subseteq C2, E \subseteq E2
    PROVE  /\ Justified(C) \subseteq Justified(C2)
           /\ \A m : MsgBacked(C, m) => MsgBacked(C2, m)
           /\ SoundItem(M, C, E) \subseteq SoundItem(M2, C2, E2)
           /\ Seq(SoundItem(M, C, E)) \subseteq Seq(SoundItem(M2, C2, E2))
<1>1. Justified(C) \subseteq Justified(C2)
  BY DEF Justified
<1>2. \A m : MsgBacked(C, m) => MsgBacked(C2, m)
  BY <1>1 DEF MsgBacked
<1>3. \A pre : BatchBacked(C, pre) => BatchBacked(C2, pre)
  BY DEF BatchBacked
<1>4. SoundItem(M, C, E) \subseteq SoundItem(M2, C2, E2)
  BY <1>1, <1>2, <1>3 DEF SoundItem
<1> QED
  BY <1>1, <1>2, <1>4, SeqMonotonic

-----------------------------------------------------------------------------
(* Sound items, one by one and in sequences. *)

LEMMA SoundCalls ==
    ASSUME NEW M, NEW C, NEW E
    PROVE  /\ \A m \in Message :
                 MsgBacked(C, m) /\ (m.kind = "vote" => m \in M) =>
                    Recv(m) \in SoundItem(M, C, E)
           /\ \A v \in 0 .. MaxView : Cert(v) \in SoundItem(M, C, E)
           /\ \A v \in View : RoundSync(v) \in SoundItem(M, C, E)
           /\ \A v \in View, b \in Block : b \in C => Formed(v, b) \in SoundItem(M, C, E)
           /\ \A v \in NextViews : /\ Advance(v) \in SoundItem(M, C, E)
                                   /\ Unpark(v) \in SoundItem(M, C, E)
                                   /\ Lead(v) \in SoundItem(M, C, E)
           /\ \A b \in Block : b \in Justified(C) /\ b \in E =>
                                  Apply(b) \in SoundItem(M, C, E)
           /\ Drain \in SoundItem(M, C, E)
<1>1. /\ \A m \in Message :
            MsgBacked(C, m) /\ (m.kind = "vote" => m \in M) =>
               Recv(m) \in SoundItem(M, C, E)
  BY CallItemTypes, ItemSequences DEF SoundItem, Recv
<1>2. /\ \A v \in 0 .. MaxView : Cert(v) \in SoundItem(M, C, E)
      /\ \A v \in View : RoundSync(v) \in SoundItem(M, C, E)
  BY CallItemTypes, ItemSequences DEF SoundItem, Cert, RoundSync
<1>3. \A v \in View, b \in Block : b \in C => Formed(v, b) \in SoundItem(M, C, E)
  BY CallItemTypes, ItemSequences DEF SoundItem, Formed
<1>4. \A v \in NextViews : /\ Advance(v) \in SoundItem(M, C, E)
                           /\ Unpark(v) \in SoundItem(M, C, E)
                           /\ Lead(v) \in SoundItem(M, C, E)
  BY CallItemTypes, ItemSequences DEF SoundItem, Advance, Unpark, Lead
<1>5. \A b \in Block : b \in Justified(C) /\ b \in E => Apply(b) \in SoundItem(M, C, E)
  BY CallItemTypes, ItemSequences DEF SoundItem, Apply
<1>6. Drain \in SoundItem(M, C, E)
  BY CallItemTypes, ItemSequences DEF SoundItem, Drain
<1> QED
  BY <1>1, <1>2, <1>3, <1>4, <1>5, <1>6

LEMMA SoundActions ==
    ASSUME NEW M, NEW C, NEW E, Genesis \in C
    PROVE  /\ BatchBacked(C, NoBatch)
           /\ \A m \in Message : MsgBacked(C, m) => Send(m) \in SoundItem(M, C, E)
           /\ \A v \in NextViews, b \in Block : b \in C => Build(v, b) \in SoundItem(M, C, E)
           /\ \A b \in Block : b \in Justified(C) => CommitBlock(b) \in SoundItem(M, C, E)
           /\ \A pre \in Batch : BatchBacked(C, pre) => Flush(pre) \in SoundItem(M, C, E)
<1>1. BatchBacked(C, NoBatch)
  BY DEF BatchBacked, NoBatch
<1>2. \A m \in Message : MsgBacked(C, m) => Send(m) \in SoundItem(M, C, E)
  BY <1>1, ActionItemTypes, ItemSequences DEF SoundItem, Send
<1>3. \A v \in NextViews, b \in Block : b \in C => Build(v, b) \in SoundItem(M, C, E)
  BY <1>1, ActionItemTypes, ItemSequences DEF SoundItem, Build
<1>4. \A b \in Block : b \in Justified(C) => CommitBlock(b) \in SoundItem(M, C, E)
  BY <1>1, ActionItemTypes, ItemSequences DEF SoundItem, CommitBlock
<1>5. \A pre \in Batch : BatchBacked(C, pre) => Flush(pre) \in SoundItem(M, C, E)
  BY <1>1, ActionItemTypes, ItemSequences DEF SoundItem, Flush
<1> QED
  BY <1>1, <1>2, <1>3, <1>4, <1>5

(* An action stays sound when a backed batch is put before it, or written. *)
LEMMA SoundRebatched ==
    ASSUME NEW M, NEW C, NEW E, NEW it \in SoundItem(M, C, E), it \in ActionItem,
           NEW pre \in Batch, BatchBacked(C, pre)
    PROVE  [it EXCEPT !.pre = pre] \in SoundItem(M, C, E)
<1> DEFINE x == [it EXCEPT !.pre = pre]
<1>1. x \in ActionItem /\ x.op = it.op /\ x.pre = pre
  BY DEF ActionItem
<1>2. /\ it.op = "send" => x.msg = it.msg
      /\ it.op \in {"build", "commit"} => x.block = it.block
      /\ it.op \in {"send", "build", "commit", "flush"}
  BY DEF ActionItem
<1> HIDE DEF x
<1>3. x \in SoundItem(M, C, E)
  BY <1>1, <1>2, ItemSequences DEF SoundItem
<1> QED
  BY <1>3 DEF x

LEMMA SoundBuffered ==
    ASSUME NEW M, NEW C, NEW E, NEW pre \in Batch, BatchBacked(C, pre), Genesis \in C,
           NEW s \in Seq(SoundItem(M, C, E)), s \in Seq(ActionItem)
    PROVE  Buffered(pre, s) \in Seq(SoundItem(M, C, E))
<1>1. CASE pre = NoBatch
  BY <1>1 DEF Buffered
<1>2. CASE pre # NoBatch /\ s = <<>>
  <2>1. Flush(pre) \in SoundItem(M, C, E)
    BY SoundActions
  <2> QED
    BY <1>2, <2>1 DEF Buffered
<1>3. CASE pre # NoBatch /\ s # <<>>
  <2>1. /\ Head(s) \in ActionItem /\ Head(s) \in SoundItem(M, C, E)
        /\ Tail(s) \in Seq(SoundItem(M, C, E))
    BY <1>3, HeadTailProperties
  <2>2. [Head(s) EXCEPT !.pre = pre] \in SoundItem(M, C, E)
    BY <2>1, SoundRebatched
  <2>3. <<[Head(s) EXCEPT !.pre = pre]>> \in Seq(SoundItem(M, C, E))
    BY <2>2
  <2> QED
    BY <1>3, <2>1, <2>3, ConcatProperties DEF Buffered
<1> QED
  BY <1>1, <1>2, <1>3

-----------------------------------------------------------------------------
(* What was sound before a step is sound after it. *)
Growth(n) ==
    /\ Sound(n) \subseteq Sound(n)'
    /\ Seq(Sound(n)) \subseteq Seq(Sound(n)')
    /\ Certified \subseteq Certified'
    /\ Justified(Certified) \subseteq Justified(Certified')
    /\ \A m : MsgBacked(Certified, m) => MsgBacked(Certified', m)
    /\ msgs \subseteq msgs'
    /\ Presented(n) \subseteq Presented(n)'

LEMMA SoundNext ==
    ASSUME NEW n
    PROVE  Sound(n)' = SoundItem(msgs', Certified', Presented(n)')
  BY DEF Sound, SoundItem, MsgBacked, BatchBacked, Justified

LEMMA GrowthStep ==
    ASSUME TypeOK, TypeOK', NEW n \in Node,
           msgs \subseteq msgs', Presented(n) \subseteq Presented(n)'
    PROVE  Growth(n)
<1>1. Certified \subseteq Certified'
  BY CertifiedGrows
<1>2. /\ Justified(Certified) \subseteq Justified(Certified')
      /\ \A m : MsgBacked(Certified, m) => MsgBacked(Certified', m)
      /\ SoundItem(msgs, Certified, Presented(n))
            \subseteq SoundItem(msgs', Certified', Presented(n)')
      /\ Seq(SoundItem(msgs, Certified, Presented(n)))
            \subseteq Seq(SoundItem(msgs', Certified', Presented(n)'))
  BY <1>1, SoundGrows
<1> QED
  BY <1>1, <1>2, SoundNext DEF Growth, Sound

(* The parts of the invariant that a step leaves alone. *)
LEMMA KeptParts ==
    ASSUME NEW n \in Node, NodeSound(n), Growth(n)
    PROVE  /\ /\ highQc'[n] = highQc[n] /\ locked'[n] = locked[n]
              /\ disk'[n].highQc = disk[n].highQc /\ disk'[n].locked = disk[n].locked
              => HeldSound(n)'
           /\ /\ pending'[n] = pending[n] /\ parked'[n] = parked[n]
              /\ ready'[n] = ready[n] /\ disk'[n].blocks = disk[n].blocks
              => TreeSound(n)'
           /\ /\ votes'[n] = votes[n] /\ timeouts'[n] = timeouts[n]
              /\ stash'[n] = stash[n] /\ disk'[n].timeout = disk[n].timeout
              => BucketSound(n)'
           /\ disk'[n].committed = disk[n].committed => RecordSound(n)'
           /\ agenda'[n] = agenda[n] /\ acts'[n] = acts[n] /\ loopback'[n] = loopback[n]
              => WorkSound(n)'
<1>1. /\ highQc'[n] = highQc[n] /\ locked'[n] = locked[n]
      /\ disk'[n].highQc = disk[n].highQc /\ disk'[n].locked = disk[n].locked
      => HeldSound(n)'
  BY DEF NodeSound, HeldSound, Growth
<1>2. /\ pending'[n] = pending[n] /\ parked'[n] = parked[n]
      /\ ready'[n] = ready[n] /\ disk'[n].blocks = disk[n].blocks
      => TreeSound(n)'
  BY DEF NodeSound, TreeSound, Growth
<1>3. /\ votes'[n] = votes[n] /\ timeouts'[n] = timeouts[n]
      /\ stash'[n] = stash[n] /\ disk'[n].timeout = disk[n].timeout
      => BucketSound(n)'
  BY DEF NodeSound, BucketSound, Growth
<1>4. disk'[n].committed = disk[n].committed => RecordSound(n)'
  BY DEF NodeSound, RecordSound, Growth
<1>5. agenda'[n] = agenda[n] /\ acts'[n] = acts[n] /\ loopback'[n] = loopback[n]
      => WorkSound(n)'
  BY DEF NodeSound, WorkSound, Growth
<1> QED
  BY <1>1, <1>2, <1>3, <1>4, <1>5

LEMMA HeadSound ==
    ASSUME TypeOK, NEW n \in Node, NodeSound(n), Busy(n)
    PROVE  Head(agenda[n]) \in Sound(n) /\ Rest(n) \in Seq(Sound(n))
<1>1. agenda[n] \in Seq(Sound(n)) /\ agenda[n] # <<>>
  BY DEF NodeSound, WorkSound, Busy
<1> QED
  BY <1>1, HeadTailProperties DEF Rest

LEMMA ContinueSound ==
    ASSUME TypeOK, NEW n \in Node, NodeSound(n), Growth(n), Busy(n),
           NEW s \in Seq(Sound(n)'), Continue(n, s),
           acts'[n] = acts[n], loopback'[n] = loopback[n]
    PROVE  WorkSound(n)'
<1>1. Rest(n) \in Seq(Sound(n)')
  BY HeadSound DEF Growth
<1>2. agenda'[n] = s \o Rest(n)
  BY DEF Continue, TypeOK
<1>3. s \o Rest(n) \in Seq(Sound(n)')
  BY <1>1, ConcatProperties
<1> QED
  BY <1>2, <1>3 DEF NodeSound, WorkSound, Growth

LEMMA ReturnSound ==
    ASSUME TypeOK, NEW n \in Node, NodeSound(n), Growth(n), Busy(n), Return(n),
           acts'[n] = acts[n], loopback'[n] = loopback[n]
    PROVE  WorkSound(n)'
<1>1. Rest(n) \in Seq(Sound(n)')
  BY HeadSound DEF Growth
<1>2. agenda'[n] = Rest(n)
  BY DEF Return, TypeOK
<1> QED
  BY <1>1, <1>2 DEF NodeSound, WorkSound, Growth

-----------------------------------------------------------------------------
(* One lemma per step of a busy node. *)

LEMMA ProposalSound ==
    ASSUME TypeOK, NEW n \in Node, NodeSound(n),
           NEW b \in Block, b \in Justified(Certified)
    PROVE  /\ ProposalActions(n, b) \in Seq(Sound(n))
           /\ Parent(b) \in pending[n] => BatchBacked(Certified, ProposalBatch(n, b))
<1> DEFINE batch == ProposalBatch(n, b)
           send == IF safe_to_vote(n, b) THEN <<Send(Vote(n, b))>> ELSE <<>>
           commit == IF three_chain_commit(n, b)
                     THEN <<CommitBlock(Ancestor(b, 3))>> ELSE <<>>
<1>1. CASE Parent(b) \notin pending[n]
  BY <1>1 DEF ProposalActions
<1>2. CASE Parent(b) \in pending[n]
  <2>1. Genesis \in Certified /\ Parent(b) \in Certified
    BY GenesisBacked DEF Justified
  <2>2. Ancestor(b, 2) \in Certified
    BY <1>2, Grandparent DEF NodeSound, TreeSound, Justified
  <2>3. batch \in Batch /\ BatchBacked(Certified, batch)
    BY <2>1, <2>2, ProposalBatchType DEF ProposalBatch, BatchBacked
  <2>4. Send(Vote(n, b)) \in Sound(n) /\ Send(Vote(n, b)) \in ActionItem
    <3>1. Vote(n, b) \in Message /\ MsgBacked(Certified, Vote(n, b))
      BY MessageTypes DEF Message, MsgBacked, Vote
    <3> QED
      BY <2>1, <3>1, SoundActions, ActionItemTypes DEF Sound
  <2>5. three_chain_commit(n, b) =>
           /\ CommitBlock(Ancestor(b, 3)) \in Sound(n)
           /\ CommitBlock(Ancestor(b, 3)) \in ActionItem
    <3>1. three_chain_commit(n, b) => /\ Ancestor(b, 3) \in Justified(Certified)
                                      /\ Ancestor(b, 3) \in Block
      BY AncestorType DEF three_chain_commit, NodeSound, TreeSound
    <3> QED
      BY <2>1, <3>1, SoundActions, ActionItemTypes DEF Sound
  <2>6. /\ send \in Seq(Sound(n)) /\ send \in Seq(ActionItem)
        /\ commit \in Seq(Sound(n)) /\ commit \in Seq(ActionItem)
    BY <2>4, <2>5
  <2> HIDE DEF batch, send, commit
  <2>7. send \o commit \in Seq(Sound(n)) /\ send \o commit \in Seq(ActionItem)
    BY <2>6, ConcatProperties
  <2>8. Buffered(batch, send \o commit) \in Seq(Sound(n))
    BY <2>1, <2>3, <2>7, SoundBuffered DEF Sound
  <2>9. ProposalActions(n, b) = Buffered(batch, send \o commit)
    BY <1>2 DEF ProposalActions, batch, send, commit
  <2> QED
    BY <2>3, <2>8, <2>9 DEF batch
<1> QED
  BY <1>1, <1>2

LEMMA OnProposalSound ==
    ASSUME TypeOK, NEW n \in Node, NodeSound(n), Growth(n),
           NEW b \in Block, b \in Justified(Certified),
           NEW P, P \subseteq parked[n], NEW I,
           OnProposal(n, b, P, I), disk' = disk, ready'[n] \subseteq ready[n]
    PROVE  HeldSound(n)' /\ TreeSound(n)'
<1>1. CASE Parent(b) \notin pending[n]
  <2>1. /\ parked'[n] = P \cup {b} /\ highQc' = highQc /\ locked' = locked
        /\ pending' = pending
    BY <1>1 DEF OnProposal, core, TypeOK
  <2>2. HeldSound(n)'
    BY <2>1, KeptParts
  <2>3. TreeSound(n)'
    BY <2>1 DEF NodeSound, TreeSound, Growth
  <2> QED
    BY <2>2, <2>3
<1>2. CASE Parent(b) \in pending[n]
  <2> DEFINE batch == ProposalBatch(n, b)
  <2>1. BatchBacked(Certified, batch)
    BY <1>2, ProposalSound
  <2> HIDE DEF batch
  <2>2. /\ parked'[n] = P
        /\ highQc'[n] \in {highQc[n], batch.highQc}
        /\ locked'[n] \in {locked[n], batch.locked}
        /\ pending'[n] \subseteq pending[n] \cup {b}
    BY <1>2 DEF OnProposal, TypeOK, batch
  <2>3. HeldSound(n)'
    BY <2>1, <2>2 DEF NodeSound, HeldSound, Growth, BatchBacked
  <2>4. TreeSound(n)'
    BY <2>2 DEF NodeSound, TreeSound, Growth
  <2> QED
    BY <2>3, <2>4
<1> QED
  BY <1>1, <1>2

LEMMA HandleProposalSound ==
    ASSUME TypeOK, NEW n \in Node, NodeSound(n), Growth(n), HandleProposal(n)
    PROVE  NodeSound(n)'
<1> DEFINE b == Head(agenda[n]).msg.block
<1>1. /\ Busy(n) /\ Head(agenda[n]).op = "recv" /\ Head(agenda[n]).msg.kind = "proposal"
      /\ Continue(n, ProposalActions(n, b)) /\ OnProposal(n, b, parked[n], inflight[n])
      /\ acts' = acts /\ ready' = ready /\ loopback' = loopback /\ stash' = stash
      /\ disk' = disk /\ votes' = votes /\ timeouts' = timeouts
  BY DEF HandleProposal, Receiving, Doing, unparking, durable, buckets, outbox
<1>2. b \in Block
  BY <1>1, AgendaParts, ItemFields, MessageFields
<1>3. b \in Justified(Certified)
  BY <1>1, HeadSound DEF Sound, SoundItem, MsgBacked
<1> HIDE DEF b
<1>4. ProposalActions(n, b) \in Seq(Sound(n)')
  BY <1>2, <1>3, ProposalSound DEF Growth
<1>5. WorkSound(n)'
  BY <1>1, <1>4, ContinueSound
<1>6. HeldSound(n)' /\ TreeSound(n)'
  BY <1>1, <1>2, <1>3, OnProposalSound
<1>7. BucketSound(n)' /\ RecordSound(n)'
  BY <1>1, KeptParts
<1> QED
  BY <1>5, <1>6, <1>7 DEF NodeSound

(* A step that returns and changes nothing else of what the invariant is about. *)
LEMMA ReturningSound ==
    ASSUME TypeOK, NEW n \in Node, NodeSound(n), Growth(n),
           RejectProposal(n) \/ SuppressVote(n) \/ BuildFails(n)
    PROVE  NodeSound(n)'
<1>1. /\ Busy(n) /\ Return(n) /\ acts' = acts /\ ready' = ready
      /\ loopback' = loopback /\ stash' = stash /\ disk' = disk /\ votes' = votes
      /\ timeouts' = timeouts /\ highQc' = highQc /\ locked' = locked
      /\ pending' = pending /\ parked' = parked
  BY DEF RejectProposal, SuppressVote, BuildFails, Receiving, Flushed, Doing,
         unparking, durable, buckets, outbox, core, tree
<1>2. WorkSound(n)'
  BY <1>1, ReturnSound
<1> QED
  BY <1>1, <1>2, KeptParts DEF NodeSound

LEMMA BuildSound ==
    ASSUME TypeOK, NEW n \in Node, NEW v \in NextViews, NEW q \in Block, NEW M, NEW C,
           NEW E, q \in C, Genesis \in C
    PROVE  /\ build_proposal_at_view(n, v, q) \in Seq(SoundItem(M, C, E))
           /\ build_proposal_at_view(n, v, q) \in Seq(ActionItem)
           /\ try_propose_as_leader(n, v, q) \in Seq(SoundItem(M, C, E))
           /\ try_propose_as_leader(n, v, q) \in Seq(ActionItem)
<1>1. Build(v, q) \in SoundItem(M, C, E) /\ Build(v, q) \in ActionItem
  BY SoundActions, ActionItemTypes
<1> QED
  BY <1>1 DEF build_proposal_at_view, try_propose_as_leader

(* A vote that completes a quorum: all votes counted were sent, so the block
   they are for is certified. *)
LEMMA HandleVoteSound ==
    ASSUME TypeOK, NEW n \in Node, NodeSound(n), Growth(n), HandleVote(n)
    PROVE  NodeSound(n)'
<1> DEFINE m == Head(agenda[n]).msg
           b == m.block
           counted == votes[n] \cup {m}
           forms == /\ ~HasQuorum(SignersOf(votes[n], b))
                    /\ HasQuorum(SignersOf(counted, b))
           raises == should_update_high_qc(n, b)
           q == IF raises THEN b ELSE highQc[n]
           pre == [NoBatch EXCEPT !.highQc = IF raises THEN b ELSE @]
           work == Buffered(pre, try_propose_as_leader(n, ViewOf(b) + 1, q))
<1>1. /\ Busy(n) /\ Head(agenda[n]).op = "recv" /\ m.kind = "vote"
      /\ acts' = acts /\ ready' = ready /\ loopback' = loopback /\ stash' = stash
      /\ disk' = disk /\ timeouts' = timeouts /\ locked' = locked
      /\ pending' = pending /\ parked' = parked
  BY DEF HandleVote, Receiving, Doing, unparking, durable, outbox, tree
<1>2. \/ Return(n) /\ votes' = votes /\ highQc' = highQc
      \/ /\ ~forms /\ Continue(n, <<>>)
         /\ votes' = [votes EXCEPT ![n] = counted] /\ highQc' = highQc
      \/ /\ forms /\ Continue(n, work)
         /\ votes' = [votes EXCEPT ![n] = counted]
         /\ highQc' = [highQc EXCEPT ![n] = q]
  BY DEF HandleVote, TypeOK
<1>3. b \in Block /\ m \in VoteMsg /\ highQc[n] \in Block
  BY <1>1, AgendaParts, ItemFields, MessageFields DEF TypeOK
<1>4. m \in msgs /\ votes[n] \subseteq msgs
  BY <1>1, HeadSound DEF Sound, SoundItem, NodeSound, BucketSound
<1>5. counted \subseteq VotesSent
  BY <1>1, <1>4 DEF VotesSent, TypeOK, VoteMsg
<1>6. forms => b \in Certified
  <2>1. /\ SignersOf(counted, b) \in SUBSET Node /\ SignersOf(VotesSent, b) \in SUBSET Node
        /\ SignersOf(counted, b) \subseteq SignersOf(VotesSent, b)
    BY <1>5, VotesTyped DEF SignersOf
  <2>2. forms => HasQuorum(SignersOf(VotesSent, b))
    BY <2>1, QuorumGrows
  <2>3. m \in VotesSent
    BY <1>5
  <2> QED
    BY <2>2, <2>3 DEF Certified
<1>7. Genesis \in Certified /\ highQc[n] \in Certified
  BY GenesisBacked DEF NodeSound, HeldSound
<1>8. forms => work \in Seq(Sound(n)) /\ q \in Certified
  <2>1. ViewOf(b) + 1 \in NextViews
    BY <1>3, ViewOfType, ConstantsOK DEF NextViews
  <2>2. pre \in Batch
    BY <1>3, NoBatchType DEF Batch, NoBatch
  <2>3. forms => q \in Certified /\ q \in Block /\ BatchBacked(Certified, pre)
    BY <1>3, <1>6, <1>7 DEF BatchBacked, NoBatch
  <2> HIDE DEF m, forms, raises, q, pre
  <2>4. forms => /\ try_propose_as_leader(n, ViewOf(b) + 1, q) \in Seq(Sound(n))
                 /\ try_propose_as_leader(n, ViewOf(b) + 1, q) \in Seq(ActionItem)
    BY <1>7, <2>1, <2>3, BuildSound DEF Sound
  <2> QED
    BY <1>7, <2>2, <2>3, <2>4, SoundBuffered DEF Sound
<1> HIDE DEF b, counted, forms, q, work
<1>9. WorkSound(n)'
  <2>1. <<>> \in Seq(Sound(n)')
    OBVIOUS
  <2>2. forms => work \in Seq(Sound(n)')
    BY <1>8 DEF Growth
  <2> QED
    BY <1>1, <1>2, <2>1, <2>2, ReturnSound, ContinueSound
<1>10. BucketSound(n)'
  <2>1. votes'[n] \in {votes[n], counted}
    BY <1>2 DEF TypeOK
  <2>2. votes'[n] \subseteq msgs
    BY <1>4, <2>1 DEF counted
  <2> QED
    BY <1>1, <2>2 DEF NodeSound, BucketSound, Growth
<1>11. HeldSound(n)'
  <2>1. highQc'[n] \in Certified
    BY <1>2, <1>7, <1>8 DEF TypeOK
  <2> QED
    BY <1>1, <2>1 DEF NodeSound, HeldSound, Growth
<1> QED
  BY <1>1, <1>9, <1>10, <1>11, KeptParts DEF NodeSound

LEMMA HandleNewViewSound ==
    ASSUME TypeOK, NEW n \in Node, NodeSound(n), Growth(n), HandleNewView(n)
    PROVE  NodeSound(n)'
<1> DEFINE q == Head(agenda[n]).msg.block
           pre == [NoBatch EXCEPT !.highQc = q]
           work == Buffered(pre, <<>>)
<1>1. /\ Busy(n) /\ Head(agenda[n]).op = "recv" /\ Head(agenda[n]).msg.kind = "newview"
      /\ acts' = acts /\ ready' = ready /\ loopback' = loopback /\ stash' = stash
      /\ disk' = disk /\ votes' = votes /\ timeouts' = timeouts /\ locked' = locked
      /\ pending' = pending /\ parked' = parked
  BY DEF HandleNewView, Receiving, Doing, unparking, durable, outbox, buckets
<1>2. \/ Return(n) /\ highQc' = highQc
      \/ Continue(n, work) /\ highQc' = [highQc EXCEPT ![n] = q]
  BY DEF HandleNewView
<1>3. q \in Block /\ q \in Certified /\ Genesis \in Certified
  BY <1>1, AgendaParts, ItemFields, MessageFields, HeadSound, GenesisBacked
  DEF Sound, SoundItem, MsgBacked
<1>4. pre \in Batch /\ BatchBacked(Certified, pre)
  BY <1>3, NoBatchType DEF Batch, NoBatch, BatchBacked
<1> HIDE DEF q, pre
<1>5. work \in Seq(Sound(n)')
  <2>1. <<>> \in Seq(Sound(n)) /\ <<>> \in Seq(ActionItem)
    OBVIOUS
  <2>2. work \in Seq(Sound(n))
    BY <1>3, <1>4, <2>1, SoundBuffered DEF Sound
  <2> QED
    BY <2>2 DEF Growth
<1> HIDE DEF work
<1>6. WorkSound(n)'
  BY <1>1, <1>2, <1>5, ReturnSound, ContinueSound
<1>7. HeldSound(n)'
  <2>1. highQc'[n] \in {highQc[n], q}
    BY <1>2 DEF TypeOK
  <2> QED
    BY <1>1, <1>3, <2>1 DEF NodeSound, HeldSound, Growth
<1> QED
  BY <1>1, <1>6, <1>7, KeptParts DEF NodeSound

LEMMA BecomeLeaderSound ==
    ASSUME TypeOK, NEW n \in Node, NodeSound(n), Growth(n), BecomeLeader(n)
    PROVE  NodeSound(n)'
<1> DEFINE work == build_proposal_at_view(n, Head(agenda[n]).view, highQc[n])
<1>1. /\ Busy(n) /\ Head(agenda[n]).op = "lead" /\ Continue(n, work)
      /\ acts' = acts /\ ready' = ready /\ loopback' = loopback /\ stash' = stash
      /\ disk' = disk /\ votes' = votes /\ timeouts' = timeouts /\ highQc' = highQc
      /\ locked' = locked /\ pending' = pending /\ parked' = parked
  BY DEF BecomeLeader, Doing, unparking, durable, outbox, buckets, core, tree
<1>2. Head(agenda[n]).view \in NextViews /\ highQc[n] \in Block
  BY <1>1, AgendaParts, ItemFields DEF TypeOK
<1>3. highQc[n] \in Certified /\ Genesis \in Certified
  BY GenesisBacked DEF NodeSound, HeldSound
<1>4. work \in Seq(Sound(n)')
  BY <1>2, <1>3, BuildSound DEF Sound, Growth
<1> HIDE DEF work
<1>5. WorkSound(n)'
  BY <1>1, <1>4, ContinueSound
<1> QED
  BY <1>1, <1>5, KeptParts DEF NodeSound

LEMMA HandleTimeoutSound ==
    ASSUME TypeOK, NEW n \in Node, NodeSound(n), Growth(n), HandleTimeout(n)
    PROVE  NodeSound(n)'
<1> DEFINE m == Head(agenda[n]).msg
           counted == timeouts[n] \cup {m}
           best == BestHighQc(counted, m.view)
           sync == IF /\ WeightAt(timeouts[n], m.view) < HonestyWeightThreshold
                      /\ WeightAt(counted, m.view) >= HonestyWeightThreshold
                   THEN <<RoundSync(m.view)>> ELSE <<>>
           formed == IF WeightAt(counted, m.view) >= QuorumWeightThreshold
                     THEN <<Formed(m.view, best)>>
                     ELSE <<>>
<1>1. /\ Busy(n) /\ Head(agenda[n]).op = "recv" /\ m.kind = "timeout"
      /\ acts' = acts /\ ready' = ready /\ loopback' = loopback /\ stash' = stash
      /\ disk' = disk /\ votes' = votes /\ highQc' = highQc
      /\ locked' = locked /\ pending' = pending /\ parked' = parked
  BY DEF HandleTimeout, Receiving, Doing, unparking, durable, outbox, core, tree
<1>2. m \in TimeoutMsg /\ m.view \in View
  BY <1>1, AgendaParts, ItemFields, MessageFields
<1>3. MsgBacked(Certified, m) /\ \A x \in counted : MsgBacked(Certified, x)
  BY <1>1, HeadSound DEF Sound, SoundItem, NodeSound, BucketSound
<1>4. best \in Block /\ \E x \in counted : best = x.block
  BY <1>2, BestHighQcType DEF TypeOK
<1>5. best \in Certified
  <2>1. \A x \in counted : x.kind = "timeout"
    BY <1>1 DEF TypeOK, TimeoutMsg
  <2> QED
    BY <1>3, <1>4, <2>1 DEF MsgBacked
<1> HIDE DEF best
<1>6. RoundSync(m.view) \in Sound(n)' /\ Formed(m.view, best) \in Sound(n)'
  <2>1. RoundSync(m.view) \in Sound(n) /\ Formed(m.view, best) \in Sound(n)
    BY <1>2, <1>4, <1>5, SoundCalls DEF Sound
  <2> QED
    BY <2>1 DEF Growth
<1>7. sync \in Seq(Sound(n)') /\ formed \in Seq(Sound(n)')
  BY <1>6
<1>8. \/ Return(n) /\ timeouts' = timeouts
      \/ Continue(n, sync \o formed) /\ timeouts' = [timeouts EXCEPT ![n] = counted]
  BY DEF HandleTimeout, best
<1> HIDE DEF sync, formed
<1>9. sync \o formed \in Seq(Sound(n)')
  BY <1>7, ConcatProperties
<1>10. WorkSound(n)'
  BY <1>1, <1>8, <1>9, ReturnSound, ContinueSound
<1>11. BucketSound(n)'
  <2>1. timeouts'[n] \in {timeouts[n], counted}
    BY <1>8 DEF TypeOK
  <2> HIDE DEF counted
  <2>2. \A x \in timeouts'[n] : MsgBacked(Certified, x)
    BY <1>3, <2>1 DEF NodeSound, BucketSound
  <2> QED
    BY <1>1, <2>2 DEF NodeSound, BucketSound, Growth
<1> QED
  BY <1>1, <1>10, <1>11, KeptParts DEF NodeSound

LEMMA TimeoutCertFormedSound ==
    ASSUME TypeOK, NEW n \in Node, NodeSound(n), Growth(n), TimeoutCertFormed(n)
    PROVE  NodeSound(n)'
<1> DEFINE v == Head(agenda[n]).view
           q == Head(agenda[n]).block
           work == <<Recv(NewView({n}, q)), Cert(v)>>
<1>1. /\ Busy(n) /\ Head(agenda[n]).op = "formed" /\ Continue(n, work)
      /\ timeouts' = [timeouts EXCEPT ![n] = {m \in @ : m.view > v}]
      /\ acts' = acts /\ ready' = ready /\ loopback' = loopback /\ stash' = stash
      /\ disk' = disk /\ votes' = votes /\ highQc' = highQc
      /\ locked' = locked /\ pending' = pending /\ parked' = parked
  BY DEF TimeoutCertFormed, Doing, unparking, durable, outbox, core, tree
<1>2. v \in 0 .. MaxView /\ q \in Block
  BY <1>1, AgendaParts, ItemFields, ConstantsOK DEF View
<1>3. q \in Certified
  BY <1>1, HeadSound DEF Sound, SoundItem
<1>4. NewView({n}, q) \in Message /\ MsgBacked(Certified, NewView({n}, q))
  BY <1>2, <1>3, MessageTypes DEF Message, MsgBacked, NewView
<1>5. Recv(NewView({n}, q)) \in Sound(n)' /\ Cert(v) \in Sound(n)'
  <2>1. NewView({n}, q).kind # "vote"
    BY DEF NewView
  <2>2. Recv(NewView({n}, q)) \in Sound(n) /\ Cert(v) \in Sound(n)
    BY <1>2, <1>4, <2>1, SoundCalls DEF Sound
  <2> QED
    BY <2>2 DEF Growth
<1>6. work \in Seq(Sound(n)')
  BY <1>5
<1> HIDE DEF work
<1>7. WorkSound(n)'
  BY <1>1, <1>6, ContinueSound
<1>8. BucketSound(n)'
  <2>1. timeouts'[n] \subseteq timeouts[n]
    BY <1>1 DEF TypeOK
  <2> QED
    BY <1>1, <2>1 DEF NodeSound, BucketSound, Growth
<1> QED
  BY <1>1, <1>7, <1>8, KeptParts DEF NodeSound

LEMMA EnterSound ==
    ASSUME TypeOK, NEW n \in Node, NodeSound(n), Growth(n), Busy(n),
           NEW v \in NextViews, Enter(n, v), acts'[n] = acts[n],
           loopback'[n] = loopback[n]
    PROVE  WorkSound(n)'
<1> DEFINE work == <<Advance(v)>> \o
                      (IF Accumulator[v] = n THEN <<Lead(v)>> ELSE <<>>)
<1>1. Advance(v) \in Sound(n)' /\ Lead(v) \in Sound(n)'
  BY SoundCalls DEF Sound, Growth
<1>2. work \in Seq(Sound(n)')
  BY <1>1
<1>3. Continue(n, work)
  BY DEF Enter
<1> QED
  BY <1>2, <1>3, ContinueSound

LEMMA PacemakerSound ==
    ASSUME TypeOK, NEW n \in Node, NodeSound(n), Growth(n), OnCert(n) \/ OnRoundSync(n)
    PROVE  NodeSound(n)'
<1> DEFINE v == Head(agenda[n]).view
<1>1. /\ Busy(n) /\ Head(agenda[n]).op \in {"cert", "sync"}
      /\ acts' = acts /\ ready' = ready /\ loopback' = loopback /\ stash' = stash
      /\ disk' = disk /\ votes' = votes /\ timeouts' = timeouts /\ highQc' = highQc
      /\ locked' = locked /\ pending' = pending /\ parked' = parked
  BY DEF OnCert, OnRoundSync, Doing, unparking, durable, outbox, buckets, core, tree
<1>2. \/ Return(n)
      \/ Enter(n, v + 1) /\ Head(agenda[n]).op = "cert"
      \/ Enter(n, v) /\ Head(agenda[n]).op = "sync"
  BY DEF OnCert, OnRoundSync, Doing
<1>3. /\ Head(agenda[n]).op = "cert" => v + 1 \in NextViews
      /\ Head(agenda[n]).op = "sync" => v \in NextViews
  BY <1>1, AgendaParts, ItemFields, ConstantsOK DEF View, NextViews
<1>4. WorkSound(n)'
  BY <1>1, <1>2, <1>3, EnterSound, ReturnSound
<1> QED
  BY <1>1, <1>4, KeptParts DEF NodeSound

LEMMA OnPacemakerAdvanceSound ==
    ASSUME TypeOK, NEW n \in Node, NodeSound(n), Growth(n), OnPacemakerAdvance(n)
    PROVE  NodeSound(n)'
<1> DEFINE v == Head(agenda[n]).view
<1>1. /\ Busy(n) /\ Head(agenda[n]).op = "advance" /\ Continue(n, <<Unpark(v)>>)
      /\ votes' = [votes EXCEPT ![n] = {m \in @ : ViewOf(m.block) >= v}]
      /\ acts' = [acts EXCEPT ![n] = <<>>]
      /\ ready' = [ready EXCEPT ![n] = {b \in parked[n] : Parent(b) \in pending[n]}]
      /\ loopback' = loopback /\ stash' = stash
      /\ disk' = disk /\ timeouts' = timeouts /\ highQc' = highQc
      /\ locked' = locked /\ pending' = pending /\ parked' = parked
  BY DEF OnPacemakerAdvance, Doing, durable, outbox, core, tree
<1>2. v \in NextViews
  BY <1>1, AgendaParts, ItemFields
<1>3. /\ votes'[n] \subseteq votes[n] /\ ready'[n] \subseteq parked[n]
      /\ acts'[n] = <<>> /\ agenda'[n] = <<Unpark(v)>> \o Rest(n)
  BY <1>1 DEF TypeOK, Continue
<1>4. agenda'[n] \in Seq(Sound(n)) /\ acts'[n] \in Seq(Sound(n))
  <2>1. <<Unpark(v)>> \in Seq(Sound(n)) /\ <<>> \in Seq(Sound(n))
    BY <1>2, SoundCalls DEF Sound
  <2>2. Rest(n) \in Seq(Sound(n))
    BY <1>1, HeadSound
  <2>3. <<Unpark(v)>> \o Rest(n) \in Seq(Sound(n))
    BY <2>1, <2>2, ConcatProperties
  <2> QED
    BY <1>3, <2>1, <2>3
<1>5. WorkSound(n)'
  BY <1>1, <1>4 DEF NodeSound, WorkSound, Growth
<1>6. TreeSound(n)'
  BY <1>1, <1>3 DEF NodeSound, TreeSound, Growth
<1>7. BucketSound(n)'
  BY <1>1, <1>3 DEF NodeSound, BucketSound, Growth
<1> QED
  BY <1>1, <1>5, <1>6, <1>7, KeptParts DEF NodeSound

LEMMA UnparkOneSound ==
    ASSUME TypeOK, NEW n \in Node, NodeSound(n), Growth(n), NEW b \in ready[n],
           UnparkOne(n, b)
    PROVE  NodeSound(n)'
<1> DEFINE s == ProposalActions(n, b)
<1>1. /\ OnProposal(n, b, parked[n] \ {b}, inflight[n] \ {Parent(b)})
      /\ agenda' = agenda /\ acts' = [acts EXCEPT ![n] = acts[n] \o s]
      /\ ready' = [ready EXCEPT ![n] = @ \ {b}]
      /\ loopback' = loopback /\ stash' = stash
      /\ disk' = disk /\ votes' = votes /\ timeouts' = timeouts
  BY DEF UnparkOne, durable, outbox, buckets
<1>2. b \in Block /\ b \in Justified(Certified)
  BY DEF TypeOK, NodeSound, TreeSound
<1>3. s \in Seq(Sound(n)) /\ acts[n] \in Seq(Sound(n))
  BY <1>2, ProposalSound DEF NodeSound, WorkSound
<1> HIDE DEF s
<1>4. acts[n] \o s \in Seq(Sound(n))
  BY <1>3, ConcatProperties
<1>5. acts'[n] = acts[n] \o s /\ ready'[n] \subseteq ready[n]
  BY <1>1 DEF TypeOK
<1>6. WorkSound(n)'
  BY <1>1, <1>4, <1>5 DEF NodeSound, WorkSound, Growth
<1>7. parked[n] \ {b} \subseteq parked[n]
  OBVIOUS
<1>8. HeldSound(n)' /\ TreeSound(n)'
  BY <1>1, <1>2, <1>5, <1>7, OnProposalSound
<1> QED
  BY <1>1, <1>6, <1>8, KeptParts DEF NodeSound

LEMMA FinishAdvanceSound ==
    ASSUME TypeOK, NEW n \in Node, NodeSound(n), Growth(n), NEW D, FinishAdvance(n, D)
    PROVE  NodeSound(n)'
<1> DEFINE v == Head(agenda[n]).view
           news == <<Send(NewView(Node, highQc[n]))>>
           build == try_propose_as_leader(n, v, highQc[n])
           work == acts[n] \o news \o build
<1>1. /\ Busy(n) /\ Head(agenda[n]).op = "unpark"
      /\ agenda' = [agenda EXCEPT ![n] = work \o Rest(n)]
      /\ acts' = [acts EXCEPT ![n] = <<>>]
      /\ parked' = [parked EXCEPT ![n] = {b \in @ : Parent(b) \notin D}]
      /\ ready' = ready /\ loopback' = loopback /\ stash' = stash
      /\ disk' = disk /\ votes' = votes /\ timeouts' = timeouts /\ highQc' = highQc
      /\ locked' = locked /\ pending' = pending
  BY DEF FinishAdvance, DropParked, Doing, durable, Continue, outbox, buckets, core
<1>2. /\ v \in NextViews /\ highQc[n] \in Block
      /\ highQc[n] \in Certified /\ Genesis \in Certified
  BY <1>1, AgendaParts, ItemFields, GenesisBacked DEF TypeOK, NodeSound, HeldSound
<1>3. Send(NewView(Node, highQc[n])) \in Sound(n)
  <2>1. /\ NewView(Node, highQc[n]) \in Message
        /\ MsgBacked(Certified, NewView(Node, highQc[n]))
    BY <1>2, MessageTypes DEF Message, MsgBacked, NewView
  <2> QED
    BY <1>2, <2>1, SoundActions DEF Sound
<1>4. news \in Seq(Sound(n))
  BY <1>3
<1>5. build \in Seq(Sound(n)) /\ acts[n] \in Seq(Sound(n)) /\ Rest(n) \in Seq(Sound(n))
  BY <1>1, <1>2, BuildSound, HeadSound DEF Sound, NodeSound, WorkSound
<1> HIDE DEF news, build
<1>6. work \in Seq(Sound(n))
  BY <1>4, <1>5, ConcatProperties
<1> HIDE DEF work
<1>7. work \o Rest(n) \in Seq(Sound(n)) /\ <<>> \in Seq(Sound(n))
  BY <1>5, <1>6, ConcatProperties
<1>8. agenda'[n] = work \o Rest(n) /\ acts'[n] = <<>> /\ parked'[n] \subseteq parked[n]
  BY <1>1 DEF TypeOK
<1>9. WorkSound(n)'
  BY <1>1, <1>7, <1>8 DEF NodeSound, WorkSound, Growth
<1>10. TreeSound(n)'
  BY <1>1, <1>8 DEF NodeSound, TreeSound, Growth
<1> QED
  BY <1>1, <1>9, <1>10, KeptParts DEF NodeSound

(* What is written is the batch an action carries, with blocks at hand. *)
LEMMA PersistUpdatesSound ==
    ASSUME TypeOK, NEW n \in Node, NodeSound(n), Growth(n), PersistUpdates(n)
    PROVE  NodeSound(n)'
<1> DEFINE it == Head(agenda[n])
           done == [it EXCEPT !.pre = NoBatch]
<1>1. /\ Busy(n) /\ it.op \in {"send", "build", "commit", "flush"}
      /\ it.pre # NoBatch /\ disk' = [disk EXCEPT ![n] = Persisted(n, it.pre)]
      /\ acts' = acts /\ ready' = ready /\ loopback' = loopback /\ stash' = stash
      /\ votes' = votes /\ timeouts' = timeouts /\ highQc' = highQc
      /\ locked' = locked /\ pending' = pending /\ parked' = parked
  BY DEF PersistUpdates, InAction, Doing, unparking, outbox, buckets, core, tree
<1>2. it \in ActionItem /\ it.pre \in Batch /\ BatchBacked(Certified, it.pre)
  BY <1>1, AgendaParts, ItemFields, HeadSound DEF Sound, SoundItem
<1>3. it \in Sound(n) /\ Rest(n) \in Seq(Sound(n)) /\ Genesis \in Certified
  BY <1>1, HeadSound, GenesisBacked
<1>4. agenda' = [agenda EXCEPT ![n] =
          IF it.op = "flush" THEN Rest(n) ELSE <<done>> \o Rest(n)]
  BY DEF PersistUpdates, TypeOK, Rest
<1>5. agenda'[n] \in {Rest(n), <<done>> \o Rest(n)}
  BY <1>4 DEF TypeOK
<1>6. disk'[n] = Persisted(n, it.pre) /\ disk[n] \in DiskRecord
  BY <1>1, DiskType
<1> HIDE DEF it
<1>7. done \in Sound(n)
  BY <1>2, <1>3, NoBatchType, SoundActions, SoundRebatched DEF Sound
<1> HIDE DEF done
<1>8. agenda'[n] \in Seq(Sound(n))
  <2>1. <<done>> \in Seq(Sound(n))
    BY <1>7
  <2> QED
    BY <1>3, <1>5, <2>1, ConcatProperties
<1>9. WorkSound(n)'
  BY <1>1, <1>8 DEF NodeSound, WorkSound, Growth
<1>10. /\ disk'[n].highQc \in {disk[n].highQc, it.pre.highQc}
       /\ disk'[n].locked \in {disk[n].locked, it.pre.locked}
       /\ disk'[n].blocks \subseteq disk[n].blocks \cup pending[n]
       /\ disk'[n].timeout = disk[n].timeout
       /\ disk'[n].committed = disk[n].committed
  BY <1>6 DEF Persisted, DiskRecord
<1>11. HeldSound(n)'
  BY <1>1, <1>2, <1>10 DEF NodeSound, HeldSound, Growth, BatchBacked
<1>12. TreeSound(n)'
  BY <1>1, <1>10 DEF NodeSound, TreeSound, Growth
<1> QED
  BY <1>1, <1>9, <1>10, <1>11, <1>12, KeptParts DEF NodeSound

(* A message that leaves comes back through the loopback; it is on the wire by
   then, so the calls it causes are sound. *)
LEMMA DispatchesSound ==
    ASSUME TypeOK, NEW n \in Node, Growth(n), NEW m \in Message,
           MsgBacked(Certified, m), m.kind = "vote" => m \in msgs'
    PROVE  Dispatches(m) \in Seq(Sound(n)')
<1>1. m.block \in Block /\ Parent(m.block) \in Block
  BY MessageFields, ParentType
<1>2. ViewOf(m.block) \in 0 .. MaxView /\ ViewOf(Parent(m.block)) \in 0 .. MaxView
  BY <1>1, ViewOfType
<1>3. /\ Recv(m) \in Sound(n)'
      /\ Cert(ViewOf(m.block)) \in Sound(n)' /\ Cert(ViewOf(Parent(m.block))) \in Sound(n)'
  <2>1. MsgBacked(Certified', m)
    BY DEF Growth
  <2> QED
    BY <1>2, <2>1, SoundCalls, SoundNext
<1> QED
  BY <1>3 DEF Dispatches

LEMMA BroadcastMsgSound ==
    ASSUME TypeOK, NEW n \in Node, NodeSound(n), Growth(n), NEW m \in Message,
           MsgBacked(Certified, m), NEW rest \in Seq(Sound(n)),
           BroadcastMsg(n, m, rest), acts'[n] = acts[n]
    PROVE  WorkSound(n)'
<1> DEFINE work == IF Draining(n) THEN <<>> ELSE <<Drain>>
<1>1. Drain \in Sound(n)'
  BY SoundCalls, SoundNext
<1>2. work \in Seq(Sound(n)')
  BY <1>1
<1>3. agenda'[n] = work \o rest /\ loopback'[n] = Dispatches(m) \o loopback[n]
      /\ m \in msgs'
  BY DEF BroadcastMsg, TypeOK
<1> HIDE DEF work
<1>4. Dispatches(m) \in Seq(Sound(n)')
  BY <1>3, DispatchesSound
<1>5. rest \in Seq(Sound(n)') /\ loopback[n] \in Seq(Sound(n)') /\ acts[n] \in Seq(Sound(n)')
  BY DEF NodeSound, WorkSound, Growth
<1>6. work \o rest \in Seq(Sound(n)') /\ Dispatches(m) \o loopback[n] \in Seq(Sound(n)')
  BY <1>2, <1>4, <1>5, ConcatProperties
<1> QED
  BY <1>3, <1>5, <1>6 DEF WorkSound

LEMMA BroadcastSound ==
    ASSUME TypeOK, NEW n \in Node, NodeSound(n), Growth(n), Broadcast(n)
    PROVE  NodeSound(n)'
<1>1. /\ Busy(n) /\ Head(agenda[n]).op = "send"
      /\ BroadcastMsg(n, Head(agenda[n]).msg, Rest(n))
      /\ acts' = acts /\ ready' = ready /\ stash' = stash
      /\ disk' = disk /\ votes' = votes /\ timeouts' = timeouts /\ highQc' = highQc
      /\ locked' = locked /\ pending' = pending /\ parked' = parked
  BY DEF Broadcast, Flushed, Doing, unparking, durable, buckets, core, tree
<1>2. Head(agenda[n]).msg \in Message /\ MsgBacked(Certified, Head(agenda[n]).msg)
  BY <1>1, AgendaParts, ItemFields, HeadSound DEF Sound, SoundItem
<1>3. WorkSound(n)'
  BY <1>1, <1>2, HeadSound, BroadcastMsgSound
<1> QED
  BY <1>1, <1>3, KeptParts DEF NodeSound

LEMMA StashProposalSound ==
    ASSUME TypeOK, NEW n \in Node, NodeSound(n), Growth(n), StashProposal(n)
    PROVE  NodeSound(n)'
<1>1. /\ Busy(n) /\ Head(agenda[n]).op = "send" /\ Return(n)
      /\ stash' = [stash EXCEPT ![n] = {Head(agenda[n]).msg}]
      /\ acts' = acts /\ ready' = ready /\ loopback' = loopback
      /\ disk' = disk /\ votes' = votes /\ timeouts' = timeouts /\ highQc' = highQc
      /\ locked' = locked /\ pending' = pending /\ parked' = parked
  BY DEF StashProposal, Flushed, Doing, unparking, durable, buckets, core, tree
<1>2. MsgBacked(Certified, Head(agenda[n]).msg)
  BY <1>1, HeadSound DEF Sound, SoundItem
<1>3. WorkSound(n)'
  BY <1>1, ReturnSound
<1>4. BucketSound(n)'
  <2>1. stash'[n] = {Head(agenda[n]).msg}
    BY <1>1 DEF TypeOK
  <2> QED
    BY <1>1, <1>2, <2>1 DEF NodeSound, BucketSound, Growth
<1> QED
  BY <1>1, <1>3, <1>4, KeptParts DEF NodeSound

LEMMA DrainLoopbackSound ==
    ASSUME TypeOK, NEW n \in Node, NodeSound(n), Growth(n), DrainLoopback(n)
    PROVE  NodeSound(n)'
<1> DEFINE top == <<Head(loopback[n])>>
<1>1. /\ Busy(n)
      /\ acts' = acts /\ ready' = ready /\ stash' = stash
      /\ disk' = disk /\ votes' = votes /\ timeouts' = timeouts /\ highQc' = highQc
      /\ locked' = locked /\ pending' = pending /\ parked' = parked
  BY DEF DrainLoopback, Doing, unparking, durable, buckets, core, tree
<1>2. WorkSound(n)'
  <2>1. CASE loopback[n] = <<>>
    BY <1>1, <2>1, ReturnSound DEF DrainLoopback
  <2>2. CASE loopback[n] # <<>>
    <3>1. agenda'[n] = top \o agenda[n] /\ loopback'[n] = Tail(loopback[n])
      BY <2>2 DEF DrainLoopback, TypeOK
    <3>2. agenda[n] \in Seq(Sound(n)) /\ loopback[n] \in Seq(Sound(n))
      BY DEF NodeSound, WorkSound
    <3>3. Head(loopback[n]) \in Sound(n) /\ Tail(loopback[n]) \in Seq(Sound(n))
      BY <2>2, <3>2, HeadTailProperties
    <3>4. top \in Seq(Sound(n))
      BY <3>3
    <3> HIDE DEF top
    <3>5. top \o agenda[n] \in Seq(Sound(n))
      BY <3>2, <3>4, ConcatProperties
    <3> QED
      BY <1>1, <3>1, <3>3, <3>5 DEF NodeSound, WorkSound, Growth
  <2> QED
    BY <2>1, <2>2
<1> QED
  BY <1>1, <1>2, KeptParts DEF NodeSound

LEMMA BuildProposalSound ==
    ASSUME TypeOK, NEW n \in Node, NodeSound(n), Growth(n), NEW p \in Payload,
           BuildProposal(n, p)
    PROVE  NodeSound(n)'
<1> DEFINE v == Head(agenda[n]).view
           q == Head(agenda[n]).block
           h == [view |-> v, proposer |-> n, payload |-> p]
           b == Append(q, h)
           pre == [NoBatch EXCEPT !.proposed = v]
           send == Send(Proposal(b))
<1>1. /\ Busy(n) /\ Head(agenda[n]).op = "build" /\ v <= MaxView
      /\ Continue(n, Buffered(pre, <<send>>))
      /\ acts' = acts /\ ready' = ready /\ loopback' = loopback /\ stash' = stash
      /\ disk' = disk /\ votes' = votes /\ timeouts' = timeouts /\ highQc' = highQc
      /\ locked' = locked /\ pending' = pending /\ parked' = parked
  BY DEF BuildProposal, Flushed, Doing, unparking, durable, outbox, buckets, tree
<1>2. v \in NextViews /\ q \in Block /\ q \in Certified /\ Genesis \in Certified
  BY <1>1, AgendaParts, ItemFields, HeadSound, GenesisBacked DEF Sound, SoundItem
<1>3. v \in View /\ v \in 0 .. MaxView
  BY <1>1, <1>2, ConstantsOK DEF NextViews, View
<1>4. h \in Header
  BY <1>3 DEF Header
<1>5. pre \in Batch /\ BatchBacked(Certified, pre)
  BY <1>2, <1>3, NoBatchType DEF Batch, NoBatch, BatchBacked
<1> HIDE DEF q, h
<1>6. b \in Block /\ Parent(b) = q
  BY <1>2, <1>4, ParentOfAppend
<1> HIDE DEF b
<1>7. Proposal(b) \in Message /\ MsgBacked(Certified, Proposal(b))
  BY <1>2, <1>6, MessageTypes DEF Message, MsgBacked, Justified, Proposal
<1>8. send \in Sound(n) /\ send \in ActionItem
  BY <1>2, <1>7, SoundActions, ActionItemTypes DEF Sound
<1> HIDE DEF v, pre, send
<1>9. Buffered(pre, <<send>>) \in Seq(Sound(n)')
  <2>1. <<send>> \in Seq(Sound(n)) /\ <<send>> \in Seq(ActionItem)
    BY <1>8
  <2>2. Buffered(pre, <<send>>) \in Seq(Sound(n))
    BY <1>2, <1>5, <2>1, SoundBuffered DEF Sound
  <2> QED
    BY <2>2 DEF Growth
<1>10. WorkSound(n)'
  BY <1>1, <1>9, ContinueSound
<1> QED
  BY <1>1, <1>10, KeptParts DEF NodeSound

LEMMA CommitToAppSound ==
    ASSUME TypeOK, NEW n \in Node, NodeSound(n), Growth(n), CommitToApp(n)
    PROVE  NodeSound(n)'
<1> DEFINE b == Head(agenda[n]).block
<1>1. /\ Busy(n) /\ Head(agenda[n]).op = "commit" /\ Continue(n, <<Apply(b)>>)
      /\ executed' = [executed EXCEPT ![n] = Append(@, b)]
      /\ acts' = acts /\ ready' = ready /\ loopback' = loopback /\ stash' = stash
      /\ disk' = disk /\ votes' = votes /\ timeouts' = timeouts /\ highQc' = highQc
      /\ locked' = locked /\ pending' = pending /\ parked' = parked
  BY DEF CommitToApp, Flushed, Doing, unparking, outbox, buckets, core, tree
<1>2. b \in Block /\ b \in Justified(Certified)
  BY <1>1, AgendaParts, ItemFields, HeadSound DEF Sound, SoundItem
<1> HIDE DEF b
<1>3. b \in Presented(n)'
  <2>1. executed'[n] = Append(executed[n], b) /\ executed[n] \in Seq(Block)
    BY <1>1 DEF TypeOK
  <2>2. /\ Len(executed[n]) + 1 \in DOMAIN executed'[n]
        /\ executed'[n][Len(executed[n]) + 1] = b
    BY <1>2, <2>1, AppendProperties
  <2> QED
    BY <2>2 DEF Presented
<1>4. Apply(b) \in Sound(n)'
  <2>1. b \in Justified(Certified')
    BY <1>2 DEF Growth
  <2> QED
    BY <1>2, <1>3, <2>1, SoundCalls, SoundNext
<1>5. <<Apply(b)>> \in Seq(Sound(n)')
  BY <1>4
<1>6. WorkSound(n)'
  BY <1>1, <1>5, ContinueSound
<1> QED
  BY <1>1, <1>6, KeptParts DEF NodeSound

LEMMA CommitFailsSound ==
    ASSUME TypeOK, NEW n \in Node, NodeSound(n), Growth(n), CommitFails(n)
    PROVE  NodeSound(n)'
<1> DEFINE b == Head(agenda[n]).block
<1>1. /\ Busy(n) /\ Head(agenda[n]).op = "commit" /\ Continue(n, <<Apply(b)>>)
      /\ failed' = [failed EXCEPT ![n] = @ \cup {b}]
      /\ acts' = acts /\ ready' = ready /\ loopback' = loopback /\ stash' = stash
      /\ disk' = disk /\ votes' = votes /\ timeouts' = timeouts /\ highQc' = highQc
      /\ locked' = locked /\ pending' = pending /\ parked' = parked
  BY DEF CommitFails, Flushed, Doing, unparking, outbox, buckets, core, tree
<1>2. b \in Block /\ b \in Justified(Certified)
  BY <1>1, AgendaParts, ItemFields, HeadSound DEF Sound, SoundItem
<1> HIDE DEF b
<1>3. b \in Presented(n)'
  BY <1>1 DEF TypeOK, Presented
<1>4. Apply(b) \in Sound(n)'
  <2>1. b \in Justified(Certified')
    BY <1>2 DEF Growth
  <2> QED
    BY <1>2, <1>3, <2>1, SoundCalls, SoundNext
<1>5. <<Apply(b)>> \in Seq(Sound(n)')
  BY <1>4
<1>6. WorkSound(n)'
  BY <1>1, <1>5, ContinueSound
<1> QED
  BY <1>1, <1>6, KeptParts DEF NodeSound

LEMMA ApplyCommitSound ==
    ASSUME TypeOK, NEW n \in Node, NodeSound(n), Growth(n), ApplyCommit(n)
    PROVE  NodeSound(n)'
<1> DEFINE b == Head(agenda[n]).block
<1>1. /\ Busy(n) /\ Head(agenda[n]).op = "apply" /\ Return(n)
      /\ acts' = acts /\ ready' = ready /\ loopback' = loopback /\ stash' = stash
      /\ votes' = votes /\ timeouts' = timeouts /\ highQc' = highQc
      /\ locked' = locked /\ pending' = pending /\ parked' = parked
  BY DEF ApplyCommit, Doing, unparking, outbox, buckets, core, tree
<1>2. b \in Justified(Certified) /\ b \in Presented(n)
  BY <1>1, HeadSound DEF Sound, SoundItem
<1>3. disk[n] \in DiskRecord
  BY DiskType
<1>4. /\ disk'[n].committed.block = b
      /\ disk'[n].blocks = disk[n].blocks \cup {b}
      /\ disk'[n].highQc = disk[n].highQc /\ disk'[n].locked = disk[n].locked
      /\ disk'[n].timeout = disk[n].timeout
  BY <1>3 DEF ApplyCommit, DiskRecord, TypeOK
<1> HIDE DEF b
<1>5. TreeSound(n)'
  BY <1>1, <1>2, <1>4 DEF NodeSound, TreeSound, Growth
<1>6. RecordSound(n)'
  BY <1>2, <1>4 DEF RecordSound, Growth
<1>7. WorkSound(n)'
  BY <1>1, ReturnSound
<1> QED
  BY <1>1, <1>4, <1>5, <1>6, <1>7, KeptParts DEF NodeSound

-----------------------------------------------------------------------------
(* The events of an idle node, and a crash. *)

LEMMA FreshSound ==
    ASSUME TypeOK, NEW n \in Node, NodeSound(n), Growth(n), NEW w \in Seq(Sound(n)'),
           agenda' = [agenda EXCEPT ![n] = w], acts' = acts, loopback' = loopback
    PROVE  WorkSound(n)'
  BY DEF TypeOK, NodeSound, WorkSound, Growth

LEMMA ReceiveSound ==
    ASSUME TypeOK, WireSound, NEW n \in Node, NodeSound(n), Growth(n),
           NEW m \in msgs, Receive(n, m)
    PROVE  NodeSound(n)'
<1>1. /\ agenda' = [agenda EXCEPT ![n] = Dispatches(m)]
      /\ acts' = acts /\ ready' = ready /\ loopback' = loopback /\ stash' = stash
      /\ disk' = disk /\ votes' = votes /\ timeouts' = timeouts /\ highQc' = highQc
      /\ locked' = locked /\ pending' = pending /\ parked' = parked
  BY DEF Receive, unparking, durable, outbox, buckets, core, tree
<1>2. Dispatches(m) \in Seq(Sound(n)')
  <2>1. m \in Message /\ MsgBacked(Certified, m) /\ m \in msgs'
    BY DEF TypeOK, WireSound, Growth
  <2> QED
    BY <2>1, DispatchesSound
<1>3. WorkSound(n)'
  BY <1>1, <1>2, FreshSound
<1> QED
  BY <1>1, <1>3, KeptParts DEF NodeSound

LEMMA OnTimeoutSound ==
    ASSUME TypeOK, NEW n \in Node, NodeSound(n), Growth(n), OnTimeout(n)
    PROVE  /\ NodeSound(n)'
           /\ \A m \in msgs' \ msgs : MsgBacked(Certified, m)
<1>1. PICK kept \in SUBSET TimeoutMsg :
              /\ kept # {}
              /\ \A m \in kept : m \in disk[n].timeout \/ m.block = highQc[n]
              /\ disk' = [disk EXCEPT ![n].timeout = kept]
              /\ msgs' = msgs \cup kept
              /\ agenda' = [agenda EXCEPT
                               ![n] = <<Recv(CHOOSE m \in kept : TRUE)>>]
  BY OnTimeoutMessages
<1>2. /\ acts' = acts /\ ready' = ready /\ loopback' = loopback /\ stash' = stash
      /\ votes' = votes /\ timeouts' = timeouts /\ highQc' = highQc
      /\ locked' = locked /\ pending' = pending /\ parked' = parked
  BY DEF OnTimeout, unparking, outbox, buckets, core, tree
<1>3. \A m \in kept : MsgBacked(Certified, m)
  <2>1. \A m \in kept : m.kind = "timeout"
    BY DEF TimeoutMsg
  <2> QED
    BY <1>1, <2>1 DEF NodeSound, HeldSound, BucketSound, MsgBacked
<1> DEFINE m == CHOOSE x \in kept : TRUE
<1>4. m \in kept
  BY <1>1
<1> HIDE DEF m
<1>5. m \in Message /\ m.kind = "timeout" /\ MsgBacked(Certified, m)
  BY <1>3, <1>4 DEF Message, TimeoutMsg
<1>6. Recv(m) \in Sound(n)'
  <2>1. Recv(m) \in Sound(n)
    BY <1>5, SoundCalls DEF Sound
  <2> QED
    BY <2>1 DEF Growth
<1>7. WorkSound(n)'
  <2>1. <<Recv(m)>> \in Seq(Sound(n)')
    BY <1>6
  <2>2. agenda' = [agenda EXCEPT ![n] = <<Recv(m)>>]
    BY <1>1 DEF m
  <2> QED
    BY <1>2, <2>1, <2>2, FreshSound
<1>8. /\ disk'[n].timeout = kept /\ disk'[n].highQc = disk[n].highQc
      /\ disk'[n].locked = disk[n].locked /\ disk'[n].blocks = disk[n].blocks
      /\ disk'[n].committed = disk[n].committed
  BY <1>1, DiskType DEF DiskRecord
<1>9. BucketSound(n)'
  BY <1>2, <1>3, <1>8 DEF NodeSound, BucketSound, Growth
<1>10. \A x \in msgs' \ msgs : MsgBacked(Certified, x)
  BY <1>1, <1>3
<1> QED
  BY <1>2, <1>7, <1>8, <1>9, <1>10, KeptParts DEF NodeSound

LEMMA ReceiveBlockSound ==
    ASSUME TypeOK, WireSound, NEW n \in Node, NodeSound(n), Growth(n),
           NEW b \in inflight[n], ReceiveBlock(n, b)
    PROVE  NodeSound(n)'
<1>1. /\ ~Busy(n) /\ agenda' = [agenda EXCEPT ![n] = <<Advance(pmView[n])>>]
      /\ pending' = [pending EXCEPT ![n] = @ \cup {b}]
      /\ acts' = acts /\ ready' = ready /\ loopback' = loopback /\ stash' = stash
      /\ disk' = disk /\ votes' = votes /\ timeouts' = timeouts /\ highQc' = highQc
      /\ locked' = locked /\ parked' = parked
  BY DEF ReceiveBlock, unparking, durable, outbox, buckets, core
<1>2. b \in Justified(Certified)
  <2>1. CASE b = Genesis
    BY <2>1, GenesisBacked
  <2>2. CASE b # Genesis
    <3>1. PICK p \in Node : Vote(p, b) \in msgs
      BY <2>2 DEF ReceiveBlock
    <3>2. MsgBacked(Certified, Vote(p, b))
      BY <3>1 DEF WireSound
    <3> QED
      BY <3>2 DEF MsgBacked, Vote
  <2> QED
    BY <2>1, <2>2
<1>3. pmView[n] \in NextViews
  <2>1. pmView[n] # 0 /\ pmView[n] \in 0 .. MaxView + 1
    BY <1>1, Booted DEF TypeOK
  <2> QED
    BY <2>1, ConstantsOK DEF NextViews
<1>4. <<Advance(pmView[n])>> \in Seq(Sound(n)')
  <2>1. Advance(pmView[n]) \in Sound(n)'
    BY <1>3, SoundCalls, SoundNext
  <2> QED
    BY <2>1
<1>5. WorkSound(n)'
  BY <1>1, <1>4, FreshSound
<1>6. TreeSound(n)'
  <2>1. pending'[n] = pending[n] \cup {b}
    BY <1>1 DEF TypeOK
  <2> QED
    BY <1>1, <1>2, <2>1 DEF NodeSound, TreeSound, Growth
<1> QED
  BY <1>1, <1>5, <1>6, KeptParts DEF NodeSound

LEMMA BlockSyncRetryTickSound ==
    ASSUME TypeOK, NEW n \in Node, NodeSound(n), Growth(n), NEW D,
           BlockSyncRetryTick(n, D)
    PROVE  NodeSound(n)'
<1>1. /\ agenda' = agenda
      /\ parked' = [parked EXCEPT ![n] = {b \in @ : Parent(b) \notin D}]
      /\ acts' = acts /\ ready' = ready /\ loopback' = loopback /\ stash' = stash
      /\ disk' = disk /\ votes' = votes /\ timeouts' = timeouts /\ highQc' = highQc
      /\ locked' = locked /\ pending' = pending
  BY DEF BlockSyncRetryTick, DropParked, unparking, durable, outbox, buckets, core
<1>2. parked'[n] \subseteq parked[n]
  BY <1>1 DEF TypeOK
<1>3. TreeSound(n)'
  BY <1>1, <1>2 DEF NodeSound, TreeSound, Growth
<1> QED
  BY <1>1, <1>3, KeptParts DEF NodeSound

LEMMA ReleaseStashSound ==
    ASSUME TypeOK, NEW n \in Node, NodeSound(n), Growth(n), ReleaseStash(n)
    PROVE  /\ NodeSound(n)'
           /\ \A m \in msgs' \ msgs : MsgBacked(Certified, m)
<1>1. PICK m \in stash[n] : BroadcastMsg(n, m, <<>>)
  BY DEF ReleaseStash
<1>2. /\ stash' = [stash EXCEPT ![n] = {}]
      /\ acts' = acts /\ ready' = ready
      /\ disk' = disk /\ votes' = votes /\ timeouts' = timeouts /\ highQc' = highQc
      /\ locked' = locked /\ pending' = pending /\ parked' = parked
  BY DEF ReleaseStash, unparking, durable, buckets, core, tree
<1>3. m \in Message /\ MsgBacked(Certified, m)
  BY DEF TypeOK, Message, NodeSound, BucketSound
<1>4. <<>> \in Seq(Sound(n))
  OBVIOUS
<1>5. WorkSound(n)'
  BY <1>1, <1>2, <1>3, <1>4, BroadcastMsgSound
<1>6. stash'[n] = {} /\ msgs' = msgs \cup {m}
  BY <1>1, <1>2 DEF TypeOK, BroadcastMsg
<1>7. BucketSound(n)'
  BY <1>2, <1>6 DEF NodeSound, BucketSound, Growth
<1> QED
  BY <1>2, <1>3, <1>5, <1>6, <1>7, KeptParts DEF NodeSound

(* Recovery: certificates and blocks come back from disk, the rest is lost. *)
LEMMA RestartSound ==
    ASSUME TypeOK, NEW n \in Node, NodeSound(n), Growth(n), Restart(n)
    PROVE  NodeSound(n)'
<1> DEFINE v == IF ViewOf(disk[n].highQc) > disk[n].voted
                THEN ViewOf(disk[n].highQc) ELSE disk[n].voted
<1>1. v \in 0 .. MaxView
  BY DiskType, ViewOfType
<1>2. /\ agenda'[n] = <<Cert(v)>> /\ acts'[n] = <<>> /\ loopback'[n] = <<>>
      /\ highQc'[n] = disk[n].highQc /\ locked'[n] = disk[n].locked
      /\ parked'[n] = {} /\ ready'[n] = {} /\ votes'[n] = {} /\ timeouts'[n] = {}
      /\ stash'[n] = {} /\ disk' = disk
      /\ pending'[n] = {Genesis} \cup Rehydrated(n, disk[n].highQc)
                                 \cup Rehydrated(n, disk[n].locked)
  BY DEF Restart, TypeOK, durable
<1> HIDE DEF v
<1>3. WorkSound(n)'
  <2>1. Cert(v) \in Sound(n)'
    BY <1>1, SoundCalls, SoundNext
  <2>2. <<Cert(v)>> \in Seq(Sound(n)') /\ <<>> \in Seq(Sound(n)')
    BY <2>1
  <2> QED
    BY <1>2, <2>2 DEF WorkSound
<1>4. HeldSound(n)'
  BY <1>2 DEF NodeSound, HeldSound, Growth
<1>5. TreeSound(n)'
  <2>1. \A b : Rehydrated(n, b) \subseteq disk[n].blocks \cup {Genesis}
    BY DEF Rehydrated
  <2>2. pending'[n] \subseteq disk[n].blocks \cup {Genesis}
    BY <1>2, <2>1
  <2> QED
    BY <1>2, <2>2, GenesisBacked DEF NodeSound, TreeSound, Growth
<1>6. BucketSound(n)'
  BY <1>2 DEF NodeSound, BucketSound, Growth
<1> QED
  BY <1>2, <1>3, <1>4, <1>5, <1>6, KeptParts DEF NodeSound

LEMMA InitSound == Init => SafetyInv
<1>1. Init => WireSound
  BY DEF Init, WireSound
<1> SUFFICES ASSUME Init, NEW n \in Node
             PROVE  NodeSound(n)
  BY <1>1 DEF SafetyInv
<1>2. TypeOK /\ Genesis \in Certified /\ Genesis \in Justified(Certified)
  BY InitType, GenesisBacked
<1>3. WorkSound(n)
  <2>1. Cert(0) \in Sound(n)
    BY ConstantsOK, SoundCalls DEF Sound
  <2>2. <<Cert(0)>> \in Seq(Sound(n)) /\ <<>> \in Seq(Sound(n))
    BY <2>1
  <2> QED
    BY <2>2 DEF Init, WorkSound
<1>4. /\ disk[n].highQc = Genesis /\ disk[n].locked = Genesis /\ disk[n].blocks = {}
      /\ disk[n].timeout = {} /\ disk[n].committed.block = Genesis
  BY DEF Init, EmptyDisk
<1>5. HeldSound(n) /\ RecordSound(n)
  BY <1>2, <1>4 DEF Init, HeldSound, RecordSound
<1>6. TreeSound(n) /\ BucketSound(n)
  BY <1>2, <1>4 DEF Init, TreeSound, BucketSound
<1> QED
  BY <1>3, <1>5, <1>6 DEF NodeSound

-----------------------------------------------------------------------------
(* A step of node n is local: the state of the other nodes is left alone, and
   messages and executed blocks are never taken back. *)
Same(o) ==
    /\ highQc'[o] = highQc[o] /\ locked'[o] = locked[o]
    /\ lastVoted'[o] = lastVoted[o]
    /\ pending'[o] = pending[o] /\ parked'[o] = parked[o] /\ ready'[o] = ready[o]
    /\ votes'[o] = votes[o] /\ timeouts'[o] = timeouts[o] /\ stash'[o] = stash[o]
    /\ agenda'[o] = agenda[o] /\ acts'[o] = acts[o] /\ loopback'[o] = loopback[o]
    /\ disk'[o] = disk[o] /\ executed'[o] = executed[o] /\ failed'[o] = failed[o]

Step(n) == Work(n) \/ Event(n) \/ Restart(n)

LEMMA CoreIsLocal ==
    ASSUME TypeOK, NEW n \in Node, NEW o \in Node, o # n,
           \/ HandleProposal(n) \/ RejectProposal(n) \/ HandleVote(n)
           \/ HandleNewView(n) \/ BecomeLeader(n)
           \/ \E b \in ready[n] : UnparkOne(n, b)
    PROVE  Same(o)
<1>1. CASE HandleProposal(n)
  BY <1>1 DEF HandleProposal, OnProposal, Continue, Same, TypeOK, core, tree, buckets,
              outbox, unparking, durable
<1>2. CASE RejectProposal(n)
  BY <1>2 DEF RejectProposal, Return, Same, TypeOK, core, tree, buckets, outbox,
              unparking, durable
<1>3. CASE HandleVote(n)
  BY <1>3 DEF HandleVote, Continue, Return, Same, TypeOK, core, tree, buckets, outbox,
              unparking, durable
<1>4. CASE HandleNewView(n)
  BY <1>4 DEF HandleNewView, Continue, Return, Same, TypeOK, core, tree, buckets,
              outbox, unparking, durable
<1>5. CASE BecomeLeader(n)
  BY <1>5 DEF BecomeLeader, Continue, Same, TypeOK, core, tree, buckets, outbox,
              unparking, durable
<1>6. ASSUME NEW b \in ready[n], UnparkOne(n, b)
      PROVE  Same(o)
  BY <1>6 DEF UnparkOne, OnProposal, Same, TypeOK, core, tree, buckets, outbox,
              unparking, durable
<1> QED
  BY <1>1, <1>2, <1>3, <1>4, <1>5, <1>6

LEMMA PacemakerIsLocal ==
    ASSUME TypeOK, NEW n \in Node, NEW o \in Node, o # n,
           \/ HandleTimeout(n) \/ TimeoutCertFormed(n) \/ OnCert(n) \/ OnRoundSync(n)
           \/ OnPacemakerAdvance(n)
           \/ \E D \in SUBSET inflight[n] : FinishAdvance(n, D)
    PROVE  Same(o)
<1>1. CASE HandleTimeout(n)
  BY <1>1 DEF HandleTimeout, Continue, Return, Same, TypeOK, core, tree, buckets,
              outbox, unparking, durable
<1>2. CASE TimeoutCertFormed(n)
  BY <1>2 DEF TimeoutCertFormed, Continue, Same, TypeOK, core, tree, buckets, outbox,
              unparking, durable
<1>3. CASE OnCert(n) \/ OnRoundSync(n)
  BY <1>3 DEF OnCert, OnRoundSync, Enter, Continue, Return, Same, TypeOK, core, tree,
              buckets, outbox, unparking, durable
<1>4. CASE OnPacemakerAdvance(n)
  BY <1>4 DEF OnPacemakerAdvance, Continue, Same, TypeOK, core, tree, buckets, outbox,
              unparking, durable
<1>5. ASSUME NEW D \in SUBSET inflight[n], FinishAdvance(n, D)
      PROVE  Same(o)
  BY <1>5 DEF FinishAdvance, DropParked, Continue, Same, TypeOK, core, tree, buckets,
              outbox, unparking, durable
<1> QED
  BY <1>1, <1>2, <1>3, <1>4, <1>5

LEMMA InterpreterIsLocal ==
    ASSUME TypeOK, NEW n \in Node, NEW o \in Node, o # n,
           \/ PersistUpdates(n) \/ Broadcast(n) \/ SuppressVote(n) \/ StashProposal(n)
           \/ DrainLoopback(n) \/ \E p \in Payload : BuildProposal(n, p)
           \/ BuildFails(n) \/ CommitToApp(n) \/ CommitFails(n) \/ ApplyCommit(n)
    PROVE  Same(o)
<1>1. CASE PersistUpdates(n)
  BY <1>1 DEF PersistUpdates, Same, TypeOK, core, tree, buckets, outbox, unparking,
              durable
<1>2. CASE Broadcast(n)
  BY <1>2 DEF Broadcast, BroadcastMsg, Same, TypeOK, core, tree, buckets, outbox,
              unparking, durable
<1>3. CASE SuppressVote(n) \/ StashProposal(n) \/ BuildFails(n)
  BY <1>3 DEF SuppressVote, StashProposal, BuildFails, Return, Same, TypeOK, core,
              tree, buckets, outbox, unparking, durable
<1>4. CASE DrainLoopback(n)
  BY <1>4 DEF DrainLoopback, Return, Same, TypeOK, core, tree, buckets, outbox,
              unparking, durable
<1>5. ASSUME NEW p \in Payload, BuildProposal(n, p)
      PROVE  Same(o)
  BY <1>5 DEF BuildProposal, Continue, Same, TypeOK, core, tree, buckets, outbox,
              unparking, durable
<1>6. CASE CommitToApp(n)
  BY <1>6 DEF CommitToApp, Continue, Same, TypeOK, core, tree, buckets, outbox,
              unparking, durable
<1>7. CASE ApplyCommit(n)
  BY <1>7 DEF ApplyCommit, Return, Same, TypeOK, core, tree, buckets, outbox,
              unparking, durable
<1>8. CASE CommitFails(n)
  BY <1>8 DEF CommitFails, Continue, Same, TypeOK, core, tree, buckets, outbox,
              unparking, durable
<1> QED
  BY <1>1, <1>2, <1>3, <1>4, <1>5, <1>6, <1>7, <1>8

LEMMA EventIsLocal ==
    ASSUME TypeOK, NEW n \in Node, NEW o \in Node, o # n, Event(n)
    PROVE  Same(o)
<1>1. ASSUME NEW m \in msgs, Receive(n, m)
      PROVE  Same(o)
  BY <1>1 DEF Receive, Same, TypeOK, core, tree, buckets, outbox, unparking, durable
<1>2. CASE OnTimeout(n)
  BY <1>2 DEF OnTimeout, Same, TypeOK, core, tree, buckets, outbox, unparking, durable
<1>3. ASSUME NEW b \in inflight[n], ReceiveBlock(n, b)
      PROVE  Same(o)
  BY <1>3 DEF ReceiveBlock, Same, TypeOK, core, tree, buckets, outbox, unparking,
              durable
<1>4. ASSUME NEW D \in SUBSET inflight[n], BlockSyncRetryTick(n, D)
      PROVE  Same(o)
  BY <1>4 DEF BlockSyncRetryTick, DropParked, Same, TypeOK, core, tree, buckets,
              outbox, unparking, durable
<1>5. CASE ReleaseStash(n)
  BY <1>5 DEF ReleaseStash, BroadcastMsg, Same, TypeOK, core, tree, buckets, outbox,
              unparking, durable
<1> QED
  BY <1>1, <1>2, <1>3, <1>4, <1>5 DEF Event

LEMMA StepIsLocal ==
    ASSUME TypeOK, NEW n \in Node, NEW o \in Node, o # n, Step(n)
    PROVE  Same(o)
<1>1. CASE Work(n)
  BY <1>1, CoreIsLocal, PacemakerIsLocal, InterpreterIsLocal DEF Work
<1>2. CASE Event(n)
  BY <1>2, EventIsLocal
<1>3. CASE Restart(n)
  BY <1>3 DEF Restart, Same, TypeOK, core, tree, buckets, outbox, unparking, durable
<1> QED
  BY <1>1, <1>2, <1>3 DEF Step

(* The actions that send, and the one that executes. *)
Sends(n) == Broadcast(n) \/ HandleTimeout(n) \/ OnTimeout(n) \/ ReleaseStash(n)

LEMMA StepGrows ==
    ASSUME TypeOK, NEW n \in Node, Step(n)
    PROVE  /\ msgs' = msgs \/ Sends(n)
           /\ executed' = executed \/ CommitToApp(n)
           /\ failed' = failed \/ CommitFails(n)
           /\ msgs \subseteq msgs'
           /\ \A o \in Node : Presented(o) \subseteq Presented(o)'
<1>1. msgs' = msgs \/ Sends(n)
  <2>1. CASE Work(n)
    BY <2>1
    DEF Work, Sends, HandleProposal, RejectProposal, HandleVote, HandleNewView,
        TimeoutCertFormed, OnCert, OnRoundSync, OnPacemakerAdvance, UnparkOne,
        FinishAdvance, BecomeLeader, PersistUpdates, SuppressVote,
        StashProposal, DrainLoopback, BuildProposal, BuildFails, CommitToApp,
        CommitFails, ApplyCommit
  <2>2. CASE Event(n) \/ Restart(n)
    BY <2>2 DEF Event, Sends, Receive, ReceiveBlock, BlockSyncRetryTick, Restart
  <2> QED
    BY <2>1, <2>2 DEF Step
<1>2. executed' = executed \/ CommitToApp(n)
  <2>1. CASE Work(n)
    BY <2>1
    DEF Work, HandleProposal, RejectProposal, HandleVote, HandleNewView,
        HandleTimeout, TimeoutCertFormed, OnCert, OnRoundSync, OnPacemakerAdvance,
        UnparkOne, FinishAdvance, BecomeLeader, PersistUpdates, Broadcast,
        SuppressVote, StashProposal, DrainLoopback, BuildProposal, BuildFails,
        CommitFails, ApplyCommit, durable
  <2>2. CASE Event(n) \/ Restart(n)
    BY <2>2 DEF Event, Receive, OnTimeout, ReceiveBlock, BlockSyncRetryTick,
                ReleaseStash, Restart, durable
  <2> QED
    BY <2>1, <2>2 DEF Step
<1>5. failed' = failed \/ CommitFails(n)
  <2>1. CASE Work(n)
    BY <2>1
    DEF Work, HandleProposal, RejectProposal, HandleVote, HandleNewView,
        HandleTimeout, TimeoutCertFormed, OnCert, OnRoundSync, OnPacemakerAdvance,
        UnparkOne, FinishAdvance, BecomeLeader, PersistUpdates, Broadcast,
        SuppressVote, StashProposal, DrainLoopback, BuildProposal, BuildFails,
        CommitToApp, ApplyCommit, durable
  <2>2. CASE Event(n) \/ Restart(n)
    BY <2>2 DEF Event, Receive, OnTimeout, ReceiveBlock, BlockSyncRetryTick,
                ReleaseStash, Restart, durable
  <2> QED
    BY <2>1, <2>2 DEF Step
<1>3. msgs \subseteq msgs'
  BY <1>1 DEF Sends, Broadcast, BroadcastMsg, HandleTimeout, OnTimeout, ReleaseStash
<1>4. ASSUME NEW o \in Node
      PROVE  Presented(o) \subseteq Presented(o)'
  <2>0. failed[o] \subseteq failed'[o]
    BY <1>5 DEF CommitFails, TypeOK
  <2>1. CASE executed' = executed
    BY <2>0, <2>1 DEF Presented
  <2>2. CASE CommitToApp(n) /\ o = n
    <3>1. /\ Busy(n) /\ Head(agenda[n]).op = "commit"
          /\ executed'[n] = Append(executed[n], Head(agenda[n]).block)
      BY <2>2 DEF CommitToApp, Flushed, Doing, TypeOK
    <3>2. Head(agenda[n]).block \in Block /\ executed[n] \in Seq(Block)
      BY <3>1, AgendaParts, ItemFields DEF TypeOK
    <3>3. /\ DOMAIN executed[n] = 1 .. Len(executed[n])
          /\ DOMAIN executed'[n] = 1 .. Len(executed[n]) + 1
          /\ \A i \in DOMAIN executed[n] : executed'[n][i] = executed[n][i]
          /\ Len(executed[n]) \in Nat
      BY <3>1, <3>2, AppendProperties
    <3> QED
      BY <2>0, <2>2, <3>3 DEF Presented
  <2>3. CASE CommitToApp(n) /\ o # n
    BY <2>0, <2>3, StepIsLocal DEF Step, Work, Same, Presented
  <2> QED
    BY <1>2, <2>1, <2>2, <2>3
<1> QED
  BY <1>1, <1>2, <1>3, <1>4, <1>5

-----------------------------------------------------------------------------
LEMMA StepNodeSound ==
    ASSUME TypeOK, WireSound, NEW n \in Node, NodeSound(n), Growth(n), Step(n)
    PROVE  NodeSound(n)'
<1>1. CASE Work(n)
  BY <1>1, HandleProposalSound, ReturningSound, HandleVoteSound, HandleNewViewSound,
     HandleTimeoutSound, TimeoutCertFormedSound, PacemakerSound,
     OnPacemakerAdvanceSound, UnparkOneSound, FinishAdvanceSound, BecomeLeaderSound,
     PersistUpdatesSound, BroadcastSound, StashProposalSound, DrainLoopbackSound,
     BuildProposalSound, CommitToAppSound, CommitFailsSound, ApplyCommitSound
  DEF Work
<1>2. CASE Event(n)
  BY <1>2, ReceiveSound, OnTimeoutSound, ReceiveBlockSound, BlockSyncRetryTickSound,
     ReleaseStashSound
  DEF Event
<1>3. CASE Restart(n)
  BY <1>3, RestartSound
<1> QED
  BY <1>1, <1>2, <1>3 DEF Step

LEMMA NewMessagesBacked ==
    ASSUME TypeOK, NEW n \in Node, NodeSound(n), Growth(n), Step(n),
           NEW m \in msgs' \ msgs
    PROVE  MsgBacked(Certified, m)
<1>1. Sends(n)
  BY StepGrows
<1>2. CASE Broadcast(n)
  <2>1. /\ Busy(n) /\ Head(agenda[n]).op = "send"
        /\ msgs' = msgs \cup {Head(agenda[n]).msg}
    BY <1>2 DEF Broadcast, Flushed, Doing, BroadcastMsg
  <2> QED
    BY <2>1, HeadSound DEF Sound, SoundItem
<1>3. CASE HandleTimeout(n)
  <2>1. \/ msgs' = msgs
        \/ msgs' = msgs \cup {NewView({Head(agenda[n]).msg.from}, highQc[n])}
    BY <1>3 DEF HandleTimeout
  <2>2. m = NewView({Head(agenda[n]).msg.from}, highQc[n])
    BY <2>1
  <2> QED
    BY <2>2 DEF MsgBacked, NewView, NodeSound, HeldSound
<1>4. CASE OnTimeout(n)
  BY <1>4, OnTimeoutSound
<1>5. CASE ReleaseStash(n)
  BY <1>5, ReleaseStashSound
<1> QED
  BY <1>1, <1>2, <1>3, <1>4, <1>5 DEF Sends

LEMMA NextSound == TypeOK /\ TypeOK' /\ SafetyInv /\ [Next]_vars => SafetyInv'
<1> SUFFICES ASSUME TypeOK, TypeOK', SafetyInv, [Next]_vars
             PROVE  SafetyInv'
  OBVIOUS
<1>1. CASE UNCHANGED vars
  <2>1. /\ msgs' = msgs /\ \A o \in Node : Presented(o)' = Presented(o) /\ Same(o)
    BY <1>1 DEF vars, core, tree, buckets, outbox, unparking, durable, Same, Presented
  <2>2. ASSUME NEW o \in Node
        PROVE  NodeSound(o)'
    <3>1. Growth(o)
      BY <2>1, GrowthStep
    <3>2. NodeSound(o)
      BY DEF SafetyInv
    <3> QED
      BY <2>1, <3>1, <3>2, KeptParts DEF NodeSound, Same
  <2>3. WireSound'
    <3>1. Certified' = Certified
      BY <2>1 DEF Certified, VotesSent, SignersOf, HasQuorum, TotalWeight
    <3> QED
      BY <2>1, <3>1 DEF SafetyInv, WireSound
  <2> QED
    BY <2>2, <2>3 DEF SafetyInv
<1>2. ASSUME NEW n \in Node, Step(n)
      PROVE  SafetyInv'
  <2>1. \A o \in Node : Growth(o)
    BY <1>2, StepGrows, GrowthStep
  <2>2. NodeSound(n)'
    BY <1>2, <2>1, StepNodeSound DEF SafetyInv
  <2>3. ASSUME NEW o \in Node, o # n
        PROVE  NodeSound(o)'
    <3>1. Growth(o) /\ Same(o) /\ NodeSound(o)
      BY <1>2, <2>1, <2>3, StepIsLocal DEF SafetyInv
    <3> QED
      BY <3>1, KeptParts DEF NodeSound, Same
  <2>4. \A m \in msgs' : MsgBacked(Certified', m)
    <3>1. \A m \in msgs' : MsgBacked(Certified, m)
      BY <1>2, <2>1, NewMessagesBacked DEF SafetyInv, WireSound
    <3> QED
      BY <2>1, <3>1 DEF Growth
  <2>5. WireSound'
    BY <2>4 DEF WireSound
  <2> QED
    BY <2>2, <2>3, <2>5 DEF SafetyInv
<1> QED
  BY <1>1, <1>2 DEF Next, Step

LEMMA InvariantSound == Spec => [](TypeOK /\ SafetyInv)
<1> DEFINE Inv == TypeOK /\ SafetyInv
<1>1. Init => Inv
  BY InitType, InitSound
<1>2. Inv /\ [Next]_vars => Inv'
  BY NextType, NextSound
<1> HIDE DEF Inv
<1>3. Spec => []Inv
  BY <1>1, <1>2, PTL DEF Spec
<1> QED
  BY <1>3 DEF Inv

(* Certificates are genuine, for any number of validators, any weights and any
   crashes: every certificate that a node holds, has stored, is locked on,
   announces in a new view or a timeout, or proposes on, was signed by a
   quorum whose votes were really sent.  It needs that a node counts only
   votes that were sent (on_vote_received), that every block kept was
   proposed with a genuine certificate (also those fetched by block sync and
   those rehydrated after a crash), and that the batches waiting for a write
   hold genuine certificates too. *)
THEOREM CertificatesGenuine == Spec => []QcBacked
<1>1. SafetyInv => QcBacked
  <2> SUFFICES ASSUME SafetyInv
               PROVE  QcBacked
    OBVIOUS
  <2>1. \A n \in Node : /\ highQc[n] \in Certified /\ locked[n] \in Certified
                        /\ disk[n].highQc \in Certified /\ disk[n].locked \in Certified
    BY DEF SafetyInv, NodeSound, HeldSound
  <2>2. \A m \in msgs : /\ m.kind \in {"newview", "timeout"} => m.block \in Certified
                        /\ m.kind = "proposal" => Parent(m.block) \in Certified
    BY DEF SafetyInv, WireSound, MsgBacked, Justified
  <2> QED
    BY <2>1, <2>2 DEF QcBacked
<1> QED
  BY <1>1, InvariantSound, PTL

(* The record of the last commit is never ahead of the application, whatever
   crashes: the block that disk names as committed last was executed, or
   app.commit returned an error for it (commit_block, then apply_commit). *)
THEOREM RecordAfterApplication == Spec => []RecordedIsPresented
<1>1. SafetyInv => RecordedIsPresented
  BY DEF SafetyInv, NodeSound, RecordSound, RecordedIsPresented
<1> QED
  BY <1>1, InvariantSound, PTL

-----------------------------------------------------------------------------
(* Equivocation.  W is the book of the blocks a node has ever voted for: their
   views differ, last_voted_view has seen them all, and every vote sent or
   waiting to be sent is in it.  Only a proposal adds to the book, and only in
   a view above last_voted_view; a crash may forget what was never sent. *)
Quiet == {it \in Item : ~VoteSend(it)}
VoteItem(n, W) == {it \in Item : VoteSend(it) => it.msg.from = n /\ it.msg.block \in W}

VoteBook(n, W) ==
    /\ \A b, c \in W : ViewOf(b) = ViewOf(c) => b = c
    /\ \A b \in W : ViewOf(b) <= lastVoted[n]
    /\ agenda[n] \in Seq(VoteItem(n, W))
    /\ acts[n] \in Seq(VoteItem(n, W))
    /\ \A m \in VotesSent : m.from = n => m.block \in W

VoteInv == \A n \in Node : \E W \in SUBSET Block : VoteBook(n, W)

LEMMA QuietItems ==
    /\ CallItem \subseteq Quiet /\ Seq(CallItem) \subseteq Seq(Quiet)
    /\ \A v \in NextViews, q \in Block : Build(v, q) \in Quiet
    /\ \A m \in Message : m.kind # "vote" => Send(m) \in Quiet
    /\ \A b \in Block : CommitBlock(b) \in Quiet
    /\ \A pre \in Batch : Flush(pre) \in Quiet
<1>1. CallItem \subseteq Quiet
  BY ItemSequences DEF Quiet, VoteSend, CallItem
<1>2. /\ \A v \in NextViews, q \in Block : Build(v, q) \in Quiet
      /\ \A m \in Message : m.kind # "vote" => Send(m) \in Quiet
      /\ \A b \in Block : CommitBlock(b) \in Quiet
      /\ \A pre \in Batch : Flush(pre) \in Quiet
  BY ActionItemTypes, ItemSequences DEF Quiet, VoteSend, Build, Send, CommitBlock, Flush
<1> QED
  BY <1>1, <1>2, SeqMonotonic

LEMMA VoteItems ==
    ASSUME NEW n, NEW W, NEW V, W \subseteq V
    PROVE  /\ Quiet \subseteq VoteItem(n, W) /\ Seq(Quiet) \subseteq Seq(VoteItem(n, W))
           /\ VoteItem(n, W) \subseteq VoteItem(n, V)
           /\ Seq(VoteItem(n, W)) \subseteq Seq(VoteItem(n, V))
<1>1. Quiet \subseteq VoteItem(n, W) /\ VoteItem(n, W) \subseteq VoteItem(n, V)
  BY DEF Quiet, VoteItem
<1> QED
  BY <1>1, SeqMonotonic

(* The batch before an action does not make it a vote. *)
LEMMA VoteItemRebatched ==
    ASSUME NEW n, NEW W, NEW it \in ActionItem, NEW pre \in Batch
    PROVE  /\ it \in Quiet => [it EXCEPT !.pre = pre] \in Quiet
           /\ it \in VoteItem(n, W) => [it EXCEPT !.pre = pre] \in VoteItem(n, W)
<1> DEFINE x == [it EXCEPT !.pre = pre]
<1>1. x \in Item /\ x.op = it.op /\ (it.op = "send" => x.msg = it.msg)
  BY ItemSequences DEF ActionItem
<1> HIDE DEF x
<1>2. VoteSend(x) <=> VoteSend(it)
  BY <1>1 DEF VoteSend
<1>3. /\ it \in Quiet => x \in Quiet
      /\ it \in VoteItem(n, W) => x \in VoteItem(n, W)
  BY <1>1, <1>2 DEF Quiet, VoteItem, VoteSend
<1> QED
  BY <1>3 DEF x

LEMMA QuietBuffered ==
    ASSUME NEW pre \in Batch, NEW s \in Seq(Quiet), s \in Seq(ActionItem)
    PROVE  Buffered(pre, s) \in Seq(Quiet)
<1>1. CASE pre = NoBatch
  BY <1>1 DEF Buffered
<1>2. CASE pre # NoBatch /\ s = <<>>
  <2>1. Flush(pre) \in Quiet
    BY QuietItems
  <2> QED
    BY <1>2, <2>1 DEF Buffered
<1>3. CASE pre # NoBatch /\ s # <<>>
  <2>1. Head(s) \in ActionItem /\ Head(s) \in Quiet /\ Tail(s) \in Seq(Quiet)
    BY <1>3, HeadTailProperties
  <2>2. [Head(s) EXCEPT !.pre = pre] \in Quiet
    BY <2>1, VoteItemRebatched
  <2>3. <<[Head(s) EXCEPT !.pre = pre]>> \in Seq(Quiet)
    BY <2>2
  <2> QED
    BY <1>3, <2>1, <2>3, ConcatProperties DEF Buffered
<1> QED
  BY <1>1, <1>2, <1>3

LEMMA QuietBuild ==
    ASSUME NEW n \in Node, NEW v \in NextViews, NEW q \in Block
    PROVE  /\ build_proposal_at_view(n, v, q) \in Seq(Quiet)
           /\ try_propose_as_leader(n, v, q) \in Seq(Quiet)
<1>1. Build(v, q) \in Quiet
  BY QuietItems
<1> QED
  BY <1>1 DEF build_proposal_at_view, try_propose_as_leader

(* A step that adds no vote. *)
QuietStep(n) ==
    /\ lastVoted'[n] = lastVoted[n]
    /\ \A W : agenda[n] \in Seq(VoteItem(n, W)) /\ acts[n] \in Seq(VoteItem(n, W)) =>
              agenda'[n] \in Seq(VoteItem(n, W)) /\ acts'[n] \in Seq(VoteItem(n, W))

LEMMA QuietContinue ==
    ASSUME TypeOK, NEW n \in Node, Busy(n), NEW s \in Seq(Quiet), Continue(n, s),
           acts'[n] \in {acts[n], <<>>}, lastVoted'[n] = lastVoted[n]
    PROVE  QuietStep(n)
<1> SUFFICES ASSUME NEW W, agenda[n] \in Seq(VoteItem(n, W)),
                    acts[n] \in Seq(VoteItem(n, W))
             PROVE  agenda'[n] \in Seq(VoteItem(n, W)) /\ acts'[n] \in Seq(VoteItem(n, W))
  BY DEF QuietStep
<1>1. agenda'[n] = s \o Rest(n)
  BY DEF Continue, TypeOK
<1>2. Rest(n) \in Seq(VoteItem(n, W))
  BY HeadTailProperties DEF Rest, Busy
<1>3. s \in Seq(VoteItem(n, W)) /\ <<>> \in Seq(VoteItem(n, W))
  BY VoteItems
<1>4. s \o Rest(n) \in Seq(VoteItem(n, W))
  BY <1>2, <1>3, ConcatProperties
<1> QED
  BY <1>1, <1>3, <1>4

LEMMA QuietReturn ==
    ASSUME TypeOK, NEW n \in Node, Busy(n), Return(n),
           acts'[n] = acts[n], lastVoted'[n] = lastVoted[n]
    PROVE  QuietStep(n)
<1> SUFFICES ASSUME NEW W, agenda[n] \in Seq(VoteItem(n, W)),
                    acts[n] \in Seq(VoteItem(n, W))
             PROVE  agenda'[n] \in Seq(VoteItem(n, W))
  BY DEF QuietStep
<1>1. agenda'[n] = Rest(n)
  BY DEF Return, TypeOK
<1> QED
  BY <1>1, HeadTailProperties DEF Rest, Busy

LEMMA QuietFresh ==
    ASSUME TypeOK, NEW n \in Node, NEW s \in Seq(CallItem),
           agenda' = [agenda EXCEPT ![n] = s],
           acts' = acts, lastVoted'[n] = lastVoted[n]
    PROVE  QuietStep(n)
<1>1. agenda'[n] = s
  BY DEF TypeOK
<1> QED
  BY <1>1, QuietItems, VoteItems DEF QuietStep

LEMMA QuietCore ==
    ASSUME TypeOK, NEW n \in Node, HandleVote(n) \/ HandleNewView(n) \/ BecomeLeader(n)
    PROVE  QuietStep(n)
<1>0. /\ Busy(n) /\ acts' = acts /\ lastVoted' = lastVoted
      /\ Head(agenda[n]).op \in {"recv", "lead"}
      /\ ~BecomeLeader(n) => Head(agenda[n]).op = "recv"
      /\ BecomeLeader(n) => Head(agenda[n]).op = "lead"
  BY DEF HandleVote, HandleNewView, BecomeLeader, Receiving, Doing, unparking, core
<1>1. CASE HandleVote(n)
  <2> DEFINE b == Head(agenda[n]).msg.block
             raises == should_update_high_qc(n, b)
             q == IF raises THEN b ELSE highQc[n]
             pre == [NoBatch EXCEPT !.highQc = IF raises THEN b ELSE @]
             build == try_propose_as_leader(n, ViewOf(b) + 1, q)
  <2>1. Return(n) \/ Continue(n, <<>>) \/ Continue(n, Buffered(pre, build))
    BY <1>1 DEF HandleVote
  <2>2. Head(agenda[n]).op = "recv"
    BY <1>1 DEF HandleVote, Receiving, Doing
  <2>3. b \in Block /\ highQc[n] \in Block
    BY <1>0, <2>2, AgendaParts, ItemFields, MessageFields DEF TypeOK
  <2>4. q \in Block /\ pre \in Batch /\ ViewOf(b) + 1 \in NextViews
    <3>1. pre \in Batch
      BY <2>3, NoBatchType DEF Batch, NoBatch
    <3>2. ViewOf(b) + 1 \in NextViews
      BY <2>3, ViewOfType, ConstantsOK DEF NextViews
    <3> QED
      BY <2>3, <3>1, <3>2
  <2> HIDE DEF b, raises, q, pre
  <2>5. build \in Seq(Quiet) /\ build \in Seq(ActionItem) /\ <<>> \in Seq(Quiet)
    BY <2>4, QuietBuild, BuildType
  <2> HIDE DEF build
  <2>6. Buffered(pre, build) \in Seq(Quiet)
    BY <2>4, <2>5, QuietBuffered
  <2> QED
    BY <1>0, <2>1, <2>5, <2>6, QuietReturn, QuietContinue
<1>2. CASE HandleNewView(n)
  <2> DEFINE q == Head(agenda[n]).msg.block
             pre == [NoBatch EXCEPT !.highQc = q]
  <2>1. Return(n) \/ Continue(n, Buffered(pre, <<>>))
    BY <1>2 DEF HandleNewView
  <2>2. Head(agenda[n]).op = "recv"
    BY <1>2 DEF HandleNewView, Receiving, Doing
  <2>3. q \in Block
    BY <1>0, <2>2, AgendaParts, ItemFields, MessageFields
  <2>4. pre \in Batch /\ <<>> \in Seq(Quiet) /\ <<>> \in Seq(ActionItem)
    BY <2>3, NoBatchType DEF Batch
  <2> HIDE DEF q, pre
  <2>5. Buffered(pre, <<>>) \in Seq(Quiet)
    BY <2>4, QuietBuffered
  <2> QED
    BY <1>0, <2>1, <2>5, QuietReturn, QuietContinue
<1>3. CASE BecomeLeader(n)
  <2>1. Continue(n, build_proposal_at_view(n, Head(agenda[n]).view, highQc[n]))
    BY <1>3 DEF BecomeLeader
  <2>2. Head(agenda[n]).view \in NextViews /\ highQc[n] \in Block
    BY <1>0, <1>3, AgendaParts, ItemFields DEF TypeOK
  <2>3. build_proposal_at_view(n, Head(agenda[n]).view, highQc[n]) \in Seq(Quiet)
    BY <2>2, QuietBuild
  <2> QED
    BY <1>0, <2>1, <2>3, QuietContinue
<1> QED
  BY <1>1, <1>2, <1>3

LEMMA QuietPacemaker ==
    ASSUME TypeOK, NEW n \in Node,
           \/ HandleTimeout(n) \/ TimeoutCertFormed(n) \/ OnCert(n) \/ OnRoundSync(n)
           \/ OnPacemakerAdvance(n)
    PROVE  QuietStep(n)
<1>0. Busy(n) /\ lastVoted' = lastVoted /\ acts'[n] \in {acts[n], <<>>}
  BY DEF HandleTimeout, TimeoutCertFormed, OnCert, OnRoundSync, OnPacemakerAdvance,
         Receiving, Doing, unparking, core, TypeOK
<1>1. CASE HandleTimeout(n)
  <2> DEFINE m == Head(agenda[n]).msg
             counted == timeouts[n] \cup {m}
             best == BestHighQc(counted, m.view)
             sync == IF /\ WeightAt(timeouts[n], m.view) < HonestyWeightThreshold
                        /\ WeightAt(counted, m.view) >= HonestyWeightThreshold
                     THEN <<RoundSync(m.view)>> ELSE <<>>
             formed == IF WeightAt(counted, m.view) >= QuorumWeightThreshold
                       THEN <<Formed(m.view, best)>> ELSE <<>>
  <2>1. Head(agenda[n]).op = "recv" /\ m.kind = "timeout" /\ acts' = acts
    BY <1>1 DEF HandleTimeout, Receiving, Doing, unparking
  <2>2. m \in TimeoutMsg /\ m.view \in View
    BY <1>0, <2>1, AgendaParts, ItemFields, MessageFields
  <2>3. best \in Block
    BY <2>2, BestHighQcType DEF TypeOK
  <2>4. RoundSync(m.view) \in CallItem /\ Formed(m.view, best) \in CallItem
    BY <2>2, <2>3, CallItemTypes
  <2>5. sync \in Seq(CallItem) /\ formed \in Seq(CallItem)
    BY <2>4
  <2>6. Return(n) \/ Continue(n, sync \o formed)
    BY <1>1 DEF HandleTimeout
  <2> HIDE DEF sync, formed
  <2>7. sync \o formed \in Seq(Quiet)
    BY <2>5, ConcatProperties, QuietItems
  <2> QED
    BY <1>0, <2>1, <2>6, <2>7, QuietReturn, QuietContinue
<1>2. CASE TimeoutCertFormed(n)
  <2> DEFINE v == Head(agenda[n]).view
             q == Head(agenda[n]).block
             work == <<Recv(NewView({n}, q)), Cert(v)>>
  <2>1. Head(agenda[n]).op = "formed" /\ Continue(n, work)
    BY <1>2 DEF TimeoutCertFormed, Doing
  <2>2. v \in 0 .. MaxView /\ q \in Block
    BY <1>0, <2>1, AgendaParts, ItemFields, ConstantsOK DEF View
  <2>3. NewView({n}, q) \in Message
    BY <2>2, MessageTypes DEF Message
  <2>4. Recv(NewView({n}, q)) \in CallItem /\ Cert(v) \in CallItem
    BY <2>2, <2>3, CallItemTypes
  <2>5. work \in Seq(CallItem)
    BY <2>4
  <2> QED
    BY <1>0, <2>1, <2>5, QuietItems, QuietContinue
<1>3. CASE OnCert(n) \/ OnRoundSync(n)
  <2> DEFINE v == Head(agenda[n]).view
  <2>1. \/ Return(n)
        \/ Enter(n, v + 1) /\ Head(agenda[n]).op = "cert"
        \/ Enter(n, v) /\ Head(agenda[n]).op = "sync"
    BY <1>3 DEF OnCert, OnRoundSync, Doing
  <2>2. /\ Head(agenda[n]).op = "cert" => v + 1 \in NextViews
        /\ Head(agenda[n]).op = "sync" => v \in NextViews
    BY <1>0, AgendaParts, ItemFields, ConstantsOK DEF View, NextViews
  <2>3. ASSUME NEW u \in NextViews, Enter(n, u)
        PROVE  QuietStep(n)
    <3> DEFINE work == <<Advance(u)>> \o
                          (IF Accumulator[u] = n THEN <<Lead(u)>> ELSE <<>>)
    <3>1. Advance(u) \in CallItem /\ Lead(u) \in CallItem
      BY CallItemTypes
    <3>2. work \in Seq(CallItem)
      BY <3>1
    <3>3. Continue(n, work)
      BY <2>3 DEF Enter
    <3> QED
      BY <1>0, <3>2, <3>3, QuietItems, QuietContinue
  <2>4. acts' = acts
    BY <1>3 DEF OnCert, OnRoundSync, unparking
  <2> QED
    BY <1>0, <2>1, <2>2, <2>3, <2>4, QuietReturn
<1>4. CASE OnPacemakerAdvance(n)
  <2> DEFINE v == Head(agenda[n]).view
  <2>1. Head(agenda[n]).op = "advance" /\ Continue(n, <<Unpark(v)>>)
    BY <1>4 DEF OnPacemakerAdvance, Doing
  <2>2. v \in NextViews
    BY <1>0, <2>1, AgendaParts, ItemFields
  <2>3. <<Unpark(v)>> \in Seq(CallItem)
    BY <2>2, CallItemTypes
  <2> QED
    BY <1>0, <2>1, <2>3, QuietItems, QuietContinue
<1> QED
  BY <1>1, <1>2, <1>3, <1>4

(* The votes of the unparked proposals move from acts to the agenda. *)
LEMMA QuietFinishAdvance ==
    ASSUME TypeOK, NEW n \in Node, NEW D, FinishAdvance(n, D)
    PROVE  QuietStep(n)
<1> DEFINE v == Head(agenda[n]).view
           news == <<Send(NewView(Node, highQc[n]))>>
           build == try_propose_as_leader(n, v, highQc[n])
           work == acts[n] \o news \o build
<1>1. /\ Busy(n) /\ Head(agenda[n]).op = "unpark" /\ lastVoted' = lastVoted
      /\ agenda'[n] = work \o Rest(n) /\ acts'[n] = <<>>
  BY DEF FinishAdvance, Doing, Continue, core, TypeOK
<1>2. v \in NextViews /\ highQc[n] \in Block
  BY <1>1, AgendaParts, ItemFields DEF TypeOK
<1>3. Send(NewView(Node, highQc[n])) \in Quiet
  <2>1. NewView(Node, highQc[n]) \in Message /\ NewView(Node, highQc[n]).kind # "vote"
    BY <1>2, MessageTypes DEF Message, NewView
  <2> QED
    BY <2>1, QuietItems
<1>4. news \in Seq(Quiet) /\ build \in Seq(Quiet)
  BY <1>2, <1>3, QuietBuild
<1> HIDE DEF news, build
<1> SUFFICES ASSUME NEW W, agenda[n] \in Seq(VoteItem(n, W)),
                    acts[n] \in Seq(VoteItem(n, W))
             PROVE  agenda'[n] \in Seq(VoteItem(n, W)) /\ acts'[n] \in Seq(VoteItem(n, W))
  BY <1>1 DEF QuietStep
<1>5. news \in Seq(VoteItem(n, W)) /\ build \in Seq(VoteItem(n, W))
  BY <1>4, VoteItems
<1>6. work \in Seq(VoteItem(n, W))
  BY <1>5, ConcatProperties
<1>7. Rest(n) \in Seq(VoteItem(n, W))
  BY <1>1, HeadTailProperties DEF Rest, Busy
<1> HIDE DEF work
<1>8. work \o Rest(n) \in Seq(VoteItem(n, W))
  BY <1>6, <1>7, ConcatProperties
<1> QED
  BY <1>1, <1>8

LEMMA QuietInterpreter ==
    ASSUME TypeOK, NEW n \in Node,
           \/ RejectProposal(n) \/ SuppressVote(n) \/ StashProposal(n) \/ BuildFails(n)
           \/ Broadcast(n) \/ DrainLoopback(n) \/ CommitToApp(n) \/ CommitFails(n)
           \/ ApplyCommit(n)
    PROVE  QuietStep(n)
<1>0. Busy(n) /\ lastVoted' = lastVoted /\ acts' = acts
  BY DEF RejectProposal, SuppressVote, StashProposal, BuildFails, Broadcast,
         DrainLoopback, CommitToApp, CommitFails, ApplyCommit, Receiving, Flushed, Doing,
         unparking, core
<1>1. CASE Return(n)
  BY <1>0, <1>1, QuietReturn
<1>2. CASE Broadcast(n)
  <2> DEFINE work == IF Draining(n) THEN <<>> ELSE <<Drain>>
  <2>1. Continue(n, work)
    BY <1>2 DEF Broadcast, BroadcastMsg, Continue
  <2>2. work \in Seq(CallItem)
    BY CallItemTypes
  <2> QED
    BY <1>0, <2>1, <2>2, QuietItems, QuietContinue
<1>3. CASE DrainLoopback(n) /\ ~Return(n)
  <2> DEFINE top == <<Head(loopback[n])>>
  <2>1. loopback[n] # <<>> /\ agenda'[n] = top \o agenda[n]
    BY <1>3 DEF DrainLoopback, TypeOK
  <2>2. Head(loopback[n]) \in CallItem
    BY <2>1, HeadTailProperties DEF TypeOK
  <2>3. top \in Seq(CallItem)
    BY <2>2
  <2> HIDE DEF top
  <2> SUFFICES ASSUME NEW W, agenda[n] \in Seq(VoteItem(n, W))
               PROVE  agenda'[n] \in Seq(VoteItem(n, W))
    BY <1>0 DEF QuietStep
  <2>4. top \in Seq(VoteItem(n, W))
    BY <2>3, QuietItems, VoteItems
  <2> QED
    BY <2>1, <2>4, ConcatProperties
<1>4. CASE CommitToApp(n) \/ CommitFails(n)
  <2> DEFINE b == Head(agenda[n]).block
  <2>1. Head(agenda[n]).op = "commit" /\ Continue(n, <<Apply(b)>>)
    BY <1>4 DEF CommitToApp, CommitFails, Flushed, Doing
  <2>2. b \in Block
    BY <1>0, <2>1, AgendaParts, ItemFields
  <2>3. <<Apply(b)>> \in Seq(CallItem)
    BY <2>2, CallItemTypes
  <2> QED
    BY <1>0, <2>1, <2>3, QuietItems, QuietContinue
<1> QED
  BY <1>1, <1>2, <1>3, <1>4
  DEF RejectProposal, SuppressVote, StashProposal, BuildFails, ApplyCommit

LEMMA QuietBuildProposal ==
    ASSUME TypeOK, NEW n \in Node, NEW p \in Payload, BuildProposal(n, p)
    PROVE  QuietStep(n)
<1> DEFINE v == Head(agenda[n]).view
           b == Append(Head(agenda[n]).block,
                       [view |-> v, proposer |-> n, payload |-> p])
           pre == [NoBatch EXCEPT !.proposed = v]
           send == Send(Proposal(b))
<1>1. /\ Busy(n) /\ Head(agenda[n]).op = "build" /\ v <= MaxView
      /\ Continue(n, Buffered(pre, <<send>>)) /\ acts' = acts /\ lastVoted' = lastVoted
  BY DEF BuildProposal, Flushed, Doing, unparking
<1>2. v \in NextViews /\ Head(agenda[n]).block \in Block
  BY <1>1, AgendaParts, ItemFields
<1>3. v \in View /\ v \in 0 .. MaxView
  BY <1>1, <1>2, ConstantsOK DEF NextViews, View
<1>4. b \in Block
  BY <1>2, <1>3, AppendProperties DEF Block, Header
<1>5. pre \in Batch
  BY <1>3, NoBatchType DEF Batch, NoBatch
<1> HIDE DEF b
<1>6. send \in ActionItem /\ send \in Quiet
  <2>1. Proposal(b) \in Message /\ Proposal(b).kind # "vote"
    BY <1>4, MessageTypes DEF Message, Proposal
  <2> QED
    BY <2>1, ActionItemTypes, QuietItems
<1> HIDE DEF v, pre, send
<1>7. Buffered(pre, <<send>>) \in Seq(Quiet)
  <2>1. <<send>> \in Seq(ActionItem) /\ <<send>> \in Seq(Quiet)
    BY <1>6
  <2> QED
    BY <1>5, <2>1, QuietBuffered
<1> QED
  BY <1>1, <1>7, QuietContinue

LEMMA QuietPersist ==
    ASSUME TypeOK, NEW n \in Node, PersistUpdates(n)
    PROVE  QuietStep(n)
<1> DEFINE it == Head(agenda[n])
           done == [it EXCEPT !.pre = NoBatch]
<1>1. /\ Busy(n) /\ it.op \in {"send", "build", "commit", "flush"}
      /\ acts' = acts /\ lastVoted' = lastVoted
  BY DEF PersistUpdates, InAction, Doing, unparking, core
<1>2. it \in ActionItem
  BY <1>1, AgendaParts, ItemFields
<1>3. agenda'[n] \in {Rest(n), <<done>> \o Rest(n)}
  BY DEF PersistUpdates, TypeOK, Rest
<1> SUFFICES ASSUME NEW W, agenda[n] \in Seq(VoteItem(n, W))
             PROVE  agenda'[n] \in Seq(VoteItem(n, W))
  BY <1>1 DEF QuietStep
<1>4. it \in VoteItem(n, W) /\ Rest(n) \in Seq(VoteItem(n, W))
  BY <1>1, HeadTailProperties DEF Rest, Busy
<1> HIDE DEF it
<1>5. done \in VoteItem(n, W)
  BY <1>2, <1>4, VoteItemRebatched, NoBatchType
<1> HIDE DEF done
<1>6. <<done>> \in Seq(VoteItem(n, W))
  BY <1>5
<1>7. <<done>> \o Rest(n) \in Seq(VoteItem(n, W))
  BY <1>4, <1>6, ConcatProperties
<1> QED
  BY <1>3, <1>4, <1>7

LEMMA QuietEvent ==
    ASSUME TypeOK, NEW n \in Node, Event(n)
    PROVE  QuietStep(n)
<1>1. ASSUME NEW m \in msgs, Receive(n, m)
      PROVE  QuietStep(n)
  <2>1. Dispatches(m) \in Seq(CallItem)
    BY DispatchesType DEF TypeOK
  <2> QED
    BY <1>1, <2>1, QuietFresh DEF Receive, unparking, core
<1>2. CASE OnTimeout(n)
  <2>1. PICK kept \in SUBSET TimeoutMsg :
              /\ kept # {}
              /\ agenda' = [agenda EXCEPT
                               ![n] = <<Recv(CHOOSE m \in kept : TRUE)>>]
    BY <1>2, OnTimeoutMessages
  <2>2. (CHOOSE m \in kept : TRUE) \in Message
    BY <2>1 DEF Message
  <2>3. <<Recv(CHOOSE m \in kept : TRUE)>> \in Seq(CallItem)
    BY <2>2, CallItemTypes
  <2> QED
    BY <1>2, <2>1, <2>3, QuietFresh DEF OnTimeout, unparking, core
<1>3. ASSUME NEW b \in inflight[n], ReceiveBlock(n, b)
      PROVE  QuietStep(n)
  <2>1. pmView[n] # 0 /\ pmView[n] \in 0 .. MaxView + 1
    BY <1>3, Booted DEF TypeOK, ReceiveBlock
  <2>2. pmView[n] \in NextViews
    BY <2>1, ConstantsOK DEF NextViews
  <2>3. <<Advance(pmView[n])>> \in Seq(CallItem)
    BY <2>2, CallItemTypes
  <2> QED
    BY <1>3, <2>3, QuietFresh DEF ReceiveBlock, unparking, core
<1>4. ASSUME NEW D \in SUBSET inflight[n], BlockSyncRetryTick(n, D)
      PROVE  QuietStep(n)
  BY <1>4 DEF BlockSyncRetryTick, QuietStep, unparking, core
<1>5. CASE ReleaseStash(n)
  <2> DEFINE work == IF Draining(n) THEN <<>> ELSE <<Drain>>
  <2>1. work \in Seq(CallItem) /\ <<>> \in Seq(CallItem)
    BY CallItemTypes
  <2>2. agenda' = [agenda EXCEPT ![n] = work \o <<>>]
    BY <1>5 DEF ReleaseStash, BroadcastMsg
  <2> HIDE DEF work
  <2>3. work \o <<>> \in Seq(CallItem)
    BY <2>1, ConcatProperties
  <2> QED
    BY <1>5, <2>2, <2>3, QuietFresh DEF ReleaseStash, unparking, core
<1> QED
  BY <1>1, <1>2, <1>3, <1>4, <1>5 DEF Event

(* A proposal: a vote is added to the book only above last_voted_view. *)
LEMMA ProposalVotes ==
    ASSUME TypeOK, NEW n \in Node, NEW b \in Block, NEW P, NEW I, OnProposal(n, b, P, I),
           NEW W \in SUBSET Block, VoteBook(n, W)
    PROVE  \E V \in SUBSET Block :
              /\ W \subseteq V
              /\ \A c, d \in V : ViewOf(c) = ViewOf(d) => c = d
              /\ \A c \in V : ViewOf(c) <= lastVoted'[n]
              /\ ProposalActions(n, b) \in Seq(VoteItem(n, V))
<1> DEFINE batch == ProposalBatch(n, b)
           vote == Send(Vote(n, b))
           commit == IF three_chain_commit(n, b)
                     THEN <<CommitBlock(Ancestor(b, 3))>> ELSE <<>>
<1>1. lastVoted[n] \in 0 .. MaxView /\ ViewOf(b) \in 0 .. MaxView
      /\ \A c \in W : ViewOf(c) \in 0 .. MaxView
  BY ViewOfType DEF TypeOK
<1>2. batch \in Batch
  BY ProposalBatchType
<1>3. commit \in Seq(Quiet) /\ commit \in Seq(ActionItem)
  <2>1. /\ CommitBlock(Ancestor(b, 3)) \in Quiet
        /\ CommitBlock(Ancestor(b, 3)) \in ActionItem
    BY AncestorType, QuietItems, ActionItemTypes
  <2> QED
    BY <2>1
<1>4. CASE Parent(b) \notin pending[n]
  <2>1. lastVoted' = lastVoted /\ ProposalActions(n, b) = <<>>
    BY <1>4 DEF OnProposal, core, ProposalActions
  <2>2. <<>> \in Seq(VoteItem(n, W)) /\ lastVoted'[n] = lastVoted[n]
    BY <2>1
  <2> QED
    BY <2>1, <2>2 DEF VoteBook
<1>5. CASE Parent(b) \in pending[n] /\ ~safe_to_vote(n, b)
  <2>1. batch.voted = 0
    BY <1>5 DEF ProposalBatch
  <2>2. lastVoted'[n] = lastVoted[n]
    BY <1>5, <2>1 DEF OnProposal, TypeOK
  <2>3. ProposalActions(n, b) = Buffered(batch, <<>> \o commit)
    BY <1>5 DEF ProposalActions
  <2> HIDE DEF batch, commit
  <2>4. <<>> \o commit \in Seq(Quiet) /\ <<>> \o commit \in Seq(ActionItem)
    BY <1>3, ConcatProperties
  <2>5. ProposalActions(n, b) \in Seq(VoteItem(n, W))
    BY <1>2, <2>3, <2>4, QuietBuffered, VoteItems
  <2> QED
    BY <2>2, <2>5 DEF VoteBook
<1>6. CASE Parent(b) \in pending[n] /\ safe_to_vote(n, b)
  <2> DEFINE V == W \cup {b}
             s == <<vote>> \o commit
  <2>1. batch.voted = ViewOf(b) /\ ViewOf(b) > lastVoted[n]
    BY <1>6 DEF ProposalBatch, safe_to_vote
  <2>2. ViewOf(b) # 0 /\ batch # NoBatch
    BY <1>1, <2>1 DEF NoBatch
  <2>3. lastVoted'[n] = ViewOf(b)
    BY <1>6, <2>1, <2>2 DEF OnProposal, TypeOK
  <2>4. \A c \in V : ViewOf(c) <= lastVoted'[n]
    BY <1>1, <2>1, <2>3 DEF VoteBook
  <2>5. \A c, d \in V : ViewOf(c) = ViewOf(d) => c = d
    BY <1>1, <2>1 DEF VoteBook
  <2>6. ProposalActions(n, b) = Buffered(batch, s)
    BY <1>6 DEF ProposalActions
  <2>7. vote \in ActionItem /\ vote \in VoteItem(n, V)
    <3>1. Vote(n, b) \in Message
      BY MessageTypes DEF Message
    <3> QED
      BY <3>1, ActionItemTypes, ItemSequences DEF VoteItem, VoteSend, Send, Vote
  <2> HIDE DEF batch, vote, commit, V
  <2>8. <<vote>> \in Seq(VoteItem(n, V)) /\ commit \in Seq(VoteItem(n, V))
    BY <1>3, <2>7, VoteItems
  <2>9. /\ s # <<>> /\ Head(s) = vote /\ Tail(s) = commit
    BY <1>3, <2>7, ItemSequences, ConsParts
  <2>10. [vote EXCEPT !.pre = batch] \in VoteItem(n, V)
    BY <1>2, <2>7, VoteItemRebatched
  <2>11. <<[vote EXCEPT !.pre = batch]>> \in Seq(VoteItem(n, V))
    BY <2>10
  <2>12. Buffered(batch, s) = <<[vote EXCEPT !.pre = batch]>> \o commit
    BY <2>2, <2>9 DEF Buffered
  <2>13. ProposalActions(n, b) \in Seq(VoteItem(n, V))
    BY <2>6, <2>8, <2>11, <2>12, ConcatProperties
  <2>14. V \in SUBSET Block /\ W \subseteq V
    BY DEF V
  <2> QED
    BY <2>4, <2>5, <2>13, <2>14
<1> QED
  BY <1>4, <1>5, <1>6

(* What a step may do to the book of the node that takes it, apart from the
   messages it sends. *)
BookStep(n, W) ==
    \E V \in SUBSET Block :
        /\ W \subseteq V
        /\ \A c, d \in V : ViewOf(c) = ViewOf(d) => c = d
        /\ \A c \in V : ViewOf(c) <= lastVoted'[n]
        /\ agenda'[n] \in Seq(VoteItem(n, V))
        /\ acts'[n] \in Seq(VoteItem(n, V))

LEMMA WorkBook ==
    ASSUME TypeOK, NEW n \in Node, NEW W \in SUBSET Block, VoteBook(n, W),
           Work(n) \/ Event(n)
    PROVE  BookStep(n, W)
<1>1. CASE QuietStep(n)
  BY <1>1 DEF QuietStep, VoteBook, BookStep
<1>2. CASE HandleProposal(n)
  <2> DEFINE b == Head(agenda[n]).msg.block
  <2>1. /\ Busy(n) /\ Head(agenda[n]).op = "recv"
        /\ OnProposal(n, b, parked[n], inflight[n])
        /\ Continue(n, ProposalActions(n, b)) /\ acts' = acts
    BY <1>2 DEF HandleProposal, Receiving, Doing, unparking
  <2>2. b \in Block
    BY <2>1, AgendaParts, ItemFields, MessageFields
  <2> HIDE DEF b
  <2>3. PICK V \in SUBSET Block :
              /\ W \subseteq V
              /\ \A c, d \in V : ViewOf(c) = ViewOf(d) => c = d
              /\ \A c \in V : ViewOf(c) <= lastVoted'[n]
              /\ ProposalActions(n, b) \in Seq(VoteItem(n, V))
    BY <2>1, <2>2, ProposalVotes
  <2>4. agenda'[n] = ProposalActions(n, b) \o Rest(n)
    BY <2>1 DEF Continue, TypeOK
  <2>5. agenda[n] \in Seq(VoteItem(n, V)) /\ acts[n] \in Seq(VoteItem(n, V))
    BY <2>3, VoteItems DEF VoteBook
  <2>6. Rest(n) \in Seq(VoteItem(n, V))
    BY <2>1, <2>5, HeadTailProperties DEF Rest, Busy
  <2>7. agenda'[n] \in Seq(VoteItem(n, V))
    BY <2>3, <2>4, <2>6, ConcatProperties
  <2> QED
    BY <2>1, <2>3, <2>5, <2>7 DEF BookStep
<1>3. ASSUME NEW b \in ready[n], UnparkOne(n, b)
      PROVE  BookStep(n, W)
  <2>1. /\ OnProposal(n, b, parked[n] \ {b}, inflight[n] \ {Parent(b)})
        /\ agenda' = agenda /\ acts'[n] = acts[n] \o ProposalActions(n, b)
    BY <1>3 DEF UnparkOne, TypeOK
  <2>2. b \in Block
    BY DEF TypeOK
  <2>3. PICK V \in SUBSET Block :
              /\ W \subseteq V
              /\ \A c, d \in V : ViewOf(c) = ViewOf(d) => c = d
              /\ \A c \in V : ViewOf(c) <= lastVoted'[n]
              /\ ProposalActions(n, b) \in Seq(VoteItem(n, V))
    BY <2>1, <2>2, ProposalVotes
  <2>4. agenda[n] \in Seq(VoteItem(n, V)) /\ acts[n] \in Seq(VoteItem(n, V))
    BY <2>3, VoteItems DEF VoteBook
  <2>5. acts'[n] \in Seq(VoteItem(n, V))
    BY <2>1, <2>3, <2>4, ConcatProperties
  <2> QED
    BY <2>1, <2>3, <2>4, <2>5 DEF BookStep
<1> QED
  BY <1>1, <1>2, <1>3, QuietCore, QuietPacemaker, QuietFinishAdvance,
     QuietInterpreter, QuietBuildProposal, QuietPersist, QuietEvent
  DEF Work

(* A vote leaves from the head of the agenda of the node that signed it. *)
LEMMA NewVoteInBook ==
    ASSUME TypeOK, NEW n \in Node, NEW W, VoteBook(n, W), Step(n),
           NEW m \in msgs' \ msgs, m.kind = "vote"
    PROVE  m.from = n /\ m.block \in W
<1>1. Sends(n)
  BY StepGrows
<1>2. ~HandleTimeout(n)
  <2> SUFFICES ASSUME HandleTimeout(n) PROVE FALSE
    OBVIOUS
  <2>1. \/ msgs' = msgs
        \/ msgs' = msgs \cup {NewView({Head(agenda[n]).msg.from}, highQc[n])}
    BY DEF HandleTimeout
  <2> QED
    BY <2>1 DEF NewView
<1>3. ~OnTimeout(n)
  <2> SUFFICES ASSUME OnTimeout(n) PROVE FALSE
    OBVIOUS
  <2>1. PICK kept \in SUBSET TimeoutMsg : msgs' = msgs \cup kept
    BY OnTimeoutMessages
  <2> QED
    BY <2>1 DEF TimeoutMsg
<1>4. ~ReleaseStash(n)
  <2> SUFFICES ASSUME ReleaseStash(n) PROVE FALSE
    OBVIOUS
  <2>1. PICK s \in stash[n] : BroadcastMsg(n, s, <<>>)
    BY DEF ReleaseStash
  <2>2. s.kind = "proposal" /\ msgs' = msgs \cup {s}
    BY <2>1 DEF BroadcastMsg, TypeOK, ProposalMsg
  <2> QED
    BY <2>2
<1>5. /\ Busy(n) /\ Head(agenda[n]).op = "send"
      /\ msgs' = msgs \cup {Head(agenda[n]).msg}
  BY <1>1, <1>2, <1>3, <1>4 DEF Sends, Broadcast, Flushed, Doing, BroadcastMsg
<1>6. Head(agenda[n]) \in VoteItem(n, W)
  BY <1>5, HeadTailProperties DEF VoteBook, Busy
<1> QED
  BY <1>5, <1>6 DEF VoteItem, VoteSend

LEMMA InitBook == Init => VoteInv
<1> SUFFICES ASSUME Init, NEW n \in Node
             PROVE  VoteBook(n, {})
  BY DEF VoteInv
<1>1. Cert(0) \in CallItem
  BY ConstantsOK, CallItemTypes
<1>2. <<Cert(0)>> \in Seq(CallItem) /\ <<>> \in Seq(CallItem)
  BY <1>1
<1>3. <<Cert(0)>> \in Seq(VoteItem(n, {})) /\ <<>> \in Seq(VoteItem(n, {}))
  BY <1>2, QuietItems, VoteItems
<1> QED
  BY <1>3 DEF Init, VoteBook, VotesSent

(* A node that recovers takes its last_voted_view from disk: the book is kept
   if the record covers the votes that were sent. *)
LEMMA RestartBook ==
    ASSUME TypeOK, NEW n \in Node, NEW W \in SUBSET Block, VoteBook(n, W), Restart(n),
           SentVotesDurable
    PROVE  \E V \in SUBSET Block : VoteBook(n, V)'
<1> DEFINE sent == {m \in VotesSent : m.from = n}
           V == {m.block : m \in sent}
           v == IF ViewOf(disk[n].highQc) > disk[n].voted
                THEN ViewOf(disk[n].highQc) ELSE disk[n].voted
<1>1. V \subseteq W
  BY DEF VoteBook
<1>2. /\ agenda'[n] = <<Cert(v)>> /\ acts'[n] = <<>>
      /\ lastVoted'[n] = disk[n].voted /\ msgs' = msgs
  BY DEF Restart, TypeOK
<1>3. v \in 0 .. MaxView
  BY DiskType, ViewOfType
<1> HIDE DEF v
<1>4. <<Cert(v)>> \in Seq(CallItem) /\ <<>> \in Seq(CallItem)
  BY <1>3, CallItemTypes
<1>5. <<Cert(v)>> \in Seq(VoteItem(n, V)) /\ <<>> \in Seq(VoteItem(n, V))
  BY <1>4, QuietItems, VoteItems
<1>6. \A b \in V : ViewOf(b) <= lastVoted'[n]
  BY <1>2 DEF SentVotesDurable
<1>7. \A b, c \in V : ViewOf(b) = ViewOf(c) => b = c
  BY <1>1 DEF VoteBook
<1>8. \A m \in VotesSent' : m.from = n => m.block \in V
  BY <1>2 DEF VotesSent
<1>9. PICK U : U = V
  OBVIOUS
<1> HIDE DEF V
<1>10. VoteBook(n, U)'
  BY <1>2, <1>5, <1>6, <1>7, <1>8, <1>9 DEF VoteBook
<1> QED
  BY <1>1, <1>9, <1>10

LEMMA NextBook ==
    ASSUME TypeOK, TypeOK', VoteInv, [Next]_vars,
           \/ SentVotesDurable
           \/ \A n \in Node : ~Restart(n)
    PROVE  VoteInv'
<1>1. CASE UNCHANGED vars
  BY <1>1 DEF vars, core, unparking, VoteInv, VoteBook, VotesSent
<1>2. ASSUME NEW n \in Node, Step(n), NEW o \in Node, NEW W \in SUBSET Block,
             VoteBook(o, W)
      PROVE  \E V \in SUBSET Block : VoteBook(o, V)'
  <2>1. PICK B \in SUBSET Block : VoteBook(n, B)
    BY DEF VoteInv
  <2>2. \A m \in msgs' \ msgs : m.kind = "vote" => m.from = n /\ m.block \in B
    BY <1>2, <2>1, NewVoteInBook
  <2>3. CASE o # n
    <3>1. Same(o)
      BY <1>2, <2>3, StepIsLocal
    <3>2. \A m \in VotesSent' : m.from = o => m.block \in W
      BY <1>2, <2>2, <2>3 DEF VotesSent, VoteBook
    <3>3. VoteBook(o, W)'
      BY <1>2, <3>1, <3>2 DEF VoteBook, Same
    <3> QED
      BY <3>3
  <2>4. CASE o = n /\ Restart(n)
    BY <1>2, <2>4, RestartBook
  <2>5. CASE o = n /\ ~Restart(n)
    <3>1. PICK V \in SUBSET Block :
              /\ W \subseteq V
              /\ \A c, d \in V : ViewOf(c) = ViewOf(d) => c = d
              /\ \A c \in V : ViewOf(c) <= lastVoted'[n]
              /\ agenda'[n] \in Seq(VoteItem(n, V))
              /\ acts'[n] \in Seq(VoteItem(n, V))
      BY <1>2, <2>5, WorkBook DEF BookStep, Step
    <3>2. \A m \in msgs' \ msgs : m.kind = "vote" => m.block \in W
      BY <1>2, <2>5, NewVoteInBook
    <3>3. \A m \in VotesSent' : m.from = n => m.block \in V
      BY <1>2, <2>5, <3>1, <3>2 DEF VotesSent, VoteBook
    <3>4. VoteBook(n, V)'
      BY <3>1, <3>3 DEF VoteBook
    <3> QED
      BY <2>5, <3>4
  <2> QED
    BY <2>3, <2>4, <2>5
<1>3. ASSUME NEW n \in Node, Step(n)
      PROVE  VoteInv'
  <2> SUFFICES ASSUME NEW o \in Node
               PROVE  \E V \in SUBSET Block : VoteBook(o, V)'
    BY DEF VoteInv
  <2>1. PICK W \in SUBSET Block : VoteBook(o, W)
    BY DEF VoteInv
  <2> QED
    BY <1>2, <1>3, <2>1
<1> QED
  BY <1>1, <1>3 DEF Next, Step

LEMMA BookUnique == TypeOK /\ VoteInv => OneVotePerView /\ CertifiedUnique
<1> SUFFICES ASSUME TypeOK, VoteInv
             PROVE  OneVotePerView
  BY CertificatesUnique
<1> SUFFICES ASSUME NEW x \in VotesSent, NEW y \in VotesSent, x.from = y.from,
                    ViewOf(x.block) = ViewOf(y.block)
             PROVE  x.block = y.block
  BY DEF OneVotePerView
<1>1. x.from \in Node
  BY VotesTyped
<1>2. PICK W \in SUBSET Block : VoteBook(x.from, W)
  BY <1>1 DEF VoteInv
<1> QED
  BY <1>2 DEF VoteBook

(* No equivocation, for any number of validators, weights, views and crashes,
   in every behaviour in which the durable last_voted_view covers the votes
   that were sent (SentVotesDurable): no node signs two votes in one view, and
   no view has two certificates.  The run Nested shows that the code does not
   guarantee that premise when persist batches are nested; the theorem says
   that this is the only way to equivocate. *)
THEOREM NoEquivocation ==
    Spec /\ []SentVotesDurable => [](OneVotePerView /\ CertifiedUnique)
<1> DEFINE Inv == TypeOK /\ VoteInv
           Safe == OneVotePerView /\ CertifiedUnique
<1>1. Init => Inv
  BY InitType, InitBook
<1>2. Inv /\ SentVotesDurable /\ [Next]_vars => Inv'
  BY NextType, NextBook
<1>3. Inv => Safe
  BY BookUnique
<1> HIDE DEF Inv, Safe
<1>4. Spec /\ []SentVotesDurable => []Safe
  BY <1>1, <1>2, <1>3, PTL DEF Spec
<1> QED
  BY <1>4 DEF Safe

(* No equivocation before the first crash, with no premise: in memory,
   last_voted_view alone prevents a second vote in a view, however the calls
   of the event loop are nested and however votes are delayed in the output of
   unparked proposals. *)
THEOREM NoEquivocationUntilCrash ==
    Spec => [](restarts = 0 => OneVotePerView /\ CertifiedUnique)
<1> DEFINE Inv == TypeOK /\ (restarts = 0 => VoteInv)
           Safe == restarts = 0 => OneVotePerView /\ CertifiedUnique
<1>1. Init => Inv
  BY InitType, InitBook
<1>2. Inv /\ [Next]_vars => Inv'
  <2> SUFFICES ASSUME Inv, [Next]_vars
               PROVE  Inv'
    OBVIOUS
  <2>1. TypeOK /\ TypeOK'
    BY NextType
  <2>2. ASSUME restarts' = 0
        PROVE  VoteInv'
    <3>1. \A n \in Node : ~Restart(n)
      BY <2>1, <2>2 DEF Restart, TypeOK
    <3>2. restarts = 0
      <4>1. CASE UNCHANGED vars
        BY <2>2, <4>1 DEF vars
      <4>2. ASSUME NEW n \in Node, Work(n)
            PROVE  restarts' = restarts
        BY <4>2
        DEF Work, HandleProposal, RejectProposal, HandleVote, HandleNewView,
            HandleTimeout, TimeoutCertFormed, OnCert, OnRoundSync, OnPacemakerAdvance,
            UnparkOne, FinishAdvance, BecomeLeader, PersistUpdates, Broadcast,
            SuppressVote, StashProposal, DrainLoopback, BuildProposal, BuildFails,
            CommitToApp, CommitFails, ApplyCommit
      <4>3. ASSUME NEW n \in Node, Event(n)
            PROVE  restarts' = restarts
        BY <4>3 DEF Event, Receive, OnTimeout, ReceiveBlock, BlockSyncRetryTick,
                    ReleaseStash
      <4> QED
        BY <2>2, <3>1, <4>1, <4>2, <4>3 DEF Next
    <3> QED
      BY <2>1, <3>1, <3>2, NextBook
  <2> QED
    BY <2>1, <2>2
<1>3. Inv => Safe
  BY BookUnique
<1> HIDE DEF Inv, Safe
<1>4. Spec => []Safe
  BY <1>1, <1>2, <1>3, PTL DEF Spec
<1> QED
  BY <1>4 DEF Safe
=============================================================================
