------------------------------ MODULE Quorums ------------------------------
(***************************************************************************)
(* Stake weights and the two thresholds that every other part counts with. *)
(* A ValidatorSet is a list of members with a u64 weight each; the code    *)
(* only ever sums weights over a set of signers, so the model's constant   *)
(* is that sum, WeightOf, as a function of the set of signers, together    *)
(* with the one fact about sums that the protocol relies on: the weight of *)
(* a disjoint union is the sum of the weights.  The sums are u128 over u64 *)
(* weights, which cannot saturate, so they are plain naturals here.        *)
(***************************************************************************)
EXTENDS Integers

CONSTANTS
    Node,      \* the validators, identified by their stable ValidatorId
    WeightOf   \* WeightOf[S]: total weight of the members of S

ASSUME WeightsAdd ==
    /\ WeightOf \in [SUBSET Node -> Nat]
    /\ \A S, T \in SUBSET Node :
          S \cap T = {} => WeightOf[S \cup T] = WeightOf[S] + WeightOf[T]

\* ValidatorSet::total_weight
TotalWeight == WeightOf[Node]

\* (Mutant: counted against the honesty threshold, a third of the weight.)
HasThird(S) == 3 * WeightOf[S] > TotalWeight

\* QuorumCertificate::has_quorum: more than two thirds of the weight signed.
HasQuorum(S) == 3 * WeightOf[S] > 2 * TotalWeight

\* quorum_weight_threshold: the same bound as a number, for timeout buckets.
QuorumWeightThreshold ==
    IF TotalWeight = 0 THEN 1 ELSE (2 * TotalWeight) \div 3 + 1

\* honesty_weight_threshold: enough weight that one signer must be honest.
HonestyWeightThreshold ==
    IF TotalWeight = 0 THEN 1 ELSE TotalWeight \div 3 + 1
=============================================================================
