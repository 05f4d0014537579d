--------------------------- MODULE LeaderSelection ---------------------------
(***************************************************************************)
(* The two leader rules of the node.  A validator set is a record of two   *)
(* sequences: its members, sorted by id, and their weights.                *)
(*                                                                         *)
(* The safety core proposes when round_robin_leader names it; the          *)
(* pacemaker calls become_leader when the weighted accumulator names it.   *)
(* The accumulator starts afresh with every validator set: n is the number *)
(* of views since the view in which the set took effect.                   *)
(***************************************************************************)
EXTENDS Integers, Sequences

Index(s) == DOMAIN s.members

\* round_robin_leader (the code indexes from 0)
RoundRobinLeader(s, v) == s.members[(v % Len(s.members)) + 1]

\* The sum of the first n elements of x
SumTo(x, n) ==
    LET sum[k \in 0 .. n] == IF k = 0 THEN 0 ELSE sum[k - 1] + x[k]
    IN  sum[n]

\* total_weight
Total(s) == SumTo(s.weights, Len(s.members))

\* accumulator_step: everybody gains its weight, the first maximum leads and
\* pays the total.
Gain(s, p) == [i \in Index(s) |-> p[i] + s.weights[i]]
Best(p) == CHOOSE i \in DOMAIN p :
              /\ \A j \in DOMAIN p : p[j] <= p[i]
              /\ \A j \in 1 .. i - 1 : p[j] < p[i]

\* (Mutant: the leader pays its own weight only.)
StepUnpaid(s, p) ==
    LET g == Gain(s, p) IN [g EXCEPT ![Best(g)] = @ - s.weights[Best(g)]]

accumulator_step(s, p) ==
    LET g == Gain(s, p) IN [g EXCEPT ![Best(g)] = @ - Total(s)]

NoPriorities(s) == [i \in Index(s) |-> 0]

\* (Mutant: the walk stops one view early.)
WalkShort(s, p, n) ==
    LET walk[k \in 0 .. n] == IF k <= 1 THEN p ELSE accumulator_step(s, walk[k - 1])
    IN  walk[n]

\* n accumulator steps from p
Walk(s, p, n) ==
    LET walk[k \in 0 .. n] == IF k = 0 THEN p ELSE accumulator_step(s, walk[k - 1])
    IN  walk[n]

\* The leader of the view that follows on priorities p
Elected(s, p) == s.members[Best(Gain(s, p))]

\* The pure rule: recompute from the start of the regime, n views ago.
AccumulatorLeader(s, n) ==
    LET after[k \in 0 .. n] ==
            IF k = 0 THEN NoPriorities(s) ELSE accumulator_step(s, after[k - 1])
    IN  Elected(s, after[n])
=============================================================================
