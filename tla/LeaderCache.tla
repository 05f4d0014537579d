----------------------------- MODULE LeaderCache -----------------------------
(***************************************************************************)
(* WeightedAccumulatorSelector is stateful: for each regime (the views for *)
(* which one validator set is in force) it caches the priorities of the    *)
(* highest view it was asked about, walks them forward for a later view    *)
(* and answers an older one by recomputing from the start of the regime.   *)
(* When a block with a reconfiguration is committed the node gets a new    *)
(* boundary and a new, empty selector for the longer history.              *)
(***************************************************************************)
EXTENDS LeaderSelection, FiniteSetsExt

CONSTANTS
    Regimes,   \* the validator sets in order: [from, members, weights]
    LastView   \* bound: the highest view ever asked about

ASSUME RegimesOrdered ==
    /\ Len(Regimes) \in Nat \ {0} /\ DOMAIN Regimes = 1 .. Len(Regimes)
    /\ Regimes[1].from = 0
    /\ \A i \in 1 .. Len(Regimes) - 1 : Regimes[i].from < Regimes[i + 1].from
    /\ \A i \in DOMAIN Regimes :
          /\ Regimes[i].from \in Nat /\ Len(Regimes[i].members) \in Nat \ {0}
          /\ DOMAIN Regimes[i].members = 1 .. Len(Regimes[i].members)
          /\ Regimes[i].weights \in [DOMAIN Regimes[i].members -> Nat \ {0}]
    /\ LastView \in Nat

VARIABLES
    known,      \* boundaries in the node's history
    snapshot,   \* boundaries in the history the selector was made for
    frontier,   \* the selector's state: by the number of the regime
    reply       \* the latest query: its view, the boundaries known, the leader

vars == <<known, snapshot, frontier, reply>>

\* regime_start_for and set_at, as the position of the boundary
RegimeOf(v, boundaries) == Max({i \in 1 .. boundaries : Regimes[i].from <= v})

\* The leader of v for a node with that many boundaries
LeaderOf(v, boundaries) ==
    LET i == RegimeOf(v, boundaries)
    IN  AccumulatorLeader(Regimes[i], v - Regimes[i].from)

NoFrontier == [i \in {} |-> 0]

Init ==
    /\ known = 1
    /\ snapshot = 1
    /\ frontier = NoFrontier
    /\ reply = [view |-> 0, boundaries |-> 1, leader |-> LeaderOf(0, 1)]

Extend(f, i, x) == [j \in DOMAIN f \cup {i} |-> IF j = i THEN x ELSE f[j]]

\* (Mutant: the frontier is recorded one view too far.)
LeaderAhead(v) ==
    LET i == RegimeOf(v, snapshot)
    IN  /\ frontier' = Extend(frontier, i, [last |-> LastView + 1,
                                            priorities |-> NoPriorities(Regimes[i])])
        /\ UNCHANGED <<known, snapshot, reply>>

\* leader_for_view
LeaderForView(v) ==
    LET i == RegimeOf(v, snapshot)
        s == Regimes[i]
        \* or_insert_with
        f == IF i \in DOMAIN frontier THEN frontier[i]
             ELSE [last |-> s.from - 1, priorities |-> NoPriorities(s)]
        Answer(p) == [view |-> v, boundaries |-> known, leader |-> Elected(s, p)]
    IN  /\ UNCHANGED <<known, snapshot>>
        /\ IF v <= f.last
           THEN /\ reply' = Answer(Walk(s, NoPriorities(s), v - s.from))
                /\ frontier' = Extend(frontier, i, f)
           ELSE LET before == Walk(s, f.priorities, v - f.last - 1)
                IN  /\ reply' = Answer(before)
                    /\ frontier' = Extend(frontier, i,
                                          [last |-> v,
                                           priorities |-> accumulator_step(s, before)])

\* apply_committed_reconfigs: the boundary, then set_selector
SetSelector ==
    /\ known < Len(Regimes)
    /\ known' = known + 1
    /\ snapshot' = known + 1
    /\ frontier' = NoFrontier
    /\ UNCHANGED reply

Next ==
    \/ \E v \in 0 .. LastView : LeaderForView(v)
    \/ SetSelector

Spec == Init /\ [][Next]_vars

-----------------------------------------------------------------------------
(* The state of the selector is well formed: a frontier lies in its regime
   and has one priority per member. *)
TypeOK ==
    /\ known \in 1 .. Len(Regimes) /\ snapshot \in 1 .. Len(Regimes)
    /\ DOMAIN frontier \subseteq 1 .. snapshot
    /\ \A i \in DOMAIN frontier :
          /\ frontier[i].last \in Regimes[i].from .. LastView
          /\ frontier[i].priorities \in [Index(Regimes[i]) -> Int]
    /\ reply.view \in 0 .. LastView /\ reply.boundaries \in 1 .. known

(* Whatever the order of the queries, and whenever boundaries arrived, a
   query answers what every node with the same history answers for that view:
   neither the cache nor a replaced selector changes the elected leader. *)
CacheTransparent == reply.leader = LeaderOf(reply.view, reply.boundaries)

(* Leadership is in proportion to stake within a regime: everybody gains
   Total times its weight in Total views and pays Total each time it leads, so
   the priorities are back at zero after a period exactly if member i led
   weights[i] times. *)
Proportional ==
    \A i \in DOMAIN frontier :
        (frontier[i].last + 1 - Regimes[i].from) % Total(Regimes[i]) = 0
            => frontier[i].priorities = NoPriorities(Regimes[i])

(* However far the selector has walked, no priority drifts away, so that the
   saturating arithmetic of accumulator_step never saturates: nobody owes as
   much as the total stake, hence nobody is owed more than all the others can
   owe.  (With five validators or more somebody may be owed more than the total
   stake, as with stakes 30, 1, 3, 30 and 1.) *)
PrioritiesBounded ==
    \A i \in DOMAIN frontier : \A m \in Index(Regimes[i]) :
        LET debt == Total(Regimes[i]) - 1
        IN  frontier[i].priorities[m] \in -debt .. (Len(Regimes[i].members) - 1) * debt
=============================================================================
