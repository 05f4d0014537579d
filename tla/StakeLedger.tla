----------------------------- MODULE StakeLedger -----------------------------
(***************************************************************************)
(* BondedStakeLedger and LivenessTracker: the stake behind each validator  *)
(* as the logs of executed blocks change it, and how often each validator  *)
(* signed the blocks of the last views.                                    *)
(***************************************************************************)
EXTENDS Integers, Sequences, FiniteSets, SequencesExt, Loops

CONSTANTS
    U64Max,           \* the largest amount; sums saturate there
    UNBONDING_DELAY,  \* heights until an unbonded amount is released
    Window            \* LIVENESS_WINDOW_VIEWS

ASSUME StakeLedgerAssumption ==
    U64Max \in Nat \ {0} /\ UNBONDING_DELAY \in Nat \ {0} /\ Window \in Nat \ {0}

SmallerOf(a, b) == IF a <= b THEN a ELSE b

(***************************************************************************)
(* The ledger.  `stake` has the validators with stake, `unbonding` those   *)
(* with amounts that wait; `pending` are the weights not taken yet.        *)
(***************************************************************************)
Update(id, weight) == [id |-> id, weight |-> weight]

seeded_from(genesis) ==
    [stake |-> genesis, unbonding |-> [id \in {} |-> <<>>], height |-> 0,
     pending |-> <<>>]

stake_of(l, id) == IF id \in DOMAIN l.stake THEN l.stake[id] ELSE 0

Unbonding(l, id) == IF id \in DOMAIN l.unbonding THEN l.unbonding[id] ELSE <<>>

With(f, id, value) == [x \in DOMAIN f \cup {id} |-> IF x = id THEN value ELSE f[x]]

Without(f, ids) == [x \in DOMAIN f \ ids |-> f[x]]

\* A validator without stake stays in the ledger.
SetStakeKept(f, id, amount) == With(f, id, amount)

SetStake(f, id, amount) ==
    IF amount = 0 THEN Without(f, {id}) ELSE With(f, id, amount)

Bond(l, id, amount) ==
    LET next == SmallerOf(stake_of(l, id) + amount, U64Max)
    IN IF next = stake_of(l, id)
         THEN l
         ELSE [l EXCEPT !.stake = SetStake(@, id, next),
                        !.pending = Append(@, Update(id, next))]

Unbond(l, id, amount) ==
    LET moved == SmallerOf(amount, stake_of(l, id))
        next == stake_of(l, id) - moved
        queued == [amount |-> moved, mature_at |-> l.height + UNBONDING_DELAY]
    IN IF moved = 0
         THEN l
         ELSE [l EXCEPT
                 !.stake = SetStake(@, id, next),
                 !.unbonding = With(@, id, Append(Unbonding(l, id), queued)),
                 !.pending = Append(@, Update(id, next))]

ApplyOp(l, o) ==
    IF o.op = "bond" THEN Bond(l, o.id, o.amount) ELSE Unbond(l, o.id, o.amount)

\* The slashed stake is not announced.
SlashSilent(l, id) ==
    [l EXCEPT !.stake = Without(@, {id}), !.unbonding = Without(@, {id})]

slash(l, id) ==
    [l EXCEPT !.stake = Without(@, {id}),
              !.unbonding = Without(@, {id}),
              !.pending = IF stake_of(l, id) > 0 THEN Append(@, Update(id, 0)) ELSE @]

\* What is not released by then
Waiting(queue, height) ==
    Along(LAMBDA q, u : IF u.mature_at > height THEN Append(q, u) ELSE q, <<>>, queue)

advance_to_height(l, height) ==
    LET left == [id \in DOMAIN l.unbonding |-> Waiting(l.unbonding[id], height)]
    IN [l EXCEPT !.height = height,
                 !.unbonding = Without(left, {id \in DOMAIN left : left[id] = <<>>})]

take_updates(l) == [l EXCEPT !.pending = <<>>]

(***************************************************************************)
(* The tracker keeps the observations of the window and, to answer without *)
(* walking it, running counts that it corrects when one falls out.         *)
(***************************************************************************)
NoCount == [member |-> 0, credited |-> 0]

EmptyTracker == [obs |-> <<>>, counts |-> [id \in {} |-> NoCount]]

CountOf(counts, id) == IF id \in DOMAIN counts THEN counts[id] ELSE NoCount

Plus(counts, o) ==
    [id \in DOMAIN counts \cup o.members |->
        [member   |-> CountOf(counts, id).member + (IF id \in o.members THEN 1 ELSE 0),
         credited |-> CountOf(counts, id).credited + (IF id \in o.credited THEN 1 ELSE 0)]]

Decrease(n, yes) == IF yes /\ n > 0 THEN n - 1 ELSE n

Minus(counts, o) ==
    LET less == [id \in DOMAIN counts |->
                    [member   |-> Decrease(counts[id].member, id \in o.members),
                     credited |-> Decrease(counts[id].credited, id \in o.credited)]]
    IN Without(less, {id \in DOMAIN less : less[id] = NoCount})

\* The newest observation is taken back instead of the oldest.
ObservePopBack(t, members, signers) ==
    LET o == [members |-> members, credited |-> signers \cap members]
        obs == Append(t.obs, o)
        counts == Plus(t.counts, o)
    IN IF Len(obs) > Window
         THEN [obs |-> Tail(obs), counts |-> Minus(counts, o)]
         ELSE [obs |-> obs, counts |-> counts]

observe(t, members, signers) ==
    LET o == [members |-> members, credited |-> signers \cap members]
        obs == Append(t.obs, o)
        counts == Plus(t.counts, o)
    IN IF Len(obs) > Window
         THEN [obs |-> Tail(obs), counts |-> Minus(counts, Head(obs))]
         ELSE [obs |-> obs, counts |-> counts]
==============================================================================
