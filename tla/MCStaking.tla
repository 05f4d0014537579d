------------------------------ MODULE MCStaking ------------------------------
(***************************************************************************)
(* Five validators, one more than the floor.  A block executes nothing, a  *)
(* bond, an unbonding of everything, a slashing or an approved             *)
(* reconfiguration.                                                        *)
(***************************************************************************)
EXTENDS Staking, TLC

MCGenesis == [id \in {"a", "b", "c", "d", "e"} |-> 2]

Content(ops, slashed, approved) == [ops |-> ops, slashed |-> slashed, approved |-> approved]

Bonds(id, amount) == [id |-> id, op |-> "bond", amount |-> amount]
Unbonds(id, amount) == [id |-> id, op |-> "unbond", amount |-> amount]

MCMenu ==
    {Content(<<>>, <<>>, <<>>),
     Content(<<Bonds("b", 7), Unbonds("e", 3)>>, <<>>, <<>>),
     Content(<<Unbonds("b", 1)>>, <<"b">>, <<Reconfig({}, "c" :> 5, 9)>>)}

\* The stake of one validator goes up or down in every block.
ReboundMenu ==
    {Content(<<Bonds("b", 1)>>, <<>>, <<>>), Content(<<Unbonds("b", 1)>>, <<>>, <<>>)}

MCProofs == {[who |-> "a", view |-> 1]}

MCSigners == [even |-> {"a", "b", "c", "d", "e"}, odd |-> {"a", "b", "c", "x"}]
==============================================================================
