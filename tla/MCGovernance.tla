----------------------------- MODULE MCGovernance -----------------------------
(***************************************************************************)
(* Four validators a, b, c, d of weight 1; e may join.  Keys k, m and the  *)
(* operators' keys oa, ob, oe are further keys.  A key stands for its      *)
(* holder's signature.  Effective views are chosen around the limits of    *)
(* the first blocks, so that each command is in time in one view and late  *)
(* in another.                                                             *)
(***************************************************************************)
EXTENDS Governance, TLC

MCGenesis == [id \in {"a", "b", "c", "d"} |-> 1]
MCGenesisBls == [id \in {"a", "b", "c", "d"} |-> "bls"]
MCGenesisOps == "a" :> "oa"

Add(id, operator, consent, endpoints) ==
    [id |-> id, weight |-> 2, bls |-> "bls", operator |-> operator,
     consent |-> consent, endpoints |-> endpoints]

Reconfig(adds, removes, changes, v_eff) ==
    [kind |-> "reconfig", adds |-> adds, removes |-> removes,
     changes |-> changes, v_eff |-> v_eff]

Rotation(kind, validator, new, v_eff, signers) ==
    [kind |-> kind, validator |-> validator, new |-> new, v_eff |-> v_eff,
     signers |-> signers, bls |-> "new bls"]

Endpoint(seq, op, ids, signers) ==
    [kind |-> "endpoint", validator |-> "a", seq |-> seq, op |-> op, ids |-> ids,
     signers |-> signers]

Join == Reconfig(<<Add("e", "oe", "oe", <<"n1">>)>>, <<>>, <<>>, 5)
JoinAlone == Reconfig(<<Add("e", "oe", NoKey, <<>>)>>, <<>>, <<>>, 6)
Swap == Reconfig(<<Add("e", NoKey, NoKey, <<>>)>>, <<"d">>, <<[id |-> "a", weight |-> 3]>>, 6)
Leave == Reconfig(<<>>, <<"a">>, <<>>, 7)
Reweigh == Reconfig(<<>>, <<>>, <<[id |-> "b", weight |-> 2]>>, 6)

Rotate == Rotation("rotate", "a", "k", 4, {"a", "k"})
RotateBack == Rotation("rotate", "k", "a", 5, {"k", "a"})
Cancel == [kind |-> "cancel", validator |-> "a", v_eff |-> 4, signers |-> {"a", "k"}]
TakeOver == Rotation("operator_rotate", "a", "m", 5, {"oa", "m"})
NewOperator == Rotation("operator_key", "a", "ob", 3, {"oa", "ob"})

Announce == Endpoint(1, "set", <<"n1">>, {"a"})
Extra == Endpoint(2, "add", <<"n1", "n2">>, {"a", "k"})
Withdraw == Endpoint(2, "remove", <<"n1">>, {"k"})
Slower == [kind |-> "param", v_eff |-> 4, interval |-> 2]

MCMenu ==
    {<<>>, <<Join>>, <<JoinAlone>>, <<Swap, Reweigh>>, <<Leave>>, <<Rotate>>,
     <<RotateBack, Announce>>, <<Cancel, Extra>>, <<TakeOver, NewOperator>>,
     <<NewOperator>>, <<Announce, Slower>>, <<Withdraw>>}

\* A rotation to a former key is cancelled, and the former key names the
\* validator of the next rotation.
Away == Rotation("rotate", "a", "k", 3, {"a", "k"})
Back == Rotation("rotate", "k", "a", 20, {"k", "a"})
Stay == [kind |-> "cancel", validator |-> "k", v_eff |-> 20, signers |-> {"k", "a"}]
Onward == Rotation("rotate", "a", "m", 30, {"k", "m"})
ReindexMenu == {<<>>, <<Away>>, <<Back>>, <<Stay>>, <<Onward>>}
==============================================================================
