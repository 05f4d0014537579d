----------------------------- MODULE MCSnapshot -----------------------------
(***************************************************************************)
(* Instances of SnapshotRestore for TLC.                                   *)
(***************************************************************************)
EXTENDS SnapshotRestore

Peers2 == <<"p", "q">>

\* A chain with rotations of an operator's key in block 1 and of a validator's
\* in block 2, and one with a change of the validator set in block 1
RotationChain ==
    [h \in 1 .. MaxHeight |-> CASE h = 1 -> "operators" [] h = 2 -> "keys" [] OTHER -> "none"]
ReconfigChain == [h \in 1 .. MaxHeight |-> IF h = 1 THEN "set" ELSE "none"]
TwoChains == {RotationChain, ReconfigChain}
=============================================================================
