----------------------------- MODULE MCBlockSync -----------------------------
(***************************************************************************)
(* Two peers; the second has pruned the first block.                       *)
(***************************************************************************)
EXTENDS BlockSync

MCPeers == <<"p", "q">>

MCStoredFrom == [p |-> 0, q |-> 2]
==============================================================================
