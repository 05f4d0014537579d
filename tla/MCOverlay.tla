----------------------------- MODULE MCOverlay -----------------------------
(***************************************************************************)
(* A bootstrap and a peer that dials in; one kind of message.              *)
(***************************************************************************)
EXTENDS Overlay

MCKindRate == [k \in Kinds |-> 1]
=============================================================================
