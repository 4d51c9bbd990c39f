----------------------------- MODULE MCRunTree -----------------------------
(* Instances of RunTree for TLC. *)
EXTENDS RunTree
=============================================================================
