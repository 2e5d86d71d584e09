------------------------------ MODULE MCJsonRpc ------------------------------
(* A small instance of JsonRpc for TLC. *)
EXTENDS JsonRpc, TLC
CONSTANTS p1, s1
Single == p1 :> s1
=============================================================================
