----------------------------- MODULE MCInProcess -----------------------------
(* Small instances of InProcess for TLC. *)
EXTENDS InProcess, TLC
CONSTANTS r1, r2, s1
Single == r1 :> s1
Alone  == r1 :> s1 @@ r2 :> s1
=============================================================================
