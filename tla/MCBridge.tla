------------------------------ MODULE MCBridge ------------------------------
(* Small instances of Bridge for TLC. *)
EXTENDS Bridge, TLC
CONSTANTS m1, m2, e1, w1
Both == e1 :> m1 @@ w1 :> m1
=============================================================================
