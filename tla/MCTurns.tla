------------------------------- MODULE MCTurns -------------------------------
(* Small instances of Turns for TLC. *)
EXTENDS Turns, TLC
CONSTANTS r1, r2, r3, s1, s2
Alone       == [r \in {r1, r2} |-> s1]
TwoSessions == r1 :> s1 @@ r2 :> s1 @@ r3 :> s2
=============================================================================
