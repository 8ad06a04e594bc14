-------------------------- MODULE MCAccesoMemoria --------------------------
(* Sticks of 2, 1 and 2 bytes; a segment of each: 1, 1 and 1, and two of one byte.   *)
EXTENDS AccesoMemoria, TLC

CONSTANTS c1, km, p1, p2

MCTamStick == <<2, 1, 2>>
MCBaseStick == <<0, 2, 3>>
MCBase == p1 :> (0 :> 1 @@ 1 :> 4) @@ p2 :> (0 :> 0 @@ 1 :> 0)
MCLargo == p1 :> (0 :> 3 @@ 1 :> 1) @@ p2 :> (0 :> 1 @@ 1 :> 0)
MCDato == [v \in {1} |-> [i \in 0..15 |-> (v + i) % 3]]
=============================================================================
