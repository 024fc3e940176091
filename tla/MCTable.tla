------------------------------ MODULE MCTable -------------------------------
(* An instance of Table for TLC: hashes that collide at the end of the     *)
(* table, so that probes wrap, and that part or collide again as the       *)
(* capacity doubles.                                                       *)
EXTENDS Table, TLC

CONSTANTS a, b, c, d, e

MCKeys == {a, b, c, d, e}
MCHash == a :> 3 @@ b :> 3 @@ c :> 7 @@ d :> 15 @@ e :> 0
=============================================================================
