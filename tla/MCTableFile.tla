------------------------------ MODULE MCTableFile ------------------------------
(***************************************************************************)
(* Five indices in frames of two: two full frames and a short one, in one,   *)
(* two or three batches.  The values have a low byte alone, both bytes, a    *)
(* low byte of 0 or 1, and the greatest distance.                           *)
(***************************************************************************)
EXTENDS TableFile

MCOutcomes == {Invalid, Unknown(32), Win("Capture", 8191), Loss("Checkmate", 0),
               Loss("Promotion", 32)}
MCMirrors == {<<>>, (2 :> 5) @@ (5 :> 2) @@ (1 :> 1)}
===============================================================================
