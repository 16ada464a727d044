------------------------------- MODULE MCServer -------------------------------
(***************************************************************************)
(* Four requests for two permits: two at work, one refused, and one more      *)
(* that may come when a permit is back.                                     *)
(***************************************************************************)
EXTENDS Server

MCRequests == 1 .. 4
===============================================================================
