------------------------------- MODULE MCRouting -------------------------------
(***************************************************************************)
(* Four files, the fewest on which two files are neither each other's nor   *)
(* their own reflection; four pawns, the fewest whose files do not tell a   *)
(* position from its reflection while their words do.                       *)
(***************************************************************************)
EXTENDS Routing

MCRoles == <<"Queen">>
===============================================================================
