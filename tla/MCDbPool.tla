------------------------------ MODULE MCDbPool ------------------------------
(***************************************************************************)
(* DbPool for TLC.  One file in each journal mode; two writers overlap on  *)
(* the gate; three pools let a file be left, replaced and come back.       *)
(***************************************************************************)
EXTENDS DbPool
=============================================================================
