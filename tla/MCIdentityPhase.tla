-------------------------- MODULE MCIdentityPhase --------------------------
(***************************************************************************)
(* IdentityPhase for TLC.  Two files and batches of one row let a file be  *)
(* in the batch, behind it, or attempted already; an activation may put    *)
(* another library, or the same one opened again, under the worker.        *)
(***************************************************************************)
EXTENDS IdentityPhase
=============================================================================
