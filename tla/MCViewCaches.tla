---------------------------- MODULE MCViewCaches ----------------------------
(***************************************************************************)
(* ViewCaches for TLC.  Two home pages and a favorites page meet an        *)
(* operation of any kind.                                                  *)
(***************************************************************************)
EXTENDS ViewCaches
=============================================================================
