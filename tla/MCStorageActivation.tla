------------------------ MODULE MCStorageActivation ------------------------
(***************************************************************************)
(* StorageActivation for TLC.  Two roots and two media are the least with  *)
(* which a change of roots and a replacement at one root can both happen.  *)
(* Neither roots nor media are told apart by any action.                   *)
(***************************************************************************)
EXTENDS StorageActivation, TLC

StorageSymmetry == Permutations(Roots) \cup Permutations(Volumes)
=============================================================================
