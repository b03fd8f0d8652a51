---------------------------- MODULE MCSelfUpdate ----------------------------
(***************************************************************************)
(* SelfUpdate for TLC.  Release 1 works; release 2 does not come up, and   *)
(* has no catalog asset.  Only the beta channel has something to offer, so *)
(* that a check of the other channel finds a stale offer to remove.        *)
(***************************************************************************)
EXTENDS SelfUpdate

Newest == [stable |-> 0, beta |-> 1]
=============================================================================
