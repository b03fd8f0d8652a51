-------------------------- MODULE MCThumbnailQueue --------------------------
(***************************************************************************)
(* ThumbnailQueue for TLC.  Two keys, a channel for one job and one permit *)
(* make submitters, the worker and downloads wait for one another; two     *)
(* submitters let an enrichment meet a resumption.                         *)
(***************************************************************************)
EXTENDS ThumbnailQueue
=============================================================================
