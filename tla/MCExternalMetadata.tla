------------------------- MODULE MCExternalMetadata -------------------------
(***************************************************************************)
(* ExternalMetadata for TLC.  Two web calls can overlap the pipeline, one  *)
(* of two upstream versions does not parse, and one release follows.       *)
(***************************************************************************)
EXTENDS ExternalMetadata
=============================================================================
