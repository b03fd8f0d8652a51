--------------------------- MODULE MCActivitySlot ---------------------------
(***************************************************************************)
(* ActivitySlot for TLC.  Three tasks let one task's broadcast be overtaken *)
(* by two successors; two workers let progress reports overtake each other; *)
(* a channel of two values makes a subscriber lag within one activity.      *)
(***************************************************************************)
EXTENDS ActivitySlot
=============================================================================
