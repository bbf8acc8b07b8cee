--------------------------- MODULE MC_LocalCopy ----------------------------
(***************************************************************************)
(* Instances of LocalCopy for TLC: one or two entries, of which the last   *)
(* may be a directory of two files, and up to two failing steps.           *)
(***************************************************************************)
EXTENDS LocalCopy

=============================================================================
