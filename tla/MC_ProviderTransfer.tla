------------------------ MODULE MC_ProviderTransfer ------------------------
(* Instances of ProviderTransfer for TLC: a file and a directory of a few files. *)
EXTENDS ProviderTransfer
=============================================================================
