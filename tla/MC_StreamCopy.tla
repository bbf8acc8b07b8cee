--------------------------- MODULE MC_StreamCopy ---------------------------
(* Instances of StreamCopy for TLC: files of up to three blocks. *)
EXTENDS StreamCopy

MC_Both == {TRUE, FALSE}
MC_Yes == {TRUE}

=============================================================================
