----------------------------- MODULE MC_Removal -----------------------------
(***************************************************************************)
(* An instance of Removal for TLC. What is selected: a file, a link to a   *)
(* directory elsewhere that is not empty, and a directory with a file and  *)
(* a directory, in which there are a file and another such link.           *)
(* MC_LinkNode leaves the directory out.                                   *)
(***************************************************************************)
EXTENDS Removal, TLC

CONSTANTS file, top, past, dir, a, sub, b, link, beyond

MC_LinkNode == {file, top, past}
MC_LinkParent == file :> Root @@ top :> Root @@ past :> top

MC_Node == MC_LinkNode \cup {dir, a, sub, b, link, beyond}
MC_Parent == MC_LinkParent @@ dir :> Root @@ a :> dir @@ sub :> dir @@ b :> sub @@ link :> sub @@ beyond :> link

MC_Both == BOOLEAN
MC_No == {FALSE}

=============================================================================
