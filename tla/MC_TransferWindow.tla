------------------------- MODULE MC_TransferWindow -------------------------
(* Instances of TransferWindow for TLC. *)
EXTENDS TransferWindow, TLC

CONSTANTS l1, t1, t2

\* Two transfers that may run side by side or one after the other.
MC_KindTransfers == (t1 :> "batch") @@ (t2 :> "plain")

\* A local job beside a transfer.
MC_KindOneEach == (l1 :> "plain") @@ (t1 :> "batch")

=============================================================================
