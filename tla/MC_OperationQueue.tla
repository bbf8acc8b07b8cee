------------------------- MODULE MC_OperationQueue -------------------------
(* Instances of OperationQueue for TLC. *)
EXTENDS OperationQueue, TLC

CONSTANTS l1, l2, t1, t2

\* Two local jobs and two transfers, one of each pair of several entries.
MC_KindBoth == (l1 :> "plain") @@ (l2 :> "single") @@ (t1 :> "batch") @@ (t2 :> "plain")

\* Local jobs: a batch, and links, which keep the m_errorBatch they find.
MC_KindLocal == (l1 :> "batch") @@ (l2 :> "link") @@ (t1 :> "batch")

=============================================================================
