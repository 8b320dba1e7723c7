----------------------------- MODULE MCPurchase -----------------------------
(* Instances of Purchase and its ledger for TLC. *)
EXTENDS Ledger, TLC

CONSTANTS g1, g2, g3, w1, w2

Symmetric == Permutations(Gifts) \cup Permutations(Workers)

\* "A clean HTTP-level rejection means the purchase definitely did not happen"
\* (internal/exec/executor.go:165), on the error path that writes "failed".
RejectionMeansNotBought == FailedMeansNotBought
=============================================================================
