------------------------------- MODULE Ledger -------------------------------
(* What the purchases of Purchase add up to: the daily ledger of           *)
(* risk_state, the costs of the position rows, the executed purchases.     *)
EXTENDS Purchase, FiniteSetsExt

ASSUME GiftsFinite == IsFiniteSet(Gifts)

\* The cells of f over S, added up.
Total(f, S) == MapThenSumSet(LAMBDA x : f[x], S)

Booked   == Total(spent, Days)
Recorded == Total(paid, Gifts)
Executed == Total(landed, Gifts)

\* The portfolio never shows a cost the daily ledger has not counted first,
\* wherever a crash or a cancelled context cuts the bookkeeping.
LedgerCoversPositions == Recorded <= Booked

\* Without faults everything the marketplace executed is, once the purchase
\* has returned, claimed as bought, held as a position and counted exactly.
EveryPurchaseBooked ==
  AtRest =>
    /\ \A g \in Gifts : landed[g] > 0 => claim[g] = "bought" /\ position[g] # "none"
    /\ Recorded = Booked

\* Money the marketplace took is in the ledger whenever no purchase is running,
\* a restart included: "a restart must never hand back a daily budget that has
\* already been spent" (internal/risk/risk.go:5).
BudgetRemembersPurchases ==
  AtRest => Booked >= Executed * Min(Asks)

=============================================================================
