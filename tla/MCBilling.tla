----------------------------- MODULE MCBilling -----------------------------
(* Small instances of Billing for TLC.                                        *)
EXTENDS BillingLedger, TLC

\* Each work order was made from a quote of its own, which bears its name.
MCQuoteOf == [w \in WorkOrders |-> w]

\* Payments are posted without ids of Stripe.
MCNoIds == {[session |-> 0, charge |-> 0]}

\* Sessions are alike, and so are work orders together with their quotes.
MCSymmetry == Permutations(Sessions) \cup Permutations(WorkOrders)
=============================================================================
