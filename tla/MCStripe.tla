------------------------------ MODULE MCStripe ------------------------------
(* Small instances of Stripe for TLC.                                         *)
EXTENDS StripeLedger, TLC

\* Each work order was made from a quote of its own, which bears its name.
MCQuoteOf == [w \in WorkOrders |-> w]

\* Payments are posted without ids of Stripe.
MCNoIds == {[session |-> 0, charge |-> 0]}

\* Without ids, with a charge that no checkout made, with the charge of the first checkout,
\* and with both its ids.
MCSomeIds == MCNoIds \cup
  {[session |-> 0, charge |-> 3], [session |-> 0, charge |-> 1], [session |-> 1, charge |-> 1]}

\* Sessions are alike.
MCSymmetry == Permutations(Sessions)
=============================================================================
