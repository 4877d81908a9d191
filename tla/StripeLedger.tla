---------------------------- MODULE StripeLedger ----------------------------
(***************************************************************************)
(* The rows as a ledger when payments are made and refunded at Stripe, too:*)
(* what the webhook records and the refund of a charge are entries like    *)
(* those of create_payment and of a refund that Stripe has no part in.     *)
(***************************************************************************)
EXTENDS Stripe, BillingLedger

\* What the webhook records or a request posts, and the amounts of both.
StripePayment == PostedPayment \cup
  [inv : WorkOrders, origin : {"webhook"}, n : RecordNumbers,
   session : 1 .. MaxCheckouts, charge : 1 .. MaxCheckouts]
StripeAmount == Amounts \cup UNION {1 .. due : due \in Dues}

SL == INSTANCE Ledger WITH
        Invoice <- WorkOrders,
        Payment <- StripePayment,
        Deposit <- 1 .. MaxDeposits,
        Amount <- StripeAmount,
        invoices <- Invoices,
        payments <- db.paid,
        deposits <- [d \in DOMAIN db.deposit |-> db.deposit[d].amount],
        held <- {d \in DOMAIN db.depStatus : db.depStatus[d] = "collected"},
        returned <- db.refunded,
        repaid <- db.depRefund

\* When requests run one after another, each of them, each delivery of an event and each
\* refund by Stripe makes one entry of the ledger or none: a payment at Stripe is taken
\* once and never changed, whatever its invoice has become, and returned at most once.
StripeLedgerKept == SL!Spec
=============================================================================
