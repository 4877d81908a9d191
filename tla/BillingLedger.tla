--------------------------- MODULE BillingLedger ---------------------------
(***************************************************************************)
(* The rows of Billing as a ledger: what the columns of money say when one *)
(* forgets statuses, credits, disputes, and the requests in flight.        *)
(***************************************************************************)
EXTENDS Billing

\* A payment that create_payment makes.
PostedPayment ==
  {Posted(w, n, ids) : w \in WorkOrders, n \in 1 .. MaxPayments, ids \in StripeIds}

L == INSTANCE Ledger WITH
       Invoice <- WorkOrders,
       Payment <- PostedPayment,
       Deposit <- 1 .. MaxDeposits,
       Amount <- Amounts,
       invoices <- Invoices,
       payments <- db.paid,
       deposits <- [d \in DOMAIN db.deposit |-> db.deposit[d].amount],
       held <- {d \in DOMAIN db.depStatus : db.depStatus[d] = "collected"},
       returned <- db.refunded,
       repaid <- db.depRefund

\* When requests run one after another, each of them makes one entry of the ledger or
\* none: whatever else a handler writes, it takes, credits and returns money as the
\* ledger permits, and the status 'collected' of a deposit says that it is held.
LedgerKept == L!Spec
=============================================================================
