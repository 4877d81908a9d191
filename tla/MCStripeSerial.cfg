\* Ids posted: none, those of the first checkout, and some of no checkout.
\* One session: requests run one after another, deliveries are repeated, answers lost.
SPECIFICATION FairStripeSpec
CONSTANTS
  Sessions = {s1}
  WorkOrders = {w1}
  Quotes = {w1}
  QuoteOf <- MCQuoteOf
  NoWorkOrder = none
  Amounts = {1, 2}
  Dues = {2}
  Credits = {1}
  StaffStatuses = {"issued"}
  StripeIds <- MCSomeIds
  MaxPayments = 1
  MaxDeposits = 0
  MaxDisputes = 0
  MaxCredit = 1
  MaxCheckouts = 2
INVARIANTS
  StripeTypeOK
  PaymentsBacked
  RefundsBacked
  IssuedStillOwes
PROPERTIES
  RecordedOnce
  CompletedIsRecorded
  StripeLedgerKept
