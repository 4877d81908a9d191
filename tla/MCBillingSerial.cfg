\* One session: requests run one after another. Staff never set 'paid' by hand.
SPECIFICATION Spec
CONSTANTS
  Sessions = {s1}
  WorkOrders = {w1}
  Quotes = {w1}
  QuoteOf <- MCQuoteOf
  NoWorkOrder = none
  Amounts = {1, 2}
  Dues = {2, 3}
  Credits = {1}
  StaffStatuses = {"issued", "voided"}
  StripeIds <- MCNoIds
  MaxPayments = 2
  MaxDeposits = 1
  MaxDisputes = 1
  MaxCredit = 2
INVARIANTS
  IssuedStillOwes
PROPERTIES
  LedgerKept
  NoOverpayment
  PaidOnlyWhenSettled
  PaidIsFinal
  RefundRecordedOnce
