\* One session, two work orders and two deposits: a deposit may match both
\* work orders, one through its quote and one through its work_order_id.
SPECIFICATION Spec
CONSTANTS
  Sessions = {s1}
  WorkOrders = {w1, w2}
  Quotes = {w1, w2}
  QuoteOf <- MCQuoteOf
  NoWorkOrder = none
  Amounts = {1, 2}
  Dues = {2}
  Credits = {}
  StaffStatuses = {"issued"}
  StripeIds <- MCNoIds
  MaxPayments = 0
  MaxDeposits = 2
  MaxDisputes = 0
  MaxCredit = 0
SYMMETRY MCSymmetry
INVARIANTS
  DepositsCreditedOnce
  AppliedXorRefunded
PROPERTIES
  LedgerKept
