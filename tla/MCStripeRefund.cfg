\* One session; the request of a refund may roll back.
SPECIFICATION StripeSpec
CONSTANTS
  Sessions = {s1}
  WorkOrders = {w1}
  Quotes = {w1}
  QuoteOf <- MCQuoteOf
  NoWorkOrder = none
  Amounts = {1, 2}
  Dues = {2}
  Credits = {}
  StaffStatuses = {"issued"}
  StripeIds <- MCNoIds
  MaxPayments = 1
  MaxDeposits = 0
  MaxDisputes = 0
  MaxCredit = 0
  MaxCheckouts = 1
PROPERTY
  RefundedOnce
