\* Two sessions: an event may be delivered while a delivery of it is handled.
SPECIFICATION StripeSpec
CONSTANTS
  Sessions = {s1, s2}
  WorkOrders = {w1}
  Quotes = {w1}
  QuoteOf <- MCQuoteOf
  NoWorkOrder = none
  Amounts = {1, 2}
  Dues = {2}
  Credits = {}
  StaffStatuses = {"issued"}
  StripeIds <- MCNoIds
  MaxPayments = 1
  MaxDeposits = 0
  MaxDisputes = 0
  MaxCredit = 0
  MaxCheckouts = 1
SYMMETRY MCSymmetry
PROPERTY
  RecordedOnce
