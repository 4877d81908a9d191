\* One session. An issued invoice whose payment was refunded.
SPECIFICATION Spec
CONSTANTS
  Sessions = {s1}
  WorkOrders = {w1}
  Quotes = {w1}
  QuoteOf <- MCQuoteOf
  NoWorkOrder = none
  Amounts = {1, 2}
  Dues = {2, 3}
  Credits = {1}
  StaffStatuses = {"issued", "voided"}
  StripeIds <- MCNoIds
  MaxPayments = 2
  MaxDeposits = 1
  MaxDisputes = 1
  MaxCredit = 2
INVARIANTS
  IssuedIsPayable
