\* Two sessions: the requests of both interleave between read and commit.
SPECIFICATION Spec
CONSTANTS
  Sessions = {s1, s2}
  WorkOrders = {w1, w2}
  Quotes = {w1, w2}
  QuoteOf <- MCQuoteOf
  NoWorkOrder = none
  Amounts = {1, 2}
  Dues = {2}
  Credits = {}
  StaffStatuses = {"paid"}
  StripeIds <- MCNoIds
  MaxPayments = 1
  MaxDeposits = 1
  MaxDisputes = 0
  MaxCredit = 0
SYMMETRY MCSymmetry
INVARIANTS
  TypeOK
  TransfersMatchDeposits
  RefundsCovered
  PendingGrounded
PROPERTIES
  InvoiceCreatedOnce
