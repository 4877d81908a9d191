\* Five loads: amounts, progress and aftercare one request at a time, and two
\* sessions with and without somebody who may approve.
SPECIFICATION WorkOrdersSpec
CONSTANTS
  s1 = s1
  s2 = s2
  Null = Null
  WorkOrderLoads <- MCLoads
INVARIANTS
  WorkOrdersTypeOK
  OneWorkOrderPerQuote
PROPERTIES
  ApproversAuthorize
  ClosedWasChecked
  AuthorizationExplained
  WithinAuthorized
