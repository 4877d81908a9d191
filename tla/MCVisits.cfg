\* Five loads: front desk, bays, inspections and departures one request at a time,
\* and two sessions.
SPECIFICATION VisitsSpec
CONSTANTS
  s1 = s1
  s2 = s2
  v1 = v1
  v2 = v2
  Null = Null
  Vehicle <- MCVehicle
  VisitLoads <- MCLoads
INVARIANTS
  VisitsTypeOK
  OneActiveVisit
  DraftedOnce
PROPERTIES
  ServiceIsOrdered
  CheckedOutPaid
