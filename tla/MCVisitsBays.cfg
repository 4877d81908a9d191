\* One request at a time: appointments confirmed with a bay.
SPECIFICATION VisitsSpec
CONSTANTS
  s1 = s1
  s2 = s2
  v1 = v1
  v2 = v2
  Null = Null
  Vehicle <- MCVehicle
  VisitLoads <- MCBays
PROPERTIES
  ConfirmationConfirmsBay
