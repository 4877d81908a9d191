\* Seven loads: two of inventory, three of accounts, two of file attachments.  When all
\* accounts are deactivated, or all uploads done, nobody has a request left to send.
SPECIFICATION BackOfficeSpec
CONSTANTS
  s1 = s1
  s2 = s2
  s3 = s3
  n1 = n1
  n2 = n2
  e1 = e1
  e2 = e2
  p1 = p1
  p2 = p2
  x = x
  y = y
  u1 = u1
  u2 = u2
  Null = Null
  Name <- MCName
  Email <- MCEmail
  Password <- MCPassword
  Entity <- MCEntity
  User <- MCUser
  MaxFilesPerEntity = 1
  InventoryLoads <- MCInventory
  AccountLoads <- MCAccounts
  FileLoads <- MCFiles
CHECK_DEADLOCK FALSE
INVARIANTS
  InventoryTypeOK
  ReceivedIsCounted
  AccountsTypeOK
  UniqueAccounts
  FilesTypeOK
  AttachmentLimit
  FilesOnDisk
PROPERTIES
  TokenSpentOnce
