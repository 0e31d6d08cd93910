SPECIFICATION FairSpec
CONSTANTS
  c1 = c1
  c2 = c2
  NoReplicas = NoReplicas
  Texts <- MCServiceNames
  ServiceNames <- MCServiceNames
  Requests <- MCRequests
  Decodable <- MCDecodable
  Calls <- Twice
  StoredBefore <- MCStoredBefore
  MaxRestarts = 1
INVARIANT
  AcknowledgedStands
PROPERTIES
  OnlyUsableWritten
  ImplementsAtomicRegistry
  GoroutinesEnd
CHECK_DEADLOCK FALSE
