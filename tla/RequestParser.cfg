CONSTANTS
  Base = 4
  ByteValues = 4
  MaxMetaStringBytes = 2
  MaxImageSizeBytes = 5
  MaxBatchPayloadBytes = 4
  MaxBatchItems = 2
  Requests <- MCRequests
  Bodies <- MCBodies
SPECIFICATION Spec
INVARIANTS
  TypeOK
  CursorAccounts
  AcceptedWithinLimits
  AcceptedIsEncoding
  LegalComesBack
  OversizedIsResourceLimit
  ResourceLimitIsEarned
