CONSTANTS
  Base = 5
  Sessions <- MCSessions
SPECIFICATION WireSpec
INVARIANTS
  ClientInStep
  TruncatedOnlyByFailure
