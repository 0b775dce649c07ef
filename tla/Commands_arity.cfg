\* HMGET key field.
SPECIFICATION Spec
CONSTANTS
  Names = {"HMGET"}
  Values <- Scalars
  MaxArguments = 3
  MaxCalls = 1
INVARIANTS
  DocumentedIsSent
CHECK_DEADLOCK FALSE
