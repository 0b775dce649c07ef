\* The classes that do what their usage lines say, with every list of arguments.
SPECIFICATION Spec
CONSTANTS
  Names <- ConformingAndUnknown
  Values <- OneOfAKind
  MaxArguments = 4
  MaxCalls = 1
INVARIANTS
  TypeOK
  SentIsDocumented
  DocumentedIsSent
  RejectedIsCatchable
  AnswersToldApart
  QueuedIsNoData
CHECK_DEADLOCK FALSE
