\* Every hazard at once: two pipelines (batch sizes 2 and 0), late answers, drops, error elements, line
\* breaks, MONITOR, QUIT and SHUTDOWN.
SPECIFICATION LiveSpec
CONSTANTS
  Pipelines = {"p1", "p2"}
  pipeline_amount <- TwoPipelines
  Classes = {"plain", "quit", "shutdown", "monitor"}
  Shapes <- AllShapes
  TextHeads <- AnyHead
  MayTimeout = TRUE
  MayDrop = TRUE
  MaxCalls = 3
  MaxUnread = 2
INVARIANTS
  TypeOK
  InSyncUnlessCaused
  NoMixedReply
  BatchBound
  SendOrder
  EveryCallOnce
  IInv
PROPERTIES
  SkewIsPermanent
  CallReturns
