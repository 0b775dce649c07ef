\* A connection used for direct calls only, to a server that answers in time
\* with replies the reader understands.
SPECIFICATION Spec
CONSTANTS
  Pipelines = {}
  pipeline_amount <- NoPipelines
  Classes = {"plain", "quit", "shutdown"}
  Shapes <- CleanShapes
  TextHeads <- AnyHead
  MayTimeout = FALSE
  MayDrop = FALSE
  MaxCalls = 4
  MaxUnread = 2
INVARIANTS
  AppropriateResponse
PROPERTIES
  ImplementsRequestReply
