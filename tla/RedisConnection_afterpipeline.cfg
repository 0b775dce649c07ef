\* A direct call after a pipelined batch, as in examples/pipelining.php.
SPECIFICATION Spec
CONSTANTS
  Pipelines = {"p1"}
  pipeline_amount <- OnePipeline
  Classes = {"plain"}
  Shapes <- CleanShapes
  TextHeads <- AnyHead
  MayTimeout = FALSE
  MayDrop = FALSE
  MaxCalls = 3
  MaxUnread = 2
INVARIANTS
  AppropriateResponse
