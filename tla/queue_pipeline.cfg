CONSTANTS
  PipelineWorkers = 3
  MaxQueue = 2
  Watching = TRUE
  MaxItems = 5
  MaxRestarts = 1
  Writes <- MCWrites
  MaxDatagrams = 1
  MaxRotations = 1
SPECIFICATION TailSpec
CHECK_DEADLOCK FALSE
INVARIANTS AtMostOneEnds WorkGoesOn
PROPERTIES ChannelSpec AcceptedIsProcessed WrittenIsTailed
