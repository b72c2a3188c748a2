CONSTANTS
  Workers = {w1, w2}
  Handler = h
  Destinations = {lake, hook}
  Buffered = {lake}
  BatchSize = 2
  NoList = NoList
  NoSink = NoSink
  MaxLines = 2
  MaxBuilds = 2
  MaxChanges = 1
  Viewers = {v1, v2}
  Sources = {asa, ios}
  AnySource = AnySource
  QueueSize = 2
  MaxMessages = 4
SPECIFICATION MCSpec
CHECK_DEADLOCK FALSE
INVARIANTS InOnePlace ViewersSeeInOrder
PROPERTIES EveryLineSettles GoneViewersLeave
