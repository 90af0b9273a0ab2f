\* Two calls and a cancellation under fairness.
SPECIFICATION FairSpec
CONSTANTS
  p1 = p1
  Producers = {p1}
  NoProducer = NoProducer
  MaxSequence = 2
  MaxGeneration = 2
  MaxErrors = 0
  MaxCancels = 1
  MaxQueuedFrames = 2
  MaxBatchFrames = 2
  MaxFrames = 1
INVARIANT HangupRevokes
PROPERTY CaptureFollowsCall
\* A run ends when its budget of captures is spent.
CHECK_DEADLOCK FALSE
