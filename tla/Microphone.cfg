\* One capture with two failures and a cancellation and every reply of the bridge, or two start
\* commands with none of these.
SPECIFICATION Spec
CONSTANTS
  p1 = p1
  p2 = p2
  Producers = {p1, p2}
  NoProducer = NoProducer
  MaxSequence = 2
  MaxGeneration = 1
  MaxErrors = 2
  MaxCancels = 1
  MaxQueuedFrames = 2
  MaxBatchFrames = 2
  MaxFrames = 3
SYMMETRY Interchangeable
CONSTRAINT OneSpends
INVARIANT TypeOK
INVARIANT LeaseOwned
INVARIANT OneCapture
PROPERTY Delivered
\* A run ends when its budget of captures is spent.
CHECK_DEADLOCK FALSE
