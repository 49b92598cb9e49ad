SPECIFICATION Spec
CONSTANTS
  v1 = v1
  v2 = v2
  Viewers = {v1, v2}
  NoViewer = NoViewer
  MaxFrames = 3
  MaxAsked = 2
INVARIANT RefcountExact
INVARIANT DeliveryInv
INVARIANT EveryFrameFreed
PROPERTY ImplementsLatestFrame
CHECK_DEADLOCK FALSE
