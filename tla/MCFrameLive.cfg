SPECIFICATION FairSpec
CONSTANTS
  v1 = v1
  v2 = v2
  Viewers = {v1, v2}
  NoViewer = NoViewer
  MaxFrames = 2
  MaxAsked = 2
PROPERTY SlowBrowserDelaysNobody
PROPERTY RequestAnswered
CHECK_DEADLOCK FALSE
