SPECIFICATION PicturesSpec
CONSTANTS
  blk = blk
  wht = wht
  red = red
  Gray = gray
  Colors = {blk, wht, red}
  Screens <- MCScreens
  Placeholders <- MCPlaceholders
  Base = 2
  FirstChoices = 1
  MoreChoices = 2
  Codecs = {"dvc7", "dvc15"}
  MaxPackets = 3
  Window = 500
  Steps = {250}
  MaxTime = 750
INVARIANT DecodesScreen
INVARIANT KeepsWindow
 
INVARIANT NewestIsScreen
CHECK_DEADLOCK FALSE
