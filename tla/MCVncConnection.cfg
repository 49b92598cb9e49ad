SPECIFICATION FairSpec
CONSTANTS
  Versions = {0, 3, 7, 8}
  Kinds = {"pixelFormat", "encodings", "request", "key", "pointer"}
  BufSize = 4096
  Splits = FALSE
  MaxSent = 6
  Sizes <- Short
  Screens = {"640x480", "1024x768"}
  FirstScreen = "640x480"
  MaxWire = 2
INVARIANT BothAgree
INVARIANT CommandsWhole
INVARIANT UpdatesRight
PROPERTY ConnectionGoesOn
CHECK_DEADLOCK FALSE
