SPECIFICATION Spec
CONSTANTS
  v1 = v1
  v2 = v2
  Viewers = {v1, v2}
  Keys <- Typing
  Masks = {0, 1, 4}
  Positions = {"here", "there"}
  Types = {4, 6}
  LoginParts = 2
  MaxEvents = 4
SYMMETRY Symm
INVARIANT KeysUnderstood
INVARIANT NoKeySticks
INVARIANT MouseFollows
CHECK_DEADLOCK FALSE
