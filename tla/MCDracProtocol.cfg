SPECIFICATION Spec
CONSTANTS
  DracTypes = {"DRAC4", "DRAC5", "DRAC6"}
  LoginCodes = {0, 1, 21}
  MaxFrames = 4
  MaxOthers = 2
  MaxPipe = 2
  MaxBatch = 2
INVARIANT DecodedWhole
INVARIANT RefreshRight
CHECK_DEADLOCK FALSE
