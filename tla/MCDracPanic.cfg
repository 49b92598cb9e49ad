SPECIFICATION Spec
CONSTANTS
  s1 = s1
  v1 = v1
  NoSession = NoSession
  NoClient = NoClient
  Sessions = {s1}
  Viewers = {v1}
  Requests = {}
  Connects = {}
SYMMETRY Symm
INVARIANT SharingIsSafe
CHECK_DEADLOCK FALSE
