SPECIFICATION Spec
CONSTANTS
  s1 = s1
  s2 = s2
  v1 = v1
  r1 = r1
  NoSession = NoSession
  NoClient = NoClient
  Sessions = {s1, s2}
  Viewers = {v1}
  Requests = {r1}
  Connects = {}
SYMMETRY Symm
INVARIANT IInv
INVARIANT NoUseAfterFree
INVARIANT FrameStaysDuringWrite
PROPERTY StatusFromCurrent
PROPERTY ImplementsRegistry
CHECK_DEADLOCK FALSE
