SPECIFICATION FairSpec
CONSTANTS
  s1 = s1
  v1 = v1
  v2 = v2
  r1 = r1
  NoSession = NoSession
  NoClient = NoClient
  Sessions = {s1}
  Viewers = {v1, v2}
  Requests = {r1}
  Connects = {}
PROPERTY FailedSessionDropsViewers
PROPERTY DrainedSessionEnds
PROPERTY IdleSessionReaped
CHECK_DEADLOCK FALSE
