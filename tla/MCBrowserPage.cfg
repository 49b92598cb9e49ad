SPECIFICATION BrowserSpec
CONSTANTS
  h1 = h1
  h2 = h2
  Hosts = {h1, h2}
  NoHost = NoHost
  MaxRfbs = 2
  Letters = {"e"}
  Odd = {"o"}
  Platforms = {"linux", "windows"}
  Naming = {TRUE, FALSE}
  NoKey = "none"
  MaxEvents = 4
  MaxVisits = 3
SYMMETRY Symm
INVARIANT PageFollowsHost
INVARIANT WaitsForAnswer
INVARIANT NoKeyIsForgotten
 
CHECK_DEADLOCK FALSE
