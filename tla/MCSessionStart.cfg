SPECIFICATION StartSpec
CONSTANTS
  h1 = h1
  h2 = h2
  h3 = h3
  Hosts = {h1, h2, h3}
  s1 = s1
  s2 = s2
  s3 = s3
  Sessions = {s1, s2, s3}
  Installations <- Racks
  GoodAccount <- Good
  NoHost = NoHost
  NoSession = NoSession
  Words = {"a"}
  Forms = {"f1"}
  MaxRecent = 2
  MaxStarts = 3
SYMMETRY Symm
INVARIANT NewestListed
INVARIANT TriesListedAccount
 
 
INVARIANT StatusOfAccount
PROPERTY PasswordKept
CHECK_DEADLOCK FALSE
