SPECIFICATION FairSpec
CONSTANTS
  Clients = {p1, p2}
  Releases = {legacy, old, new, candidate}
  Binaries = {old, new}
  FirstReleases = {old}
  Files <- MCFiles
  Commands <- MCCommands
  Number <- MCNumber
  MinSupported <- MCMinSupported
  Legacy = legacy
  Packages <- MCPackages
  NoPackage = NoPackage
  FirstSkills = {legacy, old}
  Addresses = {"c1", "c2", "x1", "x2"}
  TrustedProxies = {"x1", "x2"}
  Route <- MCRoute
  MaxStarts = 2
  MaxCommands = 2
  MaxChanges = 2
  p1 = p1
  p2 = p2
  legacy = legacy
  old = old
  new = new
  candidate = candidate
INVARIANTS TypeOK ReportsMatchWrites RecordsTheClient
PROPERTIES ShutdownAnswersAll EndsWhenTold WritesRespectMinimum UpdatesAreWhole OldScriptsDoNotWrite
CHECK_DEADLOCK FALSE
