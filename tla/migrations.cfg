SPECIFICATION FairSpec
CONSTANTS
  Instances = {m1, m2}
  Namespaces = {n1, n2}
  Entries = {e1, e2}
  Aliases = {a, b}
  Allocs = {"A1", "A2"}
  IPs = {ip}
  Ranges <- MCRanges
  Projects = {P, Q}
  Seeds = {}
  Nil = Nil
  Databases <- AnyDatabase
  ClientAliases = {a}
  MaxCrashes = 2
  m1 = m1
  m2 = m2
  n1 = n1
  n2 = n2
  e1 = e1
  e2 = e2
  a = a
  b = b
  P = P
  Q = Q
  ip = ip
INVARIANTS TypeOK NeverUnindexed ServedIsComplete AliasesAsTold
PROPERTIES DropsOnlyMigrated ServesInTheEnd
CHECK_DEADLOCK FALSE
