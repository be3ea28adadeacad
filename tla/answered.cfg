SPECIFICATION FairSpec
CONSTANTS
  Values = {1,2}
  Nil = Nil
  Handlers = {h1, h2, h3}
  Namespaces = {n1, n2, n3}
  Ranges <- AnsweredRanges
  Projects = {P, p}
  Key <- MCKey
  Symbols = {}
  Allocs = {a1, a2, a3}
  MaxCount = 1
  Workload <- AnsweredWorkload
  NewRows <- AnsweredNewRows
  Bounds = {}
  Free = Free
  NoRequest = NoRequest
  StoredNamespaces <- AnsweredNamespaces
  StoredEntries <- Empty
  StoredProjects = {}
  h1 = h1
  h2 = h2
  h3 = h3
  n1 = n1
  n2 = n2
  n3 = n3
  a1 = a1
  a2 = a2
  a3 = a3
  a4 = a4
  P = P
  p = p
  Q = Q
  s = s
INVARIANTS ProjectsMatchEntries OneSpelling
PROPERTY AllAnswered
