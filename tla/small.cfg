SPECIFICATION Spec
CONSTANTS
  Values = {1,2,3,4}
  Nil = Nil
  Handlers = {h1, h2}
  Namespaces = {n1}
  Ranges <- SmallRanges
  Projects = {P}
  Key <- MCKey
  Symbols = {s}
  Allocs = {a1, a2, a3}
  MaxCount = 2
  Workload <- SmallWorkload
  NewRows = {}
  Bounds = {}
  Free = Free
  NoRequest = NoRequest
  StoredNamespaces <- SmallNamespaces
  StoredEntries <- Empty
  StoredProjects = {}
  h1 = h1
  h2 = h2
  h3 = h3
  n1 = n1
  n2 = n2
  n3 = n3
  a1 = a1
  a2 = a2
  a3 = a3
  a4 = a4
  P = P
  p = p
  Q = Q
  s = s
SYMMETRY Symmetry
INVARIANTS
  Inv
  LiveUnique
  NoValueConflict
  AnswerMatchesTable
  RereadIsRevoked
  NothingStranded
PROPERTIES
  HistoryIsKept
  OnlyNamedRevoked
  ExhaustedOnlyWhenFull
  KeepsPromise
