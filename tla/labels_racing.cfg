SPECIFICATION FairSpec
CONSTANTS
  Handlers = {h1, h2}
  Rows = {1, 2, 3, 4}
  Names = {A, B, C, D}
  Workload <- Racing
  StoredRows <- StoredTwo
  MaxAliasId = 2
  Nil = Nil
  Free = Free
  NoRequest = NoRequest
  h1 = h1
  h2 = h2
  A = A
  B = B
  C = C
  D = D
INVARIANTS Inv AliasesDistinct UniqueUnlessOverlapped
PROPERTIES OnlyNamedDeleted ResolvesToOwner AllAnswered
