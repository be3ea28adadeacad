SPECIFICATION Spec
CONSTANTS
  Handlers = {h1, h2}
  Rows = {1, 2, 3}
  Names = {A, B, C, D}
  Workload <- Racing
  StoredRows <- Stored
  MaxAliasId = 1
  Nil = Nil
  Free = Free
  NoRequest = NoRequest
  h1 = h1
  h2 = h2
  A = A
  B = B
  C = C
  D = D
INVARIANT LabelsUnique
