SPECIFICATION Spec
CONSTANTS
  Values = {1,2,3,4,5,6,7,8}
  Nil = Nil
  Cells = {1,2,3,4}
  MaxRanges = 2
  Starts = {1, 3}
  Mins = {Nil, 2}
  Maxs = {Nil, 4}
INVARIANT AgreesWithCandidates
PROPERTY ScansEnd
