SPECIFICATION FairSpec
CONSTANTS
  Namespaces = {n1, n2}
  Labels = {x}
  Entries = {1, 2}
  NamespaceOf <- MCNamespaceOf
  FirstEntries = {1}
  FirstAliases <- PageAliases
  Nil = Nil
  Loading = Loading
  MaxClicks = 3
  n1 = n1
  n2 = n2
  x = x
  y = y
INVARIANTS TypeOK AtRestShowsDatabase
PROPERTY ButtonsRevive
CHECK_DEADLOCK FALSE
