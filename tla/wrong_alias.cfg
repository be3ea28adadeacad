SPECIFICATION Spec
CONSTANTS
  Namespaces = {n1, n2}
  Labels = {x, y}
  Entries = {1, 2}
  NamespaceOf <- MCNamespaceOf
  FirstEntries = {1}
  FirstAliases <- WrongAliases
  Nil = Nil
  Loading = Loading
  MaxClicks = 3
  n1 = n1
  n2 = n2
  x = x
  y = y
PROPERTY DeletesTheAliasShown
CHECK_DEADLOCK FALSE
