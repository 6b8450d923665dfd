CONSTANTS
  ListIds = {l1, l2}
  NodeIds = {n1, n2, n3}
  NULL = NULL
  l1 = l1
  l2 = l2
  n1 = n1
  n2 = n2
  n3 = n3
SPECIFICATION Spec
INVARIANT WellLinked
PROPERTY ImplementsLists
