SPECIFICATION Spec
CONSTANTS
  n1 = n1
  n2 = n2
  v1 = v1
  Names = {n1, n2}
  Values = {v1}
  None = None
  Gone = Gone
SYMMETRY Symmetric
INVARIANTS
  TypeOK
  ImportLosesAtMostOne
  OldStoreKept
