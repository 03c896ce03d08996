CONSTANTS
  NULL = NULL
  Proc = {p, q}
  SECTORS = 4
  FD_TABLE_LEN = 3
  FD_LIST_LEN = 1
  Path <- MCPath
  MaxOpen = 3
SYMMETRY Symmetry
SPECIFICATION Spec
INVARIANTS
  ReferencesCounted
  
  
CHECK_DEADLOCK FALSE
