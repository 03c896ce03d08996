CONSTANTS
  NULL = NULL
  init = init
  Proc = {init, a, b}
  CHILD_MAX = 2
  ExitStatus = {7}
SPECIFICATION FairSpec
INVARIANTS TypeOK MarkerPresent
PROPERTIES DeniedUntilWaited  
CHECK_DEADLOCK FALSE
