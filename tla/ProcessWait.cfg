CONSTANTS
  NULL = NULL
  init = init
  Proc = {init, a, b}
  CHILD_MAX = 2
  ExitStatus = {7}
SPECIFICATION Spec
PROPERTY WaitMeansDead
CHECK_DEADLOCK FALSE
