CONSTANTS
  NULL = NULL
  Reader = {r1, r2}
  Writer = {w1}
  INTQ_BUFSIZE = 3
  Byte = {0, 1}
SPECIFICATION FairSpec
INVARIANTS TypeOK SleepsForCause IerTracksQueues
PROPERTIES PrintEnds InputIsFifo OutputIsFifo
