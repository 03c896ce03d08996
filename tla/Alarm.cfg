CONSTANTS
  Thread = {t1, t2, t3}
  Duration <- MCDuration
  MaxTicks = 3
SPECIFICATION FairSpec
INVARIANTS WaitListSorted
PROPERTIES NeverEarly SleeperWakes
CHECK_DEADLOCK FALSE
