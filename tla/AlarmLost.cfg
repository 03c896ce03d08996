CONSTANTS
  Thread = {t1, t2}
  Duration <- MCDuration
  MaxTicks = 4
SPECIFICATION FairSpec

PROPERTIES SleepEnds
CHECK_DEADLOCK FALSE
