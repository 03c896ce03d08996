------------------------------- MODULE MCAlarm -------------------------------
EXTENDS Alarm
\* A .cfg cannot write a negative number.
MCDuration == {-1, 0, 1, 2}
=============================================================================
