SPECIFICATION FairSpec
CONSTANT Programs <- MCPrograms
INVARIANTS ResultClosed NoFalseAlarm AllDecided
PROPERTIES NeverReverts Terminates
\* The analysis ends.
CHECK_DEADLOCK FALSE
