SPECIFICATION Spec
CONSTANTS
    Start = 1
    MaxTime = 4
    MaxIds = 3
INVARIANTS NeverRepeats
CHECK_DEADLOCK FALSE
