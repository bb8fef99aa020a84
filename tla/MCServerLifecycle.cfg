\* Two connections, two cameras, two signals, two tries at start.
SPECIFICATION FairSpec
CONSTANTS
    Sessions = {s1, s2}
    N_COUNT = 2
    MaxTries = 2
    MaxSignals = 2
INVARIANTS TypeOK ServesInitialised 
PROPERTIES ShutdownCompletes
CHECK_DEADLOCK FALSE
