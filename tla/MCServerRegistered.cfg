\* The order that the commented assertion of ServiceContainer::get expects.
SPECIFICATION Spec
CONSTANTS
    Sessions = {s1}
    N_COUNT = 1
    MaxTries = 1
    MaxSignals = 0
INVARIANTS ShmManagerRegistered
CHECK_DEADLOCK FALSE
