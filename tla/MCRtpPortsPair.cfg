\* "Rtp socket was bound successfully. Lets try to bind the consecutive" one.
SPECIFICATION Spec
CONSTANTS
    Sessions = {s1}
    FirstPort = 2
    PortLimit = 6
    Modulus = 8
    MaxSetups = 1
INVARIANTS PairAllocated
