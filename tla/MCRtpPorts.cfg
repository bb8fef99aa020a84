\* Two connections, three pairs of ports.
SPECIFICATION FairSpec
CONSTANTS
    Sessions = {s1, s2}
    FirstPort = 2
    PortLimit = 8
    Modulus = 10
    MaxSetups = 2
INVARIANTS TypeOK AdvertisedPortHeld LeakBounded
PROPERTY SearchEnds
