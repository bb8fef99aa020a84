\* One connection, both streams, two packets an image.
SPECIFICATION FairSpec
CONSTANTS
    Sessions = {s1}
    Streams = {c1, c2}
    NoStream = NoStream
    Fragments = 2
INVARIANTS TypeOK NoDanglingAccess NothingLeftBehind
PROPERTIES LeaseSpec SessionEnds NoImageAfterTeardown
CHECK_DEADLOCK FALSE
