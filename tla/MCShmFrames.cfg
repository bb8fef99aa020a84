\* One camera of three frames, two generators, two deaths of the node.
SPECIFICATION FairSpec
CONSTANTS
    Cameras = {c1}
    Readers = {r1, r2}
    SIZE = 2
    Formats <- FormatsOfCamera
    MaxFrames = 3
    MaxRestarts = 2
INVARIANTS TypeOK SemaphoreAccounted
PROPERTIES FramesWhole WaitsEnd
CHECK_DEADLOCK FALSE
