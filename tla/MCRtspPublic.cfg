\* The methods that the answer to OPTIONS announces.
SPECIFICATION Spec
CONSTANTS
    Streams = {c1, c2}
    NoStream = NoStream
    Ports = {5000}
    MaxRequests = 2
INVARIANTS PublicMethodsAnswered
CHECK_DEADLOCK FALSE
