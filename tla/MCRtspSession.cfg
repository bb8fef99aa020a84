\* Three requests of any kind, two streams, two UDP ports.
SPECIFICATION Spec
CONSTANTS
    Streams = {c1, c2}
    NoStream = NoStream
    Ports = {5000, 65535}
    MaxRequests = 3
INVARIANTS TypeOK RepliesInOrder TransportAgreed StreamWasDescribed AnsweredInStep
CHECK_DEADLOCK FALSE
