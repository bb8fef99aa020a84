\* assert (_streamID == 0 || _streamID == 1) in StreamSource::SetStreamID.
SPECIFICATION Spec
CONSTANTS
    Streams = {c1, c2}
    NoStream = NoStream
    Ports = {5000}
    MaxRequests = 2
INVARIANTS StreamIDAsserted
CHECK_DEADLOCK FALSE
