\* Packets of three bytes after headers of two; images of up to four packets.
SPECIFICATION Spec
CONSTANTS
    MaxPayload = 3
    HeaderSize = 2
    FrameHeader = 1
    SeqModulus = 8
    TimeModulus = 8
    TimeStep = 3
    OffsetModulus = 16
    LengthModulus = 8
    Starts = {2, 3}
    Lengths = {0, 1, 2, 3, 4, 6, 7, 10}
INVARIANTS TypeOK PayloadIntact FragmentsTile NumbersIdentify
