\* Two requests and an image of two packets; no packet fits in the buffer.
SPECIFICATION FairSpec
CONSTANTS
    Capacity = 2
    AnswerSize = 2
    FrameSize = 3
    ImagePackets = 2
    Ports = {p1, p2}
    MaxRequests = 2
    MaxImages = 1
INVARIANTS TypeOK MessagesComplete TornOnlyWhenFull PlayAnsweredFirst SwitchIsPrompt
PROPERTY SendsEnd
CHECK_DEADLOCK FALSE
