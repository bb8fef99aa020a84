\* The sizes of the code; lengths of segments: 0 to 3, that of a SOF, and one
\* whose low byte is 0.
SPECIFICATION WriterSpec
CONSTANTS
    DataLengths <- Lengths
    SegLengths = {0, 1, 2, 3, 8, 256}
    IMAGE_WIDTH = 1936
    IMAGE_HEIGHT = 1464
    Writers <- OfCameraView
    MaxImages = 3
INVARIANTS
    WriterTypeOK FindsHeader ReadsBounded HeaderFits RowsInSource AnnouncedRight
PROPERTY WalkAdvances
CHECK_DEADLOCK FALSE
