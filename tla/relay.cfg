SPECIFICATION FairSpec
CONSTANTS
    HeaderLen = 2
    TagLen = 1
    MaxU16 = 3
    ReadLen = 5
    WireCap = 7
    MaxBytes = 5
    Faults = {"sourceReset", "senderDies", "wireReset", "sinkGone"}
INVARIANTS
    TypeOK
    NoSpuriousFailure
PROPERTIES
    ImplementsByteStream
    BytesArrive
    CloseArrives
CHECK_DEADLOCK FALSE
