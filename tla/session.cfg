SPECIFICATION FairSpec
CONSTANTS
    Protos = {"socks", "connect", "eager", "plain"}
    HeaderLens = {2, 3, 4}
    BufLen = 3
    UpLen = 2
    DownLen = 1
    Capacity = 2
    MaxFaults = 1
    Faults = {"badRequest", "refused", "corrupt", "reset", "leave", "kill"}
INVARIANTS
    TypeOK
    UploadFaithful
    DownloadFaithful
PROPERTIES
    SessionEnds
    RequestArrives
    ResponseArrives
CHECK_DEADLOCK FALSE
