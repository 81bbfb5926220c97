SPECIFICATION FairSpec
CONSTANTS
    Fd = {f1, f2}
    NoFd = NoFd
    MaxId = 2
    MaxSent = 1
    MaxReady = 1
    MaxSig = 3
    Listens = TRUE
    Dials = FALSE
    WriteFails = FALSE
PROPERTIES
    ContextPurged
    QuietCloseSeen
