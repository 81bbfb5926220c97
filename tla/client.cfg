SPECIFICATION FairSpec
CONSTANTS
    Fd = {f1, f2}
    NoFd = NoFd
    MaxId = 2
    MaxSent = 1
    MaxReady = 1
    MaxSig = 2
    Listens = FALSE
    Dials = TRUE
    WriteFails = FALSE
INVARIANT RspHasLink
PROPERTY RspPurged
