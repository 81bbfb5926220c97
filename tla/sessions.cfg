SPECIFICATION Spec
CONSTANTS
    Fd = {f1, f2}
    NoFd = NoFd
    MaxId = 3
    MaxSent = 1
    MaxReady = 1
    MaxSig = 2
    Listens = TRUE
    Dials = FALSE
    WriteFails = TRUE
SYMMETRY Descriptors
PROPERTY ImplementsSession
