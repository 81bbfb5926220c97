SPECIFICATION Spec
CONSTANTS
    Fd = {f1, f2}
    NoFd = NoFd
    MaxId = 3
    MaxSent = 2
    MaxReady = 1
    MaxSig = 3
    Listens = TRUE
    Dials = FALSE
    WriteFails = FALSE
SYMMETRY Descriptors
INVARIANTS
    TypeOK
    SignalsCovered
    ContextsFollow
    
