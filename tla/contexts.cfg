SPECIFICATION MCSpec
CONSTANTS
    local = local
    remote = remote
    NoCtx = NoCtx
    Ctx = {local, remote}
    LocalCtx = local
    Openers <- Shared
    Pipelines = {}
    PeerId = {1}
    MaxLines = 2
    MaxId = 5
    MaxInt = 1
    Code <- Waiting
    Timer = {"a", "b"}
    LoopMaxs = {0, 2}
CHECK_DEADLOCK FALSE
INVARIANTS
    TypeOK
    AnsweredOnce
    OwnAnswer
    KeyboardGuarded
    TimersAreSound
PROPERTIES
    
    
    TimerRunsOut
