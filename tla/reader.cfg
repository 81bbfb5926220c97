SPECIFICATION SendSpec
CONSTANTS
    first = first
    second = second
    Peer = {first, second}
    Magic = Magic
    Stream <- Streams
INVARIANTS
    ReassemblyIsRight
PROPERTY Delivered
CHECK_DEADLOCK FALSE
