SPECIFICATION Spec
CONSTANTS
    Algorithms = {"OSMP", "RAAHS", "SFTM", "FDASH", "SVAA", "AAASH"}
    Rates <- Ladder
    Throughputs = {50, 200, 1000}
    MaxChanges <- Changes
    MaxSegments <- Bound
    StartAt = 50
    Window = 500
    TargetDt = 500
INVARIANTS
    TypeOK
    SleepsOnBufferedMedia
PROPERTIES
    NeverRaisesBlindly
CHECK_DEADLOCK FALSE
