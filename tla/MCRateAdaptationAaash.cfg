SPECIFICATION Spec
CONSTANTS
    Algorithms = {"AAASH"}
    Rates <- Ladder
    Throughputs = {50, 200, 1000}
    MaxChanges <- Changes
    MaxSegments <- Bound
    StartAt = 50
    Window = 500
    TargetDt = 500
INVARIANT AaashAsksInTime
CHECK_DEADLOCK FALSE
