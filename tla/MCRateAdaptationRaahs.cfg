SPECIFICATION Spec
CONSTANTS
    Algorithms = {"RAAHS"}
    Rates <- Ladder
    Throughputs = {50, 200, 1000}
    MaxChanges <- Changes
    MaxSegments <- Bound
    StartAt = 50
    Window = 500
    TargetDt = 500
PROPERTY SwitchesDown
CHECK_DEADLOCK FALSE
