SPECIFICATION Spec
CONSTANTS
    Driver = {d1, d2, d3}
    None = None
    Missing = Missing
    Malformed = Malformed
    RaceControlCap = 2
    LapTime = {"1:31"}
    MaxTimed = 1
    MaxMessages = 0
    MaxStops = 0
INVARIANTS LastLapsKept
