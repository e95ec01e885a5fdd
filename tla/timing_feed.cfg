SPECIFICATION Spec
CONSTANTS
    Driver = {d1, d2, d3}
    None = None
    Missing = Missing
    Malformed = Malformed
    RaceControlCap = 2
    LapTime = {"1:31"}
    MaxTimed = 1
    MaxMessages = 3
    MaxStops = 2
INVARIANTS TypeOK PlacesAgree RingHoldsNewest StopsCountedOnce
SYMMETRY Symmetry
