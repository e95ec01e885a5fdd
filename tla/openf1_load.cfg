SPECIFICATION Spec
CONSTANTS
    Driver = {d1, d2}
    d1 = d1
    d2 = d2
    None = None
    Absent = Absent
    RaceControlCap = 2
    Sessions <- MCSessions
    Second = 5
    Delay = 2
    Latency = {0, 1, 5}
    MaxLoads = 3
INVARIANTS TypeOK Paced ReplayRetains LapsShown PlacesShown
CHECK_DEADLOCK FALSE
