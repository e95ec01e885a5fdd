SPECIFICATION Spec
CONSTANTS
    d1 = d1
    d2 = d2
    NotANumber = NotANumber
    Driver <- MCDriver
    None = None
    Missing = Missing
    Malformed = Malformed
    RaceControlCap = 1
    MaxEntries = 1
    Events <- MCEvents
INVARIANTS TopicsCommute RedeliveryHarmless
