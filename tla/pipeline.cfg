SPECIFICATION PipelineSpec
CONSTANTS
    MaxAppends = 3
    d1 = d1
    d2 = d2
    Driver <- MCDriver
    None = None
    Missing = Missing
    Malformed = Malformed
    RaceControlCap = 1
    Messages <- MCMessages
INVARIANTS PipelineTypeOK ReplayShowsPast ReplayAgrees
PROPERTIES ResumesPast
