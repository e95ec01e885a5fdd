SPECIFICATION FairSpec
CONSTANTS
    Thread = {t1, t2}
    App = app
    NoThread = none
    Frame <- MCFrame
    Callback = {"returns", "disconnects"}
    AttemptLimit = 1
    Overflows = FALSE
INVARIANTS TypeOK AtMostOneLoop FrameHandedInFull
PROPERTIES QuietAfterDisconnect OnlyStopEndsLoop StopDrains Retries
