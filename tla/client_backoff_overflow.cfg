SPECIFICATION Spec
CONSTANTS
    Thread = {t1}
    App = app
    NoThread = none
    Frame <- MCShortFrame
    Callback = {"returns"}
    AttemptLimit = 3
    Overflows = TRUE
PROPERTIES OnlyStopEndsLoop
