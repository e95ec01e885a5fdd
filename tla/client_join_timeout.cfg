SPECIFICATION Spec
CONSTANTS
    Thread = {t1, t2}
    App = app
    NoThread = none
    Frame <- MCShortFrame
    Callback = {"returns"}
    AttemptLimit = 1
    Overflows = FALSE
INVARIANTS DisconnectWaits
