SPECIFICATION FairSystemSpec
CONSTANTS
    Thread = {t1, t2}
    App = app
    NoThread = none
    Frame <- MCOneMessage
    Callback = {"returns"}
    AttemptLimit = 0
    Overflows = FALSE
    MaxEvents = 3
INVARIANTS SystemTypeOK StateFollowsStore AppliedInOrder SettledIsDurable
PROPERTIES StoreIsLog StoredIsShown
