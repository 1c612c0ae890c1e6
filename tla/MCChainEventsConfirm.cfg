SPECIFICATION Spec
CONSTANTS
    NumEvents = 1
    Delayed = {1}
    ConfirmModes = {TRUE}
    ForkConfirmNumber = 2
    MaxHeight = 8
    MaxRestarts = 1
    MaxReorgs = 0
CHECK_DEADLOCK FALSE
INVARIANT EventsDoNotGetLost
