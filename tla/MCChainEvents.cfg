SPECIFICATION Spec
CONSTANTS
    NumEvents = 2
    Delayed = {1}
    ConfirmModes = {TRUE, FALSE}
    ForkConfirmNumber = 2
    MaxHeight = 7
    MaxRestarts = 1
    MaxReorgs = 1
CHECK_DEADLOCK FALSE
INVARIANTS
    TypeOK
    NeverLost
    InOrder
    SecretBeforeRemoval
    ConfirmedIsFinal
