SPECIFICATION FairSpec
CONSTANTS
    Environments <- onlyCalm
    MaxMessages = 2
CHECK_DEADLOCK FALSE
PROPERTY
    EverySentDelivered
