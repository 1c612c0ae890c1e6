SPECIFICATION FairSpec
CONSTANTS
    Environments <- troubles
    MaxMessages = 2
CHECK_DEADLOCK FALSE
INVARIANTS
    TypeOK
    KeptUnlessLapsed
PROPERTIES
    Delivery
    BegunIsAcknowledged
