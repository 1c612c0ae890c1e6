SPECIFICATION FairSpec
CONSTANTS
    Routes <- LongRoutes
    PayerExpiration = 9
    PayerSettleTimeout = 9
    RevealTimeout = 2
    ForkConfirmNumber = 1
    MayClose = {0, 2, 3}
    MaxHeight = 12
CHECK_DEADLOCK FALSE
INVARIANTS
    TypeOK
    PaidPayeeIsCovered
    OnePayee
    DisposedMeansNoPayee
PROPERTY
    ManagerRemoved
